SPECIFICATION KSpec
CONSTANTS
  Planes = {"SCILV0", "SCILV1"}
  MaxDue = 2
  Hooked = FALSE
  Iterations = 3
INVARIANTS
  IrqTypeOK
  NoneWaiting
  ServiceOwned
  SledArmed
PROPERTIES
  Handshake
  JobEnds
