SPECIFICATION MCFileSpec
CONSTANTS
  Size = 16
  Insns <- BlockInsns
  Data = {5}
  Psrs <- Unmasked
  Aborts = {TRUE, FALSE}
  Inputs = {"fiq"}
  MaxSeq = 4
INVARIANTS PortFree ReadsCurrent
PROPERTIES CycleExact
