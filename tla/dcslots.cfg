SPECIFICATION Spec
CONSTANTS
  Steps = 128
  DspPhase = 10
  SgcStep0 = 114
  Early = 7
  FixedSteps <- MCFixed
  Programs <- MCPrograms
  Voices <- MCVoices
  Guard = 256
  Ahead = 16
  KeepBack = 256
  Streams <- MCStreams
  Firsts = {0, 1}
  Begin = 1010
  MaxTime = 14
  MaxWrites = 2
  Patience = 23
  MaxIdle = 1
INVARIANTS
  SlotsOK
  MeasuredFits
PROPERTIES
  ArmSlotFree
  GivenFree
  ArmInTime
