SPECIFICATION PlaySpec
CONSTANTS
  Steps = 128
  DspPhase = 10
  SgcStep0 = 114
  Early = 7
  Octs = {0, 1, 2, 12, 13, 14, 15}
  Fnss = {0, 1, 512, 1023}
  Starts = {0, 1}
  Samples = 64
INVARIANTS
  Supplied
  SharesExact
  InOrder
