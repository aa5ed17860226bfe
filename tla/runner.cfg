SPECIFICATION Spec
CONSTANTS
  Limit <- MCLimit
  MaxCount = 1
  MaxReps = 2
  RunnerWidth <- MCRunnerWidth
  HwWidth <- MCHwWidth
  NameRoom = 2
  Number <- MCNumber
  Names <- MCNames
  Texts <- MCTexts
  Lines <- MCLines
  Files <- MCFiles
  Entries = {0, 2}
  Timeout = 1
  MaxLines = 5
  MaxEdges = 2
INVARIANTS
  RunnerTypeOK
  VerdictTrue
  StatusTrue
  SameJob
PROPERTIES
  TimeoutTrue
  SamplesExact
  RunnerEnds
CHECK_DEADLOCK FALSE
