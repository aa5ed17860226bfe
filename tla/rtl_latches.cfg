SPECIFICATION MCSpec
CONSTANTS
  Size = 16
  Insns <- LatchInsns
  Data = {5}
  Psrs <- Unmasked
  Aborts = {TRUE, FALSE}
  Inputs = {"fiq"}
  MaxSeq = 4
PROPERTIES CycleExact
