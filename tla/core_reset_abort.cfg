SPECIFICATION MCSpec
CONSTANTS
  Size = 16
  Insns <- FlowInsns
  Data = {5}
  Psrs <- Unmasked
  Aborts = {TRUE, FALSE}
  Pins = {"reset"}
  MaxSeq = 5
PROPERTIES AbortReturn
