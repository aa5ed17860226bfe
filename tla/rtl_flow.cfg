SPECIFICATION MCSpec
CONSTANTS
  Size = 16
  Insns <- FlowInsns
  Data = {5}
  Psrs <- Unmasked
  Aborts = {TRUE, FALSE}
  Inputs = {"hold", "irq"}
  MaxSeq = 3
INVARIANTS RtlTypeOK
PROPERTIES CycleExact
