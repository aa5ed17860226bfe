SPECIFICATION MCSpec
CONSTANTS
  Size = 16
  Insns <- FlowInsns
  Data = {5}
  Psrs <- Unmasked
  Aborts = {TRUE, FALSE}
  Pins = {"fiq", "reset"}
  MaxSeq = 5
INVARIANTS TypeOK PipelineCoherent
PROPERTIES SequentialCycles ReturnAddress BankIsolation UserSealed
