SPECIFICATION MCFairSpec
CONSTANTS
  Size = 8
  Insns <- LoopInsns
  Data = {5}
  Psrs <- UnmaskedSvc
  Aborts = {TRUE, FALSE}
  Pins = {"fiq", "irq"}
  MaxSeq = 5
PROPERTIES FiqTaken IrqTaken
