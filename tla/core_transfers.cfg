SPECIFICATION MCSheetSpec
CONSTANTS
  Size = 16
  Insns <- SheetInsns
  Data = {5, 14}
  Psrs <- Unmasked
  Aborts = {TRUE, FALSE}
  Pins = {"fiq"}
  MaxSeq = 4
INVARIANTS InTables
PROPERTIES AbortedBase AbortReturn
