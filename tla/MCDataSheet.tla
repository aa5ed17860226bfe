----------------------------- MODULE MCDataSheet -----------------------------
(***************************************************************************)
(* DataSheet for TLC, with the instructions and bounds of MCArm7DI.         *)
(***************************************************************************)
EXTENDS MCArm7DI, DataSheet

MCSheetNext ==
  \/ SheetBegin /\ begun < MaxSeq /\ begun' = begun + 1
  \/ SheetGoOn /\ UNCHANGED begun
  \/ AtBoundary /\ Untraced /\ UNCHANGED begun

SheetStart == SheetInit /\ begun = 0

MCSheetSpec == SheetStart /\ [][MCSheetNext]_<<vars, begun, trace>>

SheetInsns == TransferInsns \cup {Bl, Und, SwiInsn, MrsPc, MrsR14, Teqp}

=============================================================================
