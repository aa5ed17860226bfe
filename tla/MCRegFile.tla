------------------------------ MODULE MCRegFile ------------------------------
(***************************************************************************)
(* Wren7OnFile in lockstep with the model, for TLC.                         *)
(***************************************************************************)
EXTENDS MCWren7Core, Wren7OnFile

MCFileInit == MCInit /\ AtRest

MCFileNext ==
  \/ MCEdge /\ FileClock(Driven, FALSE)
  \/ MCTell /\ UNCHANGED files
  \/ Disabled /\ UNCHANGED <<hist, begun>>

MCFileSpec == MCFileInit /\ [][MCFileNext]_<<rvars, hist, begun, files>>

=============================================================================
