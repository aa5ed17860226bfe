----------------------------- MODULE Wren7OnFile -----------------------------
(***************************************************************************)
(* The RTL core on its register file: RegFile under the writes that the     *)
(* core's clocks make, with clocks of ce = 0 between any two of them.       *)
(***************************************************************************)
EXTENDS Wren7Core

VARIABLES mem, late, lw

INSTANCE RegFile WITH Regs <- PhysReg, Values <- Word, file <- rf

files == <<mem, late, lw>>

(* The register a clock of the core writes; to write the value it has        *)
(* already is no write here.                                                 *)
NoWrite == [v |-> FALSE, a |-> <<"r0", "USR">>, d |-> 0]
Driven ==
  IF rf' = rf THEN NoWrite
  ELSE LET a == CHOOSE r \in PhysReg : rf'[r] # rf[r]
       IN  [v |-> TRUE, a |-> a, d |-> rf'[a]]

(* w_en has cdone in it: a clock of ce = 0 writes nothing, and only the      *)
(* first one after a write changes the file.                                 *)
Enabled == RtlNext /\ FileClock(Driven, FALSE)
Disabled ==
  /\ late.v
  /\ FileClock(NoWrite, FALSE)
  /\ UNCHANGED rvars

AtRest == mem = rf /\ late = NoWrite /\ lw = NoWrite

OnFileSpec ==
  RtlInit /\ AtRest /\ [][Enabled \/ Disabled]_<<rvars, files>>

=============================================================================
