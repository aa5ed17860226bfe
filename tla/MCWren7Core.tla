----------------------------- MODULE MCWren7Core -----------------------------
(***************************************************************************)
(* Lockstep for TLC: the instruction sets of MCArm7DI's kind, and runs that  *)
(* end after MaxSeq boundary cycles.                                        *)
(***************************************************************************)
EXTENDS Lockstep

CONSTANT MaxSeq

VARIABLE begun    \* boundary cycles ended

MCInit == LockInit /\ begun = 0

MCEdge ==
  /\ Edge
  /\ begun' = IF st = "BOUND" /\ fc' THEN begun + 1 ELSE begun
  /\ begun' <= MaxSeq

MCTell == UNCHANGED begun /\ \E i \in DOMAIN told : Tell(i)

MCNext == MCEdge \/ MCTell

MCSpec == MCInit /\ [][MCNext]_<<rvars, hist, begun>>

-----------------------------------------------------------------------------
I(cls, rd, rn, n, bits, list) ==
  [cls |-> cls, rd |-> rd, rn |-> rn, n |-> n, bits |-> bits, list |-> list]

MsrC == I("PSR", "r0", "r0", 0, {"M", "C"}, {})

(* Everything with latches of its own, and a way to each mode *)
LatchInsns ==
  {I("SWP", "r0", "r8", 0, {}, {}), I("DP", "r0", "pc", 0, {"R"}, {}),
   I("SDT", "r8", "r8", 1, {"L", "U"}, {}),
   I("SDT", "pc", "r14", 1, {"L", "P", "W"}, {}),
   I("SDT", "pc", "r14", 1, {"W"}, {}),
   I("MUL", "r0", "r8", 2, {"A"}, {}), MsrC}

BlockInsns ==
  {I("BDT", "r0", "r8", 0, {"L", "U", "W"}, {"r0", "r8", "r14"}),
   I("BDT", "r0", "r8", 0, {"L", "P"}, {"r8", "pc"}),
   I("BDT", "r0", "r8", 0, {"L", "S", "U", "P"}, {"r8", "r14"}),
   I("BDT", "r0", "r14", 0, {"L", "S"}, {"r14", "pc"}),
   I("BDT", "r0", "r14", 0, {"W"}, {"r8", "r14", "pc"}), MsrC}

FlowInsns ==
  {MsrC, I("DP", "pc", "r14", -1, {"S"}, {}),
   I("BRANCH", "r0", "r0", 3, {"L"}, {}), I("UNDEF", "r0", "r0", 0, {}, {}),
   I("SWI", "r0", "r0", 0, {}, {}), I("PSR", "r14", "r0", 0, {"B"}, {}),
   I("PSR", "r0", "r0", 0, {"M", "C", "B"}, {}),
   I("DP", "pc", "r0", 0, {"S", "T"}, {}), I("PSR", "pc", "r0", 0, {}, {}),
   I("SDT", "r0", "r8", 1, {"L", "P"}, {})}

Unmasked == {[mode |-> "USR", i |-> FALSE, f |-> FALSE],
             [mode |-> "FIQ", i |-> FALSE, f |-> TRUE]}

=============================================================================
