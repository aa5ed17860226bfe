------------------------------ MODULE MCArm7DI ------------------------------
(***************************************************************************)
(* Arm7DI for TLC: sets of instructions to draw from, and runs that end     *)
(* after MaxSeq instructions, exception entries and reset cycles.           *)
(***************************************************************************)
EXTENDS Arm7DIProperties, Sequences

CONSTANT MaxSeq

VARIABLE begun    \* boundaries passed

MCInit == Init /\ begun = 0

(* The inputs are read at boundaries only, so that moving one inside a       *)
(* sequence is as good as moving it at the boundary that ends it.            *)
MCNext ==
  \/ Begin /\ begun < MaxSeq /\ begun' = begun + 1
  \/ GoOn /\ UNCHANGED begun
  \/ AtBoundary /\ (SetReset \/ SetFiq \/ SetIrq) /\ UNCHANGED begun

MCSpec == MCInit /\ [][MCNext]_<<vars, begun>>

(* The caller owns time: it calls bus_cycle() again and again. *)
MCFairSpec == MCSpec /\ WF_<<vars, begun>>(MCNext /\ BusCycle)

(* begin(): an interrupt that stays requested and unmasked is entered, at    *)
(* the latest after the entry of a data abort that was pending too: aborts,  *)
(* refills and long transfers neither keep the boundary away nor hide the    *)
(* request from it.                                                          *)
FiqTaken == (fiq_in /\ ~cpsr.f /\ begun <= MaxSeq - 2) ~> (cpsr.f \/ ~fiq_in)
IrqTaken == (irq_in /\ ~cpsr.i /\ begun <= MaxSeq - 2) ~> (cpsr.i \/ ~irq_in)

-----------------------------------------------------------------------------
I(cls, rd, rn, n, bits, list) ==
  [cls |-> cls, rd |-> rd, rn |-> rn, n |-> n, bits |-> bits, list |-> list]

Movs(n)    == I("DP", "pc", "r14", n, {"S"}, {})      \* SUBS PC, R14, #-n
AddPc      == I("DP", "r0", "pc", 0, {"R"}, {})        \* ADD R0, PC, .. LSL R
Teqp       == I("DP", "pc", "r0", 0, {"S", "T"}, {})
MovPcShift == I("DP", "pc", "r0", 0, {"R"}, {})
MsrC       == I("PSR", "r0", "r0", 0, {"M", "C"}, {})
MsrSpsr    == I("PSR", "r0", "r0", 0, {"M", "C", "B"}, {})
MrsR14     == I("PSR", "r14", "r0", 0, {"B"}, {})
MrsPc      == I("PSR", "pc", "r0", 0, {}, {})
Mul(rd, n) == I("MUL", rd, "r8", n, {"A"}, {})
Swp        == I("SWP", "r0", "r8", 0, {}, {})
Ldr(rd, bits) == I("SDT", rd, "r8", 1, {"L"} \cup bits, {})
Str(bits)  == I("SDT", "pc", "r14", 1, bits, {})
Ldm(bits, list) == I("BDT", "r0", "r8", 0, {"L"} \cup bits, list)
Stm(bits, list) == I("BDT", "r0", "r14", 0, bits, list)
Bl         == I("BRANCH", "r0", "r0", 3, {"L"}, {})
Und        == I("UNDEF", "r0", "r0", 0, {}, {})
SwiInsn    == I("SWI", "r0", "r0", 0, {}, {})

(* Control flow: every way into and out of a handler *)
FlowInsns == {MsrC, MsrSpsr, Movs(-1), Bl, Und, SwiInsn, Ldr("r0", {"P"})}

(* Transfers of every shape, with the base in the list and as destination *)
TransferInsns ==
  {AddPc, MovPcShift, Swp, Ldr("r8", {"U"}), Ldr("pc", {"P", "W"}), Str({"W"}),
   Ldm({"U", "W"}, {"r0", "r8", "r14"}), Ldm({"P"}, {"r8", "pc"}),
   Ldm({"U", "P", "S"}, {"r8", "r14"}), Stm({"W"}, {"r8", "r14", "pc"}),
   Stm({"U", "S"}, {}), Mul("pc", 1)}

(* Long sequences, some of which can abort *)
LoopInsns == {MsrC, Ldm({"U"}, {"r0", "r8"}), Mul("r0", 3), Swp}

Unmasked == {[mode |-> "USR", i |-> FALSE, f |-> FALSE]}

UnmaskedSvc == {[mode |-> "SVC", i |-> FALSE, f |-> f] : f \in BOOLEAN}

=============================================================================
