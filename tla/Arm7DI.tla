------------------------------- MODULE Arm7DI -------------------------------
(***************************************************************************)
(* The ARM7DI core model (model/src/arm7di.cpp): a cycle sequencer that     *)
(* drives one bus cycle per call of bus_cycle().  A boundary picks reset,   *)
(* an exception entry or the next instruction and runs the first cycle of   *)
(* its sequence; the other cycles of the sequence are steps of their own,   *)
(* between which the caller may move nRESET, nFIQ and nIRQ.                 *)
(*                                                                         *)
(* Addresses are word addresses.  The word a fetch returns is stood for by  *)
(* the address it came from, and which instruction it is is chosen when it  *)
(* is decoded; data read and the results of the datapath are chosen when    *)
(* they are written.  The condition flags are not kept: an instruction may  *)
(* always fail its condition.                                              *)
(***************************************************************************)
EXTENDS Arm7Arch

CONSTANT Pins   \* the inputs the environment drives

(* Vector, mode and F of each exception entry (3.4, Table 22) *)
Entry ==
  [reset |-> [vector |-> 0, mode |-> "SVC", f |-> TRUE],
   swi   |-> [vector |-> 2, mode |-> "SVC", f |-> FALSE],
   pabt  |-> [vector |-> 3, mode |-> "ABT", f |-> FALSE],
   dabt  |-> [vector |-> 4, mode |-> "ABT", f |-> FALSE],
   irq   |-> [vector |-> 6, mode |-> "IRQ", f |-> FALSE],
   fiq   |-> [vector |-> 7, mode |-> "FIQ", f |-> TRUE]]

(* Boundary priorities: the held reset, then those of 3.4.7 *)
RankPabtFirst ==   \* mutant
  [hold |-> 0, reset |-> 1, pabt |-> 2, dabt |-> 3, fiq |-> 4, irq |-> 5]
Rank == [hold |-> 0, reset |-> 1, dabt |-> 2, fiq |-> 3, irq |-> 4, pabt |-> 5]

VARIABLES
  seq, k,           \* sequence in progress and its cycle index
  x,                \* in-flight latches of that sequence
  gpr, cpsr, spsr,  \* register file
  pc,               \* address incrementer: executing address + 8
  ex, de, f1,       \* execute stage, decode stage, word fetched in cycle 1
  next_type,        \* nMREQ/SEQ output: type of the next bus cycle
  dabort_pending, in_reset, reset_exit,
  fiq_in, irq_in,   \* the interrupt inputs
  bus               \* the last bus cycle driven

vars == <<seq, k, x, gpr, cpsr, spsr, pc, ex, de, f1, next_type,
          dabort_pending, in_reset, reset_exit, fiq_in, irq_in, bus>>

inputs   == <<in_reset, fiq_in, irq_in>>
regs     == <<gpr, cpsr, spsr>>
stages   == <<ex, de>>
requests == <<dabort_pending, reset_exit>>

Sequence == {"IDLE", "DP", "MUL", "SWP", "SDT", "BDT", "UNDEF", "REFILL"}

(* x.op, x.addr, x.base, x.wbv, x.ab, x.target, x.fa: the latches of the     *)
(* code (wbv also calc); x.rest: the registers of the list not transferred   *)
(* yet, empty where x_.r = 16; x.at: where the last executed instruction was *)
(* fetched, for the properties.  Every sequence writes the other latches     *)
(* before it reads them, so they are cleared where the code leaves them      *)
(* stale.                                                                    *)
InFlight ==
  [op : Insn, at : Word, addr : Word, base : Word, wbv : Word, ab : BOOLEAN,
   rest : SUBSET Reg, target : Word, fa : Slot]

TypeOK ==
  /\ seq \in Sequence /\ k \in Nat
  /\ x \in InFlight
  /\ gpr \in [PhysReg -> Word] /\ cpsr \in Psr /\ spsr \in [Bank -> Psr]
  /\ pc \in Word
  /\ ex \in Slot /\ de \in Slot /\ f1 \in Slot
  /\ next_type \in CycleType
  /\ dabort_pending \in BOOLEAN /\ in_reset \in BOOLEAN
  /\ reset_exit \in BOOLEAN /\ fiq_in \in BOOLEAN /\ irq_in \in BOOLEAN
  /\ bus \in [addr : Word, type : CycleType, flags : SUBSET BusFlag]

Clear == [op |-> NoInsn, at |-> 0, addr |-> 0, base |-> 0, wbv |-> 0,
          ab |-> FALSE, rest |-> {}, target |-> 0, fa |-> ZeroSlot]

(* power_on(): it goes on to run the reset entry, as the release of nRESET   *)
(* does.                                                                     *)
Init ==
  /\ seq = "IDLE" /\ k = 0
  /\ x = Clear
  /\ gpr = [r \in PhysReg |-> 0]
  /\ cpsr = [mode |-> "SVC", i |-> TRUE, f |-> TRUE]
  /\ spsr = [b \in Bank |-> [mode |-> "ILL", i |-> FALSE, f |-> FALSE]]
  /\ pc = 0
  /\ ex = ZeroSlot /\ de = ZeroSlot /\ f1 = ZeroSlot
  /\ next_type = "N"
  /\ dabort_pending = FALSE /\ in_reset = FALSE /\ reset_exit = TRUE
  /\ fiq_in = FALSE /\ irq_in = FALSE
  /\ bus = [addr |-> 0, type |-> "N", flags |-> {}]

-----------------------------------------------------------------------------
(* Register file *)

CurBank == BankOf(cpsr.mode)

(* rd(): R15 reads as the incrementer *)
Val(r) == IF r = "pc" THEN pc ELSE gpr[Phys(r, CurBank)]

(* wr() and wr_bank() on file g; R15 is not in the file *)
SetBank(g, r, bank, v) ==
  IF r = "pc" THEN g ELSE [g EXCEPT ![Phys(r, bank)] = v]
SetUserReg(g, r, v) == SetBank(g, r, "USR", v)   \* mutant
SetReg(g, r, v) == SetBank(g, r, CurBank, v)

(* SPSR to CPSR of an exception return; nothing in the user bank *)
ReturnedUnguarded == spsr[CurBank]   \* mutant
ReturnedPsr == IF CurBank = "USR" THEN cpsr ELSE spsr[CurBank]

-----------------------------------------------------------------------------
(* The bus cycle and the pipeline *)

UserFlag == IF cpsr.mode = "USR" THEN {"USER"} ELSE {}
Fetching == {"OPC"} \cup UserFlag

(* cyc(): the type driven was announced by the cycle before *)
CycleNoN(addr, flags, next) ==   \* mutant
  /\ bus' = [addr |-> addr, type |-> next_type, flags |-> flags]
  /\ next_type' = IF next = "I" THEN "I" ELSE "S"
  /\ UNCHANGED inputs
Cycle(addr, flags, next) ==
  /\ bus' = [addr |-> addr, type |-> next_type, flags |-> flags]
  /\ next_type' = next
  /\ UNCHANGED inputs

(* last_abort_: ABORT counts only in memory cycles *)
LastAbort(ab) == ab /\ next_type \in {"N", "S"}

(* A cycle that does not advance the incrementer *)
LaterCycle(addr, flags, next) ==
  Cycle(addr, flags, next) /\ UNCHANGED <<pc, f1>>

(* cycle1_fetch() *)
Cycle1Fetch(next) ==
  \E ab \in Aborts :
    /\ Cycle(pc, Fetching, next)
    /\ f1' = [addr |-> pc, abort |-> LastAbort(ab)]
    /\ pc' = Inc(pc)

Retired(at) == [Clear EXCEPT !.at = at]

(* advance() and done(): the last cycle of a sequence; f1' is the word of    *)
(* this cycle in a one-cycle sequence                                        *)
FinishStale ==   \* mutant: the word fetched by the sequence before
  /\ ex' = de /\ de' = f1
  /\ seq' = "IDLE" /\ k' = 0 /\ x' = Retired(ex.addr)
Finish ==
  /\ ex' = de /\ de' = f1'
  /\ seq' = "IDLE" /\ k' = 0 /\ x' = Retired(ex.addr)

Continue(s, n) == seq' = s /\ k' = n /\ UNCHANGED stages

StartRefill(target) ==
  /\ x' = [Retired(x.at) EXCEPT !.target = target]
  /\ Continue("REFILL", 0)

-----------------------------------------------------------------------------
(* The instruction boundary *)

AtBoundary == seq = "IDLE"

RequestsOneMask ==   \* mutant: F masks both
  {e \in DOMAIN Rank :
     \/ e = "hold"  /\ in_reset
     \/ e = "reset" /\ reset_exit
     \/ e = "dabt"  /\ dabort_pending
     \/ e = "fiq"   /\ fiq_in /\ ~cpsr.f
     \/ e = "irq"   /\ irq_in /\ ~cpsr.f
     \/ e = "pabt"  /\ ex.abort}
Requests ==
  {e \in DOMAIN Rank :
     \/ e = "hold"  /\ in_reset
     \/ e = "reset" /\ reset_exit
     \/ e = "dabt"  /\ dabort_pending
     \/ e = "fiq"   /\ fiq_in /\ ~cpsr.f
     \/ e = "irq"   /\ irq_in /\ ~cpsr.i
     \/ e = "pabt"  /\ ex.abort}

(* begin() picks e *)
Picks(e) ==
  /\ AtBoundary
  /\ e \in Requests
  /\ \A h \in Requests : Rank[e] <= Rank[h]

(* begin() finds no request and decodes op *)
Decodes(op) == AtBoundary /\ Requests = {} /\ op \in Insns

Decoded(op) == [Retired(ex.addr) EXCEPT !.op = op]

(* nRESET low: a dummy fetch from the incrementing address *)
ResetCycle ==
  /\ Picks("hold")
  /\ Cycle(pc, Fetching, "S")
  /\ pc' = Inc(pc)
  /\ UNCHANGED <<seq, k, x, regs, stages, f1, requests>>

(* c_exc() of an entry e *)
Enter(e) ==
  LET mode == Entry[e].mode IN
    /\ LaterCycle(pc, Fetching, "N")
    /\ spsr' = [spsr EXCEPT ![BankOf(mode)] = cpsr]
    /\ cpsr' = [mode |-> mode, i |-> TRUE, f |-> cpsr.f \/ Entry[e].f]
    /\ gpr' = SetBank(gpr, "r14", BankOf(mode), Dec(pc))
    /\ StartRefill(Entry[e].vector)

Exception(e) ==
  /\ Picks(e)
  /\ Enter(e)
  /\ reset_exit' = (reset_exit /\ e # "reset")
  /\ dabort_pending' = (dabort_pending /\ e # "dabt")

Swi(op) ==
  /\ Decodes(op) /\ op.cls = "SWI"
  /\ Enter("swi")
  /\ UNCHANGED requests

(* The condition fails *)
Skip ==
  /\ AtBoundary /\ Requests = {}
  /\ Cycle1Fetch("S")
  /\ Finish
  /\ UNCHANGED <<regs, requests>>

-----------------------------------------------------------------------------
(* Data processing and PSR transfer *)

(* dp_finish(); the ALU is abstracted to Rn + n *)
DpFinish(op) ==
  LET res == Plus(Val(op.rn), op.n) IN
    \/ /\ WritesPC(op)
       /\ cpsr' = IF "S" \in op.bits THEN ReturnedPsr ELSE cpsr
       /\ StartRefill(res)
       /\ UNCHANGED gpr
    \/ /\ ~WritesPC(op)
       /\ gpr' = IF "T" \in op.bits THEN gpr ELSE SetReg(gpr, op.rd, res)
       /\ cpsr' = IF {"S", "T"} \subseteq op.bits /\ op.rd = "pc"
                  THEN ReturnedPsr ELSE cpsr
       /\ Finish

DataProc(op) ==
  /\ Decodes(op) /\ op.cls = "DP" /\ "R" \notin op.bits
  /\ Cycle1Fetch(IF WritesPC(op) THEN "N" ELSE "S")
  /\ DpFinish(op)
  /\ UNCHANGED <<spsr, requests>>

(* Shift by register: the amount is latched while fetching *)
DataProcShift(op) ==
  /\ Decodes(op) /\ op.cls = "DP" /\ "R" \in op.bits
  /\ Cycle1Fetch("I")
  /\ x' = Decoded(op)
  /\ Continue("DP", 1)
  /\ UNCHANGED <<regs, requests>>

DataProcShifted ==
  /\ seq = "DP"
  /\ LaterCycle(pc, UserFlag, IF WritesPC(x.op) THEN "N" ELSE "S")
  /\ DpFinish(x.op)
  /\ UNCHANGED <<spsr, requests>>

Mrs(op) ==
  /\ Decodes(op) /\ op.cls = "PSR" /\ "M" \notin op.bits
  /\ Cycle1Fetch(IF op.rd = "pc" THEN "N" ELSE "S")
  /\ \E v \in Data :
       \/ /\ op.rd = "pc"
          /\ StartRefill(v)
          /\ UNCHANGED gpr
       \/ /\ op.rd # "pc"
          /\ gpr' = SetReg(gpr, op.rd, v)
          /\ Finish
  /\ UNCHANGED <<cpsr, spsr, requests>>

(* Only the control field shows; user mode cannot write the CPSR's, and has  *)
(* no SPSR                                                                   *)
Msr(op) ==
  /\ Decodes(op) /\ op.cls = "PSR" /\ "M" \in op.bits
  /\ Cycle1Fetch("S")
  /\ \E v \in Psrs :
       /\ spsr' = IF {"B", "C"} \subseteq op.bits /\ CurBank # "USR"
                  THEN [spsr EXCEPT ![CurBank] = v] ELSE spsr
       /\ cpsr' = IF "C" \in op.bits /\ "B" \notin op.bits /\ cpsr.mode # "USR"
                  THEN v ELSE cpsr
  /\ Finish
  /\ UNCHANGED <<gpr, requests>>

-----------------------------------------------------------------------------
(* Multiply: n Booth steps, each writing the partial product to Rd *)

Multiply(op) ==
  /\ Decodes(op) /\ op.cls = "MUL"
  /\ Cycle1Fetch("I")
  /\ gpr' = SetReg(gpr, op.rd, IF "A" \in op.bits THEN Val(op.rn) ELSE 0)
  /\ x' = Decoded(op)
  /\ Continue("MUL", 1)
  /\ UNCHANGED <<cpsr, spsr, requests>>

BoothStep ==
  /\ seq = "MUL"
  /\ LaterCycle(pc, UserFlag, IF k = x.op.n THEN "S" ELSE "I")
  /\ \E v \in Data : gpr' = SetReg(gpr, x.op.rd, v)
  /\ \/ k = x.op.n /\ Finish
     \/ k < x.op.n /\ Continue("MUL", k + 1) /\ UNCHANGED x
  /\ UNCHANGED <<cpsr, spsr, requests>>

-----------------------------------------------------------------------------
(* Swap: locked read, locked write, internal cycle *)

Swap(op) ==
  /\ Decodes(op) /\ op.cls = "SWP"
  /\ Cycle1Fetch("N")
  /\ x' = [Decoded(op) EXCEPT !.addr = Val(op.rn)]
  /\ Continue("SWP", 1)
  /\ UNCHANGED <<regs, requests>>

SwapRead ==
  /\ seq = "SWP" /\ k = 1
  /\ LaterCycle(x.addr, {"LOCK"} \cup UserFlag, "N")
  /\ \E ab \in Aborts : x' = [x EXCEPT !.ab = LastAbort(ab)]
  /\ Continue("SWP", 2)
  /\ UNCHANGED <<regs, requests>>

SwapWriteUnlocked ==   \* mutant
  /\ seq = "SWP" /\ k = 2
  /\ LaterCycle(x.addr, {"WRITE"} \cup UserFlag, "I")
  /\ \E ab \in Aborts : x' = [x EXCEPT !.ab = @ \/ LastAbort(ab)]
  /\ Continue("SWP", 3)
  /\ UNCHANGED <<regs, requests>>
SwapWrite ==
  /\ seq = "SWP" /\ k = 2
  /\ LaterCycle(x.addr, {"LOCK", "WRITE"} \cup UserFlag, "I")
  /\ \E ab \in Aborts : x' = [x EXCEPT !.ab = @ \/ LastAbort(ab)]
  /\ Continue("SWP", 3)
  /\ UNCHANGED <<regs, requests>>

(* The last cycle of SWP and of a load of one register that is not R15 *)
LoadedReg ==
  /\ \E v \in Data : gpr' = IF x.ab THEN gpr ELSE SetReg(gpr, x.op.rd, v)
  /\ dabort_pending' = (dabort_pending \/ x.ab)
  /\ Finish

SwapEnd ==
  /\ seq = "SWP" /\ k = 3
  /\ LaterCycle(pc, UserFlag, "S")
  /\ LoadedReg
  /\ UNCHANGED <<cpsr, spsr, reset_exit>>

-----------------------------------------------------------------------------
(* Single transfer *)

(* base write-back at the end of the data cycle *)
WrittenBackW ==   \* mutant: post-indexing forgotten
  IF "W" \in x.op.bits THEN SetReg(gpr, x.op.rn, x.wbv) ELSE gpr
WrittenBack == IF WritesBack(x.op) THEN SetReg(gpr, x.op.rn, x.wbv) ELSE gpr

(* LDRT/STRT force nTRANS *)
TransferFlags ==
  IF "P" \notin x.op.bits /\ "W" \in x.op.bits THEN {"USER"} ELSE UserFlag

Transfer(op) ==
  LET base == Val(op.rn)
      calc == Plus(base, IF "U" \in op.bits THEN op.n ELSE -op.n)
  IN
    /\ Decodes(op) /\ op.cls = "SDT"
    /\ Cycle1Fetch("N")
    /\ x' = [Decoded(op) EXCEPT !.base = base, !.wbv = calc,
                                !.addr = IF "P" \in op.bits THEN calc ELSE base]
    /\ Continue("SDT", 1)
    /\ UNCHANGED <<regs, requests>>

Store ==
  /\ seq = "SDT" /\ "L" \notin x.op.bits
  /\ LaterCycle(x.addr, {"WRITE"} \cup TransferFlags, "N")
  /\ \E ab \in Aborts : dabort_pending' = (dabort_pending \/ LastAbort(ab))
  /\ gpr' = WrittenBack
  /\ Finish
  /\ UNCHANGED <<cpsr, spsr, reset_exit>>

LoadData ==
  /\ seq = "SDT" /\ "L" \in x.op.bits /\ k = 1
  /\ LaterCycle(x.addr, TransferFlags, "I")
  /\ \E ab \in Aborts : x' = [x EXCEPT !.ab = LastAbort(ab)]
  /\ gpr' = WrittenBack
  /\ Continue("SDT", 2)
  /\ UNCHANGED <<cpsr, spsr, requests>>

LoadEnd ==
  /\ seq = "SDT" /\ "L" \in x.op.bits /\ k = 2
  /\ \/ /\ x.ab \/ x.op.rd # "pc"
        /\ LaterCycle(pc, UserFlag, "S")
        /\ LoadedReg
     \/ /\ ~x.ab /\ x.op.rd = "pc"
        /\ LaterCycle(pc, UserFlag, "N")
        /\ \E v \in Data : StartRefill(v)
        /\ UNCHANGED <<gpr, dabort_pending>>
  /\ UNCHANGED <<cpsr, spsr, reset_exit>>

-----------------------------------------------------------------------------
(* Block transfer *)

BlockTransfer(op) ==
  LET base == Val(op.rn)
      n    == Words(op)
      low  == IF "U" \in op.bits THEN base ELSE Plus(base, -n)
  IN
    /\ Decodes(op) /\ op.cls = "BDT"
    /\ Cycle1Fetch("N")
    /\ x' = [Decoded(op) EXCEPT
               !.base = base,
               !.wbv  = IF "U" \in op.bits THEN Plus(base, n) ELSE low,
               !.addr = IF ("U" \in op.bits) = ("P" \in op.bits)
                        THEN Inc(low) ELSE low,
               !.ab   = FALSE,
               !.rest = List(op)]
    /\ Continue("BDT", 1)
    /\ UNCHANGED <<regs, requests>>

(* the lowest register still to transfer *)
IsNext(r) == r \in x.rest /\ \A q \in x.rest : Num[r] <= Num[q]

(* the base is written back with the first transfer *)
BlockWrittenBack ==
  IF x.rest = List(x.op) /\ "W" \in x.op.bits
  THEN SetReg(gpr, x.op.rn, x.wbv) ELSE gpr

BlockLoad(r) ==
  /\ seq = "BDT" /\ "L" \in x.op.bits /\ IsNext(r)
  /\ LaterCycle(x.addr, UserFlag, IF x.rest = {r} THEN "I" ELSE "S")
  /\ \E ab \in Aborts, v \in Data :
       LET aborted == x.ab \/ LastAbort(ab) IN
         /\ x' = [x EXCEPT !.ab = aborted, !.rest = @ \ {r}, !.addr = Inc(@)]
         /\ gpr' = IF aborted THEN BlockWrittenBack
                   ELSE SetBank(BlockWrittenBack, r,
                                IF UserBank(x.op) THEN "USR" ELSE CurBank, v)
  /\ Continue("BDT", 1)
  /\ UNCHANGED <<cpsr, spsr, requests>>

(* LDM: the final internal cycle *)
BlockLoadEnd ==
  LET loadsPC == "pc" \in List(x.op) /\ ~x.ab IN
    /\ seq = "BDT" /\ "L" \in x.op.bits /\ x.rest = {}
    /\ LaterCycle(pc, UserFlag, IF loadsPC THEN "N" ELSE "S")
    /\ \/ /\ x.ab
          /\ gpr' = SetReg(gpr, x.op.rn,
                           IF "W" \in x.op.bits THEN x.wbv ELSE x.base)
          /\ dabort_pending' = TRUE
          /\ UNCHANGED cpsr
          /\ Finish
       \/ /\ loadsPC
          /\ cpsr' = IF "S" \in x.op.bits THEN ReturnedPsr ELSE cpsr
          /\ \E v \in Data : StartRefill(v)
          /\ UNCHANGED <<gpr, dabort_pending>>
       \/ /\ ~x.ab /\ ~loadsPC
          /\ UNCHANGED <<gpr, cpsr, dabort_pending>>
          /\ Finish
    /\ UNCHANGED <<spsr, reset_exit>>

BlockStore(r) ==
  /\ seq = "BDT" /\ "L" \notin x.op.bits /\ IsNext(r)
  /\ LaterCycle(x.addr, {"WRITE"} \cup UserFlag, IF x.rest = {r} THEN "N" ELSE "S")
  /\ gpr' = BlockWrittenBack
  /\ \E ab \in Aborts :
       LET aborted == x.ab \/ LastAbort(ab) IN
         /\ \/ /\ x.rest = {r}
               /\ dabort_pending' = (dabort_pending \/ aborted)
               /\ Finish
            \/ /\ x.rest # {r}
               /\ x' = [x EXCEPT !.ab = aborted, !.rest = @ \ {r},
                                 !.addr = Inc(@)]
               /\ Continue("BDT", 1)
               /\ UNCHANGED dabort_pending
  /\ UNCHANGED <<cpsr, spsr, reset_exit>>

-----------------------------------------------------------------------------
(* Branches, undefined instructions and the pipeline refill *)

Branch(op) ==
  /\ Decodes(op) /\ op.cls = "BRANCH"
  /\ Cycle1Fetch("N")
  /\ gpr' = IF "L" \in op.bits THEN SetReg(gpr, "r14", Dec(pc)) ELSE gpr
  /\ StartRefill(Plus(pc, op.n))
  /\ UNCHANGED <<cpsr, spsr, requests>>

Undefined(op) ==
  /\ Decodes(op) /\ op.cls = "UNDEF"
  /\ LaterCycle(pc, Fetching, "I")
  /\ x' = [Decoded(op) EXCEPT !.addr = pc]
  /\ Continue("UNDEF", 1)
  /\ UNCHANGED <<regs, requests>>

UndefinedEntry ==
  /\ seq = "UNDEF"
  /\ LaterCycle(x.addr, Fetching, "N")
  /\ spsr' = [spsr EXCEPT !["UND"] = cpsr]
  /\ cpsr' = [cpsr EXCEPT !.mode = "UND", !.i = TRUE]
  /\ gpr' = SetBank(gpr, "r14", "UND", Dec(x.addr))
  /\ StartRefill(1)
  /\ UNCHANGED requests

RefillTarget ==
  /\ seq = "REFILL" /\ k = 0
  /\ LaterCycle(x.target, Fetching, "S")
  /\ \E ab \in Aborts :
       x' = [x EXCEPT !.fa = [addr |-> x.target, abort |-> LastAbort(ab)]]
  /\ Continue("REFILL", 1)
  /\ UNCHANGED <<regs, requests>>

RefillNext ==
  /\ seq = "REFILL" /\ k = 1
  /\ Cycle(Inc(x.target), Fetching, "S")
  /\ ex' = x.fa
  /\ \E ab \in Aborts :
       de' = [addr |-> Inc(x.target), abort |-> LastAbort(ab)]
  /\ pc' = Inc(Inc(x.target))
  /\ seq' = "IDLE" /\ k' = 0 /\ x' = Retired(x.at)
  /\ UNCHANGED <<regs, f1, requests>>

-----------------------------------------------------------------------------
(* The inputs move between two bus cycles, or in tick() before the boundary  *)
(* samples them.                                                             *)

SetReset ==
  /\ "reset" \in Pins
  /\ \/ /\ ~in_reset
        /\ in_reset' = TRUE
        /\ UNCHANGED reset_exit
     \/ /\ in_reset
        /\ in_reset' = FALSE
        /\ reset_exit' = TRUE
  /\ UNCHANGED <<seq, k, x, regs, pc, stages, f1, next_type, dabort_pending,
                 fiq_in, irq_in, bus>>

SetFiq ==
  /\ "fiq" \in Pins
  /\ fiq_in' = ~fiq_in
  /\ UNCHANGED <<seq, k, x, regs, pc, stages, f1, next_type, requests,
                 in_reset, irq_in, bus>>

SetIrq ==
  /\ "irq" \in Pins
  /\ irq_in' = ~irq_in
  /\ UNCHANGED <<seq, k, x, regs, pc, stages, f1, next_type, requests,
                 in_reset, fiq_in, bus>>

Begin ==
  \/ ResetCycle
  \/ \E e \in {"reset", "dabt", "fiq", "irq", "pabt"} : Exception(e)
  \/ Skip
  \/ \E op \in Insns :
       \/ DataProc(op) \/ DataProcShift(op) \/ Mrs(op) \/ Msr(op)
       \/ Multiply(op) \/ Swap(op) \/ Transfer(op) \/ BlockTransfer(op)
       \/ Branch(op) \/ Undefined(op) \/ Swi(op)

GoOn ==
  \/ DataProcShifted \/ BoothStep
  \/ SwapRead \/ SwapWrite \/ SwapEnd
  \/ Store \/ LoadData \/ LoadEnd
  \/ \E r \in Reg : BlockLoad(r) \/ BlockStore(r)
  \/ BlockLoadEnd
  \/ UndefinedEntry \/ RefillTarget \/ RefillNext

(* bus_cycle() *)
BusCycle == Begin \/ GoOn

Next == BusCycle \/ SetReset \/ SetFiq \/ SetIrq

(* The caller owns time: it calls bus_cycle() for ever. *)
Fairness == WF_vars(BusCycle)

Spec == Init /\ [][Next]_vars
FairSpec == Spec /\ Fairness

=============================================================================
