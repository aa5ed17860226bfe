------------------------------ MODULE Wren7Core ------------------------------
(***************************************************************************)
(* The RTL core (rtl/v1/wren7_core.sv), clock by clock.  One bus cycle is    *)
(* in progress in every clock; a memory cycle lasts until the clock in       *)
(* which bus_ack ends it, an internal cycle one clock.  A step is a clock    *)
(* edge with ce = 1 (the other clocks do not exist for the core).            *)
(*                                                                         *)
(* As in Arm7DI, a fetched word is stood for by its address and which        *)
(* instruction it is is chosen when the boundary decodes it; `op' is then    *)
(* what the decode of ex_w keeps showing until the pipeline advances.        *)
(***************************************************************************)
EXTENDS Arm7Arch

CONSTANT Inputs   \* the inputs that move, of hold, fiq and irq

ASSUME InputAssumption == Inputs \subseteq {"hold", "fiq", "irq"}

VARIABLES
  st, mk, ctype,    \* sequencer state, MUL step, type of this cycle
  fc,               \* no clock of this cycle has passed yet
  pins, taken,      \* the inputs in this clock; hold_l, fiq_l, irq_l
  rf, cpsr, spsr,   \* register file, PSRs
  pc, ex, de, f1,   \* R15 and the pipeline
  dab, in_rst, rst_exit,
  op,               \* the instruction the execute stage decodes to
  x                 \* the in-flight latches

rvars == <<st, mk, ctype, fc, pins, taken, rf, cpsr, spsr, pc, ex, de, f1,
           dab, in_rst, rst_exit, op, x>>

regs     == <<rf, cpsr, spsr>>
requests == <<dab, in_rst, rst_exit>>

State == {"BOUND", "DP2", "MUL", "SWP1", "SWP2", "SWP3", "SDT2", "SDT3",
          "BDTX", "BDTF", "UND2", "REF0", "REF1"}

Levels == {l \in [{"hold", "fiq", "irq"} -> BOOLEAN] :
             \A i \in DOMAIN l : l[i] => i \in Inputs}

(* addr, data, calc and base are shared by the instruction classes; a        *)
(* physical register waits for the write port in pw_v, pw_idx and data.      *)
(* x_wb, x_ub and x_buser follow from op and are not kept.                   *)
Latches ==
  [addr : Word, data : Word, calc : Word, base : Word, fab : BOOLEAN,
   ab : BOOLEAN, first : BOOLEAN, pcl : BOOLEAN, list : SUBSET Reg,
   pw_v : BOOLEAN, pw_idx : PhysReg]

RtlTypeOK ==
  /\ st \in State /\ mk \in 0 .. 15 /\ ctype \in CycleType /\ fc \in BOOLEAN
  /\ pins \in Levels /\ taken \in Levels
  /\ rf \in [PhysReg -> Word] /\ cpsr \in Psr /\ spsr \in [Bank -> Psr]
  /\ pc \in Word /\ ex \in Slot /\ de \in Slot /\ f1 \in Slot
  /\ dab \in BOOLEAN /\ in_rst \in BOOLEAN /\ rst_exit \in BOOLEAN
  /\ op \in Insn /\ x \in Latches

(* rst; the latches and the register file need no reset and start as zeros *)
RtlInit ==
  /\ st = "BOUND" /\ mk = 0 /\ ctype = "N" /\ fc = TRUE
  /\ pins \in Levels
  /\ taken = [i \in {"hold", "fiq", "irq"} |-> FALSE]
  /\ rf = [r \in PhysReg |-> 0]
  /\ cpsr = [mode |-> "SVC", i |-> TRUE, f |-> TRUE]
  /\ spsr = [b \in Bank |-> [mode |-> "ILL", i |-> FALSE, f |-> FALSE]]
  /\ pc = 0 /\ ex = ZeroSlot /\ de = ZeroSlot /\ f1 = ZeroSlot
  /\ dab = FALSE /\ in_rst = FALSE /\ rst_exit = TRUE
  /\ op = NoInsn
  /\ x = [addr |-> 0, data |-> 0, calc |-> 0, base |-> 0, fab |-> FALSE,
          ab |-> FALSE, first |-> FALSE, pcl |-> FALSE, list |-> {},
          pw_v |-> FALSE, pw_idx |-> <<"r0", "USR">>]

-----------------------------------------------------------------------------
(* The bus: outputs of registers only *)

bus_req == ctype # "I"

bus_addr ==
  IF st \in {"REF0", "REF1", "SWP1", "SWP2", "SDT2", "BDTX"} THEN x.addr ELSE pc

umode == cpsr.mode = "USR"

bus_flags ==
  {f \in BusFlag :
     \/ f = "OPC"   /\ st \in {"BOUND", "UND2", "REF0", "REF1"}
     \/ f = "LOCK"  /\ st \in {"SWP1", "SWP2"}
     \/ f = "WRITE" /\ \/ st = "SWP2"
                       \/ st \in {"SDT2", "BDTX"} /\ "L" \notin op.bits
     \/ f = "USER"  /\ \/ umode
                       \/ /\ st = "SDT2"
                          /\ "P" \notin op.bits /\ "W" \in op.bits}

-----------------------------------------------------------------------------
(* The register file and its write port *)

bank == BankOf(cpsr.mode)
spsr_cur == IF bank = "USR" THEN cpsr ELSE spsr[bank]

Read(r) == IF r = "pc" THEN pc ELSE rf[Phys(r, bank)]

(* WREG: R15 is never written *)
WREG(r, b, v) == IF r = "pc" THEN rf ELSE [rf EXCEPT ![Phys(r, b)] = v]

PendingWritten == [rf EXCEPT ![x.pw_idx] = x.data]

-----------------------------------------------------------------------------
(* The boundary decision *)

SampledNow(i) == pins[i]   \* mutant: in the clock that ends the cycle
Sampled(i) == IF fc THEN pins[i] ELSE taken[i]

d_hold  == Sampled("hold")
d_rexitPowerOn == ~d_hold /\ rst_exit   \* mutant
d_rexit == ~d_hold /\ (in_rst \/ rst_exit)
d_dab   == ~d_hold /\ ~d_rexit /\ dab
TakesFiq == Sampled("fiq") /\ ~cpsr.f
TakesIrq == Sampled("irq") /\ ~cpsr.i
d_fiq   == ~d_hold /\ ~d_rexit /\ ~dab /\ TakesFiq
d_irq   == ~d_hold /\ ~d_rexit /\ ~dab /\ ~TakesFiq /\ TakesIrq
d_pab   == ~d_hold /\ ~d_rexit /\ ~dab /\ ~TakesFiq /\ ~TakesIrq /\ ex.abort
d_ins   == ~d_hold /\ ~d_rexit /\ ~dab /\ ~TakesFiq /\ ~TakesIrq /\ ~ex.abort

(* The word address of the vector, the mode and whether F is set *)
Vectored ==
  [rexit |-> [vec |-> 0, mode |-> "SVC", setf |-> TRUE],
   dab   |-> [vec |-> 4, mode |-> "ABT", setf |-> FALSE],
   fiq   |-> [vec |-> 7, mode |-> "FIQ", setf |-> TRUE],
   irq   |-> [vec |-> 6, mode |-> "IRQ", setf |-> FALSE],
   pab   |-> [vec |-> 3, mode |-> "ABT", setf |-> FALSE],
   swi   |-> [vec |-> 2, mode |-> "SVC", setf |-> FALSE]]

-----------------------------------------------------------------------------
(* End of a cycle.  ab is ABORT in the clock that ends it.                   *)

To(state, type) == st' = state /\ ctype' = type

ab_e(ab) == bus_req /\ ab
Fetched(ab) == [addr |-> bus_addr, abort |-> ab_e(ab)]

(* cap: cycle 1 keeps the word it fetched, and R15 moves on *)
Capture(ab) == f1' = Fetched(ab) /\ pc' = Inc(pc)
Held == UNCHANGED <<f1, pc>>

(* adv, with f1' the last word fetched *)
Advance == ex' = de /\ de' = f1' /\ op' = NoInsn
Stay == UNCHANGED <<ex, de>>

(* The first cycle of a longer instruction o *)
Goes(o, state, type) == To(state, type) /\ op' = o /\ Stay

Refill(latches, target) ==
  /\ To("REF0", "N")
  /\ x' = [latches EXCEPT !.addr = target]
  /\ op' = NoInsn /\ Stay

DummyFetch ==
  /\ st = "BOUND" /\ d_hold
  /\ in_rst' = TRUE
  /\ pc' = Inc(pc)
  /\ To("BOUND", "S")
  /\ UNCHANGED <<mk, regs, ex, de, f1, dab, rst_exit, op, x>>

Enter(e) ==
  LET v == Vectored[e] IN
    /\ in_rst' = (in_rst /\ e # "rexit") /\ rst_exit' = (rst_exit /\ e # "rexit")
    /\ dab' = (dab /\ e # "dab")
    /\ spsr' = [spsr EXCEPT ![v.mode] = cpsr]
    /\ cpsr' = [mode |-> v.mode, i |-> TRUE, f |-> cpsr.f \/ v.setf]
    /\ rf' = WREG("r14", v.mode, Dec(pc))
    /\ Refill(x, v.vec)
    /\ Held /\ UNCHANGED mk

Exception ==
  /\ st = "BOUND"
  /\ \/ d_rexit /\ Enter("rexit")
     \/ d_dab /\ Enter("dab")
     \/ d_fiq /\ Enter("fiq")
     \/ d_irq /\ Enter("irq")
     \/ d_pab /\ Enter("pab")

Executes(o, cls) == st = "BOUND" /\ d_ins /\ o \in Insns /\ o.cls = cls

Swi(o) == Executes(o, "SWI") /\ Enter("swi")

Skip(ab) ==
  /\ st = "BOUND" /\ d_ins
  /\ Capture(ab) /\ Advance
  /\ To("BOUND", "S")
  /\ UNCHANGED <<mk, regs, requests, x>>

(* The last cycle of a data operation *)
DataDone(o) ==
  LET res == Plus(Read(o.rn), o.n) IN
    \/ /\ WritesPC(o)
       /\ cpsr' = IF "S" \in o.bits THEN spsr_cur ELSE cpsr
       /\ Refill(x, res)
       /\ UNCHANGED rf
    \/ /\ ~WritesPC(o)
       /\ rf' = IF "T" \in o.bits THEN rf ELSE WREG(o.rd, bank, res)
       /\ cpsr' = IF {"S", "T"} \subseteq o.bits /\ o.rd = "pc"
                  THEN spsr_cur ELSE cpsr
       /\ To("BOUND", "S")
       /\ Advance
       /\ UNCHANGED x

DataOp(o, ab) ==
  /\ Executes(o, "DP") /\ "R" \notin o.bits
  /\ Capture(ab) /\ DataDone(o)
  /\ UNCHANGED <<mk, spsr, requests>>

DataOpShift(o, ab) ==
  /\ Executes(o, "DP") /\ "R" \in o.bits
  /\ Capture(ab) /\ Goes(o, "DP2", "I")
  /\ UNCHANGED <<mk, regs, requests, x>>

DataOp2 ==
  /\ st = "DP2"
  /\ Held
  /\ DataDone(op)
  /\ UNCHANGED <<mk, spsr, requests>>

Mrs(o, ab) ==
  /\ Executes(o, "PSR") /\ "M" \notin o.bits
  /\ Capture(ab)
  /\ \E v \in Data :
       \/ o.rd = "pc" /\ Refill(x, v) /\ UNCHANGED rf
       \/ /\ o.rd # "pc"
          /\ rf' = WREG(o.rd, bank, v)
          /\ To("BOUND", "S") /\ Advance
          /\ UNCHANGED x
  /\ UNCHANGED <<mk, cpsr, spsr, requests>>

Msr(o, ab) ==
  /\ Executes(o, "PSR") /\ "M" \in o.bits
  /\ Capture(ab) /\ Advance /\ To("BOUND", "S")
  /\ \E v \in Psrs :
       \/ /\ "B" \in o.bits /\ bank # "USR"
          /\ spsr' = IF "C" \in o.bits THEN [spsr EXCEPT ![bank] = v] ELSE spsr
          /\ UNCHANGED cpsr
       \/ "B" \in o.bits /\ bank = "USR" /\ UNCHANGED <<cpsr, spsr>>
       \/ /\ "B" \notin o.bits
          /\ cpsr' = IF "C" \in o.bits /\ ~umode THEN v ELSE cpsr
          /\ UNCHANGED spsr
  /\ UNCHANGED <<mk, rf, requests, x>>

(* The multiplier shift register in x_base is stood for by the steps left,   *)
(* and so is the first partial product by Rn or zero.                        *)
Multiply(o, ab) ==
  /\ Executes(o, "MUL")
  /\ Capture(ab) /\ Goes(o, "MUL", "I")
  /\ mk' = 0
  /\ LET v == IF "A" \in o.bits THEN Read(o.rn) ELSE 0 IN
       rf' = WREG(o.rd, bank, v) /\ x' = [x EXCEPT !.calc = v]
  /\ UNCHANGED <<cpsr, spsr, requests>>

BoothStep ==
  /\ st = "MUL"
  /\ Held
  /\ mk' = (mk + 1) % 16
  /\ \E v \in Data : rf' = WREG(op.rd, bank, v) /\ x' = [x EXCEPT !.calc = v]
  /\ \/ mk + 1 = op.n /\ To("BOUND", "S") /\ Advance
     \/ mk + 1 # op.n /\ To("MUL", "I") /\ Stay /\ UNCHANGED op
  /\ UNCHANGED <<cpsr, spsr, requests>>

Swap(o, ab) ==
  /\ Executes(o, "SWP")
  /\ Capture(ab) /\ Goes(o, "SWP1", "N")
  /\ x' = [x EXCEPT !.addr = Read(o.rn)]
  /\ UNCHANGED <<mk, regs, requests>>

Transfer(o, ab) ==
  LET sum == Plus(Read(o.rn), IF "U" \in o.bits THEN o.n ELSE -o.n) IN
    /\ Executes(o, "SDT")
    /\ Capture(ab) /\ Goes(o, "SDT2", "N")
    /\ x' = [x EXCEPT !.calc = sum,
                      !.addr = IF "P" \in o.bits THEN sum ELSE Read(o.rn)]
    /\ UNCHANGED <<mk, regs, requests>>

(* ad2: the lowest address of the block; sum: the base written back *)
BlockTransfer(o, ab) ==
  LET b == Read(o.rn)
      n == Words(o)
      soff == IF "U" \in o.bits THEN IF "P" \in o.bits THEN 1 ELSE 0
              ELSE (IF "P" \in o.bits THEN 0 ELSE 1) - n
  IN
    /\ Executes(o, "BDT")
    /\ Capture(ab) /\ Goes(o, "BDTX", "N")
    /\ x' = [x EXCEPT !.list = List(o), !.base = b,
                      !.calc = Plus(b, IF "U" \in o.bits THEN n ELSE -n),
                      !.addr = Plus(b, soff),
                      !.first = TRUE, !.ab = FALSE, !.pcl = FALSE,
                      !.pw_v = FALSE]
    /\ UNCHANGED <<mk, regs, requests>>

Branch(o, ab) ==
  /\ Executes(o, "BRANCH")
  /\ Capture(ab)
  /\ rf' = IF "L" \in o.bits THEN WREG("r14", bank, Dec(pc)) ELSE rf
  /\ Refill(x, Plus(pc, o.n))
  /\ UNCHANGED <<mk, cpsr, spsr, requests>>

(* The word is dropped and pc held *)
Undefined(o) ==
  /\ Executes(o, "UNDEF")
  /\ Goes(o, "UND2", "I") /\ Held
  /\ UNCHANGED <<mk, regs, requests, x>>

-----------------------------------------------------------------------------
(* Later cycles *)

SwapRead(ab) ==
  /\ st = "SWP1"
  /\ Held
  /\ \E v \in Data : x' = [x EXCEPT !.data = v, !.ab = ab_e(ab)]
  /\ To("SWP2", "N") /\ Stay
  /\ UNCHANGED <<mk, regs, requests, op>>

SwapWrite(ab) ==
  /\ st = "SWP2"
  /\ Held
  /\ x' = [x EXCEPT !.ab = @ \/ ab_e(ab)]
  /\ To("SWP3", "I") /\ Stay
  /\ UNCHANGED <<mk, regs, requests, op>>

SwapEnd ==
  /\ st = "SWP3"
  /\ Held
  /\ dab' = (dab \/ x.ab)
  /\ rf' = IF x.ab THEN rf ELSE WREG(op.rd, bank, x.data)
  /\ To("BOUND", "S") /\ Advance
  /\ UNCHANGED <<mk, cpsr, spsr, in_rst, rst_exit, x>>

BaseWritten == IF WritesBack(op) THEN WREG(op.rn, bank, x.calc) ELSE rf

LoadData(ab) ==
  /\ st = "SDT2" /\ "L" \in op.bits
  /\ Held
  /\ rf' = BaseWritten
  /\ \E v \in Data : x' = [x EXCEPT !.data = v, !.ab = ab_e(ab)]
  /\ To("SDT3", "I") /\ Stay
  /\ UNCHANGED <<mk, cpsr, spsr, requests, op>>

Store(ab) ==
  /\ st = "SDT2" /\ "L" \notin op.bits
  /\ Held
  /\ rf' = BaseWritten
  /\ dab' = (dab \/ ab_e(ab))
  /\ To("BOUND", "N") /\ Advance
  /\ UNCHANGED <<mk, cpsr, spsr, in_rst, rst_exit, x>>

LoadEnd ==
  /\ st = "SDT3"
  /\ Held
  /\ \/ /\ x.ab
        /\ dab' = TRUE
        /\ To("BOUND", "S") /\ Advance
        /\ UNCHANGED <<rf, x>>
     \/ /\ ~x.ab /\ op.rd = "pc"
        /\ Refill(x, x.data)
        /\ UNCHANGED <<rf, dab>>
     \/ /\ ~x.ab /\ op.rd # "pc"
        /\ rf' = WREG(op.rd, bank, x.data)
        /\ To("BOUND", "S") /\ Advance
        /\ UNCHANGED <<dab, x>>
  /\ UNCHANGED <<mk, cpsr, spsr, in_rst, rst_exit>>

bdt_r == CHOOSE r \in x.list : \A q \in x.list : Num[r] <= Num[q]
bdt_last == x.list = {bdt_r}

(* Two requests for the one write port: the base in the first transfer, the  *)
(* register loaded by the transfer before; the second drives the port.       *)
BaseBooked == x.first /\ "W" \in op.bits
BlockPort ==
  IF "L" \in op.bits /\ x.pw_v THEN PendingWritten
  ELSE IF BaseBooked THEN WREG(op.rn, bank, x.calc) ELSE rf

LoadBankMode == bank   \* mutant
LoadBank == IF UserBank(op) THEN "USR" ELSE bank

NothingWaitsKept(y) == y   \* mutant
NothingWaits(y) == [y EXCEPT !.pw_v = FALSE]

(* The latches after a transfer; a loaded register waits one cycle *)
Transferred(ab, v) ==
  LET aborted == x.ab \/ ab_e(ab)
      y == [x EXCEPT !.ab = aborted, !.first = FALSE, !.addr = Inc(@),
                     !.list = @ \ {bdt_r}]
  IN
    IF "L" \notin op.bits THEN y
    ELSE IF aborted THEN NothingWaits(y)
    ELSE IF bdt_r = "pc" THEN [NothingWaits(y) EXCEPT !.data = v, !.pcl = TRUE]
    ELSE [y EXCEPT !.pw_v = TRUE, !.data = v,
                   !.pw_idx = Phys(bdt_r, LoadBank)]

BlockLoad(ab) ==
  /\ st = "BDTX" /\ "L" \in op.bits
  /\ Held
  /\ rf' = BlockPort
  /\ \E v \in Data : x' = Transferred(ab, v)
  /\ IF bdt_last THEN To("BDTF", "I") ELSE To("BDTX", "S")
  /\ Stay
  /\ UNCHANGED <<mk, cpsr, spsr, requests, op>>

BlockStore(ab) ==
  /\ st = "BDTX" /\ "L" \notin op.bits
  /\ Held
  /\ rf' = BlockPort
  /\ x' = Transferred(ab, 0)
  /\ \/ /\ bdt_last
        /\ dab' = (dab \/ x.ab \/ ab_e(ab))
        /\ To("BOUND", "N") /\ Advance
     \/ /\ ~bdt_last
        /\ To("BDTX", "S") /\ Stay
        /\ UNCHANGED <<dab, op>>
  /\ UNCHANGED <<mk, cpsr, spsr, in_rst, rst_exit>>

(* Here the restored base would drive the port over the last register. *)
BlockEnd ==
  LET y == NothingWaits(x) IN
    /\ st = "BDTF"
    /\ Held
    /\ rf' = IF x.ab THEN WREG(op.rn, bank, IF "W" \in op.bits THEN x.calc ELSE x.base)
             ELSE IF x.pw_v THEN PendingWritten ELSE rf
    /\ dab' = (dab \/ x.ab)
    /\ \/ /\ ~x.ab /\ x.pcl
          /\ cpsr' = IF "S" \in op.bits THEN spsr_cur ELSE cpsr
          /\ Refill(y, x.data)
       \/ /\ x.ab \/ ~x.pcl
          /\ To("BOUND", IF x.pcl THEN "N" ELSE "S") /\ Advance
          /\ x' = y
          /\ UNCHANGED cpsr
    /\ UNCHANGED <<mk, spsr, in_rst, rst_exit>>

UndefinedEntry ==
  /\ st = "UND2"
  /\ Held
  /\ spsr' = [spsr EXCEPT !["UND"] = cpsr]
  /\ cpsr' = [cpsr EXCEPT !.mode = "UND", !.i = TRUE]
  /\ rf' = WREG("r14", "UND", Dec(pc))
  /\ Refill(x, 1)
  /\ UNCHANGED <<mk, requests>>

(* x_addr runs on to the second word, x_data keeps the first *)
RefillTarget(ab) ==
  /\ st = "REF0"
  /\ Held
  /\ x' = [x EXCEPT !.data = x.addr, !.fab = ab_e(ab), !.addr = Inc(@)]
  /\ To("REF1", "S") /\ Stay
  /\ UNCHANGED <<mk, regs, requests, op>>

RefillNext(ab) ==
  /\ st = "REF1"
  /\ ex' = [addr |-> x.data, abort |-> x.fab] /\ de' = Fetched(ab)
  /\ pc' = Inc(x.addr)
  /\ To("BOUND", "S")
  /\ UNCHANGED <<mk, regs, requests, op, x, f1>>

-----------------------------------------------------------------------------
(* A clock *)

EndOfCycle(ab) ==
  \/ DummyFetch \/ Exception \/ Skip(ab)
  \/ \E o \in Insns :
       \/ DataOp(o, ab) \/ DataOpShift(o, ab) \/ Mrs(o, ab) \/ Msr(o, ab)
       \/ Multiply(o, ab) \/ Swap(o, ab) \/ Transfer(o, ab)
       \/ BlockTransfer(o, ab) \/ Branch(o, ab) \/ Undefined(o) \/ Swi(o)
  \/ DataOp2 \/ BoothStep
  \/ SwapRead(ab) \/ SwapWrite(ab) \/ SwapEnd
  \/ LoadData(ab) \/ Store(ab) \/ LoadEnd
  \/ BlockLoad(ab) \/ BlockStore(ab) \/ BlockEnd
  \/ UndefinedEntry \/ RefillTarget(ab) \/ RefillNext(ab)

(* The inputs are latched in the first clock of every cycle *)
Latch == taken' = IF fc THEN pins ELSE taken

Done ==
  /\ \E ab \in Aborts : EndOfCycle(ab)
  /\ fc' = TRUE /\ Latch /\ pins' \in Levels

(* nWAIT: the memory cycle is not acknowledged in this clock *)
Wait ==
  /\ bus_req
  /\ fc' = FALSE /\ Latch /\ pins' \in Levels
  /\ UNCHANGED <<st, mk, ctype, regs, pc, ex, de, f1, requests, op, x>>

RtlNext == Done \/ Wait

RtlSpec == RtlInit /\ [][RtlNext]_rvars

(* The register file's one write port is never booked twice in a cycle: an   *)
(* LDM's loaded register waits neither for its base's write-back nor under   *)
(* the base that an abort restores, and none waits past the sequence.        *)
PortFree ==
  /\ st = "BDTX" /\ "L" \in op.bits /\ x.pw_v => ~BaseBooked
  /\ st = "BDTF" /\ x.pw_v => ~x.ab
  /\ x.pw_v => st \in {"BDTX", "BDTF"}

=============================================================================
