----------------------------- MODULE Wren7Proofs -----------------------------
(***************************************************************************)
(* Theorems about the RTL core, for every size of the address space, every  *)
(* instruction, datum, PSR image, abort pattern and moving input: alone, on *)
(* its register file, and as an implementation of the core model, for every *)
(* stretch of a cycle.                                                      *)
(***************************************************************************)
EXTENDS Lockstep, Wren7OnFile, Arm7ArchProofs

(* A register waits for the write port only in a block load, after the       *)
(* first transfer and before an abort; a transfer always has a register.     *)
Waiting ==
  x.pw_v => /\ st \in {"BDTX", "BDTF"} /\ "L" \in op.bits
            /\ ~x.first /\ ~x.ab

Listed == st = "BDTX" => x.list # {}

RtlInv == RtlTypeOK /\ Waiting /\ Listed

-----------------------------------------------------------------------------
(* Types of the operators *)

SeqType ==
  /\ st \in State /\ ctype \in CycleType /\ op \in Insn
  /\ ex \in Slot /\ de \in Slot

RegType == rf \in [PhysReg -> Word] /\ cpsr \in Psr /\ spsr \in [Bank -> Psr]

ReqType == dab \in BOOLEAN /\ in_rst \in BOOLEAN /\ rst_exit \in BOOLEAN

FetchType == f1 \in Slot /\ pc \in Word

Unbooked == x \in Latches /\ ~x.pw_v

(* RtlTypeOK without the inputs *)
CoreType ==
  SeqType /\ RegType /\ ReqType /\ FetchType /\ x \in Latches /\ mk \in 0 .. 15

LEMMA CoreTypes == RtlTypeOK => CoreType
  BY DEF RtlTypeOK, CoreType, SeqType, RegType, ReqType, FetchType

LEMMA NoInsnType == NoInsn \in Insn
  BY DEF NoInsn, Insn, Class, Reg, Bits

LEMMA BankType ==
  ASSUME RegType
  PROVE  bank \in Bank /\ spsr_cur \in Psr
<1>1. bank \in Bank
  BY BankOfType DEF bank, RegType, Psr
<1>2. QED
  BY <1>1 DEF spsr_cur, RegType

LEMMA ReadType ==
  ASSUME RegType, FetchType, NEW r \in Reg
  PROVE  Read(r) \in Word
  BY BankType, PhysType DEF Read, RegType, FetchType

LEMMA WregType ==
  ASSUME RegType, NEW r \in Reg, NEW b \in Bank, NEW v \in Word
  PROVE  WREG(r, b, v) \in [PhysReg -> Word]
  BY PhysType DEF WREG, RegType

LEMMA BusType ==
  ASSUME CoreType, NEW ab \in Aborts
  PROVE  ab_e(ab) \in BOOLEAN /\ Fetched(ab) \in Slot
<1>1. ab_e(ab) \in BOOLEAN
  BY AbortAssumption DEF ab_e, bus_req
<1>2. bus_addr \in Word
  BY DEF bus_addr, CoreType, FetchType, Latches
<1>3. QED
  BY <1>1, <1>2 DEF Fetched, Slot

LEMMA CaptureType ==
  ASSUME CoreType, NEW ab \in Aborts, Capture(ab)
  PROVE  FetchType'
  BY BusType, IncType DEF Capture, FetchType, CoreType

LEMMA HeldType ==
  ASSUME CoreType, Held
  PROVE  FetchType'
  BY DEF Held, FetchType, CoreType

LEMMA BoundaryType ==
  ASSUME CoreType, FetchType', Advance, NEW type \in CycleType,
         To("BOUND", type)
  PROVE  SeqType'
  BY NoInsnType DEF Advance, To, SeqType, FetchType, CoreType, State

LEMMA GoesType ==
  ASSUME CoreType, NEW o \in Insn, NEW state \in State, NEW type \in CycleType,
         Goes(o, state, type)
  PROVE  SeqType' /\ st' = state /\ op' = o
  BY DEF Goes, To, Stay, SeqType, CoreType

LEMMA StayType ==
  ASSUME CoreType, NEW state \in State, NEW type \in CycleType,
         To(state, type), Stay, op' = op
  PROVE  SeqType' /\ st' = state
  BY DEF To, Stay, SeqType, CoreType

LEMMA RefillType ==
  ASSUME CoreType, NEW y \in Latches, NEW target \in Word, Refill(y, target)
  PROVE  SeqType' /\ x' \in Latches /\ x'.pw_v = y.pw_v /\ st' = "REF0"
<1>1. x' = [y EXCEPT !.addr = target] /\ st' = "REF0"
  BY DEF Refill, To
<1>2. x' \in Latches /\ x'.pw_v = y.pw_v
  BY <1>1 DEF Latches
<1>3. SeqType'
  BY NoInsnType DEF Refill, To, Stay, SeqType, CoreType, State, CycleType
<1>4. QED
  BY <1>1, <1>2, <1>3

(* A step outside the block transfers leaves nothing waiting. *)
LEMMA UnbookedStep ==
  ASSUME Unbooked', st' # "BDTX"
  PROVE  x' \in Latches /\ Waiting' /\ Listed'
  BY DEF Unbooked, Waiting, Listed

LEMMA VectorType ==
  \A e \in {"rexit", "dab", "fiq", "irq", "pab", "swi"} :
    /\ Vectored[e].vec \in Word /\ Vectored[e].mode \in Mode \cap Bank
    /\ Vectored[e].setf \in BOOLEAN
<1>1. {0, 2, 3, 4, 6, 7} \subseteq Word
  BY SizeAssumption DEF Word
<1>2. {"SVC", "ABT", "FIQ", "IRQ"} \subseteq Mode \cap Bank
  BY DEF Mode, Bank
<1> SUFFICES ASSUME NEW e \in {"rexit", "dab", "fiq", "irq", "pab", "swi"}
             PROVE  /\ Vectored[e].vec \in {0, 2, 3, 4, 6, 7}
                    /\ Vectored[e].mode \in {"SVC", "ABT", "FIQ", "IRQ"}
                    /\ Vectored[e].setf \in BOOLEAN
  BY <1>1, <1>2
<1>3. CASE e = "rexit"  BY <1>3 DEF Vectored
<1>4. CASE e = "dab"    BY <1>4 DEF Vectored
<1>5. CASE e = "fiq"    BY <1>5 DEF Vectored
<1>6. CASE e = "irq"    BY <1>6 DEF Vectored
<1>7. CASE e = "pab"    BY <1>7 DEF Vectored
<1>8. CASE e = "swi"    BY <1>8 DEF Vectored
<1>9. QED
  BY <1>3, <1>4, <1>5, <1>6, <1>7, <1>8

LEMMA EnterType ==
  ASSUME CoreType, ~x.pw_v,
         NEW e \in {"rexit", "dab", "fiq", "irq", "pab", "swi"}, Enter(e)
  PROVE  CoreType' /\ Unbooked' /\ st' = "REF0"
<1> DEFINE v == Vectored[e]
<1>1. /\ v.vec \in Word /\ v.mode \in Mode /\ v.mode \in Bank
      /\ v.setf \in BOOLEAN
  BY VectorType
<1>2. Refill(x, v.vec) /\ Held /\ mk' = mk
  BY DEF Enter
<1>3. SeqType' /\ x' \in Latches /\ ~x'.pw_v /\ st' = "REF0"
  BY <1>1, <1>2, RefillType DEF CoreType
<1>4. FetchType' /\ mk' \in 0 .. 15
  BY <1>2, HeldType DEF CoreType
<1>5. rf' \in [PhysReg -> Word]
  <2>1. Dec(pc) \in Word /\ "r14" \in Reg
    BY IncType DEF CoreType, FetchType, Reg
  <2>2. WREG("r14", v.mode, Dec(pc)) \in [PhysReg -> Word]
    BY <1>1, <2>1, WregType DEF CoreType
  <2>3. QED
    BY <2>2 DEF Enter
<1>6. cpsr' \in Psr
  BY <1>1 DEF Enter, Psr, CoreType, RegType
<1>7. spsr' \in [Bank -> Psr]
  BY <1>1 DEF Enter, CoreType, RegType
<1>8. ReqType'
  BY DEF Enter, ReqType, CoreType
<1>9. QED
  BY <1>3, <1>4, <1>5, <1>6, <1>7, <1>8 DEF CoreType, RegType, Unbooked

LEMMA DataDoneType ==
  ASSUME CoreType, ~x.pw_v, FetchType', NEW o \in Insn, DataDone(o)
  PROVE  /\ SeqType' /\ Unbooked' /\ st' # "BDTX"
         /\ rf' \in [PhysReg -> Word] /\ cpsr' \in Psr
<1> DEFINE res == Plus(Read(o.rn), o.n)
<1>1. o.rn \in Reg /\ o.rd \in Reg /\ o.n \in Int
  BY DEF Insn
<1>2. res \in Word /\ bank \in Bank /\ spsr_cur \in Psr
  BY <1>1, ReadType, PlusType, BankType DEF CoreType
<1>3. WREG(o.rd, bank, res) \in [PhysReg -> Word]
  BY <1>1, <1>2, WregType DEF CoreType
<1>4. CASE /\ cpsr' = (IF "S" \in o.bits THEN spsr_cur ELSE cpsr)
           /\ Refill(x, res) /\ rf' = rf
  BY <1>2, <1>4, RefillType DEF CoreType, RegType, Unbooked
<1>5. CASE /\ rf' = (IF "T" \in o.bits THEN rf ELSE WREG(o.rd, bank, res))
           /\ cpsr' = (IF {"S", "T"} \subseteq o.bits /\ o.rd = "pc"
                       THEN spsr_cur ELSE cpsr)
           /\ To("BOUND", "S") /\ Advance /\ x' = x
  <2>1. SeqType'
    BY <1>5, BoundaryType DEF CycleType
  <2>2. QED
    BY <1>2, <1>3, <1>5, <2>1 DEF CoreType, RegType, Unbooked, To
<1>6. QED
  BY <1>4, <1>5 DEF DataDone

-----------------------------------------------------------------------------
(* The end of a boundary cycle *)

Started == CoreType' /\ Waiting' /\ Listed'

(* A boundary cycle that is not the first of a block transfer *)
LEMMA StartedUnbooked ==
  ASSUME SeqType', RegType', ReqType', FetchType', Unbooked', st' # "BDTX",
         mk' \in 0 .. 15
  PROVE  Started
  BY UnbookedStep DEF Started, CoreType, Unbooked

LEMMA BoundaryStep ==
  ASSUME CoreType, ~x.pw_v, NEW ab \in Aborts,
         \/ DummyFetch \/ Exception \/ Skip(ab)
         \/ \E o \in Insns :
              \/ DataOp(o, ab) \/ DataOpShift(o, ab) \/ Mrs(o, ab) \/ Msr(o, ab)
              \/ Multiply(o, ab) \/ Swap(o, ab) \/ Transfer(o, ab)
              \/ BlockTransfer(o, ab) \/ Branch(o, ab) \/ Undefined(o) \/ Swi(o)
  PROVE  Started
<1>0. \A o \in Insns : o \in Insn /\ o.rd \in Reg /\ o.rn \in Reg /\ o.n \in Int
  BY InsnAssumption DEF Insn
<1>a. {"N", "S", "I"} \subseteq CycleType /\ "r14" \in Reg /\ 0 \in Word
  BY SizeAssumption DEF CycleType, Reg, Word
<1>b. bank \in Bank /\ spsr_cur \in Psr
  BY BankType DEF CoreType
<1>c. Unbooked /\ SeqType /\ RegType /\ ReqType /\ FetchType /\ mk \in 0 .. 15
      /\ x \in Latches
  BY DEF CoreType, Unbooked
<1>r. \A r \in Reg : Read(r) \in Word
  BY <1>c, ReadType
<1>w. \A r \in Reg, v \in Word : WREG(r, bank, v) \in [PhysReg -> Word]
  BY <1>b, <1>c, WregType
<1>1. CASE DummyFetch
  <2>1. FetchType'
    BY <1>1, <1>c, IncType DEF DummyFetch, FetchType
  <2>2. SeqType' /\ RegType' /\ ReqType' /\ Unbooked' /\ st' # "BDTX" /\ mk' = mk
    BY <1>1, <1>c DEF DummyFetch, To, regs, SeqType, RegType, ReqType, Unbooked,
                     State, CycleType
  <2>3. QED
    BY <1>c, <2>1, <2>2, StartedUnbooked
<1>2. CASE Exception
  <2>1. PICK e \in {"rexit", "dab", "fiq", "irq", "pab", "swi"} : Enter(e)
    BY <1>2 DEF Exception
  <2>2. QED
    BY <2>1, EnterType, UnbookedStep DEF Started, Unbooked
<1>3. CASE Skip(ab)
  <2>1. FetchType' /\ SeqType'
    BY <1>3, <1>a, CaptureType, BoundaryType DEF Skip
  <2>2. RegType' /\ ReqType' /\ Unbooked' /\ st' # "BDTX" /\ mk' = mk
    BY <1>3, <1>c DEF Skip, To, regs, requests, RegType, ReqType, Unbooked
  <2>3. QED
    BY <1>c, <2>1, <2>2, StartedUnbooked
<1>4. ASSUME NEW o \in Insns, DataOp(o, ab)
      PROVE  Started
  <2>1. FetchType'
    BY <1>4, CaptureType DEF DataOp
  <2>2. /\ SeqType' /\ Unbooked' /\ st' # "BDTX"
        /\ rf' \in [PhysReg -> Word] /\ cpsr' \in Psr
    BY <1>0, <1>4, <2>1, DataDoneType DEF DataOp
  <2>3. RegType' /\ ReqType' /\ mk' = mk
    BY <1>4, <1>c, <2>2 DEF DataOp, requests, RegType, ReqType
  <2>4. QED
    BY <1>c, <2>1, <2>2, <2>3, StartedUnbooked
<1>5. ASSUME NEW o \in Insns, DataOpShift(o, ab)
      PROVE  Started
  <2>1. FetchType' /\ SeqType' /\ st' = "DP2"
    BY <1>0, <1>5, <1>a, CaptureType, GoesType DEF DataOpShift, State
  <2>2. RegType' /\ ReqType' /\ Unbooked' /\ mk' = mk
    BY <1>5, <1>c DEF DataOpShift, regs, requests, RegType, ReqType, Unbooked
  <2>3. QED
    BY <1>c, <2>1, <2>2, StartedUnbooked
<1>6. ASSUME NEW o \in Insns, Mrs(o, ab)
      PROVE  Started
  <2>1. FetchType' /\ ReqType' /\ mk' = mk /\ cpsr' = cpsr /\ spsr' = spsr
    BY <1>6, <1>c, CaptureType DEF Mrs, requests, ReqType
  <2>2. PICK v \in Word :
          \/ Refill(x, v) /\ rf' = rf
          \/ rf' = WREG(o.rd, bank, v) /\ To("BOUND", "S") /\ Advance /\ x' = x
    BY <1>6, DataAssumption DEF Mrs
  <2>3. SeqType' /\ Unbooked' /\ st' # "BDTX" /\ rf' \in [PhysReg -> Word]
    <3>1. CASE Refill(x, v) /\ rf' = rf
      BY <1>c, <3>1, RefillType DEF Unbooked, RegType
    <3>2. CASE /\ rf' = WREG(o.rd, bank, v) /\ To("BOUND", "S") /\ Advance
               /\ x' = x
      <4>1. SeqType'
        BY <1>a, <2>1, <3>2, BoundaryType
      <4>2. rf' \in [PhysReg -> Word]
        BY <1>0, <1>w, <3>2
      <4>3. QED
        BY <1>c, <3>2, <4>1, <4>2 DEF To, Unbooked
    <3>3. QED
      BY <2>2, <3>1, <3>2
  <2>4. QED
    BY <1>c, <2>1, <2>3, StartedUnbooked DEF RegType
<1>7. ASSUME NEW o \in Insns, Msr(o, ab)
      PROVE  Started
  <2>1. FetchType' /\ SeqType'
    BY <1>7, <1>a, CaptureType, BoundaryType DEF Msr
  <2>2. ReqType' /\ Unbooked' /\ st' # "BDTX" /\ mk' = mk /\ rf' = rf
    BY <1>7, <1>c DEF Msr, To, requests, ReqType, Unbooked
  <2>3. cpsr' \in Psr /\ spsr' \in [Bank -> Psr]
    BY <1>7, <1>b, <1>c, PsrAssumption DEF Msr, RegType
  <2>4. QED
    BY <1>c, <2>1, <2>2, <2>3, StartedUnbooked DEF RegType
<1>8. ASSUME NEW o \in Insns, Multiply(o, ab)
      PROVE  Started
  <2> DEFINE v == IF "A" \in o.bits THEN Read(o.rn) ELSE 0
  <2>1. FetchType' /\ SeqType' /\ st' = "MUL"
    BY <1>0, <1>8, <1>a, CaptureType, GoesType DEF Multiply, State
  <2>2. v \in Word
    BY <1>0, <1>a, <1>r
  <2>3. rf' \in [PhysReg -> Word]
    BY <1>0, <1>8, <1>w, <2>2 DEF Multiply
  <2>4. Unbooked'
    BY <1>8, <1>c, <2>2 DEF Multiply, Unbooked, Latches
  <2>5. RegType' /\ ReqType' /\ mk' \in 0 .. 15
    BY <1>8, <1>c, <2>3 DEF Multiply, requests, RegType, ReqType
  <2>6. QED
    BY <2>1, <2>4, <2>5, StartedUnbooked
<1>9. ASSUME NEW o \in Insns, Swap(o, ab)
      PROVE  Started
  <2>1. FetchType' /\ SeqType' /\ st' = "SWP1"
    BY <1>0, <1>9, <1>a, CaptureType, GoesType DEF Swap, State
  <2>2. Read(o.rn) \in Word
    BY <1>0, <1>r
  <2>3. Unbooked'
    BY <1>9, <1>c, <2>2 DEF Swap, Unbooked, Latches
  <2>4. RegType' /\ ReqType' /\ mk' = mk
    BY <1>9, <1>c DEF Swap, regs, requests, RegType, ReqType
  <2>5. QED
    BY <1>c, <2>1, <2>3, <2>4, StartedUnbooked
<1>10. ASSUME NEW o \in Insns, Transfer(o, ab)
       PROVE  Started
  <2> DEFINE sum == Plus(Read(o.rn), IF "U" \in o.bits THEN o.n ELSE -o.n)
  <2>1. FetchType' /\ SeqType' /\ st' = "SDT2"
    BY <1>0, <1>10, <1>a, CaptureType, GoesType DEF Transfer, State
  <2>2. Read(o.rn) \in Word /\ (IF "U" \in o.bits THEN o.n ELSE -o.n) \in Int
    BY <1>0, <1>r
  <2>3. sum \in Word
    BY <2>2, PlusType
  <2>4. x' = [x EXCEPT !.calc = sum,
                       !.addr = IF "P" \in o.bits THEN sum ELSE Read(o.rn)]
    BY <1>10 DEF Transfer
  <2>5. Unbooked'
    BY <1>c, <2>2, <2>3, <2>4 DEF Unbooked, Latches
  <2>6. RegType' /\ ReqType' /\ mk' = mk
    BY <1>10, <1>c DEF Transfer, regs, requests, RegType, ReqType
  <2>7. QED
    BY <1>c, <2>1, <2>5, <2>6, StartedUnbooked
<1>11. ASSUME NEW o \in Insns, BlockTransfer(o, ab)
       PROVE  Started
  <2> DEFINE b == Read(o.rn)
             n == Words(o)
             soff == IF "U" \in o.bits THEN IF "P" \in o.bits THEN 1 ELSE 0
                     ELSE (IF "P" \in o.bits THEN 0 ELSE 1) - n
             wb == Plus(b, IF "U" \in o.bits THEN n ELSE -n)
             ad2 == Plus(b, soff)
  <2>1. FetchType' /\ SeqType' /\ st' = "BDTX"
    BY <1>0, <1>11, <1>a, CaptureType, GoesType DEF BlockTransfer, State
  <2>2. b \in Word /\ n \in Int /\ List(o) \subseteq Reg /\ List(o) # {}
    BY <1>0, <1>r, ListType DEF List
  <2>3. soff \in Int /\ (IF "U" \in o.bits THEN n ELSE -n) \in Int
    BY <2>2
  <2>4. wb \in Word /\ ad2 \in Word
    BY <2>2, <2>3, PlusType
  <2>5. x' = [x EXCEPT !.list = List(o), !.base = b, !.calc = wb, !.addr = ad2,
                       !.first = TRUE, !.ab = FALSE, !.pcl = FALSE, !.pw_v = FALSE]
    BY <1>11 DEF BlockTransfer
  <2>6. x' \in Latches /\ ~x'.pw_v /\ x'.list # {}
    BY <1>c, <2>2, <2>4, <2>5 DEF Latches
  <2>7. RegType' /\ ReqType' /\ mk' = mk
    BY <1>11, <1>c DEF BlockTransfer, regs, requests, RegType, ReqType
  <2>8. QED
    BY <1>c, <2>1, <2>6, <2>7 DEF Started, CoreType, Waiting, Listed
<1>12. ASSUME NEW o \in Insns, Branch(o, ab)
       PROVE  Started
  <2>1. FetchType'
    BY <1>12, CaptureType DEF Branch
  <2>2. Plus(pc, o.n) \in Word /\ Dec(pc) \in Word
    BY <1>0, <1>c, PlusType, IncType DEF FetchType
  <2>3. SeqType' /\ Unbooked' /\ st' # "BDTX"
    BY <1>12, <1>c, <2>2, RefillType DEF Branch, Unbooked
  <2>4. rf' \in [PhysReg -> Word]
    BY <1>12, <1>a, <1>c, <1>w, <2>2 DEF Branch, RegType
  <2>5. RegType' /\ ReqType' /\ mk' = mk
    BY <1>12, <1>c, <2>4 DEF Branch, requests, RegType, ReqType
  <2>6. QED
    BY <1>c, <2>1, <2>3, <2>5, StartedUnbooked
<1>13. ASSUME NEW o \in Insns, Undefined(o)
       PROVE  Started
  <2>1. FetchType' /\ SeqType' /\ st' = "UND2"
    BY <1>0, <1>13, <1>a, HeldType, GoesType DEF Undefined, State
  <2>2. RegType' /\ ReqType' /\ Unbooked' /\ mk' = mk
    BY <1>13, <1>c DEF Undefined, regs, requests, RegType, ReqType, Unbooked
  <2>3. QED
    BY <1>c, <2>1, <2>2, StartedUnbooked
<1>14. ASSUME NEW o \in Insns, Swi(o)
       PROVE  Started
  <2>1. Enter("swi")
    BY <1>14 DEF Swi
  <2>2. QED
    BY <2>1, EnterType, UnbookedStep DEF Started, Unbooked
<1>15. QED
  BY <1>1, <1>2, <1>3, <1>4, <1>5, <1>6, <1>7, <1>8, <1>9, <1>10, <1>11,
     <1>12, <1>13, <1>14

-----------------------------------------------------------------------------
(* The end of a later cycle *)

LEMMA LaterStep ==
  ASSUME CoreType, ~x.pw_v, NEW ab \in Aborts,
         \/ DataOp2 \/ BoothStep
         \/ SwapRead(ab) \/ SwapWrite(ab) \/ SwapEnd
         \/ LoadData(ab) \/ Store(ab) \/ LoadEnd
         \/ UndefinedEntry \/ RefillTarget(ab) \/ RefillNext(ab)
  PROVE  Started
<1>a. {"N", "S", "I"} \subseteq CycleType /\ {0, 1} \subseteq Word
  BY SizeAssumption DEF CycleType, Word
<1>b. bank \in Bank /\ ab_e(ab) \in BOOLEAN /\ Fetched(ab) \in Slot
  BY BankType, BusType DEF CoreType
<1>c. Unbooked /\ SeqType /\ RegType /\ ReqType /\ FetchType /\ mk \in 0 .. 15
      /\ x \in Latches
  BY DEF CoreType, Unbooked
<1>o. op \in Insn /\ op.rd \in Reg /\ op.rn \in Reg
  BY <1>c DEF SeqType, Insn
<1>w. \A r \in Reg, v \in Word : WREG(r, bank, v) \in [PhysReg -> Word]
  BY <1>b, <1>c, WregType
<1>x. {x.addr, x.data, x.calc, x.base} \subseteq Word /\ x.ab \in BOOLEAN
  BY <1>c DEF Latches
<1>y. \A v \in Word : /\ [x EXCEPT !.data = v, !.ab = ab_e(ab)] \in Latches
                      /\ ~[x EXCEPT !.data = v, !.ab = ab_e(ab)].pw_v
  BY <1>b, <1>c DEF Latches, Unbooked
<1>1. CASE DataOp2
  <2>1. FetchType'
    BY <1>1, HeldType DEF DataOp2
  <2>2. /\ SeqType' /\ Unbooked' /\ st' # "BDTX"
        /\ rf' \in [PhysReg -> Word] /\ cpsr' \in Psr
    BY <1>1, <1>o, <2>1, DataDoneType DEF DataOp2
  <2>3. RegType' /\ ReqType' /\ mk' = mk
    BY <1>1, <1>c, <2>2 DEF DataOp2, requests, RegType, ReqType
  <2>4. QED
    BY <1>c, <2>1, <2>2, <2>3, StartedUnbooked
<1>2. CASE BoothStep
  <2>1. FetchType' /\ mk' \in 0 .. 15
    BY <1>2, <1>c, HeldType DEF BoothStep
  <2>2. PICK v \in Word : rf' = WREG(op.rd, bank, v) /\ x' = [x EXCEPT !.calc = v]
    BY <1>2, DataAssumption DEF BoothStep
  <2>3. rf' \in [PhysReg -> Word] /\ Unbooked'
    BY <1>c, <1>o, <1>w, <2>2 DEF Unbooked, Latches
  <2>4. SeqType' /\ st' # "BDTX"
    <3>1. CASE To("BOUND", "S") /\ Advance
      BY <1>a, <2>1, <3>1, BoundaryType DEF To
    <3>2. CASE To("MUL", "I") /\ Stay /\ op' = op
      BY <1>a, <3>2, StayType DEF State
    <3>3. QED
      BY <1>2, <3>1, <3>2 DEF BoothStep
  <2>5. RegType' /\ ReqType'
    BY <1>2, <1>c, <2>3 DEF BoothStep, requests, RegType, ReqType
  <2>6. QED
    BY <2>1, <2>3, <2>4, <2>5, StartedUnbooked
<1>3. CASE SwapRead(ab)
  <2>1. FetchType' /\ SeqType' /\ st' = "SWP2"
    BY <1>3, <1>a, HeldType, StayType DEF SwapRead, State
  <2>2. Unbooked'
    BY <1>3, <1>y, DataAssumption DEF SwapRead, Unbooked
  <2>3. RegType' /\ ReqType' /\ mk' = mk
    BY <1>3, <1>c DEF SwapRead, regs, requests, RegType, ReqType
  <2>4. QED
    BY <1>c, <2>1, <2>2, <2>3, StartedUnbooked
<1>4. CASE SwapWrite(ab)
  <2>1. FetchType' /\ SeqType' /\ st' = "SWP3"
    BY <1>4, <1>a, HeldType, StayType DEF SwapWrite, State
  <2>2. x' = [x EXCEPT !.ab = x.ab \/ ab_e(ab)]
    BY <1>4 DEF SwapWrite
  <2>3. Unbooked'
    BY <1>b, <1>c, <1>x, <2>2 DEF Unbooked, Latches
  <2>4. RegType' /\ ReqType' /\ mk' = mk
    BY <1>4, <1>c DEF SwapWrite, regs, requests, RegType, ReqType
  <2>5. QED
    BY <1>c, <2>1, <2>3, <2>4, StartedUnbooked
<1>5. CASE SwapEnd
  <2>1. FetchType' /\ SeqType' /\ st' # "BDTX"
    <3>1. FetchType'
      BY <1>5, HeldType DEF SwapEnd
    <3>2. QED
      BY <1>5, <1>a, <3>1, BoundaryType DEF SwapEnd, To
  <2>2. RegType' /\ ReqType' /\ Unbooked' /\ mk' = mk
    BY <1>5, <1>c, <1>o, <1>w, <1>x DEF SwapEnd, RegType, ReqType, Unbooked
  <2>3. QED
    BY <1>c, <2>1, <2>2, StartedUnbooked
<1>6. BaseWritten \in [PhysReg -> Word]
  BY <1>c, <1>o, <1>w, <1>x DEF BaseWritten, RegType
<1>7. CASE LoadData(ab)
  <2>1. FetchType' /\ SeqType' /\ st' = "SDT3"
    BY <1>7, <1>a, HeldType, StayType DEF LoadData, State
  <2>2. Unbooked'
    BY <1>7, <1>y, DataAssumption DEF LoadData, Unbooked
  <2>3. RegType' /\ ReqType' /\ mk' = mk
    BY <1>7, <1>c, <1>6 DEF LoadData, requests, RegType, ReqType
  <2>4. QED
    BY <1>c, <2>1, <2>2, <2>3, StartedUnbooked
<1>8. CASE Store(ab)
  <2>1. FetchType' /\ SeqType' /\ st' # "BDTX"
    <3>1. FetchType'
      BY <1>8, HeldType DEF Store
    <3>2. QED
      BY <1>8, <1>a, <3>1, BoundaryType DEF Store, To
  <2>2. RegType' /\ ReqType' /\ Unbooked' /\ mk' = mk
    BY <1>8, <1>b, <1>c, <1>6 DEF Store, RegType, ReqType, Unbooked
  <2>3. QED
    BY <1>c, <2>1, <2>2, StartedUnbooked
<1>9. CASE LoadEnd
  <2>1. FetchType'
    BY <1>9, HeldType DEF LoadEnd
  <2>2. RegType' /\ ReqType' /\ mk' = mk
    BY <1>9, <1>c, <1>o, <1>w, <1>x DEF LoadEnd, RegType, ReqType
  <2>3. SeqType' /\ Unbooked' /\ st' # "BDTX"
    <3>1. CASE To("BOUND", "S") /\ Advance /\ x' = x
      BY <1>a, <1>c, <2>1, <3>1, BoundaryType DEF To, Unbooked
    <3>2. CASE Refill(x, x.data)
      BY <1>c, <1>x, <3>2, RefillType DEF Unbooked
    <3>3. QED
      BY <1>9, <3>1, <3>2 DEF LoadEnd
  <2>4. QED
    BY <1>c, <2>1, <2>2, <2>3, StartedUnbooked
<1>10. CASE UndefinedEntry
  <2>1. FetchType' /\ mk' = mk
    BY <1>10, HeldType DEF UndefinedEntry
  <2>2. SeqType' /\ Unbooked' /\ st' # "BDTX"
    BY <1>10, <1>a, <1>c, RefillType DEF UndefinedEntry, Unbooked
  <2>3. rf' \in [PhysReg -> Word]
    BY <1>10, <1>c, WregType, IncType DEF UndefinedEntry, FetchType, Reg, Bank
  <2>4. cpsr' \in Psr /\ spsr' \in [Bank -> Psr]
    BY <1>10, <1>c DEF UndefinedEntry, RegType, Psr, Mode, Bank
  <2>5. ReqType'
    BY <1>10, <1>c DEF UndefinedEntry, requests, ReqType
  <2>6. QED
    BY <1>c, <2>1, <2>2, <2>3, <2>4, <2>5, StartedUnbooked DEF RegType
<1>11. CASE RefillTarget(ab)
  <2>1. FetchType' /\ SeqType' /\ st' = "REF1"
    BY <1>11, <1>a, HeldType, StayType DEF RefillTarget, State
  <2>2. x' = [x EXCEPT !.data = x.addr, !.fab = ab_e(ab), !.addr = Inc(x.addr)]
    BY <1>11 DEF RefillTarget
  <2>3. Unbooked'
    BY <1>b, <1>c, <1>x, <2>2, IncType DEF Unbooked, Latches
  <2>4. RegType' /\ ReqType' /\ mk' = mk
    BY <1>11, <1>c DEF RefillTarget, regs, requests, RegType, ReqType
  <2>5. QED
    BY <1>c, <2>1, <2>3, <2>4, StartedUnbooked
<1>12. CASE RefillNext(ab)
  <2>1. FetchType'
    BY <1>12, <1>c, <1>x, IncType DEF RefillNext, FetchType
  <2>2. ex' \in Slot /\ de' \in Slot
    BY <1>12, <1>b, <1>c DEF RefillNext, Slot, Latches
  <2>3. SeqType' /\ st' # "BDTX"
    BY <1>12, <1>c, <2>2 DEF RefillNext, To, SeqType, State, CycleType
  <2>4. RegType' /\ ReqType' /\ Unbooked' /\ mk' = mk
    BY <1>12, <1>c DEF RefillNext, regs, requests, RegType, ReqType, Unbooked
  <2>5. QED
    BY <1>c, <2>1, <2>3, <2>4, StartedUnbooked
<1>13. QED
  BY <1>1, <1>2, <1>3, <1>4, <1>5, <1>7, <1>8, <1>9, <1>10, <1>11, <1>12

-----------------------------------------------------------------------------
(* Block transfers: the write port *)

LEMMA LowestListed ==
  ASSUME CoreType, x.list # {}
  PROVE  /\ bdt_r \in x.list /\ bdt_r \in Reg
         /\ \A q \in x.list : Num[bdt_r] <= Num[q]
<1> DEFINE Lowest(r) == \A q \in x.list : Num[r] <= Num[q]
<1>1. x.list \subseteq {"r0", "r8", "r14", "pc"}
  BY DEF CoreType, Latches, Reg
<1>2. Num["r0"] = 0 /\ Num["r8"] = 8 /\ Num["r14"] = 14 /\ Num["pc"] = 15
  BY DEF Num
<1>3. \E r \in x.list : Lowest(r)
  <2>1. CASE "r0" \in x.list
    BY <1>1, <1>2, <2>1
  <2>2. CASE "r0" \notin x.list /\ "r8" \in x.list
    BY <1>1, <1>2, <2>2
  <2>3. CASE "r0" \notin x.list /\ "r8" \notin x.list /\ "r14" \in x.list
    BY <1>1, <1>2, <2>3
  <2>4. CASE x.list = {"pc"}
    BY <1>2, <2>4
  <2>5. QED
    BY <1>1, <2>1, <2>2, <2>3, <2>4
<1>4. bdt_r \in x.list /\ Lowest(bdt_r)
  BY <1>3 DEF bdt_r
<1>5. QED
  BY <1>1, <1>4 DEF Reg

LEMMA PortType ==
  ASSUME CoreType
  PROVE  PendingWritten \in [PhysReg -> Word] /\ BlockPort \in [PhysReg -> Word]
<1>1. PendingWritten \in [PhysReg -> Word]
  BY DEF PendingWritten, CoreType, RegType, Latches
<1>2. WREG(op.rn, bank, x.calc) \in [PhysReg -> Word]
  BY WregType, BankType DEF CoreType, SeqType, Insn, Latches
<1>3. QED
  BY <1>1, <1>2 DEF BlockPort, CoreType, RegType

(* A loaded register is left waiting only by a transfer that did not abort,  *)
(* and never in the first flag's company.                                    *)
LEMMA TransferredType ==
  ASSUME CoreType, x.list # {}, NEW ab \in Aborts, NEW v \in Word
  PROVE  LET y == Transferred(ab, v) IN
           /\ y \in Latches /\ ~y.first /\ y.list = x.list \ {bdt_r}
           /\ "L" \in op.bits => (y.pw_v => ~y.ab)
           /\ "L" \notin op.bits => y.pw_v = x.pw_v
<1> DEFINE aborted == x.ab \/ ab_e(ab)
           y == [x EXCEPT !.ab = aborted, !.first = FALSE, !.addr = Inc(x.addr),
                          !.list = x.list \ {bdt_r}]
<1>1. ab_e(ab) \in BOOLEAN /\ bdt_r \in Reg /\ Inc(x.addr) \in Word
  BY BusType, LowestListed, IncType DEF CoreType, Latches
<1>2. /\ y \in Latches /\ ~y.first /\ y.list = x.list \ {bdt_r}
      /\ y.pw_v = x.pw_v /\ y.ab = aborted
  BY <1>1 DEF CoreType, Latches
<1>3. CASE "L" \notin op.bits
  <2>1. Transferred(ab, v) = y
    BY <1>3 DEF Transferred
  <2>2. QED
    BY <1>2, <1>3, <2>1
<1>4. CASE "L" \in op.bits /\ aborted
  <2>1. Transferred(ab, v) = NothingWaits(y)
    BY <1>4 DEF Transferred
  <2>2. QED
    BY <1>2, <1>4, <2>1 DEF NothingWaits, Latches
<1>5. CASE "L" \in op.bits /\ ~aborted /\ bdt_r = "pc"
  <2>1. Transferred(ab, v) = [NothingWaits(y) EXCEPT !.data = v, !.pcl = TRUE]
    BY <1>5 DEF Transferred
  <2>2. QED
    BY <1>2, <1>5, <2>1 DEF NothingWaits, Latches
<1>6. CASE "L" \in op.bits /\ ~aborted /\ bdt_r # "pc"
  <2>1. Transferred(ab, v)
          = [y EXCEPT !.pw_v = TRUE, !.data = v, !.pw_idx = Phys(bdt_r, LoadBank)]
    BY <1>6 DEF Transferred
  <2>2. LoadBank \in Bank
    BY BankType DEF LoadBank, CoreType, Bank
  <2>3. Phys(bdt_r, LoadBank) \in PhysReg
    BY <1>1, <1>6, <2>2, PhysType
  <2>4. QED
    BY <1>2, <1>6, <2>1, <2>3 DEF Latches
<1>7. QED
  BY <1>3, <1>4, <1>5, <1>6

LEMMA BlockStep ==
  ASSUME CoreType, Waiting, Listed, NEW ab \in Aborts,
         BlockLoad(ab) \/ BlockStore(ab) \/ BlockEnd
  PROVE  Started
<1>a. {"N", "S", "I"} \subseteq CycleType /\ 0 \in Word
  BY SizeAssumption DEF CycleType, Word
<1>b. bank \in Bank /\ spsr_cur \in Psr /\ ab_e(ab) \in BOOLEAN
  BY BankType, BusType DEF CoreType
<1>c. SeqType /\ RegType /\ ReqType /\ FetchType /\ mk \in 0 .. 15 /\ x \in Latches
  BY DEF CoreType
<1>1. CASE BlockLoad(ab)
  <2>1. x.list # {} /\ "L" \in op.bits
    BY <1>1 DEF BlockLoad, Listed
  <2>2. FetchType' /\ RegType' /\ ReqType' /\ mk' = mk /\ op' = op
    BY <1>1, <1>c, HeldType, PortType
       DEF BlockLoad, requests, RegType, ReqType
  <2>3. PICK v \in Word : x' = Transferred(ab, v)
    BY <1>1, DataAssumption DEF BlockLoad
  <2>4. /\ x' \in Latches /\ ~x'.first /\ x'.list = x.list \ {bdt_r}
        /\ x'.pw_v => ~x'.ab
    BY <2>1, <2>3, TransferredType
  <2>5. CASE bdt_last
    <3>1. SeqType' /\ st' = "BDTF"
      BY <1>1, <1>a, <2>2, <2>5, StayType DEF BlockLoad, State
    <3>2. QED
      BY <1>c, <2>1, <2>2, <2>4, <3>1 DEF Started, CoreType, Waiting, Listed
  <2>6. CASE ~bdt_last
    <3>1. SeqType' /\ st' = "BDTX"
      BY <1>1, <1>a, <2>2, <2>6, StayType DEF BlockLoad, State
    <3>2. x'.list # {}
      BY <2>1, <2>4, <2>6, LowestListed DEF bdt_last
    <3>3. QED
      BY <1>c, <2>1, <2>2, <2>4, <3>1, <3>2 DEF Started, CoreType, Waiting, Listed
  <2>7. QED
    BY <2>5, <2>6
<1>2. CASE BlockStore(ab)
  <2>1. x.list # {} /\ "L" \notin op.bits /\ ~x.pw_v
    BY <1>2 DEF BlockStore, Listed, Waiting
  <2>2. FetchType' /\ RegType' /\ mk' = mk /\ in_rst' = in_rst /\ rst_exit' = rst_exit
    BY <1>2, <1>c, HeldType, PortType DEF BlockStore, RegType
  <2>3. /\ x' \in Latches /\ ~x'.pw_v /\ x'.list = x.list \ {bdt_r}
    BY <1>2, <1>a, <2>1, TransferredType DEF BlockStore
  <2>4. CASE /\ dab' = (dab \/ x.ab \/ ab_e(ab))
             /\ To("BOUND", "N") /\ Advance
    <3>1. SeqType' /\ st' = "BOUND"
      BY <1>a, <2>2, <2>4, BoundaryType DEF To
    <3>2. ReqType'
      BY <1>b, <1>c, <2>2, <2>4 DEF ReqType, Latches
    <3>3. QED
      BY <1>c, <2>2, <2>3, <3>1, <3>2, StartedUnbooked DEF Unbooked
  <2>5. CASE /\ ~bdt_last
             /\ To("BDTX", "S") /\ Stay /\ dab' = dab /\ op' = op
    <3>1. SeqType' /\ st' = "BDTX"
      BY <1>a, <2>5, StayType DEF State
    <3>2. x'.list # {}
      BY <2>1, <2>3, <2>5, LowestListed DEF bdt_last
    <3>3. ReqType'
      BY <1>c, <2>2, <2>5 DEF ReqType
    <3>4. QED
      BY <1>c, <2>2, <2>3, <3>1, <3>2, <3>3 DEF Started, CoreType, Waiting, Listed
  <2>6. QED
    BY <1>2, <2>4, <2>5 DEF BlockStore
<1>3. CASE BlockEnd
  <2> DEFINE y == NothingWaits(x)
  <2>1. y \in Latches /\ ~y.pw_v
    BY <1>c DEF NothingWaits, Latches
  <2>2. FetchType' /\ mk' = mk
    BY <1>3, HeldType DEF BlockEnd
  <2>3. rf' \in [PhysReg -> Word]
    <3>1. op.rn \in Reg /\ {x.calc, x.base} \subseteq Word
      BY <1>c DEF SeqType, Insn, Latches
    <3>2. WREG(op.rn, bank, IF "W" \in op.bits THEN x.calc ELSE x.base)
            \in [PhysReg -> Word]
      BY <1>b, <1>c, <3>1, WregType
    <3>3. QED
      BY <1>3, <1>c, <3>2, PortType DEF BlockEnd, RegType
  <2>4. ReqType'
    BY <1>3, <1>c DEF BlockEnd, ReqType, Latches
  <2>5. RegType'
    BY <1>3, <1>b, <1>c, <2>3 DEF BlockEnd, RegType
  <2>6. SeqType' /\ Unbooked' /\ st' # "BDTX"
    <3>1. CASE Refill(y, x.data)
      <4>1. x.data \in Word
        BY <1>c DEF Latches
      <4>2. QED
        BY <2>1, <3>1, <4>1, RefillType DEF Unbooked
    <3>2. CASE /\ To("BOUND", IF x.pcl THEN "N" ELSE "S") /\ Advance
               /\ x' = y
      <4>1. (IF x.pcl THEN "N" ELSE "S") \in CycleType
        BY <1>a
      <4>2. SeqType'
        BY <2>2, <3>2, <4>1, BoundaryType
      <4>3. QED
        BY <2>1, <3>2, <4>2 DEF To, Unbooked
    <3>3. QED
      BY <1>3, <3>1, <3>2 DEF BlockEnd
  <2>7. QED
    BY <1>c, <2>2, <2>4, <2>5, <2>6, StartedUnbooked
<1>4. QED
  BY <1>1, <1>2, <1>3

-----------------------------------------------------------------------------
(* The invariant *)

LEMMA InvInit == RtlInit => RtlInv
<1> SUFFICES ASSUME RtlInit
             PROVE  RtlInv
  OBVIOUS
<1>1. 0 \in Word /\ ZeroSlot \in Slot
  BY SizeAssumption DEF Word, ZeroSlot, Slot
<1>2. cpsr \in Psr /\ spsr \in [Bank -> Psr]
  BY DEF RtlInit, Psr, Mode
<1>3. taken \in Levels /\ pins \in Levels
  BY DEF RtlInit, Levels
<1>4. rf \in [PhysReg -> Word]
  BY <1>1 DEF RtlInit
<1>5. x \in Latches /\ ~x.pw_v
  BY <1>1 DEF RtlInit, Latches, PhysReg
<1>6. st = "BOUND" /\ st \in State /\ ctype \in CycleType /\ mk \in 0 .. 15
  BY DEF RtlInit, State, CycleType
<1>7. RtlTypeOK
  BY <1>1, <1>2, <1>3, <1>4, <1>5, <1>6, NoInsnType DEF RtlInit, RtlTypeOK
<1>8. QED
  BY <1>5, <1>6, <1>7 DEF RtlInv, Waiting, Listed

LEMMA InvStep == RtlInv /\ [RtlNext]_rvars => RtlInv'
<1> SUFFICES ASSUME RtlInv, [RtlNext]_rvars
             PROVE  RtlInv'
  OBVIOUS
<1>0. CoreType /\ Waiting /\ Listed /\ pins \in Levels /\ taken \in Levels
  BY CoreTypes DEF RtlInv, RtlTypeOK
<1>1. CASE Done
  <2>1. PICK ab \in Aborts : EndOfCycle(ab)
    BY <1>1 DEF Done
  <2>2. ASSUME BlockLoad(ab) \/ BlockStore(ab) \/ BlockEnd
        PROVE  Started
    BY <1>0, <2>2, BlockStep
  <2>3. ASSUME \/ DataOp2 \/ BoothStep
               \/ SwapRead(ab) \/ SwapWrite(ab) \/ SwapEnd
               \/ LoadData(ab) \/ Store(ab) \/ LoadEnd
               \/ UndefinedEntry \/ RefillTarget(ab) \/ RefillNext(ab)
        PROVE  Started
    <3>1. st \notin {"BDTX", "BDTF"}
      BY <2>3 DEF DataOp2, BoothStep, SwapRead, SwapWrite, SwapEnd, LoadData, Store,
                  LoadEnd, UndefinedEntry, RefillTarget, RefillNext
    <3>2. ~x.pw_v
      BY <1>0, <3>1 DEF Waiting
    <3>3. QED
      BY <1>0, <2>3, <3>2, LaterStep
  <2>4. ASSUME \/ DummyFetch \/ Exception \/ Skip(ab)
               \/ \E o \in Insns :
                    \/ DataOp(o, ab) \/ DataOpShift(o, ab) \/ Mrs(o, ab)
                    \/ Msr(o, ab) \/ Multiply(o, ab) \/ Swap(o, ab)
                    \/ Transfer(o, ab) \/ BlockTransfer(o, ab) \/ Branch(o, ab)
                    \/ Undefined(o) \/ Swi(o)
        PROVE  Started
    <3>1. st = "BOUND"
      BY <2>4 DEF DummyFetch, Exception, Skip, Executes, DataOp, DataOpShift, Mrs,
                  Msr, Multiply, Swap, Transfer, BlockTransfer, Branch, Undefined, Swi
    <3>2. ~x.pw_v
      BY <1>0, <3>1 DEF Waiting
    <3>3. QED
      BY <1>0, <2>4, <3>2, BoundaryStep
  <2>5. Started
    BY <2>1, <2>2, <2>3, <2>4 DEF EndOfCycle
  <2>6. fc' \in BOOLEAN /\ pins' \in Levels /\ taken' \in Levels
    BY <1>0, <1>1 DEF Done, Latch
  <2>7. QED
    BY <2>5, <2>6 DEF Started, RtlInv, RtlTypeOK, CoreType, SeqType, RegType, ReqType,
                      FetchType
<1>2. CASE Wait
  <2>1. fc' \in BOOLEAN /\ pins' \in Levels /\ taken' \in Levels
    BY <1>0, <1>2 DEF Wait, Latch
  <2>2. CoreType' /\ Waiting' /\ Listed'
    BY <1>0, <1>2 DEF Wait, regs, requests, CoreType, SeqType, RegType, ReqType,
                      FetchType, Waiting, Listed
  <2>3. QED
    BY <2>1, <2>2 DEF RtlInv, RtlTypeOK, CoreType, SeqType, RegType, ReqType, FetchType
<1>3. CASE UNCHANGED rvars
  BY <1>3 DEF rvars, regs, requests, RtlInv, RtlTypeOK, Waiting, Listed
<1>4. QED
  BY <1>1, <1>2, <1>3 DEF RtlNext

(* Every register of the RTL stays in its range, whatever it executes. *)
THEOREM RtlTypeCorrect == RtlSpec => []RtlTypeOK
<1>1. RtlInv => RtlTypeOK
  BY DEF RtlInv
<1>2. QED
  BY InvInit, InvStep, <1>1, PTL DEF RtlSpec

(* The write port has one use in every clock of every block transfer, also   *)
(* with the base in the list, an empty list and aborts in any transfer.      *)
THEOREM PortCorrect == RtlSpec => []PortFree
<1>1. RtlInv => PortFree
  BY DEF RtlInv, Waiting, PortFree, BaseBooked
<1>2. QED
  BY InvInit, InvStep, <1>1, PTL DEF RtlSpec

-----------------------------------------------------------------------------
(* The register file: the bypass makes the array a plain file under every    *)
(* sequence of writes and resets, and so under those of the core, which      *)
(* writes one register in a clock at most.                                   *)

FileTypeOK ==
  /\ rf \in [PhysReg -> Word] /\ mem \in [PhysReg -> Word]
  /\ late \in Write /\ lw \in Write

(* The array is one write behind, and the bypass holds that write or none *)
OneBehind ==
  /\ rf = Taken(mem, late)
  /\ lw.v => lw = late

LEMMA TakenType ==
  ASSUME NEW f \in [PhysReg -> Word], NEW w \in Write
  PROVE  Taken(f, w) \in [PhysReg -> Word]
BY DEF Taken, Write

LEMMA FileStep ==
  ASSUME FileTypeOK, OneBehind, NEW w \in Write, NEW rst \in BOOLEAN,
         FileClock(w, rst)
  PROVE  FileTypeOK' /\ OneBehind'
<1>1. lw' \in Write /\ (lw'.v => lw' = w)
  BY DEF FileClock, Latched, Write
<1>2. FileTypeOK'
  BY <1>1, TakenType DEF FileClock, FileTypeOK
<1>3. OneBehind'
  BY <1>1 DEF FileClock, OneBehind
<1>4. QED
  BY <1>2, <1>3

LEMMA CurrentPorts ==
  ASSUME FileTypeOK, OneBehind PROVE ReadsCurrent
<1> SUFFICES ASSUME late.v => lw.v, NEW r \in PhysReg PROVE Port(r) = {rf[r]}
  BY DEF ReadsCurrent
<1>1. CASE late.v /\ late.a = r
  <2>1. lw.v /\ lw = late
    BY <1>1 DEF OneBehind
  <2>2. rf[r] = late.d
    BY <1>1 DEF OneBehind, Taken, FileTypeOK
  <2>3. QED
    BY <1>1, <2>1, <2>2 DEF Port
<1>2. CASE ~(late.v /\ late.a = r)
  <2>1. ~(lw.v /\ lw.a = r)
    BY <1>2 DEF OneBehind
  <2>2. rf[r] = mem[r]
    BY <1>2 DEF OneBehind, Taken, FileTypeOK
  <2>3. QED
    BY <1>2, <2>1, <2>2 DEF Port, Stored
<1>3. QED
  BY <1>1, <1>2

(* A read gives the last value written, whenever it comes, whoever writes.  *)
THEOREM ReadsCorrect == FileSpec => []ReadsCurrent
<1>1. FileInit => FileTypeOK /\ OneBehind
  BY DEF FileInit, FileTypeOK, OneBehind, Taken
<1>2. FileTypeOK /\ OneBehind /\ [FileNext]_fvars => FileTypeOK' /\ OneBehind'
  <2> SUFFICES ASSUME FileTypeOK, OneBehind, [FileNext]_fvars
               PROVE  FileTypeOK' /\ OneBehind'
    OBVIOUS
  <2>1. CASE FileNext
    BY <2>1, FileStep DEF FileNext
  <2>2. CASE UNCHANGED fvars
    BY <2>2 DEF fvars, FileTypeOK, OneBehind, Taken
  <2>3. QED
    BY <2>1, <2>2
<1>3. FileTypeOK /\ OneBehind => ReadsCurrent
  BY CurrentPorts
<1>4. QED
  BY <1>1, <1>2, <1>3, PTL DEF FileSpec

-----------------------------------------------------------------------------
(* The core under it: a clock writes one register or none.                   *)

One(g) == g = rf \/ \E r \in PhysReg, v \in Word : g = [rf EXCEPT ![r] = v]

LEMMA WregOne ==
  ASSUME NEW r \in Reg, NEW b \in Bank, NEW v \in Word
  PROVE  One(WREG(r, b, v))
BY PhysType DEF One, WREG

(* The register that waits is one register too *)
LEMMA PendingOne == ASSUME CoreType PROVE One(PendingWritten)
BY DEF One, PendingWritten, CoreType, Latches

LEMMA EnterOne ==
  ASSUME CoreType, NEW e \in {"rexit", "dab", "fiq", "irq", "pab", "swi"}, Enter(e)
  PROVE  One(rf')
<1>1. rf' = WREG("r14", Vectored[e].mode, Dec(pc))
  BY DEF Enter
<1>2. Dec(pc) \in Word /\ "r14" \in Reg /\ Vectored[e].mode \in Bank
  BY VectorType, IncType DEF CoreType, FetchType, Reg
<1>3. QED
  BY <1>1, <1>2, WregOne

LEMMA DataDoneOne ==
  ASSUME CoreType, NEW o \in Insn, DataDone(o)
  PROVE  One(rf')
<1>1. o.rn \in Reg /\ o.rd \in Reg /\ o.n \in Int
  BY DEF Insn
<1>2. Plus(Read(o.rn), o.n) \in Word /\ bank \in Bank
  BY <1>1, ReadType, BankType, PlusType DEF CoreType, Word
<1>3. rf' = rf \/ rf' = WREG(o.rd, bank, Plus(Read(o.rn), o.n))
  BY DEF DataDone
<1>4. QED
  BY <1>1, <1>2, <1>3, WregOne DEF One

LEMMA BoundaryOne ==
  ASSUME CoreType, NEW ab \in Aborts,
         \/ DummyFetch \/ Exception \/ Skip(ab)
         \/ \E o \in Insns :
              \/ DataOp(o, ab) \/ DataOpShift(o, ab) \/ Mrs(o, ab) \/ Msr(o, ab)
              \/ Multiply(o, ab) \/ Swap(o, ab) \/ Transfer(o, ab)
              \/ BlockTransfer(o, ab) \/ Branch(o, ab) \/ Undefined(o) \/ Swi(o)
  PROVE  One(rf')
<1>0. bank \in Bank /\ 0 \in Word
  BY BankType, SizeAssumption DEF CoreType, Word
<1>1. CASE DummyFetch \/ Skip(ab)
  BY <1>1 DEF DummyFetch, Skip, regs, One
<1>2. CASE Exception
  BY <1>2, EnterOne DEF Exception
<1>3. ASSUME NEW o \in Insns,
             \/ DataOpShift(o, ab) \/ Msr(o, ab) \/ Swap(o, ab)
             \/ Transfer(o, ab) \/ BlockTransfer(o, ab) \/ Undefined(o)
      PROVE  One(rf')
  BY <1>3 DEF DataOpShift, Msr, Swap, Transfer, BlockTransfer, Undefined,
     regs, One
<1>4. ASSUME NEW o \in Insns, DataOp(o, ab) PROVE One(rf')
  BY <1>4, DataDoneOne, InsnAssumption DEF DataOp
<1>5. ASSUME NEW o \in Insns, Mrs(o, ab) PROVE One(rf')
  <2>1. PICK v \in Data : rf' = rf \/ rf' = WREG(o.rd, bank, v)
    BY <1>5 DEF Mrs
  <2>2. o.rd \in Reg /\ v \in Word
    BY InsnAssumption, DataAssumption DEF Insn
  <2>3. QED
    BY <1>0, <2>1, <2>2, WregOne DEF One
<1>6. ASSUME NEW o \in Insns, Multiply(o, ab) PROVE One(rf')
  <2>1. rf' = WREG(o.rd, bank, IF "A" \in o.bits THEN Read(o.rn) ELSE 0)
    BY <1>6 DEF Multiply
  <2>2. o.rd \in Reg /\ o.rn \in Reg
    BY InsnAssumption DEF Insn
  <2>3. Read(o.rn) \in Word
    BY <2>2, ReadType DEF CoreType
  <2>4. QED
    BY <1>0, <2>1, <2>2, <2>3, WregOne
<1>7. ASSUME NEW o \in Insns, Branch(o, ab) PROVE One(rf')
  <2>1. rf' = rf \/ rf' = WREG("r14", bank, Dec(pc))
    BY <1>7 DEF Branch
  <2>2. Dec(pc) \in Word /\ "r14" \in Reg
    BY IncType DEF CoreType, FetchType, Reg
  <2>3. QED
    BY <1>0, <2>1, <2>2, WregOne DEF One
<1>8. ASSUME NEW o \in Insns, Swi(o) PROVE One(rf')
  BY <1>8, EnterOne DEF Swi
<1>9. QED
  BY <1>1, <1>2, <1>3, <1>4, <1>5, <1>6, <1>7, <1>8

LEMMA LaterOne ==
  ASSUME CoreType, NEW ab \in Aborts,
         \/ DataOp2 \/ BoothStep
         \/ SwapRead(ab) \/ SwapWrite(ab) \/ SwapEnd
         \/ LoadData(ab) \/ Store(ab) \/ LoadEnd
         \/ BlockLoad(ab) \/ BlockStore(ab) \/ BlockEnd
         \/ UndefinedEntry \/ RefillTarget(ab) \/ RefillNext(ab)
  PROVE  One(rf')
<1>0. /\ bank \in Bank /\ op \in Insn /\ op.rd \in Reg /\ op.rn \in Reg
      /\ x.data \in Word /\ x.calc \in Word /\ x.base \in Word
  BY BankType DEF CoreType, SeqType, Insn, Latches
<1>1. CASE SwapRead(ab) \/ SwapWrite(ab) \/ RefillTarget(ab) \/ RefillNext(ab)
  BY <1>1 DEF SwapRead, SwapWrite, RefillTarget, RefillNext, regs, One
<1>2. CASE DataOp2
  BY <1>0, <1>2, DataDoneOne DEF DataOp2
<1>3. CASE BoothStep
  <2>1. PICK v \in Data : rf' = WREG(op.rd, bank, v)
    BY <1>3 DEF BoothStep
  <2>2. QED
    BY <1>0, <2>1, WregOne, DataAssumption
<1>4. CASE SwapEnd \/ LoadEnd
  <2>1. rf' = rf \/ rf' = WREG(op.rd, bank, x.data)
    BY <1>4 DEF SwapEnd, LoadEnd
  <2>2. QED
    BY <1>0, <2>1, WregOne DEF One
<1>5. CASE LoadData(ab) \/ Store(ab)
  <2>1. rf' = rf \/ rf' = WREG(op.rn, bank, x.calc)
    BY <1>5 DEF LoadData, Store, BaseWritten
  <2>2. QED
    BY <1>0, <2>1, WregOne DEF One
<1>6. CASE BlockLoad(ab) \/ BlockStore(ab) \/ BlockEnd
  <2>1. \/ rf' = rf \/ rf' = PendingWritten
        \/ rf' = WREG(op.rn, bank, x.calc) \/ rf' = WREG(op.rn, bank, x.base)
    BY <1>6 DEF BlockLoad, BlockStore, BlockEnd, BlockPort
  <2>2. QED
    BY <1>0, <2>1, WregOne, PendingOne DEF One
<1>7. CASE UndefinedEntry
  <2>1. rf' = WREG("r14", "UND", Dec(pc))
    BY <1>7 DEF UndefinedEntry
  <2>2. Dec(pc) \in Word /\ "r14" \in Reg /\ "UND" \in Bank
    BY IncType DEF CoreType, FetchType, Reg, Bank
  <2>3. QED
    BY <2>1, <2>2, WregOne
<1>8. QED
  BY <1>1, <1>2, <1>3, <1>4, <1>5, <1>6, <1>7

LEMMA ClockOne == ASSUME RtlInv, RtlNext PROVE One(rf')
<1>1. CoreType
  BY CoreTypes DEF RtlInv
<1>2. CASE Done
  <2>1. PICK ab \in Aborts : EndOfCycle(ab)
    BY <1>2 DEF Done
  <2>2. QED
    BY <1>1, <2>1, BoundaryOne, LaterOne DEF EndOfCycle
<1>3. CASE Wait
  BY <1>3 DEF Wait, regs, One
<1>4. QED
  BY <1>2, <1>3 DEF RtlNext

(* So the write port as Driven finds it makes the clock's whole change.      *)
LEMMA NoWriteType == NoWrite \in Write
BY SizeAssumption DEF NoWrite, Write, PhysReg, Word

LEMMA DrivenAll ==
  ASSUME rf \in [PhysReg -> Word], One(rf')
  PROVE  Driven \in Write /\ rf' = Taken(rf, Driven)
<1>1. CASE rf' = rf
  BY <1>1, NoWriteType DEF Driven, Taken, NoWrite
<1>2. CASE rf' # rf
  <2> DEFINE a == CHOOSE r \in PhysReg : rf'[r] # rf[r]
  <2>1. PICK r \in PhysReg, v \in Word : rf' = [rf EXCEPT ![r] = v]
    BY <1>2 DEF One
  <2>2. rf'[r] = v /\ rf[r] # v
    BY <1>2, <2>1
  <2>3. a = r
    <3>1. a \in PhysReg /\ rf'[a] # rf[a]
      BY <2>2
    <3>2. QED
      BY <2>1, <3>1
  <2>4. Driven = [v |-> TRUE, a |-> r, d |-> v]
    BY <1>2, <2>2, <2>3 DEF Driven
  <2>5. QED
    BY <2>1, <2>4 DEF Taken, Write
<1>3. QED
  BY <1>1, <1>2

OnFileInv == RtlInv /\ FileTypeOK /\ OneBehind /\ (late.v => lw.v)

LEMMA OnFileStep ==
  ASSUME OnFileInv, [Enabled \/ Disabled]_<<rvars, files>>
  PROVE  OnFileInv'
<1>1. CASE Enabled
  <2>1. RtlInv'
    BY <1>1, InvStep DEF Enabled, OnFileInv
  <2>2. Driven \in Write
    BY <1>1, ClockOne, DrivenAll DEF Enabled, OnFileInv, FileTypeOK
  <2>3. FileTypeOK' /\ OneBehind'
    BY <1>1, <2>2, FileStep DEF Enabled, OnFileInv
  <2>4. late'.v => lw'.v
    BY <1>1, <2>2 DEF Enabled, FileClock, Latched, Write
  <2>5. QED
    BY <2>1, <2>3, <2>4 DEF OnFileInv
<1>2. CASE Disabled
  <2>1. RtlInv'
    BY <1>2, InvStep DEF Disabled, OnFileInv
  <2>2. FileTypeOK' /\ OneBehind'
    BY <1>2, NoWriteType, FileStep DEF Disabled, OnFileInv
  <2>3. ~late'.v
    BY <1>2 DEF Disabled, FileClock, NoWrite
  <2>4. QED
    BY <2>1, <2>2, <2>3 DEF OnFileInv
<1>3. CASE UNCHANGED <<rvars, files>>
  <2>1. RtlInv'
    BY <1>3, InvStep DEF OnFileInv
  <2>2. rf' = rf /\ mem' = mem /\ late' = late /\ lw' = lw
    BY <1>3 DEF rvars, files
  <2>3. QED
    BY <2>1, <2>2 DEF OnFileInv, FileTypeOK, OneBehind, Taken
<1>4. QED
  BY <1>1, <1>2, <1>3

(* Every read of the core gives what its program last wrote, through wait    *)
(* clocks and clocks of ce = 0: the whole of a clock's change goes through   *)
(* the one write port, and the bypass holds each write while the array is    *)
(* late.                                                                     *)
THEOREM OnFileCorrect == OnFileSpec => [](ReadsCurrent /\ (late.v => lw.v))
<1>1. RtlInit /\ AtRest => OnFileInv
  <2> SUFFICES ASSUME RtlInit, AtRest PROVE OnFileInv
    OBVIOUS
  <2>1. RtlInv /\ rf \in [PhysReg -> Word]
    BY InvInit DEF RtlInv, RtlTypeOK
  <2>2. QED
    BY <2>1, NoWriteType
    DEF AtRest, OnFileInv, FileTypeOK, OneBehind, Taken, NoWrite
<1>2. OnFileInv => ReadsCurrent /\ (late.v => lw.v)
  BY CurrentPorts DEF OnFileInv
<1>3. QED
  BY <1>1, <1>2, OnFileStep, PTL DEF OnFileSpec

-----------------------------------------------------------------------------
(* The two cores' words, registers and instructions are the same *)

LEMMA SameArch ==
  /\ M!Word = Word /\ M!Reg = Reg /\ M!Slot = Slot /\ M!Insn = Insn
  /\ M!NoInsn = NoInsn /\ M!ZeroSlot = ZeroSlot
BY DEF M!Word, Word, M!Reg, Reg, M!Slot, Slot, M!Insn, Insn, M!Class, Class,
       M!Bits, Bits, M!NoInsn, NoInsn, M!ZeroSlot, ZeroSlot

LEMMA SameOperators ==
  /\ \A a, n : M!Plus(a, n) = Plus(a, n)
  /\ \A a : M!Inc(a) = Inc(a) /\ M!Dec(a) = Dec(a)
  /\ \A r, b : M!Phys(r, b) = Phys(r, b)
  /\ \A m : M!BankOf(m) = BankOf(m)
BY DEF M!Plus, Plus, M!Inc, Inc, M!Dec, Dec, M!Phys, Phys, M!BankOf, BankOf

LEMMA SameFields ==
  \A o : /\ M!WritesPC(o) <=> WritesPC(o)
         /\ M!WritesBack(o) <=> WritesBack(o)
         /\ M!List(o) = List(o) 
         /\ M!UserBank(o) <=> UserBank(o)
BY DEF M!WritesPC, WritesPC, M!WritesBack, WritesBack, M!List, List,
       M!UserBank, UserBank
LEMMA SameWords ==
  \A o : M!Words(o) = Words(o) 
BY DEF M!Words, Words, M!Cardinality, Cardinality

-----------------------------------------------------------------------------
(* The latches of the model: two with the same fields are the same *)

InFlight ==
  [op : Insn, at : Word, addr : Word, base : Word, wbv : Word, ab : BOOLEAN,
   rest : SUBSET Reg, target : Word, fa : Slot]

LEMMA SameLatches ==
  ASSUME NEW y \in InFlight, NEW z \in InFlight,
         y.op = z.op, y.at = z.at, y.addr = z.addr, y.base = z.base,
         y.wbv = z.wbv, y.ab = z.ab, y.rest = z.rest, y.target = z.target,
         y.fa = z.fa
  PROVE  y = z
BY DEF InFlight

LEMMA ZeroTypes == 0 \in Word /\ ZeroSlot \in Slot /\ NoInsn \in Insn
<1>1. 0 \in Word
  BY SizeAssumption DEF Word
<1>2. QED
  BY <1>1, NoInsnType DEF ZeroSlot, Slot

LEMMA RetiredIs ==
  ASSUME NEW a \in Word
  PROVE  LET y == M!Retired(a) IN
           /\ y \in InFlight
           /\ y.op = NoInsn /\ y.at = a /\ y.addr = 0 /\ y.base = 0 /\ y.wbv = 0
           /\ y.ab = FALSE /\ y.rest = {} /\ y.target = 0 /\ y.fa = ZeroSlot
BY ZeroTypes, SameArch DEF M!Retired, M!Clear, InFlight

LEMMA DecodedIs ==
  ASSUME NEW o \in Insn, ex.addr \in Word
  PROVE  LET y == M!Decoded(o) IN
           /\ y \in InFlight
           /\ y.op = o /\ y.at = ex.addr /\ y.addr = 0 /\ y.base = 0 /\ y.wbv = 0
           /\ y.ab = FALSE /\ y.rest = {} /\ y.target = 0 /\ y.fa = ZeroSlot
<1> DEFINE z == M!Retired(ex.addr)
<1>1. /\ z \in InFlight
      /\ z.op = NoInsn /\ z.at = ex.addr /\ z.addr = 0 /\ z.base = 0 /\ z.wbv = 0
      /\ z.ab = FALSE /\ z.rest = {} /\ z.target = 0 /\ z.fa = ZeroSlot
  BY RetiredIs
<1>2. M!Decoded(o) = [z EXCEPT !.op = o]
  BY DEF M!Decoded
<1> HIDE DEF z
<1>3. QED
  BY <1>1, <1>2 DEF InFlight

(* The latches of each state *)
LEMMA LatchesAre ==
  /\ XOf.op = IF st \in Running THEN op ELSE NoInsn
  /\ XOf.at = at
  /\ XOf.addr = IF st \in {"SWP1", "SWP2", "SWP3", "SDT2", "SDT3", "BDTX", "BDTF"}
                THEN x.addr ELSE IF st = "UND2" THEN pc ELSE 0
  /\ XOf.base = IF st \in {"BDTX", "BDTF"} THEN x.base
                ELSE IF st \in {"SDT2", "SDT3"} THEN Undone ELSE 0
  /\ XOf.wbv = IF st \in {"SDT2", "SDT3", "BDTX", "BDTF"} THEN x.calc ELSE 0
  /\ XOf.ab = (st \in {"SWP2", "SWP3", "SDT3", "BDTX", "BDTF"} /\ x.ab)
  /\ XOf.rest = IF st = "BDTX" THEN x.list ELSE {}
  /\ XOf.target = IF st = "REF0" THEN x.addr
                  ELSE IF st = "REF1" THEN Dec(x.addr) ELSE 0
  /\ XOf.fa = IF st = "REF1" THEN [addr |-> x.data, abort |-> x.fab] ELSE ZeroSlot
BY DEF XOf

LEMMA UndoneType ==
  ASSUME CoreType
  PROVE  Undone \in Word
<1>1. x.calc \in Word /\ op.n \in Int /\ -op.n \in Int
  BY DEF CoreType, SeqType, Latches, Insn
<1>2. QED
  BY <1>1, PlusType DEF Undone

LEMMA LatchesType ==
  ASSUME CoreType, at \in Word
  PROVE  XOf \in InFlight
<1>1. /\ x.addr \in Word /\ x.base \in Word /\ x.calc \in Word /\ x.ab \in BOOLEAN
      /\ x.list \in SUBSET Reg /\ [addr |-> x.data, abort |-> x.fab] \in Slot
  BY DEF CoreType, Latches, Slot
<1>2. op \in Insn /\ pc \in Word /\ Undone \in Word /\ Dec(x.addr) \in Word
  BY <1>1, UndoneType, IncType DEF CoreType, SeqType, FetchType
<1> DEFINE o == IF st \in Running THEN op ELSE NoInsn
           addr == IF st \in {"SWP1", "SWP2", "SWP3", "SDT2", "SDT3", "BDTX", "BDTF"}
                   THEN x.addr ELSE IF st = "UND2" THEN pc ELSE 0
           base == CASE st \in {"BDTX", "BDTF"} -> x.base
                     [] st \in {"SDT2", "SDT3"} -> Undone [] OTHER -> 0
           wbv == IF st \in {"SDT2", "SDT3", "BDTX", "BDTF"} THEN x.calc ELSE 0
           ab == st \in {"SWP2", "SWP3", "SDT3", "BDTX", "BDTF"} /\ x.ab
           rest == IF st = "BDTX" THEN x.list ELSE {}
           target == CASE st = "REF0" -> x.addr [] st = "REF1" -> Dec(x.addr)
                       [] OTHER -> 0
           fa == IF st = "REF1" THEN [addr |-> x.data, abort |-> x.fab] ELSE ZeroSlot
<1>3. /\ o \in Insn /\ addr \in Word /\ base \in Word /\ wbv \in Word
      /\ ab \in BOOLEAN /\ rest \in SUBSET Reg /\ target \in Word /\ fa \in Slot
  BY <1>1, <1>2, ZeroTypes
<1>4. XOf = [op |-> o, at |-> at, addr |-> addr, base |-> base, wbv |-> wbv,
             ab |-> ab, rest |-> rest, target |-> target, fa |-> fa]
  BY DEF XOf
<1> HIDE DEF o, addr, base, wbv, ab, rest, target, fa
<1>5. QED
  BY <1>3, <1>4 DEF InFlight

LEMMA LatchesStay == (CoreType /\ at \in Word => XOf \in InFlight)'
<1>1. CoreType /\ at \in Word => XOf \in InFlight
  BY LatchesType
<1>2. QED
  BY <1>1, PTL

LEMMA LatchesNext ==
  ASSUME CoreType', at' \in Word
  PROVE  XOf' \in InFlight
BY LatchesStay

(* Sequence and cycle of each state *)
SequenceAt(s, q, n) == st = s => SeqOf = q /\ KOf = n

LEMMA SequenceIs ==
  /\ SequenceAt("BOUND", "IDLE", 0) /\ SequenceAt("DP2", "DP", 1)
  /\ SequenceAt("MUL", "MUL", mk + 1)
  /\ SequenceAt("SWP1", "SWP", 1) /\ SequenceAt("SWP2", "SWP", 2)
  /\ SequenceAt("SWP3", "SWP", 3)
  /\ SequenceAt("SDT2", "SDT", 1) /\ SequenceAt("SDT3", "SDT", 2)
  /\ SequenceAt("BDTX", "BDT", 1) /\ SequenceAt("BDTF", "BDT", 1)
  /\ SequenceAt("UND2", "UNDEF", 1)
  /\ SequenceAt("REF0", "REFILL", 0) /\ SequenceAt("REF1", "REFILL", 1)
BY DEF SequenceAt, SeqOf, KOf

(* Flags of each state *)
LEMMA FlagsAre ==
  /\ st \in {"BOUND", "UND2", "REF0", "REF1"} => bus_flags = M!Fetching
  /\ st \in {"DP2", "MUL", "SWP3", "SDT3", "BDTF"} => bus_flags = M!UserFlag
  /\ st = "SWP1" => bus_flags = {"LOCK"} \cup M!UserFlag
  /\ st = "SWP2" => bus_flags = {"LOCK", "WRITE"} \cup M!UserFlag
  /\ st = "SDT2" /\ "L" \in op.bits => bus_flags = M!TransferFlags
  /\ st = "SDT2" /\ "L" \notin op.bits =>
       bus_flags = {"WRITE"} \cup M!TransferFlags
  /\ st = "BDTX" /\ "L" \in op.bits => bus_flags = M!UserFlag
  /\ st = "BDTX" /\ "L" \notin op.bits => bus_flags = {"WRITE"} \cup M!UserFlag
BY LatchesAre
   DEF bus_flags, BusFlag, M!Fetching, M!UserFlag, M!TransferFlags, umode, Running

-----------------------------------------------------------------------------
(* The boundary *)

(* Both cores see the same inputs *)
Hears == \A i \in {"hold", "fiq", "irq"} : Sampled(i) = told[i]

ResetExit == rst_exit \/ (in_rst /\ ~told.hold)

LEMMA RequestsAre ==
  M!Requests = {e \in {"hold", "reset", "dabt", "fiq", "irq", "pabt"} :
                  \/ e = "hold"  /\ told.hold
                  \/ e = "reset" /\ ResetExit
                  \/ e = "dabt"  /\ dab
                  \/ e = "fiq"   /\ told.fiq /\ ~cpsr.f
                  \/ e = "irq"   /\ told.irq /\ ~cpsr.i
                  \/ e = "pabt"  /\ ex.abort}
BY DEF M!Requests, M!Rank, ResetExit

LEMMA RanksAre ==
  /\ M!Rank["hold"] = 0 /\ M!Rank["reset"] = 1 /\ M!Rank["dabt"] = 2
  /\ M!Rank["fiq"] = 3 /\ M!Rank["irq"] = 4 /\ M!Rank["pabt"] = 5
BY DEF M!Rank

LEMMA PicksIs ==
  ASSUME st = "BOUND", Hears
  PROVE  /\ d_hold => M!Picks("hold")
         /\ d_rexit => M!Picks("reset")
         /\ d_dab => M!Picks("dabt")
         /\ d_fiq => M!Picks("fiq")
         /\ d_irq => M!Picks("irq")
         /\ d_pab => M!Picks("pabt")
         /\ d_ins => M!Requests = {}
         /\ d_hold => told.hold
         /\ ~d_hold => ~told.hold
<1>1. /\ Sampled("hold") = told.hold /\ Sampled("fiq") = told.fiq
      /\ Sampled("irq") = told.irq
  BY DEF Hears
<1>2. M!AtBoundary
  BY SequenceIs DEF SequenceAt, M!AtBoundary
<1>3. QED
  BY <1>1, <1>2, RequestsAre, RanksAre
     DEF M!Picks, d_hold, d_rexit, d_dab, d_fiq, d_irq, d_pab, d_ins, TakesFiq,
         TakesIrq, ResetExit

-----------------------------------------------------------------------------
(* The parts of a step *)

(* What the testbench sees of the end of a cycle *)
Seen ==
  /\ bus' = [addr |-> bus_addr, type |-> ctype, flags |-> bus_flags]
  /\ told' = told
  /\ at' = IF Executing THEN ex.addr ELSE at

(* A step of the RTL core in a known state; its types hold after it *)
Stepping(ab) ==
  /\ CoreType /\ CoreType' /\ at \in Word /\ at' \in Word
  /\ ab \in Aborts /\ Seen

LEMMA CycleIs ==
  ASSUME Seen, NEW next, ctype' = next
  PROVE  M!Cycle(bus_addr, bus_flags, next)
BY DEF Seen, M!Cycle, M!inputs

LEMMA LaterCycleIs ==
  ASSUME Seen, NEW next, ctype' = next, Held
  PROVE  M!LaterCycle(bus_addr, bus_flags, next)
BY CycleIs DEF Held, M!LaterCycle

LEMMA AbortIs ==
  ASSUME CoreType, NEW ab \in Aborts
  PROVE  M!LastAbort(ab) = ab_e(ab)
<1>1. ctype \in CycleType /\ ab \in BOOLEAN
  BY AbortAssumption DEF CoreType, SeqType
<1>2. QED
  BY <1>1 DEF M!LastAbort, ab_e, bus_req, CycleType

LEMMA FetchIs ==
  ASSUME NEW ab, Stepping(ab), st = "BOUND", Capture(ab), NEW next, ctype' = next
  PROVE  M!Cycle1Fetch(next)
<1>1. bus_addr = pc /\ bus_flags = M!Fetching
  BY FlagsAre DEF bus_addr
<1>2. M!Cycle(pc, M!Fetching, next)
  BY <1>1, CycleIs DEF Stepping
<1>3. M!LastAbort(ab) = ab_e(ab) /\ ab \in Aborts
  BY AbortIs DEF Stepping
<1>4. f1' = [addr |-> pc, abort |-> M!LastAbort(ab)] /\ pc' = M!Inc(pc)
  BY <1>1, <1>3, SameOperators DEF Capture, Fetched
<1>5. QED
  BY <1>2, <1>3, <1>4 DEF M!Cycle1Fetch

(* The end of an instruction *)
LEMMA FinishIs ==
  ASSUME NEW ab, Stepping(ab), NEW type, To("BOUND", type), Advance,
         st # "REF1", st = "BOUND" => ~d_hold
  PROVE  M!Finish
<1>1. st' = "BOUND" /\ ex' = de /\ de' = f1'
  BY DEF To, Advance
<1>2. at' = ex.addr
  BY <1>1 DEF Stepping, Seen, Executing
<1>3. SeqOf' = "IDLE" /\ KOf' = 0
  BY <1>1 DEF SeqOf, KOf
<1>4. XOf' \in InFlight
  BY LatchesNext DEF Stepping
<1>5. /\ XOf'.op = NoInsn /\ XOf'.at = at' /\ XOf'.addr = 0 /\ XOf'.base = 0
      /\ XOf'.wbv = 0 /\ XOf'.ab = FALSE /\ XOf'.rest = {} /\ XOf'.target = 0
      /\ XOf'.fa = ZeroSlot
  BY <1>1 DEF XOf, Running
<1>6. XOf' = M!Retired(at')
  <2> DEFINE z == M!Retired(at')
  <2>1. /\ z \in InFlight
        /\ z.op = NoInsn /\ z.at = at' /\ z.addr = 0 /\ z.base = 0 /\ z.wbv = 0
        /\ z.ab = FALSE /\ z.rest = {} /\ z.target = 0 /\ z.fa = ZeroSlot
    BY RetiredIs DEF Stepping
  <2> HIDE DEF z
  <2>2. XOf' = z
    BY <1>4, <1>5, <2>1, SameLatches
  <2>3. QED
    BY <2>2 DEF z
<1>7. QED
  BY <1>1, <1>2, <1>3, <1>6 DEF M!Finish

(* A write to R15 *)
LEMMA RefillIs ==
  ASSUME NEW ab, Stepping(ab), NEW y \in Latches, NEW target \in Word,
         Refill(y, target)
  PROVE  M!StartRefill(target) /\ ctype' = "N"
<1>1. /\ st' = "REF0" /\ x'.addr = target /\ ex' = ex /\ de' = de
      /\ ctype' = "N"
  BY DEF Refill, To, Stay, Latches
<1>2. at' = at
  BY <1>1 DEF Stepping, Seen, Executing, Running
<1>3. SeqOf' = "REFILL" /\ KOf' = 0
  BY <1>1 DEF SeqOf, KOf
<1>4. XOf' \in InFlight
  BY LatchesNext DEF Stepping
<1>5. /\ XOf'.op = NoInsn /\ XOf'.at = at' /\ XOf'.addr = 0 /\ XOf'.base = 0
      /\ XOf'.wbv = 0 /\ XOf'.ab = FALSE /\ XOf'.rest = {}
      /\ XOf'.target = x'.addr /\ XOf'.fa = ZeroSlot
  BY <1>1 DEF XOf, Running
<1>6. XOf' = [M!Retired(XOf.at) EXCEPT !.target = target]
  <2> DEFINE z == M!Retired(XOf.at)
  <2>1. XOf.at = at
    BY LatchesAre
  <2>2. /\ z \in InFlight
        /\ z.op = NoInsn /\ z.at = at /\ z.addr = 0 /\ z.base = 0 /\ z.wbv = 0
        /\ z.ab = FALSE /\ z.rest = {} /\ z.target = 0 /\ z.fa = ZeroSlot
    BY <2>1, RetiredIs DEF Stepping
  <2> HIDE DEF z
  <2> DEFINE w == [z EXCEPT !.target = target]
  <2>3. /\ w \in InFlight
        /\ w.op = NoInsn /\ w.at = at /\ w.addr = 0 /\ w.base = 0 /\ w.wbv = 0
        /\ w.ab = FALSE /\ w.rest = {} /\ w.target = target /\ w.fa = ZeroSlot
    BY <2>2 DEF InFlight
  <2> HIDE DEF w
  <2>4. XOf' = w
    BY <1>1, <1>2, <1>4, <1>5, <2>3, SameLatches
  <2>5. QED
    BY <2>4 DEF w, z
<1>7. QED
  BY <1>1, <1>3, <1>6 DEF M!StartRefill, M!Continue, M!stages

(* The registers: no register waits outside a block transfer *)
LEMMA GprIs == ~x.pw_v => GprOf = rf
BY DEF GprOf

LEMMA ReadIs ==
  ASSUME ~x.pw_v
  PROVE  /\ M!CurBank = bank /\ M!ReturnedPsr = spsr_cur
         /\ \A r : M!Val(r) = Read(r)
         /\ \A r, b, v : M!SetBank(GprOf, r, b, v) = WREG(r, b, v)
         /\ \A r, v : M!SetReg(GprOf, r, v) = WREG(r, bank, v)
BY GprIs, SameOperators
   DEF M!CurBank, bank, M!ReturnedPsr, spsr_cur, M!Val, Read, M!SetBank, WREG,
       M!SetReg

-----------------------------------------------------------------------------
(* The cycles of a boundary *)

Boundary(ab) == Stepping(ab) /\ st = "BOUND" /\ Hears /\ ~x.pw_v

LEMMA BoundaryIs ==
  ASSUME NEW ab, Boundary(ab)
  PROVE  /\ SeqOf = "IDLE" /\ KOf = 0 /\ GprOf = rf /\ M!AtBoundary
         /\ bus_addr = pc /\ bus_flags = M!Fetching
         /\ x \in Latches /\ ab \in Aborts
BY SequenceIs, FlagsAre, GprIs
   DEF Boundary, SequenceAt, M!AtBoundary, bus_addr, Stepping, CoreType

LEMMA DummyFetchIs ==
  ASSUME NEW ab, Boundary(ab), DummyFetch
  PROVE  M!ResetCycle
<1>1. /\ d_hold /\ in_rst' = TRUE /\ pc' = Inc(pc) /\ st' = "BOUND" /\ ctype' = "S"
      /\ st = "BOUND"
      /\ UNCHANGED <<mk, rf, cpsr, spsr, ex, de, f1, dab, rst_exit, op, x>>
  BY DEF DummyFetch, To, regs
<1>2. told' = told /\ at' = at /\ Seen
  BY <1>1 DEF Boundary, Stepping, Seen, Executing, Running
<1>3. M!Picks("hold") /\ told.hold
  BY <1>1, PicksIs DEF Boundary
<1>4. M!Cycle(pc, M!Fetching, "S")
  BY <1>1, <1>2, CycleIs, BoundaryIs
<1>5. SeqOf' = SeqOf /\ KOf' = KOf
  BY <1>1 DEF SeqOf, KOf
<1>6. XOf' = XOf
  BY <1>1, <1>2 DEF XOf, Undone, Running
<1>7. GprOf' = GprOf
  BY <1>1 DEF GprOf, PendingWritten
<1>8. (rst_exit \/ (in_rst /\ ~told.hold))' = (rst_exit \/ (in_rst /\ ~told.hold))
  BY <1>1, <1>2, <1>3
<1>9. QED
  BY <1>1, <1>3, <1>4, <1>5, <1>6, <1>7, <1>8, SameOperators
     DEF M!ResetCycle, M!regs, M!stages, M!requests

(* The entry the model makes for one of the RTL *)
ModelEntry == [rexit |-> "reset", dab |-> "dabt", fiq |-> "fiq", irq |-> "irq",
               pab |-> "pabt", swi |-> "swi"]

LEMMA EntriesAre ==
  ASSUME NEW e \in {"rexit", "dab", "fiq", "irq", "pab", "swi"}
  PROVE  /\ M!Entry[ModelEntry[e]].vector = Vectored[e].vec
         /\ M!Entry[ModelEntry[e]].mode = Vectored[e].mode
         /\ M!Entry[ModelEntry[e]].f = Vectored[e].setf
         /\ BankOf(Vectored[e].mode) = Vectored[e].mode
<1>1. CASE e = "rexit"  BY <1>1 DEF Vectored, ModelEntry, M!Entry, BankOf
<1>2. CASE e = "dab"    BY <1>2 DEF Vectored, ModelEntry, M!Entry, BankOf
<1>3. CASE e = "fiq"    BY <1>3 DEF Vectored, ModelEntry, M!Entry, BankOf
<1>4. CASE e = "irq"    BY <1>4 DEF Vectored, ModelEntry, M!Entry, BankOf
<1>5. CASE e = "pab"    BY <1>5 DEF Vectored, ModelEntry, M!Entry, BankOf
<1>6. CASE e = "swi"    BY <1>6 DEF Vectored, ModelEntry, M!Entry, BankOf
<1>7. QED
  BY <1>1, <1>2, <1>3, <1>4, <1>5, <1>6

LEMMA EnterIs ==
  ASSUME NEW ab, Boundary(ab),
         NEW e \in {"rexit", "dab", "fiq", "irq", "pab", "swi"}, Enter(e)
  PROVE  M!Enter(ModelEntry[e])
<1> DEFINE v == Vectored[e]
           w == M!Entry[ModelEntry[e]]
<1>1. /\ w.vector = v.vec /\ w.mode = v.mode /\ w.f = v.setf
      /\ M!BankOf(w.mode) = v.mode /\ v.vec \in Word
  BY EntriesAre, VectorType, SameOperators
<1>2. /\ spsr' = [spsr EXCEPT ![v.mode] = cpsr]
      /\ cpsr' = [mode |-> v.mode, i |-> TRUE, f |-> cpsr.f \/ v.setf]
      /\ rf' = WREG("r14", v.mode, Dec(pc))
      /\ Refill(x, v.vec) /\ Held
  BY DEF Enter
<1> HIDE DEF v, w
<1>3. M!StartRefill(v.vec) /\ ctype' = "N"
  BY <1>1, <1>2, RefillIs, BoundaryIs DEF Boundary
<1>4. M!LaterCycle(pc, M!Fetching, "N")
  BY <1>2, <1>3, LaterCycleIs, BoundaryIs DEF Boundary, Stepping
<1>5. ~x'.pw_v
  BY <1>2, BoundaryIs DEF Refill, Latches, Boundary
<1>6. GprOf' = M!SetBank(GprOf, "r14", M!BankOf(w.mode), M!Dec(pc))
  BY <1>1, <1>2, <1>5, ReadIs, SameOperators DEF GprOf, Boundary
<1>7. QED
  BY <1>1, <1>2, <1>3, <1>4, <1>6 DEF M!Enter, w

LEMMA ExceptionIs ==
  ASSUME NEW ab, Boundary(ab), Exception
  PROVE  \E e \in {"reset", "dabt", "fiq", "irq", "pabt"} : M!Exception(e)
<1>1. PICK e \in {"rexit", "dab", "fiq", "irq", "pab"} :
        /\ Enter(e) /\ M!Picks(ModelEntry[e])
        /\ e \notin {"rexit"} => ~ResetExit
        /\ ~told.hold
  BY PicksIs DEF Exception, Boundary, ModelEntry, d_rexit, d_dab, d_fiq, d_irq, d_pab,
                 ResetExit, Hears, d_hold
<1>2. ModelEntry[e] \in {"reset", "dabt", "fiq", "irq", "pabt"}
  BY DEF ModelEntry
<1>3. M!Enter(ModelEntry[e])
  BY <1>1, EnterIs
<1>4. /\ in_rst' = (in_rst /\ e # "rexit") /\ rst_exit' = (rst_exit /\ e # "rexit")
      /\ dab' = (dab /\ e # "dab") /\ told' = told
      /\ dab \in BOOLEAN /\ in_rst \in BOOLEAN /\ rst_exit \in BOOLEAN
  BY <1>1 DEF Enter, Boundary, Stepping, Seen, CoreType, ReqType
<1>5. /\ ModelEntry[e] = "reset" <=> e = "rexit"
      /\ ModelEntry[e] = "dabt" <=> e = "dab"
  BY DEF ModelEntry
<1>6. /\ (rst_exit \/ (in_rst /\ ~told.hold))'
           = ((rst_exit \/ (in_rst /\ ~told.hold)) /\ ModelEntry[e] # "reset")
      /\ dab' = (dab /\ ModelEntry[e] # "dabt")
  BY <1>4, <1>5
<1>7. QED
  BY <1>1, <1>2, <1>3, <1>6 DEF M!Exception

LEMMA SwiIs ==
  ASSUME NEW ab, Boundary(ab), NEW o \in Insns, Swi(o)
  PROVE  M!Swi(o)
<1>1. M!Enter("swi")
  BY EnterIs DEF Swi, ModelEntry
<1>2. M!Decodes(o)
  BY PicksIs, BoundaryIs DEF Swi, Executes, M!Decodes, Boundary
<1>3. UNCHANGED <<dab, rst_exit, in_rst, told>>
  BY DEF Swi, Enter, Boundary, Stepping, Seen, CoreType, ReqType
<1>4. QED
  BY <1>1, <1>2, <1>3 DEF M!Swi, M!requests, Swi, Executes

LEMMA DecodesIs ==
  ASSUME NEW ab, Boundary(ab), NEW o, NEW cls, Executes(o, cls)
  PROVE  M!Decodes(o) /\ o.cls = cls /\ o \in Insn /\ ~d_hold
<1>1. o \in Insn
  BY InsnAssumption DEF Executes
<1>2. ~d_hold
  BY DEF Executes, d_ins, d_hold
<1>3. QED
  BY <1>1, <1>2, PicksIs, BoundaryIs DEF Executes, M!Decodes, Boundary

LEMMA SkipIs ==
  ASSUME NEW ab, Boundary(ab), Skip(ab)
  PROVE  M!Skip
<1>1. M!Requests = {} /\ ~d_hold
  BY PicksIs DEF Boundary, Skip, d_ins, d_hold
<1>2. M!Cycle1Fetch("S")
  BY FetchIs DEF Boundary, Skip, To
<1>3. M!Finish
  BY <1>1, FinishIs DEF Boundary, Skip
<1>4. UNCHANGED <<rf, cpsr, spsr, dab, rst_exit, in_rst, told, x>>
  BY DEF Skip, regs, requests, Boundary, Stepping, Seen
<1>5. GprOf' = GprOf
  BY <1>4, GprIs DEF Boundary, GprOf
<1>6. QED
  BY <1>1, <1>2, <1>3, <1>4, <1>5, BoundaryIs DEF M!Skip, M!regs, M!requests

(* dp_finish, in either of its cycles *)
LEMMA DataDoneIs ==
  ASSUME NEW ab, Stepping(ab), ~x.pw_v, st # "REF1", st = "BOUND" => ~d_hold,
         NEW o \in Insn, DataDone(o)
  PROVE  M!DpFinish(o) /\ ctype' = (IF WritesPC(o) THEN "N" ELSE "S") /\ ~x'.pw_v
<1> DEFINE res == Plus(Read(o.rn), o.n)
<1>1. x \in Latches /\ RegType /\ FetchType
  BY DEF Stepping, CoreType
<1>2. o.rn \in Reg /\ o.n \in Int
  BY DEF Insn
<1>3. res \in Word
  BY <1>1, <1>2, ReadType, PlusType
<1>4. M!Plus(M!Val(o.rn), o.n) = res /\ M!ReturnedPsr = spsr_cur
  BY ReadIs, SameOperators
<1>5. CASE /\ WritesPC(o) /\ Refill(x, res) /\ rf' = rf
           /\ cpsr' = (IF "S" \in o.bits THEN spsr_cur ELSE cpsr)
  <2>1. M!StartRefill(res) /\ ctype' = "N"
    BY <1>1, <1>3, <1>5, RefillIs
  <2>2. ~x'.pw_v
    BY <1>1, <1>5 DEF Refill, Latches
  <2>3. GprOf' = GprOf
    BY <1>5, <2>2 DEF GprOf
  <2>4. QED
    BY <1>4, <1>5, <2>1, <2>2, <2>3, SameFields DEF M!DpFinish
<1>6. CASE /\ ~WritesPC(o)
           /\ rf' = (IF "T" \in o.bits THEN rf ELSE WREG(o.rd, bank, res))
           /\ cpsr' = (IF {"S", "T"} \subseteq o.bits /\ o.rd = "pc"
                       THEN spsr_cur ELSE cpsr)
           /\ To("BOUND", "S") /\ Advance /\ x' = x
  <2>1. M!Finish /\ ctype' = "S"
    BY <1>6, FinishIs DEF To
  <2>2. GprOf' = IF "T" \in o.bits THEN GprOf ELSE M!SetReg(GprOf, o.rd, res)
    BY <1>6, ReadIs DEF GprOf
  <2>3. QED
    BY <1>4, <1>6, <2>1, <2>2, SameFields DEF M!DpFinish
<1>7. QED
  BY <1>5, <1>6 DEF DataDone

LEMMA DataOpIs ==
  ASSUME NEW ab, Boundary(ab), NEW o \in Insns, DataOp(o, ab)
  PROVE  M!DataProc(o)
<1>1. M!Decodes(o) /\ o.cls = "DP" /\ o \in Insn /\ ~d_hold
  BY DecodesIs DEF DataOp
<1>2. M!DpFinish(o) /\ ctype' = (IF WritesPC(o) THEN "N" ELSE "S")
  BY <1>1, DataDoneIs DEF DataOp, Boundary
<1>3. M!Cycle1Fetch(IF M!WritesPC(o) THEN "N" ELSE "S")
  BY <1>2, FetchIs, SameFields DEF DataOp, Boundary
<1>4. UNCHANGED <<spsr, dab, rst_exit, in_rst, told>>
  BY DEF DataOp, requests, Boundary, Stepping, Seen
<1>5. QED
  BY <1>1, <1>2, <1>3, <1>4 DEF M!DataProc, M!requests, DataOp

LEMMA MrsIs ==
  ASSUME NEW ab, Boundary(ab), NEW o \in Insns, Mrs(o, ab)
  PROVE  M!Mrs(o)
<1>1. M!Decodes(o) /\ o.cls = "PSR" /\ o \in Insn /\ ~d_hold
  BY DecodesIs DEF Mrs
<1>2. UNCHANGED <<cpsr, spsr, dab, rst_exit, in_rst, told>>
  BY DEF Mrs, requests, Boundary, Stepping, Seen
<1>3. PICK v \in Data :
        \/ o.rd = "pc" /\ Refill(x, v) /\ rf' = rf
        \/ /\ o.rd # "pc" /\ rf' = WREG(o.rd, bank, v) /\ To("BOUND", "S")
           /\ Advance /\ x' = x
  BY DEF Mrs
<1>4. v \in Word /\ x \in Latches
  BY DataAssumption, BoundaryIs
<1>5. CASE o.rd = "pc" /\ Refill(x, v) /\ rf' = rf
  <2>1. M!StartRefill(v) /\ ctype' = "N"
    BY <1>4, <1>5, RefillIs DEF Boundary
  <2>2. GprOf' = GprOf
    BY <1>4, <1>5 DEF Refill, Latches, GprOf, Boundary
  <2>3. M!Cycle1Fetch("N")
    BY <2>1, FetchIs DEF Mrs, Boundary
  <2>4. QED
    BY <1>1, <1>2, <1>5, <2>1, <2>2, <2>3 DEF M!Mrs, M!requests, Mrs
<1>6. CASE /\ o.rd # "pc" /\ rf' = WREG(o.rd, bank, v) /\ To("BOUND", "S")
           /\ Advance /\ x' = x
  <2>1. M!Finish
    BY <1>1, <1>6, FinishIs DEF Boundary
  <2>2. GprOf' = M!SetReg(GprOf, o.rd, v)
    BY <1>6, ReadIs DEF GprOf, Boundary
  <2>3. M!Cycle1Fetch("S")
    BY <1>6, FetchIs DEF Mrs, Boundary, To
  <2>4. QED
    BY <1>1, <1>2, <1>6, <2>1, <2>2, <2>3 DEF M!Mrs, M!requests, Mrs
<1>7. QED
  BY <1>3, <1>5, <1>6

LEMMA MsrIs ==
  ASSUME NEW ab, Boundary(ab), NEW o \in Insns, Msr(o, ab)
  PROVE  M!Msr(o)
<1>1. M!Decodes(o) /\ o.cls = "PSR" /\ o \in Insn /\ ~d_hold
  BY DecodesIs DEF Msr
<1>2. UNCHANGED <<rf, dab, rst_exit, in_rst, told, x>>
  BY DEF Msr, requests, Boundary, Stepping, Seen
<1>3. M!Finish
  BY <1>1, FinishIs DEF Msr, Boundary
<1>4. M!Cycle1Fetch("S")
  BY FetchIs DEF Msr, Boundary, To
<1>5. GprOf' = GprOf
  BY <1>2 DEF GprOf, Boundary
<1>6. PICK v \in Psrs :
        /\ spsr' = IF {"B", "C"} \subseteq o.bits /\ bank # "USR"
                   THEN [spsr EXCEPT ![bank] = v] ELSE spsr
        /\ cpsr' = IF "C" \in o.bits /\ "B" \notin o.bits /\ ~umode
                   THEN v ELSE cpsr
  BY DEF Msr
<1>7. M!CurBank = bank
  BY ReadIs DEF Boundary
<1>8. QED
  BY <1>1, <1>2, <1>3, <1>4, <1>5, <1>6, <1>7 DEF M!Msr, M!requests, Msr, umode

LEMMA BranchIs ==
  ASSUME NEW ab, Boundary(ab), NEW o \in Insns, Branch(o, ab)
  PROVE  M!Branch(o)
<1>1. M!Decodes(o) /\ o.cls = "BRANCH" /\ o \in Insn
  BY DecodesIs DEF Branch
<1>2. pc \in Word /\ o.n \in Int /\ x \in Latches
  BY <1>1, BoundaryIs DEF Boundary, Stepping, CoreType, FetchType, Insn
<1>3. M!StartRefill(Plus(pc, o.n)) /\ ctype' = "N"
  BY <1>2, PlusType, RefillIs DEF Branch, Boundary
<1>4. M!Cycle1Fetch("N")
  BY <1>3, FetchIs DEF Branch, Boundary
<1>5. ~x'.pw_v
  BY <1>2 DEF Branch, Refill, Latches, Boundary
<1>6. GprOf' = IF "L" \in o.bits THEN M!SetReg(GprOf, "r14", M!Dec(pc)) ELSE GprOf
  BY <1>5, ReadIs, SameOperators DEF Branch, GprOf, Boundary
<1>7. UNCHANGED <<cpsr, spsr, dab, rst_exit, in_rst, told>>
  BY DEF Branch, requests, Boundary, Stepping, Seen
<1>8. QED
  BY <1>1, <1>3, <1>4, <1>6, <1>7, SameOperators DEF M!Branch, M!requests

(* The first cycle of a longer instruction *)
LEMMA GoesIs ==
  ASSUME NEW ab, Boundary(ab), NEW o \in Insn, NEW state \in Running, NEW type,
         Goes(o, state, type)
  PROVE  /\ st' = state /\ ctype' = type /\ op' = o /\ at' = ex.addr
         /\ ex' = ex /\ de' = de /\ XOf' \in InFlight /\ ex.addr \in Word
         /\ XOf'.op = o /\ XOf'.at = ex.addr /\ XOf'.target = 0
         /\ XOf'.fa = ZeroSlot
<1>1. st' = state /\ ctype' = type /\ op' = o /\ ex' = ex /\ de' = de
  BY DEF Goes, To, Stay
<1>2. at' = ex.addr
  BY <1>1 DEF Boundary, Stepping, Seen, Executing
<1>3. XOf' \in InFlight
  BY LatchesNext DEF Boundary, Stepping
<1>4. XOf'.op = op' /\ XOf'.at = at' /\ XOf'.target = 0 /\ XOf'.fa = ZeroSlot
  BY <1>1 DEF XOf, Running
<1>5. ex.addr \in Word
  BY DEF Boundary, Stepping, CoreType, SeqType, Slot
<1>6. QED
  BY <1>1, <1>2, <1>3, <1>4, <1>5

LEMMA DataOpShiftIs ==
  ASSUME NEW ab, Boundary(ab), NEW o \in Insns, DataOpShift(o, ab)
  PROVE  M!DataProcShift(o)
<1>1. M!Decodes(o) /\ o.cls = "DP" /\ o \in Insn
  BY DecodesIs DEF DataOpShift
<1>2. /\ st' = "DP2" /\ ctype' = "I" /\ XOf' \in InFlight /\ ex.addr \in Word
      /\ ex' = ex /\ de' = de
      /\ XOf'.op = o /\ XOf'.at = ex.addr /\ XOf'.target = 0 /\ XOf'.fa = ZeroSlot
  BY <1>1, GoesIs DEF DataOpShift, Running
<1>3. /\ SeqOf' = "DP" /\ KOf' = 1
      /\ XOf'.addr = 0 /\ XOf'.base = 0 /\ XOf'.wbv = 0 /\ XOf'.ab = FALSE
      /\ XOf'.rest = {}
  BY <1>2 DEF SeqOf, KOf, XOf
<1>4. XOf' = M!Decoded(o)
  <2> DEFINE z == M!Decoded(o)
  <2>1. /\ z \in InFlight
        /\ z.op = o /\ z.at = ex.addr /\ z.addr = 0 /\ z.base = 0 /\ z.wbv = 0
        /\ z.ab = FALSE /\ z.rest = {} /\ z.target = 0 /\ z.fa = ZeroSlot
    BY <1>1, <1>2, DecodedIs
  <2> HIDE DEF z
  <2>2. XOf' = z
    BY <1>2, <1>3, <2>1, SameLatches
  <2>3. QED
    BY <2>2 DEF z
<1>5. M!Cycle1Fetch("I")
  BY <1>2, FetchIs DEF DataOpShift, Boundary
<1>6. UNCHANGED <<rf, cpsr, spsr, dab, rst_exit, in_rst, told, x>>
  BY DEF DataOpShift, regs, requests, Boundary, Stepping, Seen
<1>7. GprOf' = GprOf
  BY <1>6 DEF GprOf, Boundary
<1>8. QED
  BY <1>1, <1>2, <1>3, <1>4, <1>5, <1>6, <1>7
     DEF M!DataProcShift, M!Continue, M!stages, M!regs, M!requests, DataOpShift

LEMMA MultiplyIs ==
  ASSUME NEW ab, Boundary(ab), NEW o \in Insns, Multiply(o, ab)
  PROVE  M!Multiply(o)
<1> DEFINE v == IF "A" \in o.bits THEN Read(o.rn) ELSE 0
<1>1. M!Decodes(o) /\ o.cls = "MUL" /\ o \in Insn
  BY DecodesIs DEF Multiply
<1>2. /\ st' = "MUL" /\ ctype' = "I" /\ XOf' \in InFlight /\ ex.addr \in Word
      /\ ex' = ex /\ de' = de
      /\ XOf'.op = o /\ XOf'.at = ex.addr /\ XOf'.target = 0 /\ XOf'.fa = ZeroSlot
  BY <1>1, GoesIs DEF Multiply, Running
<1>3. mk' = 0 /\ rf' = WREG(o.rd, bank, v) /\ x' = [x EXCEPT !.calc = v]
  BY DEF Multiply
<1>4. /\ SeqOf' = "MUL" /\ KOf' = 1
      /\ XOf'.addr = 0 /\ XOf'.base = 0 /\ XOf'.wbv = 0 /\ XOf'.ab = FALSE
      /\ XOf'.rest = {}
  <2>1. SeqOf' = "MUL" /\ KOf' = mk' + 1
    BY <1>2 DEF SeqOf, KOf
  <2>2. /\ XOf'.addr = 0 /\ XOf'.base = 0 /\ XOf'.wbv = 0 /\ XOf'.ab = FALSE
        /\ XOf'.rest = {}
    BY <1>2 DEF XOf
  <2>3. QED
    BY <1>3, <2>1, <2>2
<1>5. XOf' = M!Decoded(o)
  <2> DEFINE z == M!Decoded(o)
  <2>1. /\ z \in InFlight
        /\ z.op = o /\ z.at = ex.addr /\ z.addr = 0 /\ z.base = 0 /\ z.wbv = 0
        /\ z.ab = FALSE /\ z.rest = {} /\ z.target = 0 /\ z.fa = ZeroSlot
    BY <1>1, <1>2, DecodedIs
  <2> HIDE DEF z
  <2>2. XOf' = z
    BY <1>2, <1>4, <2>1, SameLatches
  <2>3. QED
    BY <2>2 DEF z
<1>6. M!Cycle1Fetch("I")
  BY <1>2, FetchIs DEF Multiply, Boundary
<1>7. UNCHANGED <<cpsr, spsr, dab, rst_exit, in_rst, told>>
  BY DEF Multiply, requests, Boundary, Stepping, Seen
<1>8. ~x'.pw_v
  BY <1>3, BoundaryIs DEF Boundary, Latches
<1>9. GprOf' = M!SetReg(GprOf, o.rd, IF "A" \in o.bits THEN M!Val(o.rn) ELSE 0)
  BY <1>3, <1>8, ReadIs DEF GprOf, Boundary
<1>10. QED
  BY <1>1, <1>2, <1>4, <1>5, <1>6, <1>7, <1>9
     DEF M!Multiply, M!Continue, M!stages, M!requests

LEMMA SwapIs ==
  ASSUME NEW ab, Boundary(ab), NEW o \in Insns, Swap(o, ab)
  PROVE  M!Swap(o)
<1>1. M!Decodes(o) /\ o.cls = "SWP" /\ o \in Insn
  BY DecodesIs DEF Swap
<1>2. /\ st' = "SWP1" /\ ctype' = "N" /\ XOf' \in InFlight /\ ex.addr \in Word
      /\ ex' = ex /\ de' = de
      /\ XOf'.op = o /\ XOf'.at = ex.addr /\ XOf'.target = 0 /\ XOf'.fa = ZeroSlot
  BY <1>1, GoesIs DEF Swap, Running
<1>3. x' = [x EXCEPT !.addr = Read(o.rn)] /\ Read(o.rn) \in Word
  BY <1>1, ReadType DEF Swap, Boundary, Stepping, CoreType, Insn
<1>4. x'.addr = Read(o.rn) /\ ~x'.pw_v
  BY <1>3, BoundaryIs DEF Boundary, Latches
<1>5. /\ SeqOf' = "SWP" /\ KOf' = 1
      /\ XOf'.addr = x'.addr /\ XOf'.base = 0 /\ XOf'.wbv = 0 /\ XOf'.ab = FALSE
      /\ XOf'.rest = {}
  BY <1>2 DEF SeqOf, KOf, XOf
<1>6. XOf' = [M!Decoded(o) EXCEPT !.addr = M!Val(o.rn)]
  <2> DEFINE z == M!Decoded(o)
             w == [z EXCEPT !.addr = Read(o.rn)]
  <2>1. /\ z \in InFlight
        /\ z.op = o /\ z.at = ex.addr /\ z.addr = 0 /\ z.base = 0 /\ z.wbv = 0
        /\ z.ab = FALSE /\ z.rest = {} /\ z.target = 0 /\ z.fa = ZeroSlot
    BY <1>1, <1>2, DecodedIs
  <2> HIDE DEF z
  <2>2. /\ w \in InFlight
        /\ w.op = o /\ w.at = ex.addr /\ w.addr = Read(o.rn) /\ w.base = 0
        /\ w.wbv = 0 /\ w.ab = FALSE /\ w.rest = {} /\ w.target = 0
        /\ w.fa = ZeroSlot
    BY <1>3, <2>1 DEF InFlight
  <2> HIDE DEF w
  <2>3. XOf' = w
    BY <1>2, <1>4, <1>5, <2>2, SameLatches
  <2>4. QED
    BY <2>3, ReadIs DEF w, z, Boundary
<1>7. M!Cycle1Fetch("N")
  BY <1>2, FetchIs DEF Swap, Boundary
<1>8. UNCHANGED <<rf, cpsr, spsr, dab, rst_exit, in_rst, told>>
  BY DEF Swap, regs, requests, Boundary, Stepping, Seen
<1>9. GprOf' = GprOf
  BY <1>4, <1>8 DEF GprOf, Boundary
<1>10. QED
  BY <1>1, <1>2, <1>5, <1>6, <1>7, <1>8, <1>9
     DEF M!Swap, M!Continue, M!stages, M!regs, M!requests

LEMMA TransferIs ==
  ASSUME NEW ab, Boundary(ab), NEW o \in Insns, Transfer(o, ab)
  PROVE  M!Transfer(o)
<1> DEFINE n == IF "U" \in o.bits THEN o.n ELSE -o.n
           sum == Plus(Read(o.rn), n)
<1>1. M!Decodes(o) /\ o.cls = "SDT" /\ o \in Insn
  BY DecodesIs DEF Transfer
<1>2. /\ st' = "SDT2" /\ ctype' = "N" /\ XOf' \in InFlight /\ ex.addr \in Word
      /\ ex' = ex /\ de' = de /\ op' = o
      /\ XOf'.op = o /\ XOf'.at = ex.addr /\ XOf'.target = 0 /\ XOf'.fa = ZeroSlot
  BY <1>1, GoesIs DEF Transfer, Running
<1>3. o.n \in Int /\ n \in Int /\ Read(o.rn) \in Word
  BY <1>1, ReadType DEF Boundary, Stepping, CoreType, Insn
<1>4. sum \in Word
  BY <1>3, PlusType
<1> HIDE DEF sum
<1>5. x' = [x EXCEPT !.calc = sum,
                     !.addr = IF "P" \in o.bits THEN sum ELSE Read(o.rn)]
  BY DEF Transfer, sum
<1>6. /\ x'.calc = sum /\ ~x'.pw_v
      /\ x'.addr = IF "P" \in o.bits THEN sum ELSE Read(o.rn)
  BY <1>3, <1>4, <1>5, BoundaryIs DEF Boundary, Latches
<1>7. Undone' = Read(o.rn)
  <2>1. Undone' = Plus(sum, IF "U" \in o.bits THEN -o.n ELSE o.n)
    BY <1>2, <1>6 DEF Undone
  <2>2. Plus(sum, IF "U" \in o.bits THEN -o.n ELSE o.n)
          = Plus(Read(o.rn), n + (IF "U" \in o.bits THEN -o.n ELSE o.n))
    BY <1>3, PlusPlus DEF sum
  <2>3. n + (IF "U" \in o.bits THEN -o.n ELSE o.n) = 0
    BY <1>3
  <2>4. QED
    BY <1>3, <2>1, <2>2, <2>3, PlusZero
<1>8. /\ SeqOf' = "SDT" /\ KOf' = 1
      /\ XOf'.addr = x'.addr /\ XOf'.base = Undone' /\ XOf'.wbv = x'.calc
      /\ XOf'.ab = FALSE /\ XOf'.rest = {}
  BY <1>2 DEF SeqOf, KOf, XOf
<1>9. XOf' = [M!Decoded(o) EXCEPT
                !.base = Read(o.rn), !.wbv = sum,
                !.addr = IF "P" \in o.bits THEN sum ELSE Read(o.rn)]
  <2> DEFINE z == M!Decoded(o)
             a == IF "P" \in o.bits THEN sum ELSE Read(o.rn)
             w == [z EXCEPT !.base = Read(o.rn), !.wbv = sum, !.addr = a]
  <2>1. /\ z \in InFlight
        /\ z.op = o /\ z.at = ex.addr /\ z.addr = 0 /\ z.base = 0 /\ z.wbv = 0
        /\ z.ab = FALSE /\ z.rest = {} /\ z.target = 0 /\ z.fa = ZeroSlot
    BY <1>1, <1>2, DecodedIs
  <2>2. a \in Word
    BY <1>3, <1>4
  <2> HIDE DEF z, a
  <2>3. /\ w \in InFlight
        /\ w.op = o /\ w.at = ex.addr /\ w.addr = a /\ w.base = Read(o.rn)
        /\ w.wbv = sum /\ w.ab = FALSE /\ w.rest = {} /\ w.target = 0
        /\ w.fa = ZeroSlot
    BY <1>3, <1>4, <2>1, <2>2 DEF InFlight
  <2>4. XOf'.addr = a
    BY <1>6, <1>8 DEF a
  <2> HIDE DEF w
  <2>5. XOf' = w
    BY <1>2, <1>6, <1>7, <1>8, <2>3, <2>4, SameLatches
  <2>6. QED
    BY <2>5 DEF w, z, a
<1>10. M!Cycle1Fetch("N")
  BY <1>2, FetchIs DEF Transfer, Boundary
<1>11. UNCHANGED <<rf, cpsr, spsr, dab, rst_exit, in_rst, told>>
  BY DEF Transfer, regs, requests, Boundary, Stepping, Seen
<1>12. GprOf' = GprOf
  BY <1>6, <1>11 DEF GprOf, Boundary
<1>13. M!Val(o.rn) = Read(o.rn) /\ M!Plus(Read(o.rn), n) = sum
  BY ReadIs, SameOperators DEF Boundary, sum
<1>14. QED
  BY <1>1, <1>2, <1>8, <1>9, <1>10, <1>11, <1>12, <1>13
     DEF M!Transfer, M!Continue, M!stages, M!regs, M!requests

LEMMA BlockTransferIs ==
  ASSUME NEW ab, Boundary(ab), NEW o \in Insns, BlockTransfer(o, ab)
  PROVE  M!BlockTransfer(o)
<1> DEFINE b == Read(o.rn)
           n == Words(o)
           soff == IF "U" \in o.bits THEN IF "P" \in o.bits THEN 1 ELSE 0
                   ELSE (IF "P" \in o.bits THEN 0 ELSE 1) - n
           low == IF "U" \in o.bits THEN b ELSE Plus(b, -n)
           sum == Plus(b, IF "U" \in o.bits THEN n ELSE -n)
           a == Plus(b, soff)
<1>1. M!Decodes(o) /\ o.cls = "BDT" /\ o \in Insn
  BY DecodesIs DEF BlockTransfer
<1>2. /\ st' = "BDTX" /\ ctype' = "N" /\ XOf' \in InFlight /\ ex.addr \in Word
      /\ ex' = ex /\ de' = de
      /\ XOf'.op = o /\ XOf'.at = ex.addr /\ XOf'.target = 0 /\ XOf'.fa = ZeroSlot
  BY <1>1, GoesIs DEF BlockTransfer, Running
<1>3. n \in Int /\ b \in Word /\ List(o) \in SUBSET Reg /\ -n \in Int /\ soff \in Int
  BY <1>1, ReadType, ListType DEF Boundary, Stepping, CoreType, Insn
<1>4. sum \in Word /\ a \in Word
  BY <1>3, PlusType
<1>5. a = IF ("U" \in o.bits) = ("P" \in o.bits) THEN Inc(low) ELSE low
  <2>1. CASE "U" \in o.bits
    BY <1>3, <2>1, PlusZero DEF Inc
  <2>2. CASE "U" \notin o.bits /\ "P" \in o.bits
    <3>1. 0 - n = -n
      BY <1>3
    <3>2. QED
      BY <2>2, <3>1
  <2>3. CASE "U" \notin o.bits /\ "P" \notin o.bits
    <3>1. Plus(Plus(b, -n), 1) = Plus(b, -n + 1)
      BY <1>3, PlusPlus
    <3>2. -n + 1 = 1 - n
      BY <1>3
    <3>3. QED
      BY <2>3, <3>1, <3>2 DEF Inc
  <2>4. QED
    BY <2>1, <2>2, <2>3
<1>6. sum = IF "U" \in o.bits THEN Plus(b, n) ELSE low
  OBVIOUS
<1>7. x' = [x EXCEPT !.list = List(o), !.base = b, !.calc = sum, !.addr = a,
                     !.first = TRUE, !.ab = FALSE, !.pcl = FALSE, !.pw_v = FALSE]
  BY DEF BlockTransfer
<1> HIDE DEF b, n, soff, low, sum, a
<1>8. /\ x'.list = List(o) /\ x'.base = b /\ x'.calc = sum /\ x'.addr = a
      /\ x'.ab = FALSE /\ ~x'.pw_v
  BY <1>3, <1>4, <1>7, BoundaryIs DEF Latches
<1>9. /\ SeqOf' = "BDT" /\ KOf' = 1
      /\ XOf'.addr = x'.addr /\ XOf'.base = x'.base /\ XOf'.wbv = x'.calc
      /\ XOf'.rest = x'.list
  BY <1>2 DEF SeqOf, KOf, XOf
<1>10. XOf'.ab = FALSE
  BY <1>2, <1>8 DEF XOf
<1>11. XOf' = [M!Decoded(o) EXCEPT !.base = b, !.wbv = sum, !.addr = a, !.ab = FALSE,
                                   !.rest = List(o)]
  <2> DEFINE z == M!Decoded(o)
             w == [z EXCEPT !.base = b, !.wbv = sum, !.addr = a, !.ab = FALSE,
                            !.rest = List(o)]
  <2>1. /\ z \in InFlight
        /\ z.op = o /\ z.at = ex.addr /\ z.addr = 0 /\ z.base = 0 /\ z.wbv = 0
        /\ z.ab = FALSE /\ z.rest = {} /\ z.target = 0 /\ z.fa = ZeroSlot
    BY <1>1, <1>2, DecodedIs
  <2> HIDE DEF z
  <2>2. /\ w \in InFlight
        /\ w.op = o /\ w.at = ex.addr /\ w.addr = a /\ w.base = b
        /\ w.wbv = sum /\ w.ab = FALSE /\ w.rest = List(o) /\ w.target = 0
        /\ w.fa = ZeroSlot
    BY <1>3, <1>4, <2>1 DEF InFlight
  <2> HIDE DEF w
  <2>3. XOf' = w
    BY <1>2, <1>8, <1>9, <1>10, <2>2, SameLatches
  <2>4. QED
    BY <2>3 DEF w, z
<1>12. M!Cycle1Fetch("N")
  BY <1>2, FetchIs DEF BlockTransfer, Boundary
<1>13. UNCHANGED <<rf, cpsr, spsr, dab, rst_exit, in_rst, told>>
  BY DEF BlockTransfer, regs, requests, Boundary, Stepping, Seen
<1>14. GprOf' = GprOf
  BY <1>8, <1>13 DEF GprOf, Boundary
<1>15. /\ M!Val(o.rn) = b /\ M!Words(o) = n /\ M!List(o) = List(o)
       /\ \A c, m : M!Plus(c, m) = Plus(c, m)
       /\ \A c : M!Inc(c) = Inc(c)
  BY ReadIs, SameOperators, SameFields, SameWords DEF Boundary, b, n
<1>16. XOf' = LET base == M!Val(o.rn)
                  m == M!Words(o)
                  lowest == IF "U" \in o.bits THEN base ELSE M!Plus(base, -m)
              IN [M!Decoded(o) EXCEPT
                    !.base = base,
                    !.wbv = IF "U" \in o.bits THEN M!Plus(base, m) ELSE lowest,
                    !.addr = IF ("U" \in o.bits) = ("P" \in o.bits)
                             THEN M!Inc(lowest) ELSE lowest,
                    !.ab = FALSE, !.rest = M!List(o)]
  <2>1. low = IF "U" \in o.bits THEN b ELSE Plus(b, -n)
    BY DEF low
  <2>2. QED
    BY <1>5, <1>6, <1>11, <1>15, <2>1
<1>17. QED
  BY <1>1, <1>2, <1>9, <1>12, <1>13, <1>14, <1>16
     DEF M!BlockTransfer, M!Continue, M!stages, M!regs, M!requests

LEMMA UndefinedIs ==
  ASSUME NEW ab, Boundary(ab), NEW o \in Insns, Undefined(o)
  PROVE  M!Undefined(o)
<1>1. M!Decodes(o) /\ o.cls = "UNDEF" /\ o \in Insn
  BY DecodesIs DEF Undefined
<1>2. /\ st' = "UND2" /\ ctype' = "I" /\ XOf' \in InFlight /\ ex.addr \in Word
      /\ ex' = ex /\ de' = de
      /\ XOf'.op = o /\ XOf'.at = ex.addr /\ XOf'.target = 0 /\ XOf'.fa = ZeroSlot
  BY <1>1, GoesIs DEF Undefined, Running
<1>3. /\ Held /\ pc' = pc /\ pc \in Word
      /\ UNCHANGED <<rf, cpsr, spsr, dab, rst_exit, in_rst, told, x>>
  BY DEF Undefined, Held, regs, requests, Boundary, Stepping, Seen, CoreType, FetchType
<1>4. /\ SeqOf' = "UNDEF" /\ KOf' = 1
      /\ XOf'.addr = pc' /\ XOf'.base = 0 /\ XOf'.wbv = 0
      /\ XOf'.ab = FALSE /\ XOf'.rest = {}
  BY <1>2 DEF SeqOf, KOf, XOf
<1>5. XOf' = [M!Decoded(o) EXCEPT !.addr = pc]
  <2> DEFINE z == M!Decoded(o)
             w == [z EXCEPT !.addr = pc]
  <2>1. /\ z \in InFlight
        /\ z.op = o /\ z.at = ex.addr /\ z.addr = 0 /\ z.base = 0 /\ z.wbv = 0
        /\ z.ab = FALSE /\ z.rest = {} /\ z.target = 0 /\ z.fa = ZeroSlot
    BY <1>1, <1>2, DecodedIs
  <2> HIDE DEF z
  <2>2. /\ w \in InFlight
        /\ w.op = o /\ w.at = ex.addr /\ w.addr = pc /\ w.base = 0
        /\ w.wbv = 0 /\ w.ab = FALSE /\ w.rest = {} /\ w.target = 0
        /\ w.fa = ZeroSlot
    BY <1>3, <2>1 DEF InFlight
  <2> HIDE DEF w
  <2>3. XOf' = w
    BY <1>2, <1>3, <1>4, <2>2, SameLatches
  <2>4. QED
    BY <2>3 DEF w, z
<1>6. M!LaterCycle(pc, M!Fetching, "I")
  BY <1>2, <1>3, LaterCycleIs, BoundaryIs DEF Boundary, Stepping
<1>7. GprOf' = GprOf
  BY <1>3 DEF GprOf, Boundary
<1>8. QED
  BY <1>1, <1>2, <1>3, <1>4, <1>5, <1>6, <1>7
     DEF M!Undefined, M!Continue, M!stages, M!regs, M!requests

-----------------------------------------------------------------------------
(* The later cycles *)

(* The executed instruction is the one in the execute stage *)
Attached == st \in Running => at = ex.addr

(* What the latches of each state were computed from *)
Computed ==
  /\ st = "MUL" => op.n \in 1 .. 16 /\ mk < op.n
  /\ st \in {"SWP2", "SWP3", "SDT3"} => x.data \in Data
  /\ st \in {"SDT3", "BDTF"} => "L" \in op.bits
  /\ st = "BDTX" => /\ x.list \subseteq List(op) /\ ~x.pcl
                    /\ x.first <=> x.list = List(op)
                    /\ "pc" \in List(op) => "pc" \in x.list
  /\ st = "BDTF" => /\ x.pcl <=> "pc" \in List(op) /\ ~x.ab
                    /\ x.pcl => x.data \in Data

Later(ab) == Stepping(ab) /\ Attached /\ Computed /\ st # "BOUND"

LEMMA LaterIs ==
  ASSUME NEW ab, Later(ab)
  PROVE  /\ x \in Latches /\ op \in Insn /\ ab \in Aborts /\ XOf \in InFlight
         /\ RegType /\ FetchType /\ ab_e(ab) \in BOOLEAN
         /\ M!LastAbort(ab) = ab_e(ab)
         /\ st \in Running => XOf.op = op
BY LatchesType, LatchesAre, AbortIs, BusType
   DEF Later, Stepping, CoreType, SeqType

(* A cycle that another one of the same instruction follows *)
LEMMA StaysIs ==
  ASSUME NEW ab, Later(ab), st \in Running, NEW state \in Running, NEW type,
         To(state, type), Stay, op' = op
  PROVE  /\ st' = state /\ ctype' = type /\ at' = at /\ XOf.at = at
         /\ ex' = ex /\ de' = de /\ XOf' \in InFlight
         /\ XOf.op = op /\ XOf'.op = op /\ XOf'.at = at
         /\ XOf'.target = XOf.target /\ XOf'.fa = XOf.fa
<1>1. st' = state /\ ctype' = type /\ ex' = ex /\ de' = de
  BY DEF To, Stay
<1>2. at' = at
  BY <1>1 DEF Later, Stepping, Seen, Executing, Attached
<1>3. XOf' \in InFlight
  BY LatchesNext DEF Later, Stepping
<1>4. XOf'.op = op /\ XOf'.at = at /\ XOf'.target = 0 /\ XOf'.fa = ZeroSlot
  BY <1>1, <1>2 DEF XOf, Running
<1>5. XOf.target = 0 /\ XOf.fa = ZeroSlot /\ XOf.at = at /\ XOf.op = op
  BY LatchesAre DEF Running
<1>6. QED
  BY <1>1, <1>2, <1>3, <1>4, <1>5

LEMMA DataOp2Is ==
  ASSUME NEW ab, Later(ab), ~x.pw_v, DataOp2
  PROVE  M!DataProcShifted
<1>1. st = "DP2" /\ Held /\ DataDone(op)
  BY DEF DataOp2
<1>2. op \in Insn /\ XOf.op = op
  BY <1>1, LaterIs DEF Running
<1>3. SeqOf = "DP" /\ bus_addr = pc /\ bus_flags = M!UserFlag
  BY <1>1, SequenceIs, FlagsAre DEF SequenceAt, bus_addr
<1>4. M!DpFinish(op) /\ ctype' = (IF WritesPC(op) THEN "N" ELSE "S")
  BY <1>1, <1>2, DataDoneIs DEF Later
<1>5. M!LaterCycle(pc, M!UserFlag, IF M!WritesPC(op) THEN "N" ELSE "S")
  BY <1>1, <1>3, <1>4, LaterCycleIs, SameFields DEF Later, Stepping
<1>6. UNCHANGED <<spsr, dab, rst_exit, in_rst, told>>
  BY DEF DataOp2, requests, Later, Stepping, Seen
<1>7. QED
  BY <1>2, <1>3, <1>4, <1>5, <1>6 DEF M!DataProcShifted, M!requests

LEMMA BoothStepIs ==
  ASSUME NEW ab, Later(ab), ~x.pw_v, BoothStep
  PROVE  M!BoothStep
<1>1. st = "MUL" /\ Held /\ op.n \in 1 .. 16 /\ mk < op.n /\ mk \in 0 .. 15
  BY DEF BoothStep, Later, Computed, Stepping, CoreType
<1>2. op \in Insn /\ XOf.op = op /\ x \in Latches
  BY <1>1, LaterIs DEF Running
<1>3. /\ SeqOf = "MUL" /\ KOf = mk + 1 /\ bus_addr = pc
      /\ bus_flags = M!UserFlag
  BY <1>1, SequenceIs, FlagsAre DEF SequenceAt, bus_addr
<1>4. PICK v \in Data : rf' = WREG(op.rd, bank, v) /\ x' = [x EXCEPT !.calc = v]
  BY DEF BoothStep
<1>5. GprOf' = M!SetReg(GprOf, op.rd, v)
  <2>1. ~x'.pw_v
    BY <1>2, <1>4 DEF Latches
  <2>2. QED
    BY <1>4, <2>1, ReadIs DEF GprOf
<1>6. UNCHANGED <<cpsr, spsr, dab, rst_exit, in_rst, told>>
  BY DEF BoothStep, requests, Later, Stepping, Seen
<1>7. CASE mk + 1 = op.n /\ To("BOUND", "S") /\ Advance
  <2>1. M!Finish /\ ctype' = "S"
    BY <1>1, <1>7, FinishIs DEF Later, To
  <2>2. M!LaterCycle(pc, M!UserFlag, IF KOf = op.n THEN "S" ELSE "I")
    BY <1>1, <1>3, <1>7, <2>1, LaterCycleIs DEF Later, Stepping
  <2>3. QED
    BY <1>2, <1>3, <1>4, <1>5, <1>6, <1>7, <2>1, <2>2 DEF M!BoothStep, M!requests
<1>8. CASE mk + 1 # op.n /\ To("MUL", "I") /\ Stay /\ op' = op
  <2>1. /\ st' = "MUL" /\ ctype' = "I" /\ at' = at /\ ex' = ex /\ de' = de
        /\ XOf' \in InFlight /\ XOf'.op = XOf.op /\ XOf'.at = XOf.at
        /\ XOf'.target = XOf.target /\ XOf'.fa = XOf.fa
    BY <1>1, <1>8, StaysIs DEF Running
  <2>2. mk' = mk + 1 /\ mk + 1 < op.n
    <3>1. mk' = (mk + 1) % 16 /\ mk + 1 \in 1 .. 15
      BY <1>1, <1>8 DEF BoothStep
    <3>2. QED
      BY <1>1, <1>8, <3>1
  <2>3. SeqOf' = "MUL" /\ KOf' = KOf + 1
    <3>1. SeqOf' = "MUL" /\ KOf' = mk' + 1
      BY <2>1 DEF SeqOf, KOf
    <3>2. QED
      BY <1>3, <2>2, <3>1
  <2>4. XOf' = XOf
    <3>1. /\ XOf.addr = 0 /\ XOf.base = 0 /\ XOf.wbv = 0 /\ XOf.ab = FALSE
          /\ XOf.rest = {}
      BY <1>1, LatchesAre
    <3>2. /\ XOf'.addr = 0 /\ XOf'.base = 0 /\ XOf'.wbv = 0 /\ XOf'.ab = FALSE
          /\ XOf'.rest = {}
      BY <2>1 DEF XOf
    <3>3. QED
      BY <2>1, <3>1, <3>2, LaterIs, SameLatches
  <2>5. M!LaterCycle(pc, M!UserFlag, IF KOf = op.n THEN "S" ELSE "I")
    BY <1>1, <1>3, <1>8, <2>1, LaterCycleIs DEF Later, Stepping
  <2>6. KOf # op.n /\ KOf < op.n
    BY <1>3, <1>8, <2>2
  <2>7. M!Continue("MUL", KOf + 1)
    BY <2>1, <2>3 DEF M!Continue, M!stages
  <2>8. QED
    BY <1>2, <1>3, <1>4, <1>5, <1>6, <2>4, <2>5, <2>6, <2>7
       DEF M!BoothStep, M!requests
<1>9. QED
  BY <1>7, <1>8 DEF BoothStep

LEMMA AbortLatched ==
  ASSUME NEW y \in InFlight, NEW z \in InFlight, NEW b \in BOOLEAN,
         z.op = y.op, z.at = y.at, z.addr = y.addr, z.base = y.base,
         z.wbv = y.wbv, z.ab = b, z.rest = y.rest, z.target = y.target,
         z.fa = y.fa
  PROVE  z = [y EXCEPT !.ab = b]
<1> DEFINE w == [y EXCEPT !.ab = b]
<1>1. /\ w \in InFlight
      /\ w.op = y.op /\ w.at = y.at /\ w.addr = y.addr /\ w.base = y.base
      /\ w.wbv = y.wbv /\ w.ab = b /\ w.rest = y.rest /\ w.target = y.target
      /\ w.fa = y.fa
  BY DEF InFlight
<1> HIDE DEF w
<1>2. z = w
  BY <1>1, SameLatches
<1>3. QED
  BY <1>2 DEF w

LEMMA SwapReadIs ==
  ASSUME NEW ab, Later(ab), ~x.pw_v, SwapRead(ab)
  PROVE  M!SwapRead
<1>1. st = "SWP1" /\ Held /\ To("SWP2", "N") /\ Stay /\ op' = op
  BY DEF SwapRead
<1>2. PICK v \in Data : x' = [x EXCEPT !.data = v, !.ab = ab_e(ab)]
  BY DEF SwapRead
<1>3. x \in Latches /\ ab_e(ab) \in BOOLEAN
  BY LaterIs
<1>4. x'.addr = x.addr /\ x'.ab = ab_e(ab) /\ ~x'.pw_v
  BY <1>2, <1>3 DEF Latches
<1>5. /\ SeqOf = "SWP" /\ KOf = 1 /\ bus_addr = x.addr
      /\ bus_flags = {"LOCK"} \cup M!UserFlag
  BY <1>1, SequenceIs, FlagsAre DEF SequenceAt, bus_addr
<1>6. /\ st' = "SWP2" /\ ctype' = "N" /\ at' = at /\ ex' = ex /\ de' = de
      /\ XOf' \in InFlight /\ XOf'.op = XOf.op /\ XOf'.at = XOf.at
      /\ XOf'.target = XOf.target /\ XOf'.fa = XOf.fa
  BY <1>1, StaysIs DEF Running
<1>7. /\ XOf.addr = x.addr /\ XOf.base = 0 /\ XOf.wbv = 0 /\ XOf.rest = {}
  BY <1>1, LatchesAre
<1>8. /\ SeqOf' = "SWP" /\ KOf' = 2 /\ XOf'.addr = x'.addr /\ XOf'.base = 0
      /\ XOf'.wbv = 0 /\ XOf'.rest = {}
  BY <1>6 DEF SeqOf, KOf, XOf
<1>9. XOf'.ab = ab_e(ab)
  BY <1>3, <1>4, <1>6 DEF XOf
<1>10. XOf' = [XOf EXCEPT !.ab = M!LastAbort(ab)]
  <2>1. /\ XOf'.addr = XOf.addr /\ XOf'.base = XOf.base /\ XOf'.wbv = XOf.wbv
        /\ XOf'.rest = XOf.rest
    BY <1>4, <1>7, <1>8
  <2>2. XOf' = [XOf EXCEPT !.ab = ab_e(ab)]
    BY <1>3, <1>6, <1>9, <2>1, LaterIs, AbortLatched
  <2>3. QED
    BY <2>2, LaterIs
<1>11. M!LaterCycle(XOf.addr, {"LOCK"} \cup M!UserFlag, "N")
  BY <1>1, <1>5, <1>6, <1>7, LaterCycleIs DEF Later, Stepping
<1>12. UNCHANGED <<rf, cpsr, spsr, dab, rst_exit, in_rst, told>>
  BY DEF SwapRead, regs, requests, Later, Stepping, Seen
<1>13. GprOf' = GprOf
  BY <1>4, <1>12 DEF GprOf
<1>14. QED
  BY <1>5, <1>6, <1>8, <1>10, <1>11, <1>12, <1>13, LaterIs
     DEF M!SwapRead, M!Continue, M!stages, M!regs, M!requests

LEMMA SwapWriteIs ==
  ASSUME NEW ab, Later(ab), ~x.pw_v, SwapWrite(ab)
  PROVE  M!SwapWrite
<1>1. /\ st = "SWP2" /\ Held /\ To("SWP3", "I") /\ Stay /\ op' = op
      /\ x' = [x EXCEPT !.ab = x.ab \/ ab_e(ab)]
  BY DEF SwapWrite
<1>2. x \in Latches /\ ab_e(ab) \in BOOLEAN /\ x.ab \in BOOLEAN
  BY LaterIs DEF Latches
<1>3. x'.addr = x.addr /\ x'.ab = (x.ab \/ ab_e(ab)) /\ ~x'.pw_v
  BY <1>1, <1>2 DEF Latches
<1>4. /\ SeqOf = "SWP" /\ KOf = 2 /\ bus_addr = x.addr
      /\ bus_flags = {"LOCK", "WRITE"} \cup M!UserFlag
  BY <1>1, SequenceIs, FlagsAre DEF SequenceAt, bus_addr
<1>5. /\ st' = "SWP3" /\ ctype' = "I" /\ at' = at /\ ex' = ex /\ de' = de
      /\ XOf' \in InFlight /\ XOf'.op = XOf.op /\ XOf'.at = XOf.at
      /\ XOf'.target = XOf.target /\ XOf'.fa = XOf.fa
  BY <1>1, StaysIs DEF Running
<1>6. /\ XOf.addr = x.addr /\ XOf.base = 0 /\ XOf.wbv = 0 /\ XOf.rest = {}
      /\ XOf.ab = x.ab
  BY <1>1, <1>2, LatchesAre
<1>7. /\ SeqOf' = "SWP" /\ KOf' = 3 /\ XOf'.addr = x'.addr /\ XOf'.base = 0
      /\ XOf'.wbv = 0 /\ XOf'.rest = {}
  BY <1>5 DEF SeqOf, KOf, XOf
<1>8. XOf'.ab = (x.ab \/ ab_e(ab))
  BY <1>2, <1>3, <1>5 DEF XOf
<1>9. XOf' = [XOf EXCEPT !.ab = XOf.ab \/ M!LastAbort(ab)]
  <2> DEFINE b == x.ab \/ ab_e(ab)
  <2>1. b \in BOOLEAN /\ XOf'.ab = b
    BY <1>2, <1>8
  <2> HIDE DEF b
  <2>2. /\ XOf'.addr = XOf.addr /\ XOf'.base = XOf.base /\ XOf'.wbv = XOf.wbv
        /\ XOf'.rest = XOf.rest
    BY <1>3, <1>6, <1>7
  <2>3. XOf' = [XOf EXCEPT !.ab = b]
    BY <1>5, <2>1, <2>2, LaterIs, AbortLatched
  <2>4. QED
    BY <1>6, <2>3, LaterIs DEF b
<1>10. M!LaterCycle(XOf.addr, {"LOCK", "WRITE"} \cup M!UserFlag, "I")
  BY <1>1, <1>4, <1>5, <1>6, LaterCycleIs DEF Later, Stepping
<1>11. UNCHANGED <<rf, cpsr, spsr, dab, rst_exit, in_rst, told>>
  BY DEF SwapWrite, regs, requests, Later, Stepping, Seen
<1>12. GprOf' = GprOf
  BY <1>3, <1>11 DEF GprOf
<1>13. QED
  BY <1>4, <1>5, <1>7, <1>9, <1>10, <1>11, <1>12, LaterIs
     DEF M!SwapWrite, M!Continue, M!stages, M!regs, M!requests

LEMMA SwapEndIs ==
  ASSUME NEW ab, Later(ab), ~x.pw_v, SwapEnd
  PROVE  M!SwapEnd
<1>1. /\ st = "SWP3" /\ Held /\ To("BOUND", "S") /\ Advance
      /\ dab' = (dab \/ x.ab) /\ x' = x
      /\ rf' = IF x.ab THEN rf ELSE WREG(op.rd, bank, x.data)
  BY DEF SwapEnd
<1>2. x.data \in Data /\ x.ab \in BOOLEAN
  BY <1>1, LaterIs DEF Later, Computed, Latches
<1>3. /\ SeqOf = "SWP" /\ KOf = 3 /\ bus_addr = pc /\ bus_flags = M!UserFlag
      /\ XOf.ab = x.ab /\ XOf.op = op
  BY <1>1, <1>2, SequenceIs, FlagsAre, LatchesAre DEF SequenceAt, bus_addr, Running
<1>4. M!Finish /\ ctype' = "S"
  BY <1>1, FinishIs DEF Later, To
<1>5. M!LaterCycle(pc, M!UserFlag, "S")
  BY <1>1, <1>3, <1>4, LaterCycleIs DEF Later, Stepping
<1>6. GprOf' = IF XOf.ab THEN GprOf ELSE M!SetReg(GprOf, op.rd, x.data)
  BY <1>1, <1>3, ReadIs DEF GprOf
<1>7. UNCHANGED <<cpsr, spsr, rst_exit, in_rst, told>>
  BY DEF SwapEnd, Later, Stepping, Seen
<1>8. M!LoadedReg
  BY <1>1, <1>2, <1>3, <1>4, <1>6 DEF M!LoadedReg
<1>9. QED
  BY <1>3, <1>5, <1>7, <1>8 DEF M!SwapEnd

LEMMA BaseWrittenIs ==
  ASSUME NEW ab, Later(ab), ~x.pw_v, st = "SDT2"
  PROVE  BaseWritten = M!WrittenBack
BY ReadIs, LatchesAre, SameFields, GprIs DEF BaseWritten, M!WrittenBack, Running

LEMMA LoadDataIs ==
  ASSUME NEW ab, Later(ab), ~x.pw_v, LoadData(ab)
  PROVE  M!LoadData
<1>1. /\ st = "SDT2" /\ "L" \in op.bits /\ Held /\ To("SDT3", "I") /\ Stay
      /\ op' = op /\ rf' = BaseWritten
  BY DEF LoadData
<1>2. PICK v \in Data : x' = [x EXCEPT !.data = v, !.ab = ab_e(ab)]
  BY DEF LoadData
<1>3. x \in Latches /\ ab_e(ab) \in BOOLEAN
  BY LaterIs
<1>4. x'.addr = x.addr /\ x'.calc = x.calc /\ x'.ab = ab_e(ab) /\ ~x'.pw_v
  BY <1>2, <1>3 DEF Latches
<1>5. /\ SeqOf = "SDT" /\ KOf = 1 /\ bus_addr = x.addr
      /\ bus_flags = M!TransferFlags
  BY <1>1, SequenceIs, FlagsAre DEF SequenceAt, bus_addr
<1>6. /\ st' = "SDT3" /\ ctype' = "I" /\ at' = at /\ ex' = ex /\ de' = de
      /\ XOf' \in InFlight /\ XOf'.op = XOf.op /\ XOf'.at = XOf.at /\ XOf.op = op
      /\ XOf'.target = XOf.target /\ XOf'.fa = XOf.fa
  BY <1>1, StaysIs DEF Running
<1>7. /\ XOf.addr = x.addr /\ XOf.base = Undone /\ XOf.wbv = x.calc
      /\ XOf.rest = {}
  BY <1>1, LatchesAre
<1>8. /\ SeqOf' = "SDT" /\ KOf' = 2 /\ XOf'.addr = x'.addr /\ XOf'.base = Undone'
      /\ XOf'.wbv = x'.calc /\ XOf'.rest = {}
  BY <1>6 DEF SeqOf, KOf, XOf
<1>9. XOf'.ab = ab_e(ab)
  BY <1>3, <1>4, <1>6 DEF XOf
<1>10. Undone' = Undone
  BY <1>1, <1>4 DEF Undone
<1>11. XOf' = [XOf EXCEPT !.ab = M!LastAbort(ab)]
  <2>1. /\ XOf'.addr = XOf.addr /\ XOf'.base = XOf.base /\ XOf'.wbv = XOf.wbv
        /\ XOf'.rest = XOf.rest
    BY <1>4, <1>7, <1>8, <1>10
  <2>2. XOf' = [XOf EXCEPT !.ab = ab_e(ab)]
    BY <1>3, <1>6, <1>9, <2>1, LaterIs, AbortLatched
  <2>3. QED
    BY <2>2, LaterIs
<1>12. M!LaterCycle(XOf.addr, M!TransferFlags, "I")
  BY <1>1, <1>5, <1>6, <1>7, LaterCycleIs DEF Later, Stepping
<1>13. UNCHANGED <<cpsr, spsr, dab, rst_exit, in_rst, told>>
  BY DEF LoadData, requests, Later, Stepping, Seen
<1>14. GprOf' = M!WrittenBack
  BY <1>1, <1>4, BaseWrittenIs DEF GprOf
<1>15. QED
  BY <1>1, <1>5, <1>6, <1>8, <1>11, <1>12, <1>13, <1>14, LaterIs
     DEF M!LoadData, M!Continue, M!stages, M!requests

LEMMA StoreIs ==
  ASSUME NEW ab, Later(ab), ~x.pw_v, Store(ab)
  PROVE  M!Store
<1>1. /\ st = "SDT2" /\ "L" \notin op.bits /\ Held /\ To("BOUND", "N") /\ Advance
      /\ rf' = BaseWritten /\ x' = x /\ dab' = (dab \/ ab_e(ab))
  BY DEF Store
<1>2. /\ SeqOf = "SDT" /\ bus_addr = x.addr
      /\ bus_flags = {"WRITE"} \cup M!TransferFlags
      /\ XOf.addr = x.addr /\ XOf.op = op
  BY <1>1, SequenceIs, FlagsAre, LatchesAre DEF SequenceAt, bus_addr, Running
<1>3. M!Finish /\ ctype' = "N"
  BY <1>1, FinishIs DEF Later, To
<1>4. M!LaterCycle(XOf.addr, {"WRITE"} \cup M!TransferFlags, "N")
  BY <1>1, <1>2, <1>3, LaterCycleIs DEF Later, Stepping
<1>5. GprOf' = M!WrittenBack
  BY <1>1, BaseWrittenIs DEF GprOf
<1>6. UNCHANGED <<cpsr, spsr, rst_exit, in_rst, told>>
  BY DEF Store, Later, Stepping, Seen
<1>7. dab' = (dab \/ M!LastAbort(ab)) /\ ab \in Aborts
  BY <1>1, LaterIs
<1>8. QED
  BY <1>1, <1>2, <1>3, <1>4, <1>5, <1>6, <1>7 DEF M!Store

LEMMA LoadEndIs ==
  ASSUME NEW ab, Later(ab), ~x.pw_v, LoadEnd
  PROVE  M!LoadEnd
<1>1. st = "SDT3" /\ Held /\ UNCHANGED <<cpsr, spsr, in_rst, rst_exit, told>>
  BY DEF LoadEnd, Later, Stepping, Seen
<1>2. /\ x.data \in Data /\ x.ab \in BOOLEAN /\ "L" \in op.bits
      /\ x \in Latches /\ x.data \in Word
  BY <1>1, LaterIs DEF Later, Computed, Latches
<1>3. /\ SeqOf = "SDT" /\ KOf = 2 /\ bus_addr = pc /\ bus_flags = M!UserFlag
      /\ XOf.ab = x.ab /\ XOf.op = op
  BY <1>1, <1>2, SequenceIs, FlagsAre, LatchesAre DEF SequenceAt, bus_addr, Running
<1>4. CASE ~x.ab /\ op.rd = "pc" /\ Refill(x, x.data) /\ UNCHANGED <<rf, dab>>
  <2>1. M!StartRefill(x.data) /\ ctype' = "N"
    BY <1>2, <1>4, RefillIs DEF Later
  <2>2. M!LaterCycle(pc, M!UserFlag, "N")
    BY <1>1, <1>3, <2>1, LaterCycleIs DEF Later, Stepping
  <2>3. ~x'.pw_v
    BY <1>2, <1>4 DEF Refill, Latches
  <2>4. GprOf' = GprOf
    BY <1>4, <2>3 DEF GprOf
  <2>5. QED
    BY <1>1, <1>2, <1>3, <1>4, <2>1, <2>2, <2>4 DEF M!LoadEnd
<1>5. CASE /\ x.ab \/ op.rd # "pc"
           /\ rf' = IF x.ab THEN rf ELSE WREG(op.rd, bank, x.data)
           /\ dab' = (dab \/ x.ab)
           /\ To("BOUND", "S") /\ Advance /\ x' = x
  <2>1. M!Finish /\ ctype' = "S"
    BY <1>1, <1>5, FinishIs DEF Later, To
  <2>2. M!LaterCycle(pc, M!UserFlag, "S")
    BY <1>1, <1>3, <2>1, LaterCycleIs DEF Later, Stepping
  <2>3. GprOf' = IF XOf.ab THEN GprOf ELSE M!SetReg(GprOf, op.rd, x.data)
    BY <1>3, <1>5, ReadIs DEF GprOf
  <2>4. M!LoadedReg
    BY <1>2, <1>3, <1>5, <2>1, <2>3 DEF M!LoadedReg
  <2>5. QED
    BY <1>1, <1>2, <1>3, <1>5, <2>2, <2>4 DEF M!LoadEnd
<1>6. dab \in BOOLEAN
  BY DEF Later, Stepping, CoreType, ReqType
<1>7. QED
  BY <1>2, <1>4, <1>5, <1>6 DEF LoadEnd

LEMMA UndefinedEntryIs ==
  ASSUME NEW ab, Later(ab), ~x.pw_v, UndefinedEntry
  PROVE  M!UndefinedEntry
<1>1. /\ st = "UND2" /\ Held /\ Refill(x, 1)
      /\ spsr' = [spsr EXCEPT !["UND"] = cpsr]
      /\ cpsr' = [cpsr EXCEPT !.mode = "UND", !.i = TRUE]
      /\ rf' = WREG("r14", "UND", Dec(pc))
      /\ UNCHANGED <<dab, rst_exit, in_rst, told>>
  BY DEF UndefinedEntry, requests, Later, Stepping, Seen
<1>2. 1 \in Word /\ x \in Latches
  BY SizeAssumption, LaterIs DEF Word
<1>3. /\ SeqOf = "UNDEF" /\ bus_addr = pc /\ bus_flags = M!Fetching
      /\ XOf.addr = pc
  BY <1>1, SequenceIs, FlagsAre, LatchesAre DEF SequenceAt, bus_addr
<1>4. M!StartRefill(1) /\ ctype' = "N"
  BY <1>1, <1>2, RefillIs DEF Later
<1>5. M!LaterCycle(XOf.addr, M!Fetching, "N")
  BY <1>1, <1>3, <1>4, LaterCycleIs DEF Later, Stepping
<1>6. ~x'.pw_v
  BY <1>1, <1>2 DEF Refill, Latches
<1>7. GprOf' = M!SetBank(GprOf, "r14", "UND", M!Dec(XOf.addr))
  BY <1>1, <1>3, <1>6, ReadIs, SameOperators DEF GprOf
<1>8. QED
  BY <1>1, <1>3, <1>4, <1>5, <1>7 DEF M!UndefinedEntry, M!requests

LEMMA RefillTargetIs ==
  ASSUME NEW ab, Later(ab), ~x.pw_v, RefillTarget(ab)
  PROVE  M!RefillTarget
<1>1. /\ st = "REF0" /\ Held /\ To("REF1", "S") /\ Stay
      /\ x' = [x EXCEPT !.data = x.addr, !.fab = ab_e(ab), !.addr = Inc(x.addr)]
      /\ UNCHANGED <<rf, cpsr, spsr, dab, rst_exit, in_rst, told>>
  BY DEF RefillTarget, regs, requests, Later, Stepping, Seen
<1>2. /\ x \in Latches /\ x.addr \in Word /\ ab_e(ab) \in BOOLEAN
      /\ Inc(x.addr) \in Word
  BY LaterIs, IncType DEF Latches
<1>3. /\ x'.addr = Inc(x.addr) /\ x'.data = x.addr /\ x'.fab = ab_e(ab)
      /\ ~x'.pw_v
  BY <1>1, <1>2 DEF Latches
<1>4. /\ SeqOf = "REFILL" /\ KOf = 0 /\ bus_addr = x.addr
      /\ bus_flags = M!Fetching
  BY <1>1, SequenceIs, FlagsAre DEF SequenceAt, bus_addr
<1>5. /\ st' = "REF1" /\ ctype' = "S" /\ ex' = ex /\ de' = de
  BY <1>1 DEF To, Stay
<1>6. at' = at
  BY <1>1, <1>5 DEF Later, Stepping, Seen, Executing, Running
<1>7. SeqOf' = "REFILL" /\ KOf' = 1
  BY <1>5 DEF SeqOf, KOf
<1>8. XOf' = [XOf EXCEPT !.fa = [addr |-> XOf.target, abort |-> M!LastAbort(ab)]]
  <2> DEFINE fa == [addr |-> x.addr, abort |-> ab_e(ab)]
             w == [XOf EXCEPT !.fa = fa]
  <2>1. /\ XOf.op = NoInsn /\ XOf.at = at /\ XOf.addr = 0 /\ XOf.base = 0
        /\ XOf.wbv = 0 /\ XOf.ab = FALSE /\ XOf.rest = {} /\ XOf.target = x.addr
    BY <1>1, LatchesAre DEF Running
  <2>2. /\ XOf'.op = NoInsn /\ XOf'.at = at' /\ XOf'.addr = 0 /\ XOf'.base = 0
        /\ XOf'.wbv = 0 /\ XOf'.ab = FALSE /\ XOf'.rest = {}
        /\ XOf'.target = Dec(x'.addr)
        /\ XOf'.fa = [addr |-> x'.data, abort |-> x'.fab]
    BY <1>5 DEF XOf, Running, Dec
  <2>3. XOf' \in InFlight
    BY LatchesNext DEF Later, Stepping
  <2>4. XOf'.target = x.addr /\ XOf'.fa = fa
    BY <1>2, <1>3, <2>2, DecInc
  <2>5. fa \in Slot
    BY <1>2 DEF Slot
  <2> HIDE DEF fa
  <2>6. /\ w \in InFlight
        /\ w.op = XOf.op /\ w.at = XOf.at /\ w.addr = XOf.addr /\ w.base = XOf.base
        /\ w.wbv = XOf.wbv /\ w.ab = XOf.ab /\ w.rest = XOf.rest
        /\ w.target = XOf.target /\ w.fa = fa
    BY <2>5, LaterIs DEF InFlight
  <2> HIDE DEF w
  <2>7. XOf' = w
    BY <1>6, <2>1, <2>2, <2>3, <2>4, <2>6, SameLatches
  <2>8. fa = [addr |-> XOf.target, abort |-> M!LastAbort(ab)]
    BY <2>1, LaterIs DEF fa
  <2>9. QED
    BY <2>7, <2>8 DEF w
<1>9. XOf.target = x.addr
  BY <1>1, LatchesAre
<1>10. M!LaterCycle(XOf.target, M!Fetching, "S")
  BY <1>1, <1>4, <1>5, <1>9, LaterCycleIs DEF Later, Stepping
<1>11. GprOf' = GprOf
  BY <1>1, <1>3 DEF GprOf
<1>12. ab \in Aborts
  BY LaterIs
<1>13. QED
  BY <1>1, <1>4, <1>5, <1>7, <1>8, <1>10, <1>11, <1>12
     DEF M!RefillTarget, M!Continue, M!stages, M!regs, M!requests

LEMMA RefillNextIs ==
  ASSUME NEW ab, Later(ab), ~x.pw_v, RefillNext(ab)
  PROVE  M!RefillNext
<1>1. /\ st = "REF1" /\ st' = "BOUND" /\ ctype' = "S"
      /\ ex' = [addr |-> x.data, abort |-> x.fab] /\ de' = Fetched(ab)
      /\ pc' = Inc(x.addr) /\ x' = x
      /\ UNCHANGED <<rf, cpsr, spsr, f1, dab, rst_exit, in_rst, told>>
  BY DEF RefillNext, To, regs, requests, Later, Stepping, Seen
<1>2. x.addr \in Word
  BY LaterIs DEF Latches
<1>3. /\ SeqOf = "REFILL" /\ KOf = 1 /\ bus_addr = x.addr
      /\ bus_flags = M!Fetching /\ XOf.target = Dec(x.addr)
      /\ XOf.fa = [addr |-> x.data, abort |-> x.fab] /\ XOf.at = at
  BY <1>1, SequenceIs, FlagsAre, LatchesAre DEF SequenceAt, bus_addr
<1>4. M!Inc(XOf.target) = x.addr
  BY <1>2, <1>3, IncDec, SameOperators
<1>5. at' = at
  BY <1>1 DEF Later, Stepping, Seen, Executing, Running
<1>6. SeqOf' = "IDLE" /\ KOf' = 0
  BY <1>1 DEF SeqOf, KOf
<1>7. XOf' = M!Retired(XOf.at)
  <2> DEFINE z == M!Retired(at)
  <2>1. /\ XOf'.op = NoInsn /\ XOf'.at = at' /\ XOf'.addr = 0 /\ XOf'.base = 0
        /\ XOf'.wbv = 0 /\ XOf'.ab = FALSE /\ XOf'.rest = {} /\ XOf'.target = 0
        /\ XOf'.fa = ZeroSlot
    BY <1>1 DEF XOf, Running
  <2>2. XOf' \in InFlight
    BY LatchesNext DEF Later, Stepping
  <2>3. /\ z \in InFlight
        /\ z.op = NoInsn /\ z.at = at /\ z.addr = 0 /\ z.base = 0 /\ z.wbv = 0
        /\ z.ab = FALSE /\ z.rest = {} /\ z.target = 0 /\ z.fa = ZeroSlot
    BY RetiredIs DEF Later, Stepping
  <2> HIDE DEF z
  <2>4. XOf' = z
    BY <1>5, <2>1, <2>2, <2>3, SameLatches
  <2>5. QED
    BY <1>3, <2>4 DEF z
<1>8. M!Cycle(M!Inc(XOf.target), M!Fetching, "S")
  BY <1>1, <1>3, <1>4, CycleIs DEF Later, Stepping
<1>9. GprOf' = GprOf
  BY <1>1 DEF GprOf
<1>10. /\ de' = [addr |-> M!Inc(XOf.target), abort |-> M!LastAbort(ab)]
       /\ ab \in Aborts
  BY <1>1, <1>3, <1>4, LaterIs DEF Fetched
<1>11. pc' = M!Inc(M!Inc(XOf.target))
  BY <1>1, <1>4, SameOperators
<1>12. QED
  BY <1>1, <1>3, <1>6, <1>7, <1>8, <1>9, <1>10, <1>11
     DEF M!RefillNext, M!regs, M!requests

-----------------------------------------------------------------------------
(* Block transfers *)

LEMMA TransferredIs ==
  ASSUME CoreType, x.list # {}, NEW ab \in Aborts, NEW v \in Word
  PROVE  LET y == Transferred(ab, v)
             aborted == x.ab \/ ab_e(ab)
         IN
           /\ y \in Latches /\ y.addr = Inc(x.addr) /\ y.base = x.base
           /\ y.calc = x.calc /\ y.ab = aborted /\ y.list = x.list \ {bdt_r}
           /\ y.first = FALSE
           /\ "L" \notin op.bits => y.pw_v = x.pw_v /\ y.pcl = x.pcl
           /\ "L" \in op.bits /\ aborted => y.pw_v = FALSE /\ y.pcl = x.pcl
           /\ "L" \in op.bits /\ ~aborted /\ bdt_r = "pc" =>
                y.pw_v = FALSE /\ y.pcl = TRUE /\ y.data = v
           /\ "L" \in op.bits /\ ~aborted /\ bdt_r # "pc" =>
                /\ y.pw_v = TRUE /\ y.pcl = x.pcl /\ y.data = v
                /\ y.pw_idx = Phys(bdt_r, LoadBank)
<1> DEFINE aborted == x.ab \/ ab_e(ab)
           y == [x EXCEPT !.ab = aborted, !.first = FALSE, !.addr = Inc(x.addr),
                          !.list = x.list \ {bdt_r}]
           t == Transferred(ab, v)
<1>1. ab_e(ab) \in BOOLEAN /\ bdt_r \in Reg /\ Inc(x.addr) \in Word
  BY BusType, LowestListed, IncType DEF CoreType, Latches
<1>2. /\ y \in Latches /\ y.first = FALSE /\ y.list = x.list \ {bdt_r}
      /\ y.pw_v = x.pw_v /\ y.ab = aborted /\ y.addr = Inc(x.addr)
      /\ y.base = x.base /\ y.calc = x.calc /\ y.pcl = x.pcl
  BY <1>1 DEF CoreType, Latches
<1>3. CASE "L" \notin op.bits
  <2>1. t = y
    BY <1>3 DEF Transferred
  <2> HIDE DEF y, t, aborted
  <2>2. QED
    BY <1>2, <1>3, <2>1 DEF t, aborted
<1>4. CASE "L" \in op.bits /\ aborted
  <2>1. t = [y EXCEPT !.pw_v = FALSE]
    BY <1>4 DEF Transferred, NothingWaits
  <2> HIDE DEF y, t, aborted
  <2>2. /\ t \in Latches /\ t.first = FALSE /\ t.list = x.list \ {bdt_r}
        /\ t.pw_v = FALSE /\ t.ab = aborted /\ t.addr = Inc(x.addr)
        /\ t.base = x.base /\ t.calc = x.calc /\ t.pcl = x.pcl
    BY <1>2, <2>1 DEF Latches
  <2>3. QED
    BY <1>4, <2>2 DEF t, aborted
<1>5. CASE "L" \in op.bits /\ ~aborted /\ bdt_r = "pc"
  <2>1. t = [y EXCEPT !.pw_v = FALSE, !.data = v, !.pcl = TRUE]
    <3>1. t = [NothingWaits(y) EXCEPT !.data = v, !.pcl = TRUE]
      BY <1>5 DEF Transferred
    <3> HIDE DEF y, t
    <3>2. QED
      BY <1>2, <3>1 DEF NothingWaits, Latches
  <2> HIDE DEF y, t, aborted
  <2>2. /\ t \in Latches /\ t.first = FALSE /\ t.list = x.list \ {bdt_r}
        /\ t.pw_v = FALSE /\ t.ab = aborted /\ t.addr = Inc(x.addr)
        /\ t.base = x.base /\ t.calc = x.calc /\ t.pcl = TRUE /\ t.data = v
    BY <1>2, <2>1 DEF Latches
  <2>3. QED
    BY <1>5, <2>2 DEF t, aborted
<1>6. CASE "L" \in op.bits /\ ~aborted /\ bdt_r # "pc"
  <2>1. t = [y EXCEPT !.pw_v = TRUE, !.data = v, !.pw_idx = Phys(bdt_r, LoadBank)]
    BY <1>6 DEF Transferred
  <2>2. LoadBank \in Bank
    BY BankType DEF LoadBank, CoreType, Bank
  <2>3. Phys(bdt_r, LoadBank) \in PhysReg
    BY <1>1, <1>6, <2>2, PhysType
  <2> HIDE DEF y, t, aborted
  <2>4. /\ t \in Latches /\ t.first = FALSE /\ t.list = x.list \ {bdt_r}
        /\ t.pw_v = TRUE /\ t.ab = aborted /\ t.addr = Inc(x.addr)
        /\ t.base = x.base /\ t.calc = x.calc /\ t.pcl = x.pcl /\ t.data = v
        /\ t.pw_idx = Phys(bdt_r, LoadBank)
    BY <1>2, <2>1, <2>3 DEF Latches
  <2>5. QED
    BY <1>6, <2>4 DEF t, aborted
<1>7. QED
  BY <1>3, <1>4, <1>5, <1>6

(* The transfer of the lowest register *)
LEMMA NextIs ==
  ASSUME NEW ab, Later(ab), st = "BDTX", x.list # {}
  PROVE  /\ bdt_r \in Reg /\ bdt_r \in x.list /\ M!IsNext(bdt_r)
         /\ bdt_last <=> XOf.rest = {bdt_r}
         /\ bdt_last <=> x.list \ {bdt_r} = {}
         /\ bdt_r = "pc" => bdt_last
         /\ "pc" \in List(op) => "pc" \in x.list
         /\ x.list \subseteq Reg
<1>1. /\ bdt_r \in Reg /\ bdt_r \in x.list
      /\ \A q \in x.list : Num[bdt_r] <= Num[q]
  BY LowestListed DEF Later, Stepping
<1>2. XOf.rest = x.list
  BY LatchesAre
<1>3. x.list \subseteq {"r0", "r8", "r14", "pc"}
  BY LaterIs DEF Latches, Reg
<1>4. Num["r0"] = 0 /\ Num["r8"] = 8 /\ Num["r14"] = 14 /\ Num["pc"] = 15
  BY DEF Num
<1>5. bdt_r = "pc" => x.list = {"pc"}
  BY <1>1, <1>3, <1>4
<1>6. bdt_last <=> x.list = {bdt_r}
  BY DEF bdt_last
<1>7. M!IsNext(bdt_r)
  BY <1>1, <1>2 DEF M!IsNext, M!Num, Num
<1>8. "pc" \in List(op) => "pc" \in x.list
  BY DEF Later, Computed
<1>9. QED
  BY <1>1, <1>2, <1>3, <1>5, <1>6, <1>7, <1>8 DEF Reg

(* The model's file after a transfer, before the loaded register *)
LEMMA BlockPortIs ==
  ASSUME NEW ab, Later(ab), Waiting, st = "BDTX"
  PROVE  BlockPort = M!BlockWrittenBack
<1>1. x.pw_v \in BOOLEAN /\ (x.first <=> x.list = List(op))
  BY LaterIs DEF Later, Computed, Latches
<1>2. XOf.rest = x.list /\ XOf.op = op /\ XOf.wbv = x.calc
  BY LatchesAre DEF Running
<1>3. M!List(op) = List(op)
  BY SameFields
<1>4. CASE x.pw_v
  <2>1. "L" \in op.bits /\ ~x.first /\ GprOf = PendingWritten
    BY <1>4 DEF Waiting, GprOf
  <2>2. QED
    BY <1>1, <1>2, <1>3, <1>4, <2>1 DEF BlockPort, M!BlockWrittenBack
<1>5. CASE ~x.pw_v
  <2>1. GprOf = rf /\ M!SetReg(GprOf, op.rn, x.calc) = WREG(op.rn, bank, x.calc)
    BY <1>5, ReadIs, GprIs
  <2>2. QED
    BY <1>1, <1>2, <1>3, <1>5, <2>1 DEF BlockPort, BaseBooked, M!BlockWrittenBack
<1>6. QED
  BY <1>4, <1>5

(* The latches after a transfer that another one, or LDM's last cycle, follows *)
LEMMA BlockLatchesAre ==
  ASSUME NEW ab, Later(ab), st = "BDTX", x.list # {}, NEW v \in Word,
         x' = Transferred(ab, v), NEW state \in {"BDTX", "BDTF"}, NEW type,
         To(state, type), Stay, op' = op, state = "BDTF" <=> bdt_last
  PROVE  /\ XOf' = [XOf EXCEPT !.ab = XOf.ab \/ M!LastAbort(ab),
                               !.rest = XOf.rest \ {bdt_r},
                               !.addr = M!Inc(XOf.addr)]
         /\ M!Continue("BDT", 1) /\ ctype' = type
<1> DEFINE b == x.ab \/ ab_e(ab)
           l == x.list \ {bdt_r}
           w == [XOf EXCEPT !.ab = b, !.rest = l, !.addr = Inc(x.addr)]
<1>1. /\ x'.addr = Inc(x.addr) /\ x'.base = x.base /\ x'.calc = x.calc /\ x'.ab = b
      /\ x'.list = l
  BY TransferredIs DEF Later, Stepping, CoreType
<1>2. b \in BOOLEAN /\ l \subseteq Reg /\ Inc(x.addr) \in Word /\ x.ab \in BOOLEAN
  BY LaterIs, IncType DEF Latches
<1>3. /\ st' = state /\ ctype' = type /\ at' = at /\ ex' = ex /\ de' = de
      /\ XOf' \in InFlight /\ XOf'.op = XOf.op /\ XOf'.at = XOf.at
      /\ XOf'.target = XOf.target /\ XOf'.fa = XOf.fa
  <2>1. state \in Running /\ st \in Running
    BY DEF Running
  <2>2. QED
    BY <2>1, StaysIs
<1>4. /\ XOf.addr = x.addr /\ XOf.base = x.base /\ XOf.wbv = x.calc
      /\ XOf.ab = x.ab /\ XOf.rest = x.list
  BY <1>2, LatchesAre
<1>5. state = "BDTF" => l = {}
  BY NextIs
<1> HIDE DEF b, l
<1>6. /\ XOf'.addr = x'.addr /\ XOf'.base = x'.base /\ XOf'.wbv = x'.calc
      /\ XOf'.rest = IF state = "BDTX" THEN x'.list ELSE {}
  BY <1>3 DEF XOf
<1>7. XOf'.ab = b
  BY <1>1, <1>2, <1>3 DEF XOf
<1>8. XOf'.rest = l
  BY <1>1, <1>5, <1>6
<1>9. /\ w \in InFlight
      /\ w.op = XOf.op /\ w.at = XOf.at /\ w.addr = Inc(x.addr) /\ w.base = XOf.base
      /\ w.wbv = XOf.wbv /\ w.ab = b /\ w.rest = l
      /\ w.target = XOf.target /\ w.fa = XOf.fa
  BY <1>2, LaterIs DEF InFlight
<1> HIDE DEF w
<1>10. XOf' = w
  BY <1>1, <1>3, <1>4, <1>6, <1>7, <1>8, <1>9, SameLatches
<1>11. /\ b = (XOf.ab \/ M!LastAbort(ab)) /\ l = XOf.rest \ {bdt_r}
       /\ Inc(x.addr) = M!Inc(XOf.addr)
  BY <1>4, LaterIs, SameOperators DEF b, l
<1>12. XOf' = [XOf EXCEPT !.ab = XOf.ab \/ M!LastAbort(ab),
                          !.rest = XOf.rest \ {bdt_r}, !.addr = M!Inc(XOf.addr)]
  BY <1>10, <1>11 DEF w
<1>13. SeqOf' = "BDT" /\ KOf' = 1
  BY <1>3 DEF SeqOf, KOf
<1>14. QED
  BY <1>3, <1>12, <1>13 DEF M!Continue, M!stages

LEMMA BlockLoadIs ==
  ASSUME NEW ab, Later(ab), Waiting, Listed, BlockLoad(ab)
  PROVE  \E r \in M!Reg : M!BlockLoad(r)
<1>1. /\ st = "BDTX" /\ "L" \in op.bits /\ Held /\ rf' = BlockPort /\ Stay
      /\ op' = op /\ x.list # {}
      /\ UNCHANGED <<cpsr, spsr, dab, rst_exit, in_rst, told>>
  BY DEF BlockLoad, Listed, requests, Later, Stepping, Seen
<1>2. PICK v \in Data : x' = Transferred(ab, v)
  BY DEF BlockLoad
<1>3. v \in Word /\ ab \in Aborts /\ CoreType
  BY DataAssumption DEF Later, Stepping
<1>4. /\ bdt_r \in Reg /\ M!IsNext(bdt_r) /\ (bdt_last <=> XOf.rest = {bdt_r})
  BY <1>1, NextIs
<1>5. /\ SeqOf = "BDT" /\ bus_addr = x.addr /\ bus_flags = M!UserFlag
      /\ XOf.addr = x.addr /\ XOf.op = op
  BY <1>1, SequenceIs, FlagsAre, LatchesAre DEF SequenceAt, bus_addr, Running
<1>6. PICK state \in {"BDTX", "BDTF"} :
        /\ state = "BDTF" <=> bdt_last
        /\ To(state, IF bdt_last THEN "I" ELSE "S")
  BY DEF BlockLoad
<1>7. /\ XOf' = [XOf EXCEPT !.ab = XOf.ab \/ M!LastAbort(ab),
                            !.rest = XOf.rest \ {bdt_r},
                            !.addr = M!Inc(XOf.addr)]
      /\ M!Continue("BDT", 1) /\ ctype' = IF bdt_last THEN "I" ELSE "S"
  BY <1>1, <1>2, <1>3, <1>6, BlockLatchesAre
<1>8. M!LaterCycle(XOf.addr, M!UserFlag, IF XOf.rest = {bdt_r} THEN "I" ELSE "S")
  <2>1. ctype' = IF XOf.rest = {bdt_r} THEN "I" ELSE "S"
    BY <1>4, <1>7
  <2>2. QED
    BY <1>1, <1>5, <2>1, LaterCycleIs DEF Later, Stepping
<1>9. GprOf' = IF XOf.ab \/ M!LastAbort(ab) THEN M!BlockWrittenBack
               ELSE M!SetBank(M!BlockWrittenBack, bdt_r,
                              IF M!UserBank(op) THEN "USR" ELSE M!CurBank, v)
  <2>1. rf' = M!BlockWrittenBack
    BY <1>1, BlockPortIs
  <2>2. GprOf' = IF x'.pw_v THEN [rf' EXCEPT ![x'.pw_idx] = x'.data] ELSE rf'
    BY DEF GprOf, PendingWritten
  <2>3. XOf.ab = x.ab /\ M!LastAbort(ab) = ab_e(ab)
    BY <1>1, LatchesAre, LaterIs DEF Latches
  <2>4. (IF M!UserBank(op) THEN "USR" ELSE M!CurBank) = LoadBank
    BY SameFields, SameOperators DEF LoadBank, M!CurBank, bank
  <2>5. CASE x.ab \/ ab_e(ab)
    <3>1. x'.pw_v = FALSE
      BY <1>1, <1>2, <1>3, <2>5, TransferredIs
    <3>2. QED
      BY <2>1, <2>2, <2>3, <2>5, <3>1
  <2>6. CASE ~(x.ab \/ ab_e(ab)) /\ bdt_r = "pc"
    <3>1. x'.pw_v = FALSE
      BY <1>1, <1>2, <1>3, <2>6, TransferredIs
    <3>2. QED
      BY <2>1, <2>2, <2>3, <2>6, <3>1 DEF M!SetBank
  <2>7. CASE ~(x.ab \/ ab_e(ab)) /\ bdt_r # "pc"
    <3>1. x'.pw_v = TRUE /\ x'.data = v /\ x'.pw_idx = Phys(bdt_r, LoadBank)
      BY <1>1, <1>2, <1>3, <2>7, TransferredIs
    <3>2. QED
      BY <2>1, <2>2, <2>3, <2>4, <2>7, <3>1, SameOperators DEF M!SetBank
  <2>8. QED
    BY <2>5, <2>6, <2>7
<1>10. bdt_r \in M!Reg
  BY <1>4, SameArch
<1> WITNESS bdt_r \in M!Reg
<1>11. QED
  BY <1>1, <1>3, <1>4, <1>5, <1>7, <1>8, <1>9 DEF M!BlockLoad, M!requests

LEMMA BlockStoreIs ==
  ASSUME NEW ab, Later(ab), Waiting, Listed, BlockStore(ab)
  PROVE  \E r \in M!Reg : M!BlockStore(r)
<1>1. /\ st = "BDTX" /\ "L" \notin op.bits /\ Held /\ rf' = BlockPort
      /\ x' = Transferred(ab, 0) /\ x.list # {} /\ ~x.pw_v
      /\ UNCHANGED <<cpsr, spsr, rst_exit, in_rst, told>>
  BY DEF BlockStore, Listed, Waiting, Later, Stepping, Seen
<1>2. 0 \in Word /\ ab \in Aborts /\ CoreType
  BY ZeroTypes DEF Later, Stepping
<1>3. /\ bdt_r \in Reg /\ M!IsNext(bdt_r) /\ (bdt_last <=> XOf.rest = {bdt_r})
  BY <1>1, NextIs
<1>4. /\ SeqOf = "BDT" /\ bus_addr = x.addr
      /\ bus_flags = {"WRITE"} \cup M!UserFlag
      /\ XOf.addr = x.addr /\ XOf.op = op /\ XOf.ab = x.ab
  BY <1>1, SequenceIs, FlagsAre, LatchesAre, LaterIs
     DEF SequenceAt, bus_addr, Running, Latches
<1>5. M!LastAbort(ab) = ab_e(ab)
  BY LaterIs
<1>6. ~x'.pw_v
  BY <1>1, <1>2, TransferredIs
<1>7. GprOf' = M!BlockWrittenBack
  BY <1>1, <1>6, BlockPortIs DEF GprOf
<1>w. bdt_r \in M!Reg
  BY <1>3, SameArch
<1> WITNESS bdt_r \in M!Reg
<1>8. CASE /\ bdt_last /\ dab' = (dab \/ x.ab \/ ab_e(ab))
           /\ To("BOUND", "N") /\ Advance
  <2>1. M!Finish /\ ctype' = "N"
    BY <1>1, <1>8, FinishIs DEF Later, To
  <2>2. M!LaterCycle(XOf.addr, {"WRITE"} \cup M!UserFlag,
                     IF XOf.rest = {bdt_r} THEN "N" ELSE "S")
    <3>1. ctype' = IF XOf.rest = {bdt_r} THEN "N" ELSE "S"
      BY <1>3, <1>8, <2>1
    <3>2. QED
      BY <1>1, <1>4, <3>1, LaterCycleIs DEF Later, Stepping
  <2>3. dab' = (dab \/ (XOf.ab \/ M!LastAbort(ab)))
    BY <1>4, <1>5, <1>8
  <2>4. QED
    BY <1>1, <1>2, <1>3, <1>4, <1>7, <1>8, <2>1, <2>2, <2>3 DEF M!BlockStore
<1>9. CASE ~bdt_last /\ To("BDTX", "S") /\ Stay /\ dab' = dab /\ op' = op
  <2>1. /\ XOf' = [XOf EXCEPT !.ab = XOf.ab \/ M!LastAbort(ab),
                              !.rest = XOf.rest \ {bdt_r},
                              !.addr = M!Inc(XOf.addr)]
        /\ M!Continue("BDT", 1) /\ ctype' = "S"
    BY <1>1, <1>2, <1>9, BlockLatchesAre
  <2>2. M!LaterCycle(XOf.addr, {"WRITE"} \cup M!UserFlag,
                     IF XOf.rest = {bdt_r} THEN "N" ELSE "S")
    <3>1. ctype' = IF XOf.rest = {bdt_r} THEN "N" ELSE "S"
      BY <1>3, <1>9, <2>1
    <3>2. QED
      BY <1>1, <1>4, <3>1, LaterCycleIs DEF Later, Stepping
  <2>3. QED
    BY <1>1, <1>2, <1>3, <1>4, <1>7, <1>9, <2>1, <2>2 DEF M!BlockStore
<1>10. QED
  BY <1>8, <1>9 DEF BlockStore

LEMMA BlockEndIs ==
  ASSUME NEW ab, Later(ab), Waiting, BlockEnd
  PROVE  M!BlockLoadEnd
<1> DEFINE y == NothingWaits(x)
<1>1. /\ st = "BDTF" /\ Held /\ dab' = (dab \/ x.ab)
      /\ rf' = IF x.ab THEN WREG(op.rn, bank, IF "W" \in op.bits THEN x.calc ELSE x.base)
               ELSE IF x.pw_v THEN PendingWritten ELSE rf
      /\ UNCHANGED <<spsr, rst_exit, in_rst, told>>
  BY DEF BlockEnd, Later, Stepping, Seen
<1>2. /\ "L" \in op.bits /\ (x.pcl <=> "pc" \in List(op) /\ ~x.ab)
      /\ x.pcl => x.data \in Data
  BY <1>1 DEF Later, Computed
<1>3. /\ y \in Latches /\ y.pw_v = FALSE /\ x.ab \in BOOLEAN /\ x.data \in Word
      /\ dab \in BOOLEAN
  BY LaterIs DEF NothingWaits, Latches, Later, Stepping, CoreType, ReqType
<1> HIDE DEF y
<1>4. /\ SeqOf = "BDT" /\ bus_addr = pc /\ bus_flags = M!UserFlag
      /\ XOf.op = op /\ XOf.ab = x.ab /\ XOf.rest = {} /\ XOf.wbv = x.calc
      /\ XOf.base = x.base
  BY <1>1, <1>3, SequenceIs, FlagsAre, LatchesAre DEF SequenceAt, bus_addr, Running
<1>5. M!List(op) = List(op) /\ M!ReturnedPsr = spsr_cur
  BY SameFields, SameOperators DEF M!ReturnedPsr, spsr_cur, M!CurBank, bank
<1>6. CASE /\ ~x.ab /\ x.pcl /\ Refill(y, x.data)
           /\ cpsr' = IF "S" \in op.bits THEN spsr_cur ELSE cpsr
  <2>1. M!StartRefill(x.data) /\ ctype' = "N"
    BY <1>3, <1>6, RefillIs DEF Later
  <2>2. ~x'.pw_v
    BY <1>3, <1>6 DEF Refill, Latches
  <2>3. GprOf' = GprOf /\ dab' = dab
    BY <1>1, <1>3, <1>6, <2>2 DEF GprOf
  <2>4. M!LaterCycle(pc, M!UserFlag, "N")
    BY <1>1, <1>4, <2>1, LaterCycleIs DEF Later, Stepping
  <2>5. QED
    BY <1>1, <1>2, <1>4, <1>5, <1>6, <2>1, <2>3, <2>4 DEF M!BlockLoadEnd
<1>7. CASE /\ x.ab \/ ~x.pcl
           /\ To("BOUND", IF x.pcl THEN "N" ELSE "S") /\ Advance
           /\ x' = y /\ cpsr' = cpsr
  <2>1. ~x.pcl
    BY <1>2, <1>7
  <2>2. M!Finish /\ ctype' = "S"
    BY <1>1, <1>7, <2>1, FinishIs DEF Later, To
  <2>3. M!LaterCycle(pc, M!UserFlag, "S")
    BY <1>1, <1>4, <2>2, LaterCycleIs DEF Later, Stepping
  <2>4. ~x'.pw_v
    BY <1>3, <1>7
  <2>5. CASE x.ab
    <3>1. ~x.pw_v
      BY <2>5 DEF Waiting
    <3>2. GprOf' = M!SetReg(GprOf, op.rn, IF "W" \in op.bits THEN x.calc ELSE x.base)
      BY <1>1, <2>4, <2>5, <3>1, ReadIs DEF GprOf
    <3>3. dab' = TRUE
      BY <1>1, <2>5
    <3>4. QED
      BY <1>1, <1>2, <1>4, <1>7, <2>2, <2>3, <2>5, <3>2, <3>3 DEF M!BlockLoadEnd
  <2>6. CASE ~x.ab
    <3>1. GprOf' = GprOf /\ dab' = dab
      BY <1>1, <1>3, <2>4, <2>6 DEF GprOf
    <3>2. "pc" \notin List(op)
      BY <1>2, <2>1, <2>6
    <3>3. QED
      BY <1>1, <1>2, <1>4, <1>5, <1>7, <2>2, <2>3, <2>6, <3>1, <3>2
         DEF M!BlockLoadEnd
  <2>7. QED
    BY <1>3, <2>5, <2>6
<1>8. QED
  BY <1>6, <1>7 DEF BlockEnd, y

-----------------------------------------------------------------------------
(* The end of a cycle *)

BeginCycle(ab) ==
  \/ DummyFetch \/ Exception \/ Skip(ab)
  \/ \E o \in Insns :
       \/ DataOp(o, ab) \/ DataOpShift(o, ab) \/ Mrs(o, ab) \/ Msr(o, ab)
       \/ Multiply(o, ab) \/ Swap(o, ab) \/ Transfer(o, ab)
       \/ BlockTransfer(o, ab) \/ Branch(o, ab) \/ Undefined(o) \/ Swi(o)

BlockCycle(ab) == BlockLoad(ab) \/ BlockStore(ab) \/ BlockEnd

OtherCycle(ab) ==
  \/ DataOp2 \/ BoothStep
  \/ SwapRead(ab) \/ SwapWrite(ab) \/ SwapEnd
  \/ LoadData(ab) \/ Store(ab) \/ LoadEnd
  \/ UndefinedEntry \/ RefillTarget(ab) \/ RefillNext(ab)

LEMMA CyclesAre ==
  ASSUME NEW ab
  PROVE  /\ EndOfCycle(ab) => BeginCycle(ab) \/ BlockCycle(ab) \/ OtherCycle(ab)
         /\ BeginCycle(ab) => st = "BOUND"
         /\ BlockCycle(ab) => st \in {"BDTX", "BDTF"}
         /\ OtherCycle(ab) => st \notin {"BOUND", "BDTX", "BDTF"}
<1>1. EndOfCycle(ab) => BeginCycle(ab) \/ BlockCycle(ab) \/ OtherCycle(ab)
  BY Zenon DEF EndOfCycle, BeginCycle, BlockCycle, OtherCycle
<1>2. BeginCycle(ab) => st = "BOUND"
  BY DEF BeginCycle, DummyFetch, Exception, Skip, Executes, DataOp, DataOpShift, Mrs,
         Msr, Multiply, Swap, Transfer, BlockTransfer, Branch, Undefined, Swi
<1>3. BlockCycle(ab) => st \in {"BDTX", "BDTF"}
  BY DEF BlockCycle, BlockLoad, BlockStore, BlockEnd
<1>4. OtherCycle(ab) => st \notin {"BOUND", "BDTX", "BDTF"}
  BY DEF OtherCycle, DataOp2, BoothStep, SwapRead, SwapWrite, SwapEnd, LoadData,
         Store, LoadEnd, UndefinedEntry, RefillTarget, RefillNext
<1>5. QED
  BY <1>1, <1>2, <1>3, <1>4

LEMMA BeginIs ==
  ASSUME NEW ab, Boundary(ab), BeginCycle(ab)
  PROVE  M!Begin
<1>1. CASE DummyFetch
  BY <1>1, DummyFetchIs DEF M!Begin
<1>2. CASE Exception
  BY <1>2, ExceptionIs DEF M!Begin
<1>3. CASE Skip(ab)
  BY <1>3, SkipIs DEF M!Begin
<1>4. ASSUME NEW o \in Insns,
             \/ DataOp(o, ab) \/ DataOpShift(o, ab) \/ Mrs(o, ab) \/ Msr(o, ab)
             \/ Multiply(o, ab) \/ Swap(o, ab) \/ Transfer(o, ab)
             \/ BlockTransfer(o, ab) \/ Branch(o, ab) \/ Undefined(o) \/ Swi(o)
      PROVE  M!Begin
  <2>1. \/ M!DataProc(o) \/ M!DataProcShift(o) \/ M!Mrs(o) \/ M!Msr(o)
        \/ M!Multiply(o) \/ M!Swap(o) \/ M!Transfer(o) \/ M!BlockTransfer(o)
        \/ M!Branch(o) \/ M!Undefined(o) \/ M!Swi(o)
    BY <1>4, DataOpIs, DataOpShiftIs, MrsIs, MsrIs, MultiplyIs, SwapIs, TransferIs,
       BlockTransferIs, BranchIs, UndefinedIs, SwiIs
  <2>2. QED
    BY <2>1 DEF M!Begin
<1>5. QED
  BY <1>1, <1>2, <1>3, <1>4 DEF BeginCycle

LEMMA GoOnIs ==
  ASSUME NEW ab, Later(ab), Waiting, Listed, BlockCycle(ab) \/ OtherCycle(ab)
  PROVE  M!GoOn
<1>1. CASE BlockLoad(ab)
  BY <1>1, BlockLoadIs DEF M!GoOn
<1>2. CASE BlockStore(ab)
  BY <1>2, BlockStoreIs DEF M!GoOn
<1>3. CASE BlockEnd
  BY <1>3, BlockEndIs DEF M!GoOn
<1>4. CASE OtherCycle(ab)
  <2>1. ~x.pw_v
    BY <1>4, CyclesAre DEF Waiting
  <2>2. \/ M!DataProcShifted \/ M!BoothStep \/ M!SwapRead \/ M!SwapWrite
        \/ M!SwapEnd \/ M!LoadData \/ M!Store \/ M!LoadEnd \/ M!UndefinedEntry
        \/ M!RefillTarget \/ M!RefillNext
    BY <1>4, <2>1, DataOp2Is, BoothStepIs, SwapReadIs, SwapWriteIs, SwapEndIs,
       LoadDataIs, StoreIs, LoadEndIs, UndefinedEntryIs, RefillTargetIs, RefillNextIs
       DEF OtherCycle
  <2>3. QED
    BY <2>2 DEF M!GoOn
<1>5. QED
  BY <1>1, <1>2, <1>3, <1>4 DEF BlockCycle

(* What a cycle leaves: nRESET is remembered only by a dummy fetch, and the  *)
(* latches are as the next cycle expects them.                               *)
LEMMA ComputedIdle ==
  ASSUME st' \notin {"MUL", "SWP2", "SWP3", "SDT3", "BDTX", "BDTF"}
  PROVE  Computed'
BY DEF Computed

Left == Computed' /\ (st' \in Running => ex' = ex)

LEMMA LeftIdle ==
  ASSUME st' \in {"BOUND", "REF0"}
  PROVE  Left
BY ComputedIdle DEF Left, Running

LEMMA LeftStaying ==
  ASSUME st' \in {"DP2", "SWP1", "SDT2", "UND2", "REF1"}, Stay
  PROVE  Left
BY ComputedIdle DEF Left, Stay

LEMMA DataDoneLeaves ==
  ASSUME NEW o, DataDone(o)
  PROVE  Left
BY LeftIdle DEF DataDone, Refill, To

LEMMA BeginLeaves ==
  ASSUME NEW ab, Boundary(ab), BeginCycle(ab)
  PROVE  /\ Left
         /\ in_rst' => d_hold /\ st' = "BOUND"
         /\ d_hold => in_rst'
<1>a. in_rst \in BOOLEAN /\ x \in Latches
  BY DEF Boundary, Stepping, CoreType, ReqType
<1>1. CASE DummyFetch
  BY <1>1, LeftIdle DEF DummyFetch, To
<1>2. CASE Exception
  <2>1. PICK e \in {"rexit", "dab", "fiq", "irq", "pab"} :
          /\ Enter(e) /\ ~d_hold /\ (e # "rexit" => ~in_rst)
    BY <1>2 DEF Exception, d_hold, d_rexit, d_dab, d_fiq, d_irq, d_pab
  <2>2. st' = "REF0" /\ ~in_rst'
    BY <2>1 DEF Enter, Refill, To
  <2>3. QED
    BY <2>1, <2>2, LeftIdle
<1>3. ASSUME d_ins
      PROVE  ~d_hold /\ ~in_rst
  BY <1>3 DEF d_ins, d_hold, d_rexit
<1>4. CASE Skip(ab)
  BY <1>3, <1>4, LeftIdle DEF Skip, To, requests
<1>5. ASSUME NEW o \in Insns, DataOp(o, ab)
      PROVE  Left /\ ~d_hold /\ ~in_rst'
  BY <1>3, <1>5, DataDoneLeaves DEF DataOp, Executes, requests
<1>6. ASSUME NEW o \in Insns, Mrs(o, ab) \/ Msr(o, ab) \/ Branch(o, ab) \/ Swi(o)
      PROVE  Left /\ ~d_hold /\ ~in_rst'
  <2>1. d_ins /\ st' \in {"BOUND", "REF0"} /\ (in_rst' => in_rst)
    <3>1. CASE Mrs(o, ab)
      BY <3>1 DEF Mrs, Executes, Refill, To, requests
    <3>2. CASE Msr(o, ab)
      BY <3>2 DEF Msr, Executes, To, requests
    <3>3. CASE Branch(o, ab)
      BY <3>3 DEF Branch, Executes, Refill, To, requests
    <3>4. CASE Swi(o)
      BY <3>4 DEF Swi, Executes, Enter, Refill, To
    <3>5. QED
      BY <1>6, <3>1, <3>2, <3>3, <3>4
  <2>2. QED
    BY <1>3, <2>1, LeftIdle
<1>7. ASSUME NEW o \in Insns,
             DataOpShift(o, ab) \/ Swap(o, ab) \/ Transfer(o, ab) \/ Undefined(o)
      PROVE  Left /\ ~d_hold /\ ~in_rst'
  <2>1. d_ins /\ st' \in {"DP2", "SWP1", "SDT2", "UND2"} /\ Stay /\ in_rst' = in_rst
    BY <1>7 DEF DataOpShift, Swap, Transfer, Undefined, Executes, Goes, To, requests
  <2>2. QED
    BY <1>3, <2>1, LeftStaying
<1>8. ASSUME NEW o \in Insns, Multiply(o, ab)
      PROVE  Left /\ ~d_hold /\ ~in_rst'
  <2>1. /\ d_ins /\ st' = "MUL" /\ Stay /\ in_rst' = in_rst /\ op' = o /\ mk' = 0
        /\ o.cls = "MUL"
    BY <1>8 DEF Multiply, Executes, Goes, To, requests
  <2>2. o.n \in 1 .. 16
    BY <2>1, InsnAssumption
  <2>3. Left
    BY <2>1, <2>2 DEF Left, Computed, Stay
  <2>4. QED
    BY <1>3, <2>1, <2>3
<1>9. ASSUME NEW o \in Insns, BlockTransfer(o, ab)
      PROVE  Left /\ ~d_hold /\ ~in_rst'
  <2>1. d_ins /\ st' = "BDTX" /\ Stay /\ in_rst' = in_rst /\ op' = o
    BY <1>9 DEF BlockTransfer, Executes, Goes, To, requests
  <2>2. x'.list = List(o) /\ x'.first = TRUE /\ x'.pcl = FALSE
    BY <1>9, <1>a DEF BlockTransfer, Latches
  <2>3. Left
    <3>1. List(op)' = List(o)
      BY <2>1 DEF List
    <3>2. QED
      BY <2>1, <2>2, <3>1 DEF Left, Computed, Stay
  <2>4. QED
    BY <1>3, <2>1, <2>3
<1>10. QED
  BY <1>1, <1>2, <1>3, <1>4, <1>5, <1>6, <1>7, <1>8, <1>9
     DEF BeginCycle, Skip, requests

LEMMA GoOnLeaves ==
  ASSUME NEW ab, Later(ab), Listed, BlockCycle(ab) \/ OtherCycle(ab)
  PROVE  Left /\ in_rst' = in_rst
<1>a. x \in Latches /\ ab \in Aborts /\ CoreType
  BY LaterIs DEF Later, Stepping
<1>1. CASE DataOp2
  BY <1>1, DataDoneLeaves DEF DataOp2, requests
<1>2. CASE BoothStep
  <2>1. in_rst' = in_rst
    BY <1>2 DEF BoothStep, requests
  <2>2. CASE To("BOUND", "S") /\ Advance
    BY <2>1, <2>2, LeftIdle DEF To
  <2>3. CASE mk + 1 # op.n /\ To("MUL", "I") /\ Stay /\ op' = op
    <3>1. mk < op.n /\ op.n \in 1 .. 16 /\ mk \in 0 .. 15
      BY <1>2 DEF BoothStep, Later, Computed, Stepping, CoreType
    <3>2. mk' = (mk + 1) % 16 /\ mk + 1 \in 1 .. 15
      BY <1>2, <2>3, <3>1 DEF BoothStep
    <3>3. mk' = mk + 1 /\ mk' < op.n
      BY <2>3, <3>1, <3>2
    <3>4. st' = "MUL" /\ ex' = ex /\ op' = op
      BY <2>3 DEF To, Stay
    <3>5. Left
      BY <3>1, <3>3, <3>4 DEF Left, Computed
    <3>6. QED
      BY <2>1, <3>5
  <2>4. QED
    BY <1>2, <2>2, <2>3 DEF BoothStep
<1>3. CASE SwapRead(ab) \/ LoadData(ab)
  <2>1. PICK v \in Data : x' = [x EXCEPT !.data = v, !.ab = ab_e(ab)]
    BY <1>3 DEF SwapRead, LoadData
  <2>2. x'.data \in Data
    BY <1>a, <2>1 DEF Latches
  <2>3. /\ st' \in {"SWP2", "SDT3"} /\ ex' = ex /\ op' = op /\ in_rst' = in_rst
        /\ st' = "SDT3" => "L" \in op.bits
    BY <1>3 DEF SwapRead, LoadData, To, Stay, requests
  <2>4. QED
    BY <2>2, <2>3 DEF Left, Computed
<1>4. CASE SwapWrite(ab)
  <2>1. st = "SWP2" /\ x' = [x EXCEPT !.ab = x.ab \/ ab_e(ab)]
    BY <1>4 DEF SwapWrite
  <2>2. x'.data \in Data
    BY <1>a, <2>1 DEF Latches, Later, Computed
  <2>3. st' = "SWP3" /\ ex' = ex /\ in_rst' = in_rst
    BY <1>4 DEF SwapWrite, To, Stay, requests
  <2>4. QED
    BY <2>2, <2>3 DEF Left, Computed
<1>5. CASE SwapEnd \/ Store(ab) \/ LoadEnd \/ UndefinedEntry \/ RefillNext(ab)
  <2>1. st' \in {"BOUND", "REF0"} /\ in_rst' = in_rst
    BY <1>5 DEF SwapEnd, Store, LoadEnd, UndefinedEntry, RefillNext, To, Refill,
                requests
  <2>2. QED
    BY <2>1, LeftIdle
<1>6. CASE RefillTarget(ab)
  <2>1. st' = "REF1" /\ Stay /\ in_rst' = in_rst
    BY <1>6 DEF RefillTarget, To, requests
  <2>2. QED
    BY <2>1, LeftStaying
<1>7. CASE BlockLoad(ab)
  <2>1. /\ st = "BDTX" /\ "L" \in op.bits /\ op' = op /\ x.list # {} /\ ex' = ex
        /\ in_rst' = in_rst
    BY <1>7 DEF BlockLoad, Listed, Stay, requests
  <2>2. PICK v \in Data : x' = Transferred(ab, v)
    BY <1>7 DEF BlockLoad
  <2>3. v \in Word
    BY DataAssumption
  <2>4. /\ x' \in Latches /\ x'.first = FALSE /\ x'.list = x.list \ {bdt_r}
        /\ x'.ab = (x.ab \/ ab_e(ab))
        /\ x'.ab => x'.pcl = x.pcl
        /\ ~x'.ab /\ bdt_r = "pc" => x'.pcl = TRUE /\ x'.data = v
        /\ ~x'.ab /\ bdt_r # "pc" => x'.pcl = x.pcl
    BY <1>a, <2>1, <2>2, <2>3, TransferredIs
  <2>5. /\ bdt_r \in x.list /\ (bdt_last <=> x.list \ {bdt_r} = {})
        /\ (bdt_r = "pc" => bdt_last)
        /\ ("pc" \in List(op) => "pc" \in x.list)
    BY <2>1, NextIs
  <2>6. x.list \subseteq List(op) /\ ~x.pcl /\ List(op)' = List(op)
    BY <2>1 DEF Later, Computed, List
  <2>7. CASE bdt_last
    <3>1. st' = "BDTF"
      BY <1>7, <2>7 DEF BlockLoad, To
    <3>2. "pc" \in List(op) => bdt_r = "pc"
      BY <2>5, <2>7
    <3>3. x'.pcl <=> "pc" \in List(op) /\ ~x'.ab
      BY <2>4, <2>5, <2>6, <3>2
    <3>4. x'.pcl => x'.data \in Data
      BY <2>4, <2>6
    <3>5. QED
      BY <2>1, <2>6, <3>1, <3>3, <3>4 DEF Left, Computed
  <2>8. CASE ~bdt_last
    <3>1. st' = "BDTX"
      BY <1>7, <2>8 DEF BlockLoad, To
    <3>2. /\ x'.list \subseteq List(op) /\ x'.list # List(op) /\ ~x'.pcl
          /\ "pc" \in List(op) => "pc" \in x'.list
      BY <2>4, <2>5, <2>6, <2>8
    <3>3. QED
      BY <2>1, <2>4, <2>6, <3>1, <3>2 DEF Left, Computed
  <2>9. QED
    BY <2>7, <2>8
<1>8. CASE BlockStore(ab)
  <2>1. /\ st = "BDTX" /\ "L" \notin op.bits /\ x.list # {} /\ in_rst' = in_rst
        /\ x' = Transferred(ab, 0)
    BY <1>8 DEF BlockStore, Listed
  <2>2. CASE To("BOUND", "N")
    BY <2>1, <2>2, LeftIdle DEF To
  <2>3. CASE ~bdt_last /\ To("BDTX", "S") /\ Stay /\ op' = op
    <3>1. /\ x'.first = FALSE /\ x'.list = x.list \ {bdt_r} /\ x'.pcl = x.pcl
      BY <1>a, <2>1, ZeroTypes, TransferredIs
    <3>2. /\ bdt_r \in x.list /\ (bdt_r = "pc" => bdt_last)
          /\ ("pc" \in List(op) => "pc" \in x.list)
      BY <2>1, NextIs
    <3>3. x.list \subseteq List(op) /\ ~x.pcl /\ List(op)' = List(op)
      BY <2>1, <2>3 DEF Later, Computed, List
    <3>4. /\ x'.list \subseteq List(op) /\ x'.list # List(op) /\ ~x'.pcl
          /\ "pc" \in List(op) => "pc" \in x'.list
      BY <2>3, <3>1, <3>2, <3>3
    <3>5. st' = "BDTX" /\ ex' = ex
      BY <2>3 DEF To, Stay
    <3>6. QED
      BY <2>1, <3>1, <3>3, <3>4, <3>5 DEF Left, Computed
  <2>4. QED
    BY <1>8, <2>2, <2>3 DEF BlockStore
<1>9. CASE BlockEnd
  <2>1. st' \in {"BOUND", "REF0"} /\ in_rst' = in_rst
    BY <1>9 DEF BlockEnd, To, Refill
  <2>2. QED
    BY <2>1, LeftIdle
<1>10. QED
  BY <1>1, <1>2, <1>3, <1>4, <1>5, <1>6, <1>7, <1>8, <1>9 DEF BlockCycle, OtherCycle

-----------------------------------------------------------------------------
(* The invariant *)

(* What was latched at a boundary is what the model was told. *)
Heard == st = "BOUND" /\ ~fc => taken = told

(* nRESET as the model sees it, and the reset the RTL remembers *)
HoldSeen ==
  /\ in_rst => st = "BOUND" /\ (fc /\ ~told.hold => ~pins.hold)
  /\ told.hold => in_rst \/ (st = "BOUND" /\ (fc => pins.hold))

Told == told \in Levels /\ at \in Word

LockInv == RtlInv /\ Told /\ Attached /\ Heard /\ HoldSeen /\ Computed

LEMMA LockInvInit == LockInit => LockInv
<1> SUFFICES ASSUME LockInit
             PROVE  LockInv
  OBVIOUS
<1>1. RtlInv /\ st = "BOUND" /\ fc = TRUE /\ in_rst = FALSE
  BY InvInit DEF LockInit, RtlInit
<1>2. Told /\ told.hold = FALSE
  BY ZeroTypes DEF LockInit, Told, Levels
<1>3. QED
  BY <1>1, <1>2 DEF LockInv, Attached, Heard, HoldSeen, Computed, Running

LEMMA EdgeHears ==
  ASSUME LockInv, FirstClock => told = pins, st = "BOUND"
  PROVE  Hears /\ (d_hold <=> told.hold)
<1>1. \A i \in {"hold", "fiq", "irq"} : Sampled(i) = told[i]
  BY DEF LockInv, Heard, Sampled, FirstClock
<1>2. QED
  BY <1>1 DEF Hears, d_hold

LEMMA TypesOfLock ==
  ASSUME RtlInv
  PROVE  CoreType /\ Waiting /\ Listed /\ pins \in Levels /\ taken \in Levels
BY CoreTypes DEF RtlInv, RtlTypeOK

LEMMA TypesStay == (RtlInv => CoreType)'
<1>1. RtlInv => CoreType
  BY TypesOfLock
<1>2. QED
  BY <1>1, PTL

(* A step that ends a cycle *)
LEMMA DoneStep ==
  ASSUME LockInv, Edge, Done, bus' = [addr |-> bus_addr, type |-> ctype,
                                      flags |-> bus_flags],
         at' = IF Executing THEN ex.addr ELSE at
  PROVE  M!BusCycle /\ LockInv'
<1>1. PICK ab \in Aborts : EndOfCycle(ab)
  BY DEF Done
<1>2. /\ CoreType /\ Waiting /\ Listed /\ Told /\ Attached /\ HoldSeen /\ Computed
      /\ told' = told /\ fc' = TRUE /\ (FirstClock => told = pins)
  BY TypesOfLock DEF LockInv, Edge, Done
<1>3. RtlInv'
  BY InvStep DEF LockInv, RtlNext
<1>4. CoreType'
  BY <1>3, TypesStay
<1>5. Told'
  BY <1>2 DEF Told, CoreType, SeqType, Slot
<1>6. Stepping(ab)
  BY <1>2, <1>4, <1>5 DEF Stepping, Seen, Told
<1>7. /\ BeginCycle(ab) \/ BlockCycle(ab) \/ OtherCycle(ab)
      /\ BeginCycle(ab) => st = "BOUND"
      /\ BlockCycle(ab) => st \in {"BDTX", "BDTF"}
      /\ OtherCycle(ab) => st \notin {"BOUND", "BDTX", "BDTF"}
  BY <1>1, CyclesAre
<1>8. ASSUME BeginCycle(ab)
      PROVE  M!BusCycle /\ Left /\ HoldSeen'
  <2>1. Hears /\ (d_hold <=> told.hold)
    BY <1>2, <1>7, <1>8, EdgeHears
  <2>2. Boundary(ab)
    BY <1>2, <1>6, <1>7, <1>8, <2>1 DEF Boundary, Waiting
  <2>3. M!Begin
    BY <1>8, <2>2, BeginIs
  <2>4. Left /\ (in_rst' => d_hold /\ st' = "BOUND") /\ (d_hold => in_rst')
    BY <1>8, <2>2, BeginLeaves
  <2>5. HoldSeen'
    BY <1>2, <2>1, <2>4 DEF HoldSeen
  <2>6. QED
    BY <2>3, <2>4, <2>5 DEF M!BusCycle
<1>9. ASSUME BlockCycle(ab) \/ OtherCycle(ab)
      PROVE  M!BusCycle /\ Left /\ HoldSeen'
  <2>1. Later(ab) /\ st # "BOUND"
    BY <1>2, <1>6, <1>7, <1>9 DEF Later
  <2>2. M!GoOn
    BY <1>2, <1>9, <2>1, GoOnIs
  <2>3. Left /\ in_rst' = in_rst
    BY <1>2, <1>9, <2>1, GoOnLeaves
  <2>4. HoldSeen'
    BY <1>2, <2>1, <2>3 DEF HoldSeen
  <2>5. QED
    BY <2>2, <2>3, <2>4 DEF M!BusCycle
<1>10. M!BusCycle /\ Left /\ HoldSeen'
  BY <1>7, <1>8, <1>9
<1>11. Attached' /\ Heard'
  BY <1>2, <1>10 DEF Attached, Heard, Left, Executing
<1>12. QED
  BY <1>3, <1>5, <1>10, <1>11 DEF LockInv, Left

(* A clock that acknowledges nothing is no step of the model *)
LEMMA WaitStep ==
  ASSUME LockInv, Edge, Wait, UNCHANGED <<bus, at>>
  PROVE  UNCHANGED M!vars /\ LockInv'
<1>1. /\ UNCHANGED <<st, mk, ctype, rf, cpsr, spsr, pc, ex, de, f1, dab, in_rst,
                     rst_exit, op, x, bus, at, told>>
      /\ fc' = FALSE /\ taken' = (IF fc THEN pins ELSE taken)
      /\ FirstClock => told = pins
  BY DEF Edge, Wait, Latch, regs, requests
<1>2. RtlInv'
  BY InvStep DEF LockInv, RtlNext
<1>3. SeqOf' = SeqOf /\ KOf' = KOf
  BY <1>1 DEF SeqOf, KOf
<1>4. XOf' = XOf
  BY <1>1 DEF XOf, Undone, Running
<1>5. GprOf' = GprOf
  BY <1>1 DEF GprOf, PendingWritten
<1>6. UNCHANGED M!vars
  BY <1>1, <1>3, <1>4, <1>5 DEF M!vars
<1>7. Told' /\ Attached' /\ Computed'
  BY <1>1 DEF LockInv, Told, Attached, Running, Computed, List
<1>8. Heard' /\ HoldSeen'
  BY <1>1 DEF LockInv, Heard, HoldSeen, FirstClock
<1>9. QED
  BY <1>2, <1>6, <1>7, <1>8 DEF LockInv

(* Telling the model of an input is its action for that input *)
LEMMA TellStep ==
  ASSUME LockInv, NEW i \in {"hold", "fiq", "irq"}, Tell(i)
  PROVE  (M!SetReset \/ M!SetFiq \/ M!SetIrq) /\ LockInv'
<1>1. /\ UNCHANGED <<st, mk, ctype, fc, pins, taken, rf, cpsr, spsr, pc, ex, de, f1,
                     dab, in_rst, rst_exit, op, x, bus, at>>
      /\ told' = [told EXCEPT ![i] = pins[i]] /\ told[i] # pins[i]
      /\ st = "BOUND" /\ fc
  BY DEF Tell, rvars, regs, requests, FirstClock
<1>2. /\ told \in [{"hold", "fiq", "irq"} -> BOOLEAN]
      /\ pins \in [{"hold", "fiq", "irq"} -> BOOLEAN]
      /\ \A j \in {"hold", "fiq", "irq"} :
           (told[j] => j \in Inputs) /\ (pins[j] => j \in Inputs)
  BY TypesOfLock DEF LockInv, Told, Levels
<1>3. /\ told' \in [{"hold", "fiq", "irq"} -> BOOLEAN]
      /\ \A j \in {"hold", "fiq", "irq"} : told'[j] = IF j = i THEN pins[i] ELSE told[j]
  BY <1>1, <1>2
<1>4. SeqOf' = SeqOf /\ KOf' = KOf
  BY <1>1 DEF SeqOf, KOf
<1>5. XOf' = XOf
  BY <1>1 DEF XOf, Undone, Running
<1>6. GprOf' = GprOf
  BY <1>1 DEF GprOf, PendingWritten
<1>7. UNCHANGED <<M!regs, M!stages>> /\ in_rst \in BOOLEAN /\ rst_exit \in BOOLEAN
  BY <1>1, <1>6, TypesOfLock DEF M!regs, M!stages, LockInv, CoreType, ReqType
<1>8. HoldSeen
  BY DEF LockInv
<1>9. ASSUME i = "hold"
      PROVE  M!SetReset
  <2>1. told'.hold = pins.hold /\ told'.fiq = told.fiq /\ told'.irq = told.irq
    BY <1>3, <1>9
  <2>2. CASE ~told.hold
    <3>1. told'.hold = TRUE /\ told.hold = FALSE /\ ~in_rst
      BY <1>1, <1>2, <1>8, <1>9, <2>1, <2>2 DEF HoldSeen
    <3>2. (rst_exit \/ (in_rst /\ ~told.hold))' = (rst_exit \/ (in_rst /\ ~told.hold))
      BY <1>1, <1>7, <3>1
    <3>3. QED
      BY <1>1, <1>4, <1>5, <1>6, <1>7, <2>1, <3>1, <3>2 DEF M!SetReset
  <2>3. CASE told.hold
    <3>1. told'.hold = FALSE /\ told.hold = TRUE /\ in_rst
      BY <1>1, <1>2, <1>8, <1>9, <2>1, <2>3 DEF HoldSeen
    <3>2. (rst_exit \/ (in_rst /\ ~told.hold))' = TRUE
      BY <1>1, <1>7, <3>1
    <3>3. QED
      BY <1>1, <1>4, <1>5, <1>6, <1>7, <2>1, <3>1, <3>2 DEF M!SetReset
  <2>4. QED
    BY <2>2, <2>3
<1>10. ASSUME i = "fiq"
       PROVE  M!SetFiq
  <2>1. /\ told'.hold = told.hold /\ told'.fiq = pins.fiq /\ told'.irq = told.irq
        /\ told.fiq \in BOOLEAN /\ pins.fiq \in BOOLEAN /\ told.fiq # pins.fiq
    BY <1>1, <1>2, <1>3, <1>10
  <2>2. told'.fiq = ~told.fiq
    BY <2>1
  <2>3. (rst_exit \/ (in_rst /\ ~told.hold))' = (rst_exit \/ (in_rst /\ ~told.hold))
    BY <1>1, <2>1
  <2>4. QED
    BY <1>1, <1>4, <1>5, <1>6, <1>7, <2>1, <2>2, <2>3 DEF M!SetFiq, M!requests
<1>11. ASSUME i = "irq"
       PROVE  M!SetIrq
  <2>1. /\ told'.hold = told.hold /\ told'.irq = pins.irq /\ told'.fiq = told.fiq
        /\ told.irq \in BOOLEAN /\ pins.irq \in BOOLEAN /\ told.irq # pins.irq
    BY <1>1, <1>2, <1>3, <1>11
  <2>2. told'.irq = ~told.irq
    BY <2>1
  <2>3. (rst_exit \/ (in_rst /\ ~told.hold))' = (rst_exit \/ (in_rst /\ ~told.hold))
    BY <1>1, <2>1
  <2>4. QED
    BY <1>1, <1>4, <1>5, <1>6, <1>7, <2>1, <2>2, <2>3 DEF M!SetIrq, M!requests
<1>12. M!SetReset \/ M!SetFiq \/ M!SetIrq
  BY <1>9, <1>10, <1>11
<1>13. Told' /\ Attached' /\ Heard' /\ Computed'
  <2>1. told' \in Levels /\ at' \in Word
    BY <1>1, <1>2, <1>3 DEF Levels, LockInv, Told
  <2>2. Attached' /\ Heard' /\ Computed'
    BY <1>1 DEF LockInv, Attached, Running, Heard, Computed, List
  <2>3. QED
    BY <2>1, <2>2 DEF Told
<1>14. HoldSeen'
  <2>1. CASE i = "hold"
    BY <1>1, <1>3, <2>1 DEF HoldSeen
  <2>2. CASE i # "hold"
    BY <1>1, <1>3, <1>8, <2>2 DEF HoldSeen
  <2>3. QED
    BY <2>1, <2>2
<1>15. RtlInv'
  <2>1. UNCHANGED rvars
    BY DEF Tell
  <2>2. QED
    BY <2>1, InvStep DEF LockInv
<1>16. QED
  BY <1>12, <1>13, <1>14, <1>15 DEF LockInv

-----------------------------------------------------------------------------
(* Refinement *)

LEMMA LockStep ==
  ASSUME LockInv, [LockNext]_<<rvars, hist>>
  PROVE  [M!Next]_(M!vars) /\ LockInv'
<1>1. CASE Edge
  <2>1. CASE /\ Done /\ bus' = [addr |-> bus_addr, type |-> ctype, flags |-> bus_flags]
             /\ at' = IF Executing THEN ex.addr ELSE at
    BY <1>1, <2>1, DoneStep DEF M!Next
  <2>2. CASE Wait /\ UNCHANGED <<bus, at>>
    BY <1>1, <2>2, WaitStep
  <2>3. QED
    BY <1>1, <2>1, <2>2 DEF Edge
<1>2. CASE \E i \in DOMAIN told : Tell(i)
  <2>1. DOMAIN told = {"hold", "fiq", "irq"}
    BY DEF LockInv, Told, Levels
  <2>2. QED
    BY <1>2, <2>1, TellStep DEF M!Next
<1>3. CASE UNCHANGED <<rvars, hist>>
  <2>1. /\ UNCHANGED <<st, mk, ctype, fc, pins, taken, rf, cpsr, spsr, pc, ex, de, f1,
                       dab, in_rst, rst_exit, op, x, bus, at, told>>
    BY <1>3 DEF rvars, hist, regs, requests
  <2>2. SeqOf' = SeqOf /\ KOf' = KOf
    BY <2>1 DEF SeqOf, KOf
  <2>3. XOf' = XOf
    BY <2>1 DEF XOf, Undone, Running
  <2>4. GprOf' = GprOf
    BY <2>1 DEF GprOf, PendingWritten
  <2>5. UNCHANGED M!vars
    BY <2>1, <2>2, <2>3, <2>4 DEF M!vars
  <2>6. RtlInv'
    BY <1>3, InvStep DEF LockInv
  <2>7. Told' /\ Attached' /\ Heard' /\ HoldSeen' /\ Computed'
    BY <2>1 DEF LockInv, Told, Attached, Running, Heard, HoldSeen, Computed, List
  <2>8. QED
    BY <2>5, <2>6, <2>7 DEF LockInv
<1>4. QED
  BY <1>1, <1>2, <1>3 DEF LockNext

LEMMA LockStart == LockInit => M!Init
<1> SUFFICES ASSUME LockInit
             PROVE  M!Init
  OBVIOUS
<1>1. /\ st = "BOUND" /\ ctype = "N" /\ ~x.pw_v /\ at = 0
      /\ told = [i \in {"hold", "fiq", "irq"} |-> FALSE]
  BY DEF LockInit, RtlInit
<1>2. SeqOf = "IDLE" /\ KOf = 0
  BY <1>1, SequenceIs DEF SequenceAt
<1>3. XOf = M!Clear
  BY <1>1, SameArch DEF XOf, M!Clear, Running
<1>4. GprOf = [r \in M!PhysReg |-> 0]
  BY <1>1 DEF GprOf, LockInit, RtlInit, M!PhysReg, PhysReg, M!Bank, Bank
<1>5. spsr = [b \in M!Bank |-> [mode |-> "ILL", i |-> FALSE, f |-> FALSE]]
  BY DEF LockInit, RtlInit, M!Bank, Bank
<1>6. (rst_exit \/ (in_rst /\ ~told.hold)) = TRUE
  BY DEF LockInit, RtlInit
<1>7. told.hold = FALSE /\ told.fiq = FALSE /\ told.irq = FALSE
  BY <1>1
<1>8. QED
  BY <1>2, <1>3, <1>4, <1>5, <1>6, <1>7, SameArch DEF M!Init, LockInit, RtlInit

(* Whatever the memory answers, however long it stretches a cycle and        *)
(* however the inputs move, the RTL core makes the bus cycles of the core    *)
(* model, in its order and with its registers.                               *)
THEOREM LockstepCorrect == LockSpec => CycleExact
<1>1. LockInv /\ [LockNext]_<<rvars, hist>> => LockInv'
  BY LockStep
<1>2. LockInv /\ [LockNext]_<<rvars, hist>> => [M!Next]_(M!vars)
  BY LockStep
<1>3. QED
  BY LockInvInit, LockStart, <1>1, <1>2, PTL DEF LockSpec, CycleExact, M!Spec

=============================================================================
