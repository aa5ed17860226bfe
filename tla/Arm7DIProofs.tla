---------------------------- MODULE Arm7DIProofs ----------------------------
(***************************************************************************)
(* Theorems about the core model, for every size of the address space and   *)
(* every instruction, datum, PSR image and abort pattern; and about the     *)
(* cycles it drives and the data sheet's tables.                            *)
(***************************************************************************)
EXTENDS DataSheet, Arm7ArchProofs, SequenceTheorems

-----------------------------------------------------------------------------
(* Operators *)

Entries == {"reset", "swi", "pabt", "dabt", "irq", "fiq"}

LEMMA VectorType ==
  /\ \A e \in Entries :
       /\ Entry[e].vector \in Word /\ Entry[e].f \in BOOLEAN
       /\ Entry[e].mode \in Mode /\ BankOf(Entry[e].mode) \in Bank
       /\ BankOf(Entry[e].mode) = Entry[e].mode /\ Entry[e].mode # "USR"
  /\ 0 \in Word /\ 1 \in Word
<1>1. {0, 1, 2, 3, 4, 6, 7} \subseteq Word
  BY SizeAssumption DEF Word
<1>2. ASSUME NEW e \in Entries
      PROVE  /\ Entry[e].vector \in {0, 2, 3, 4, 6, 7} /\ Entry[e].f \in BOOLEAN
             /\ Entry[e].mode \in {"SVC", "ABT", "IRQ", "FIQ"}
  <2>1. CASE e = "reset"  BY <2>1 DEF Entry
  <2>2. CASE e = "swi"    BY <2>2 DEF Entry
  <2>3. CASE e = "pabt"   BY <2>3 DEF Entry
  <2>4. CASE e = "dabt"   BY <2>4 DEF Entry
  <2>5. CASE e = "irq"    BY <2>5 DEF Entry
  <2>6. CASE e = "fiq"    BY <2>6 DEF Entry
  <2>7. QED
    BY <1>2, <2>1, <2>2, <2>3, <2>4, <2>5, <2>6 DEF Entries
<1>3. \A m \in {"SVC", "ABT", "IRQ", "FIQ"} :
        m \in Mode /\ BankOf(m) = m /\ m \in Bank /\ m # "USR"
  BY DEF Mode, Bank, BankOf
<1>4. QED
  BY <1>1, <1>2, <1>3

LEMMA ValType ==
  ASSUME TypeOK, NEW r \in Reg
  PROVE  Val(r) \in Word
<1>1. CurBank \in Bank
  BY BankOfType DEF CurBank, TypeOK, Psr
<1>2. QED
  BY <1>1, PhysType DEF Val, TypeOK

LEMMA SetBankType ==
  ASSUME NEW g \in [PhysReg -> Word], NEW r \in Reg, NEW b \in Bank,
         NEW v \in Word
  PROVE  SetBank(g, r, b, v) \in [PhysReg -> Word]
  BY PhysType DEF SetBank

LEMMA SetRegType ==
  ASSUME TypeOK, NEW g \in [PhysReg -> Word], NEW r \in Reg, NEW v \in Word
  PROVE  SetReg(g, r, v) \in [PhysReg -> Word]
<1>1. CurBank \in Bank
  BY BankOfType DEF CurBank, TypeOK, Psr
<1>2. QED
  BY <1>1, SetBankType DEF SetReg

LEMMA ReturnedPsrType ==
  ASSUME TypeOK
  PROVE  ReturnedPsr \in Psr
<1>1. CurBank \in Bank
  BY BankOfType DEF CurBank, TypeOK, Psr
<1>2. QED
  BY <1>1 DEF ReturnedPsr, TypeOK

LEMMA RetiredType ==
  ASSUME NEW at \in Word
  PROVE  Retired(at) \in InFlight
<1>1. NoInsn \in Insn
  BY DEF NoInsn, Insn, Class, Reg, Bits
<1>2. ZeroSlot \in Slot /\ 0 \in Word
  BY VectorType DEF ZeroSlot, Slot
<1>3. Clear \in InFlight
  BY <1>1, <1>2 DEF Clear, InFlight
<1>4. QED
  BY <1>3 DEF Retired, InFlight

LEMMA DecodedType ==
  ASSUME TypeOK, NEW op \in Insns
  PROVE  Decoded(op) \in InFlight
<1>1. op \in Insn /\ ex.addr \in Word
  BY InsnAssumption DEF TypeOK, Slot
<1>2. Retired(ex.addr) \in InFlight
  BY <1>1, RetiredType
<1>3. QED
  BY <1>1, <1>2 DEF Decoded, InFlight

-----------------------------------------------------------------------------
(* Type correctness *)

BusType ==
  /\ next_type \in CycleType
  /\ in_reset \in BOOLEAN /\ fiq_in \in BOOLEAN /\ irq_in \in BOOLEAN
  /\ bus \in [addr : Word, type : CycleType, flags : SUBSET BusFlag]

FlowType == seq \in Sequence /\ k \in Nat /\ ex \in Slot /\ de \in Slot

LEMMA FlagTypes == Fetching \subseteq BusFlag /\ UserFlag \subseteq BusFlag
  BY DEF Fetching, UserFlag, BusFlag

LEMMA CycleTypes ==
  ASSUME TypeOK, NEW addr \in Word, NEW flags \in SUBSET BusFlag,
         NEW next \in CycleType, Cycle(addr, flags, next)
  PROVE  BusType'
  BY DEF Cycle, TypeOK, BusType, inputs

LEMMA LaterCycleTypes ==
  ASSUME TypeOK, NEW addr \in Word, NEW flags \in SUBSET BusFlag,
         NEW next \in CycleType, LaterCycle(addr, flags, next)
  PROVE  BusType' /\ f1' \in Slot /\ pc' \in Word /\ f1' = f1 /\ pc' = pc
<1>1. Cycle(addr, flags, next) /\ f1' = f1 /\ pc' = pc
  BY DEF LaterCycle
<1>2. QED
  BY <1>1, CycleTypes DEF TypeOK

LEMMA FetchTypes ==
  ASSUME TypeOK, NEW next \in CycleType, Cycle1Fetch(next)
  PROVE  BusType' /\ f1' \in Slot /\ pc' \in Word
<1>1. PICK ab \in Aborts :
        /\ Cycle(pc, Fetching, next)
        /\ f1' = [addr |-> pc, abort |-> LastAbort(ab)]
        /\ pc' = Inc(pc)
  BY DEF Cycle1Fetch
<1>2. BusType'
  BY <1>1, CycleTypes, FlagTypes DEF TypeOK
<1>3. LastAbort(ab) \in BOOLEAN
  BY AbortAssumption DEF LastAbort
<1>4. f1' \in Slot /\ pc' \in Word
  BY <1>1, <1>3, IncType DEF Slot, TypeOK
<1>5. QED
  BY <1>2, <1>4

LEMMA FinishTypes ==
  ASSUME TypeOK, Finish, f1' \in Slot
  PROVE  FlowType' /\ x' \in InFlight
<1>1. x' \in InFlight
  BY RetiredType DEF Finish, TypeOK, Slot
<1>2. FlowType'
  BY DEF Finish, FlowType, TypeOK, Sequence
<1>3. QED
  BY <1>1, <1>2

LEMMA ContinueTypes ==
  ASSUME TypeOK, NEW s \in Sequence, NEW n \in Nat, Continue(s, n)
  PROVE  FlowType'
  BY DEF Continue, FlowType, TypeOK, stages

LEMMA RefillTypes ==
  ASSUME TypeOK, NEW t \in Word, StartRefill(t)
  PROVE  FlowType' /\ x' \in InFlight
<1>1. FlowType'
  BY ContinueTypes DEF StartRefill, Sequence
<1>2. Retired(x.at) \in InFlight
  BY RetiredType DEF TypeOK, InFlight
<1>3. x' \in InFlight
  BY <1>2 DEF StartRefill, InFlight
<1>4. QED
  BY <1>1, <1>3

(* TypeOK from its parts *)
LEMMA TypeParts ==
  ASSUME FlowType', BusType', x' \in InFlight, pc' \in Word, f1' \in Slot,
         gpr' \in [PhysReg -> Word], cpsr' \in Psr, spsr' \in [Bank -> Psr],
         dabort_pending' \in BOOLEAN, reset_exit' \in BOOLEAN
  PROVE  TypeOK'
  BY DEF FlowType, BusType, TypeOK

LEMMA EnterTypes ==
  ASSUME TypeOK, NEW e \in Entries, Enter(e)
  PROVE  /\ FlowType' /\ BusType' /\ x' \in InFlight /\ pc' \in Word /\ f1' \in Slot
         /\ gpr' \in [PhysReg -> Word] /\ cpsr' \in Psr /\ spsr' \in [Bank -> Psr]
<1>1. LaterCycle(pc, Fetching, "N")
  BY DEF Enter
<1>2. BusType' /\ pc' \in Word /\ f1' \in Slot
  BY <1>1, LaterCycleTypes, FlagTypes DEF TypeOK, CycleType
<1>3. FlowType' /\ x' \in InFlight
  BY RefillTypes, VectorType DEF Enter
<1>4. cpsr' \in Psr
  BY VectorType DEF Enter, Psr, TypeOK
<1>5. spsr' \in [Bank -> Psr]
  BY VectorType DEF Enter, TypeOK
<1>6. gpr' \in [PhysReg -> Word]
  BY VectorType, SetBankType, IncType DEF Enter, TypeOK, Reg
<1>7. QED
  BY <1>2, <1>3, <1>4, <1>5, <1>6

LEMMA DpTypes ==
  ASSUME TypeOK, NEW op \in Insn, DpFinish(op),
         f1' \in Slot
  PROVE  /\ FlowType' /\ x' \in InFlight
         /\ gpr' \in [PhysReg -> Word] /\ cpsr' \in Psr
<1> DEFINE res == Plus(Val(op.rn), op.n)
<1>1. op.rn \in Reg /\ op.rd \in Reg /\ op.n \in Int
  BY DEF Insn
<1>2. res \in Word
  BY <1>1, ValType, PlusType
<1>3. CASE WritesPC(op) /\ cpsr' = (IF "S" \in op.bits THEN ReturnedPsr ELSE cpsr)
           /\ StartRefill(res) /\ gpr' = gpr
  BY <1>2, <1>3, RefillTypes, ReturnedPsrType DEF TypeOK
<1>4. CASE ~WritesPC(op)
           /\ gpr' = (IF "T" \in op.bits THEN gpr ELSE SetReg(gpr, op.rd, res))
           /\ cpsr' = (IF {"S", "T"} \subseteq op.bits /\ op.rd = "pc"
                       THEN ReturnedPsr ELSE cpsr)
           /\ Finish
  BY <1>1, <1>2, <1>4, FinishTypes, SetRegType, ReturnedPsrType DEF TypeOK
<1>5. QED
  BY <1>3, <1>4 DEF DpFinish

(* The first cycles *)
LEMMA TypeBegin ==
  ASSUME TypeOK, Begin
  PROVE  TypeOK'
<1> USE DEF TypeOK
<1>0. \A op \in Insns : op \in Insn /\ op.rd \in Reg /\ op.rn \in Reg /\ op.n \in Int
  BY InsnAssumption DEF Insn
<1>c. "N" \in CycleType /\ "S" \in CycleType /\ "I" \in CycleType
  BY DEF CycleType
<1>1. CASE ResetCycle
  <2>1. BusType' /\ pc' \in Word
    BY <1>1, <1>c, CycleTypes, FlagTypes, IncType DEF ResetCycle
  <2>2. QED
    BY <1>1, <2>1, TypeParts DEF ResetCycle, regs, stages, requests, FlowType
<1>2. CASE \E e \in {"reset", "dabt", "fiq", "irq", "pabt"} : Exception(e)
  <2>1. PICK e \in Entries : Exception(e)
    BY <1>2 DEF Entries
  <2>2. QED
    BY <2>1, EnterTypes, TypeParts DEF Exception
<1>3. CASE Skip
  <2>1. BusType' /\ pc' \in Word /\ f1' \in Slot
    BY <1>3, <1>c, FetchTypes DEF Skip
  <2>2. FlowType' /\ x' \in InFlight
    BY <1>3, <2>1, FinishTypes DEF Skip
  <2>3. QED
    BY <1>3, <2>1, <2>2, TypeParts DEF Skip, regs, requests
<1>4. ASSUME NEW op \in Insns, DataProc(op)
      PROVE  TypeOK'
  <2>1. BusType' /\ pc' \in Word /\ f1' \in Slot
    BY <1>4, <1>c, FetchTypes DEF DataProc
  <2>2. QED
    BY <1>0, <1>4, <2>1, DpTypes, DecodedType, TypeParts DEF DataProc, requests
<1>5. ASSUME NEW op \in Insns, DataProcShift(op)
      PROVE  TypeOK'
  <2>1. BusType' /\ pc' \in Word /\ f1' \in Slot
    BY <1>5, <1>c, FetchTypes DEF DataProcShift
  <2>2. FlowType'
    BY <1>5, ContinueTypes DEF DataProcShift, Sequence
  <2>3. QED
    BY <1>5, <2>1, <2>2, DecodedType, TypeParts DEF DataProcShift, regs, requests
<1>6. ASSUME NEW op \in Insns, Mrs(op)
      PROVE  TypeOK'
  <2>1. BusType' /\ pc' \in Word /\ f1' \in Slot
    BY <1>6, <1>c, FetchTypes DEF Mrs
  <2>2. PICK v \in Word :
          \/ op.rd = "pc" /\ StartRefill(v) /\ gpr' = gpr
          \/ gpr' = SetReg(gpr, op.rd, v) /\ Finish
    BY <1>6, DataAssumption DEF Mrs
  <2>3. FlowType' /\ x' \in InFlight /\ gpr' \in [PhysReg -> Word]
    BY <1>0, <2>1, <2>2, RefillTypes, FinishTypes, SetRegType, DecodedType
  <2>4. QED
    BY <1>6, <2>1, <2>3, TypeParts DEF Mrs, requests
<1>7. ASSUME NEW op \in Insns, Msr(op)
      PROVE  TypeOK'
  <2>1. BusType' /\ pc' \in Word /\ f1' \in Slot
    BY <1>7, <1>c, FetchTypes DEF Msr
  <2>2. FlowType' /\ x' \in InFlight
    BY <1>7, <2>1, FinishTypes DEF Msr
  <2>3. CurBank \in Bank
    BY BankOfType DEF CurBank, Psr
  <2>4. spsr' \in [Bank -> Psr] /\ cpsr' \in Psr
    BY <1>7, <2>3, PsrAssumption DEF Msr
  <2>5. QED
    BY <1>7, <2>1, <2>2, <2>4, DecodedType, TypeParts DEF Msr, requests
<1>8. ASSUME NEW op \in Insns, Multiply(op)
      PROVE  TypeOK'
  <2>1. BusType' /\ pc' \in Word /\ f1' \in Slot
    BY <1>8, <1>c, FetchTypes DEF Multiply
  <2>2. FlowType'
    BY <1>8, ContinueTypes DEF Multiply, Sequence
  <2>3. gpr' \in [PhysReg -> Word]
    BY <1>0, <1>8, SetRegType, ValType, VectorType DEF Multiply
  <2>4. QED
    BY <1>8, <2>1, <2>2, <2>3, DecodedType, TypeParts DEF Multiply, requests
<1>9. ASSUME NEW op \in Insns, Swap(op)
      PROVE  TypeOK'
  <2>1. BusType' /\ pc' \in Word /\ f1' \in Slot
    BY <1>9, <1>c, FetchTypes DEF Swap
  <2>2. FlowType'
    BY <1>9, ContinueTypes DEF Swap, Sequence
  <2>3. x' \in InFlight
    BY <1>0, <1>9, DecodedType, ValType DEF Swap, InFlight
  <2>4. QED
    BY <1>9, <2>1, <2>2, <2>3, TypeParts DEF Swap, regs, requests
<1>10. ASSUME NEW op \in Insns, Transfer(op)
       PROVE  TypeOK'
  <2>1. BusType' /\ pc' \in Word /\ f1' \in Slot
    BY <1>10, <1>c, FetchTypes DEF Transfer
  <2>2. FlowType'
    BY <1>10, ContinueTypes DEF Transfer, Sequence
  <2>3. Val(op.rn) \in Word
    BY <1>0, ValType
  <2>4. Plus(Val(op.rn), IF "U" \in op.bits THEN op.n ELSE -op.n) \in Word
    <3>1. (IF "U" \in op.bits THEN op.n ELSE -op.n) \in Int
      BY <1>0
    <3>2. QED
      BY <2>3, <3>1, PlusType
  <2>5. x' \in InFlight
    BY <1>10, <2>3, <2>4, DecodedType DEF Transfer, InFlight
  <2>6. QED
    BY <1>10, <2>1, <2>2, <2>5, TypeParts DEF Transfer, regs, requests
<1>11. ASSUME NEW op \in Insns, BlockTransfer(op)
       PROVE  TypeOK'
  <2>1. BusType' /\ pc' \in Word /\ f1' \in Slot
    BY <1>11, <1>c, FetchTypes DEF BlockTransfer
  <2>2. FlowType'
    BY <1>11, ContinueTypes DEF BlockTransfer, Sequence
  <2>3. Val(op.rn) \in Word /\ Words(op) \in Int /\ List(op) \subseteq Reg
    BY <1>0, ValType, ListType
  <2> DEFINE base == Val(op.rn)
             n    == Words(op)
             low  == IF "U" \in op.bits THEN base ELSE Plus(base, -n)
  <2>4. Plus(base, n) \in Word /\ low \in Word
    <3>1. -n \in Int
      BY <2>3
    <3>2. QED
      BY <2>3, <3>1, PlusType
  <2>5. Inc(low) \in Word
    BY <2>4, IncType
  <2>6. x' = [Decoded(op) EXCEPT
               !.base = base,
               !.wbv  = IF "U" \in op.bits THEN Plus(base, n) ELSE low,
               !.addr = IF ("U" \in op.bits) = ("P" \in op.bits)
                        THEN Inc(low) ELSE low,
               !.ab   = FALSE,
               !.rest = List(op)]
    BY <1>11 DEF BlockTransfer
  <2> HIDE DEF base, n, low
  <2>7. x' \in InFlight
    BY <2>3, <2>4, <2>5, <2>6, DecodedType DEF InFlight, base
  <2>8. QED
    BY <1>11, <2>1, <2>2, <2>7, TypeParts DEF BlockTransfer, regs, requests
<1>12. ASSUME NEW op \in Insns, Branch(op)
       PROVE  TypeOK'
  <2>1. BusType' /\ pc' \in Word /\ f1' \in Slot
    BY <1>12, <1>c, FetchTypes DEF Branch
  <2>2. Plus(pc, op.n) \in Word /\ Dec(pc) \in Word
    BY <1>0, PlusType, IncType
  <2>3. FlowType' /\ x' \in InFlight
    BY <1>12, <2>2, RefillTypes, DecodedType DEF Branch
  <2>4. gpr' \in [PhysReg -> Word]
    BY <1>12, <2>2, SetRegType DEF Branch, Reg
  <2>5. QED
    BY <1>12, <2>1, <2>3, <2>4, TypeParts DEF Branch, requests
<1>13. ASSUME NEW op \in Insns, Undefined(op)
       PROVE  TypeOK'
  <2>1. BusType' /\ pc' \in Word /\ f1' \in Slot
    BY <1>13, <1>c, LaterCycleTypes, FlagTypes DEF Undefined
  <2>2. FlowType'
    BY <1>13, ContinueTypes DEF Undefined, Sequence
  <2>3. x' \in InFlight
    BY <1>13, DecodedType DEF Undefined, InFlight
  <2>4. QED
    BY <1>13, <2>1, <2>2, <2>3, TypeParts DEF Undefined, regs, requests
<1>14. ASSUME NEW op \in Insns, Swi(op)
       PROVE  TypeOK'
  <2>1. Enter("swi") /\ "swi" \in Entries
    BY <1>14 DEF Swi, Entries
  <2>2. QED
    BY <1>14, <2>1, EnterTypes, DecodedType, TypeParts DEF Swi, requests
<1>15. QED
  BY <1>1, <1>2, <1>3, <1>4, <1>5, <1>6, <1>7, <1>8, <1>9, <1>10, <1>11,
     <1>12, <1>13, <1>14 DEF Begin

(* The later cycles *)
LEMMA TypeGoOn ==
  ASSUME TypeOK, GoOn
  PROVE  TypeOK'
<1> USE DEF TypeOK
<1>0. /\ x.op \in Insn /\ x.op.rd \in Reg /\ x.op.rn \in Reg
      /\ x.addr \in Word /\ x.wbv \in Word /\ x.base \in Word /\ x.target \in Word
      /\ x.ab \in BOOLEAN /\ x.fa \in Slot
  BY DEF InFlight, Insn
<1>c. "N" \in CycleType /\ "S" \in CycleType /\ "I" \in CycleType
  BY DEF CycleType
<1>f. /\ UserFlag \subseteq BusFlag /\ Fetching \subseteq BusFlag
      /\ TransferFlags \subseteq BusFlag
      /\ \A s \in SUBSET {"LOCK", "WRITE"} :
           s \cup UserFlag \subseteq BusFlag /\ s \cup TransferFlags \subseteq BusFlag
  BY DEF UserFlag, Fetching, TransferFlags, BusFlag
<1>a. \A ab \in Aborts : LastAbort(ab) \in BOOLEAN
  BY AbortAssumption DEF LastAbort
<1>1. CASE DataProcShifted
  <2>1. BusType' /\ pc' \in Word /\ f1' \in Slot
    BY <1>1, <1>c, <1>f, LaterCycleTypes DEF DataProcShifted
  <2>2. QED
    BY <1>0, <1>1, <2>1, DpTypes, TypeParts DEF DataProcShifted, requests
<1>2. CASE BoothStep
  <2>1. BusType' /\ pc' \in Word /\ f1' \in Slot
    BY <1>2, <1>c, <1>f, LaterCycleTypes DEF BoothStep
  <2>2. gpr' \in [PhysReg -> Word]
    BY <1>0, <1>2, SetRegType, DataAssumption DEF BoothStep
  <2>3. FlowType' /\ x' \in InFlight
    BY <1>2, <1>a, <2>1, FinishTypes, ContinueTypes DEF BoothStep, Sequence
  <2>4. QED
    BY <1>2, <2>1, <2>2, <2>3, TypeParts DEF BoothStep, requests
<1>3. CASE SwapRead
  <2>1. BusType' /\ pc' \in Word /\ f1' \in Slot
    BY <1>0, <1>3, <1>c, <1>f, LaterCycleTypes DEF SwapRead
  <2>2. FlowType'
    BY <1>3, ContinueTypes DEF SwapRead, Sequence
  <2>3. x' \in InFlight
    BY <1>3, <1>a DEF SwapRead, InFlight
  <2>4. QED
    BY <1>3, <2>1, <2>2, <2>3, TypeParts DEF SwapRead, regs, requests
<1>4. CASE SwapWrite
  <2>1. BusType' /\ pc' \in Word /\ f1' \in Slot
    BY <1>0, <1>4, <1>c, <1>f, LaterCycleTypes DEF SwapWrite
  <2>2. FlowType'
    BY <1>4, ContinueTypes DEF SwapWrite, Sequence
  <2>3. x' \in InFlight
    BY <1>4, <1>a DEF SwapWrite, InFlight
  <2>4. QED
    BY <1>4, <2>1, <2>2, <2>3, TypeParts DEF SwapWrite, regs, requests
<1>l. ASSUME LoadedReg, f1' \in Slot
      PROVE  /\ FlowType' /\ x' \in InFlight /\ gpr' \in [PhysReg -> Word]
             /\ dabort_pending' \in BOOLEAN
  BY <1>0, <1>l, FinishTypes, SetRegType, DataAssumption DEF LoadedReg
<1>5. CASE SwapEnd
  <2>1. BusType' /\ pc' \in Word /\ f1' \in Slot
    BY <1>5, <1>c, <1>f, LaterCycleTypes DEF SwapEnd
  <2>2. QED
    BY <1>5, <1>l, <2>1, TypeParts DEF SwapEnd
<1>w. WrittenBack \in [PhysReg -> Word] /\ BlockWrittenBack \in [PhysReg -> Word]
  BY <1>0, SetRegType DEF WrittenBack, BlockWrittenBack
<1>6. CASE Store
  <2>1. BusType' /\ pc' \in Word /\ f1' \in Slot
    BY <1>0, <1>6, <1>c, <1>f, LaterCycleTypes DEF Store
  <2>2. FlowType' /\ x' \in InFlight
    BY <1>6, <2>1, FinishTypes DEF Store
  <2>3. QED
    BY <1>6, <1>a, <1>w, <2>1, <2>2, TypeParts DEF Store
<1>7. CASE LoadData
  <2>1. BusType' /\ pc' \in Word /\ f1' \in Slot
    BY <1>0, <1>7, <1>c, <1>f, LaterCycleTypes DEF LoadData
  <2>2. FlowType'
    BY <1>7, ContinueTypes DEF LoadData, Sequence
  <2>3. x' \in InFlight
    BY <1>7, <1>a DEF LoadData, InFlight
  <2>4. QED
    BY <1>7, <1>w, <2>1, <2>2, <2>3, TypeParts DEF LoadData, requests
<1>8. CASE LoadEnd
  <2>1. BusType' /\ pc' \in Word /\ f1' \in Slot
    BY <1>8, <1>c, <1>f, LaterCycleTypes DEF LoadEnd
  <2>2. /\ FlowType' /\ x' \in InFlight /\ gpr' \in [PhysReg -> Word]
        /\ dabort_pending' \in BOOLEAN
    BY <1>8, <1>l, <2>1, RefillTypes, DataAssumption DEF LoadEnd
  <2>3. QED
    BY <1>8, <2>1, <2>2, TypeParts DEF LoadEnd
<1>9. ASSUME NEW r \in Reg, BlockLoad(r)
      PROVE  TypeOK'
  <2>1. BusType' /\ pc' \in Word /\ f1' \in Slot
    BY <1>0, <1>9, <1>c, <1>f, LaterCycleTypes DEF BlockLoad
  <2>2. FlowType'
    BY <1>9, ContinueTypes DEF BlockLoad, Sequence
  <2>3. CurBank \in Bank /\ "USR" \in Bank /\ Inc(x.addr) \in Word
    BY <1>0, BankOfType, IncType DEF CurBank, Psr, Bank
  <2>4. PICK ab \in Aborts, v \in Word :
          /\ x' = [x EXCEPT !.ab = x.ab \/ LastAbort(ab), !.rest = x.rest \ {r},
                           !.addr = Inc(x.addr)]
          /\ gpr' = IF x.ab \/ LastAbort(ab) THEN BlockWrittenBack
                    ELSE SetBank(BlockWrittenBack, r,
                                 IF UserBank(x.op) THEN "USR" ELSE CurBank, v)
    BY <1>9, DataAssumption DEF BlockLoad
  <2>5. x' \in InFlight
    BY <1>a, <2>3, <2>4 DEF InFlight
  <2>6. gpr' \in [PhysReg -> Word]
    BY <1>w, <2>3, <2>4, SetBankType
  <2>7. QED
    BY <1>9, <2>1, <2>2, <2>5, <2>6, TypeParts DEF BlockLoad, requests
<1>10. ASSUME NEW r \in Reg, BlockStore(r)
       PROVE  TypeOK'
  <2>1. BusType' /\ pc' \in Word /\ f1' \in Slot
    BY <1>0, <1>10, <1>c, <1>f, LaterCycleTypes DEF BlockStore
  <2>2. Inc(x.addr) \in Word
    BY <1>0, IncType
  <2>3. PICK ab \in Aborts :
          \/ Finish /\ dabort_pending' = (dabort_pending \/ x.ab \/ LastAbort(ab))
          \/ /\ Continue("BDT", 1) /\ dabort_pending' = dabort_pending
             /\ x' = [x EXCEPT !.ab = x.ab \/ LastAbort(ab),
                              !.rest = x.rest \ {r}, !.addr = Inc(x.addr)]
    BY <1>10 DEF BlockStore
  <2>4. [x EXCEPT !.ab = x.ab \/ LastAbort(ab), !.rest = x.rest \ {r},
                  !.addr = Inc(x.addr)] \in InFlight
    BY <1>a, <2>2 DEF InFlight
  <2>5. FlowType' /\ x' \in InFlight /\ dabort_pending' \in BOOLEAN
    BY <1>0, <1>a, <2>1, <2>3, <2>4, FinishTypes, ContinueTypes DEF Sequence
  <2>6. QED
    BY <1>10, <1>w, <2>1, <2>5, TypeParts DEF BlockStore
<1>11. CASE BlockLoadEnd
  <2>1. BusType' /\ pc' \in Word /\ f1' \in Slot
    BY <1>11, <1>c, <1>f, LaterCycleTypes DEF BlockLoadEnd
  <2>2. /\ FlowType' /\ x' \in InFlight /\ gpr' \in [PhysReg -> Word]
        /\ cpsr' \in Psr /\ dabort_pending' \in BOOLEAN
    <3>1. CASE x.ab /\ cpsr' = cpsr /\ dabort_pending' = TRUE /\ Finish
               /\ gpr' = SetReg(gpr, x.op.rn,
                                IF "W" \in x.op.bits THEN x.wbv ELSE x.base)
      BY <1>0, <2>1, <3>1, FinishTypes, SetRegType
    <3>2. CASE /\ cpsr' = IF "S" \in x.op.bits THEN ReturnedPsr ELSE cpsr
               /\ gpr' = gpr /\ dabort_pending' = dabort_pending
               /\ \E v \in Data : StartRefill(v)
      BY <3>2, RefillTypes, ReturnedPsrType, DataAssumption
    <3>3. CASE /\ gpr' = gpr /\ cpsr' = cpsr
               /\ dabort_pending' = dabort_pending /\ Finish
      BY <2>1, <3>3, FinishTypes
    <3>4. QED
      BY <1>11, <3>1, <3>2, <3>3 DEF BlockLoadEnd
  <2>3. QED
    BY <1>11, <2>1, <2>2, TypeParts DEF BlockLoadEnd
<1>12. CASE UndefinedEntry
  <2>1. BusType' /\ pc' \in Word /\ f1' \in Slot
    BY <1>0, <1>12, <1>c, <1>f, LaterCycleTypes DEF UndefinedEntry
  <2>2. FlowType' /\ x' \in InFlight
    BY <1>12, RefillTypes, VectorType DEF UndefinedEntry
  <2>3. cpsr' \in Psr /\ spsr' \in [Bank -> Psr]
    BY <1>12 DEF UndefinedEntry, Psr, Mode, Bank
  <2>4. gpr' \in [PhysReg -> Word]
    BY <1>0, <1>12, SetBankType, IncType DEF UndefinedEntry, Reg, Bank
  <2>5. QED
    BY <1>12, <2>1, <2>2, <2>3, <2>4, TypeParts DEF UndefinedEntry, requests
<1>13. CASE RefillTarget
  <2>1. BusType' /\ pc' \in Word /\ f1' \in Slot
    BY <1>0, <1>13, <1>c, <1>f, LaterCycleTypes DEF RefillTarget
  <2>2. FlowType'
    BY <1>13, ContinueTypes DEF RefillTarget, Sequence
  <2>3. x' \in InFlight
    BY <1>0, <1>13, <1>a DEF RefillTarget, InFlight, Slot
  <2>4. QED
    BY <1>13, <2>1, <2>2, <2>3, TypeParts DEF RefillTarget, regs, requests
<1>14. CASE RefillNext
  <2>1. Inc(x.target) \in Word /\ Inc(Inc(x.target)) \in Word
    BY <1>0, IncType
  <2>2. BusType'
    BY <1>14, <1>c, <1>f, <2>1, CycleTypes DEF RefillNext
  <2>3. FlowType' /\ pc' \in Word
    BY <1>0, <1>14, <1>a, <2>1 DEF RefillNext, FlowType, Sequence, Slot
  <2>4. x' \in InFlight
    BY <1>14, RetiredType DEF RefillNext, InFlight
  <2>5. QED
    BY <1>14, <2>2, <2>3, <2>4, TypeParts DEF RefillNext, regs, requests
<1>15. QED
  BY <1>1, <1>2, <1>3, <1>4, <1>5, <1>6, <1>7, <1>8, <1>9, <1>10, <1>11,
     <1>12, <1>13, <1>14 DEF GoOn

LEMMA TypeInit ==
  ASSUME Init
  PROVE  TypeOK
<1>1. NoInsn \in Insn
  BY DEF NoInsn, Insn, Class, Reg, Bits
<1>2. ZeroSlot \in Slot /\ 0 \in Word
  BY VectorType DEF ZeroSlot, Slot
<1>3. Clear \in InFlight
  BY <1>1, <1>2 DEF Clear, InFlight
<1>4. QED
  BY <1>2, <1>3 DEF Init, TypeOK, Sequence, Psr, Mode, CycleType

LEMMA TypeStep ==
  ASSUME TypeOK, [Next]_vars
  PROVE  TypeOK'
<1>1. CASE BusCycle
  BY <1>1, TypeBegin, TypeGoOn DEF BusCycle
<1>2. CASE SetReset \/ SetFiq \/ SetIrq
  BY <1>2 DEF SetReset, SetFiq, SetIrq, TypeOK, regs, stages, requests
<1>3. CASE UNCHANGED vars
  BY <1>3 DEF vars, TypeOK
<1>4. QED
  BY <1>1, <1>2, <1>3 DEF Next

(* Every reachable state is well typed: addresses wrap at the end of the     *)
(* address space, the stages hold slots, the register file words.            *)
THEOREM TypeCorrect == Spec => []TypeOK
BY TypeInit, TypeStep, PTL DEF Spec

-----------------------------------------------------------------------------
(* The pipeline.  Seen alone PipelineCoherent is not inductive: the end of a  *)
(* sequence needs the word fetched in its first cycle, and the second cycle  *)
(* of a refill the one of the first.                                         *)

RefillCoherent == (seq = "REFILL" /\ k = 1) => x.fa.addr = x.target

PipelineInv == TypeOK /\ PipelineCoherent /\ RefillCoherent

Middle == {"DP", "MUL", "SWP", "SDT", "BDT"}

(* What each kind of step leaves behind *)
LEMMA FetchCoherent ==
  ASSUME TypeOK, BoundaryCoherent, AtBoundary, Requests = {},
         NEW next \in CycleType, Cycle1Fetch(next)
  PROVE  f1'.addr = Inc(de.addr) /\ pc' = Inc(f1'.addr) /\ de.addr = Inc(ex.addr)
<1>1. ~in_reset /\ ~reset_exit
  BY DEF Requests, Rank
<1>2. pc = Inc(de.addr) /\ de.addr = Inc(ex.addr)
  BY <1>1 DEF BoundaryCoherent
<1>3. QED
  BY <1>2 DEF Cycle1Fetch

LEMMA FinishCoherent ==
  ASSUME Finish, f1'.addr = Inc(de.addr), pc' = Inc(f1'.addr)
  PROVE  PipelineCoherent' /\ RefillCoherent'
  BY DEF Finish, PipelineCoherent, BoundaryCoherent, OperandCoherent,
         RefillCoherent, AtBoundary

LEMMA StartRefillCoherent ==
  ASSUME NEW t, StartRefill(t)
  PROVE  PipelineCoherent' /\ RefillCoherent'
  BY DEF StartRefill, Continue, PipelineCoherent, BoundaryCoherent,
         OperandCoherent, RefillCoherent, AtBoundary

LEMMA DecodeCoherent ==
  ASSUME TypeOK, NEW s \in Middle, Continue(s, 1), x'.at = ex.addr,
         f1'.addr = Inc(de.addr), pc' = Inc(f1'.addr), de.addr = Inc(ex.addr)
  PROVE  PipelineCoherent' /\ RefillCoherent'
  BY DEF Middle, Continue, stages, PipelineCoherent, BoundaryCoherent,
         OperandCoherent, RefillCoherent, AtBoundary

LEMMA MiddleCoherent ==
  ASSUME OperandCoherent, seq \in Middle, NEW n, Continue(seq, n),
         x'.at = x.at, f1' = f1, pc' = pc
  PROVE  PipelineCoherent' /\ RefillCoherent'
  BY DEF Middle, Continue, stages, PipelineCoherent, BoundaryCoherent,
         OperandCoherent, RefillCoherent, AtBoundary

LEMMA MiddleFinish ==
  ASSUME OperandCoherent, seq \in Middle, Finish, f1' = f1, pc' = pc
  PROVE  PipelineCoherent' /\ RefillCoherent'
  BY FinishCoherent DEF Middle, OperandCoherent

LEMMA CoherentBegin ==
  ASSUME PipelineInv, Begin
  PROVE  PipelineCoherent' /\ RefillCoherent'
<1> USE DEF PipelineInv, PipelineCoherent
<1>c. "N" \in CycleType /\ "S" \in CycleType /\ "I" \in CycleType
  BY DEF CycleType
<1>d. \A op : Decoded(op).at = ex.addr
  BY DEF Decoded, Retired, Clear
<1>1. CASE ResetCycle
  <2>1. in_reset' /\ seq' = "IDLE"
    BY <1>1 DEF ResetCycle, Picks, Requests, AtBoundary, Cycle, inputs, Rank
  <2>2. QED
    BY <2>1 DEF BoundaryCoherent, OperandCoherent, RefillCoherent
<1>2. CASE \E e \in {"reset", "dabt", "fiq", "irq", "pabt"} : Exception(e)
  BY <1>2, StartRefillCoherent DEF Exception, Enter
<1>3. CASE Skip
  BY <1>3, <1>c, FetchCoherent, FinishCoherent DEF Skip
<1>4. ASSUME NEW op \in Insns, DataProc(op)
      PROVE  PipelineCoherent' /\ RefillCoherent'
  <2>1. f1'.addr = Inc(de.addr) /\ pc' = Inc(f1'.addr)
    BY <1>4, <1>c, FetchCoherent DEF DataProc, Decodes
  <2>2. QED
    BY <1>4, <2>1, FinishCoherent, StartRefillCoherent DEF DataProc, DpFinish
<1>5. ASSUME NEW op \in Insns, DataProcShift(op)
      PROVE  PipelineCoherent' /\ RefillCoherent'
  BY <1>5, <1>c, <1>d, FetchCoherent, DecodeCoherent
  DEF DataProcShift, Decodes, Middle
<1>6. ASSUME NEW op \in Insns, Mrs(op)
      PROVE  PipelineCoherent' /\ RefillCoherent'
  <2>1. f1'.addr = Inc(de.addr) /\ pc' = Inc(f1'.addr)
    BY <1>6, <1>c, FetchCoherent DEF Mrs, Decodes
  <2>2. QED
    BY <1>6, <2>1, FinishCoherent, StartRefillCoherent DEF Mrs
<1>7. ASSUME NEW op \in Insns, Msr(op)
      PROVE  PipelineCoherent' /\ RefillCoherent'
  BY <1>7, <1>c, FetchCoherent, FinishCoherent DEF Msr, Decodes
<1>8. ASSUME NEW op \in Insns, Multiply(op)
      PROVE  PipelineCoherent' /\ RefillCoherent'
  BY <1>8, <1>c, <1>d, FetchCoherent, DecodeCoherent DEF Multiply, Decodes, Middle
<1>9. ASSUME NEW op \in Insns, Swap(op)
      PROVE  PipelineCoherent' /\ RefillCoherent'
  <2>1. x'.at = ex.addr
    BY <1>9 DEF Swap, Decoded, Retired, Clear
  <2>2. QED
    BY <1>9, <1>c, <2>1, FetchCoherent, DecodeCoherent DEF Swap, Decodes, Middle
<1>10. ASSUME NEW op \in Insns, Transfer(op)
       PROVE  PipelineCoherent' /\ RefillCoherent'
  <2>1. x'.at = ex.addr
    BY <1>10 DEF Transfer, Decoded, Retired, Clear
  <2>2. QED
    BY <1>10, <1>c, <2>1, FetchCoherent, DecodeCoherent
    DEF Transfer, Decodes, Middle
<1>11. ASSUME NEW op \in Insns, BlockTransfer(op)
       PROVE  PipelineCoherent' /\ RefillCoherent'
  <2>1. x'.at = ex.addr
    BY <1>11 DEF BlockTransfer, Decoded, Retired, Clear
  <2>2. QED
    BY <1>11, <1>c, <2>1, FetchCoherent, DecodeCoherent
    DEF BlockTransfer, Decodes, Middle
<1>12. ASSUME NEW op \in Insns, Branch(op) \/ Swi(op)
       PROVE  PipelineCoherent' /\ RefillCoherent'
  BY <1>12, StartRefillCoherent DEF Branch, Swi, Enter
<1>13. ASSUME NEW op \in Insns, Undefined(op)
       PROVE  PipelineCoherent' /\ RefillCoherent'
  BY <1>13 DEF Undefined, Continue, BoundaryCoherent, OperandCoherent,
               RefillCoherent, AtBoundary
<1>14. QED
  BY <1>1, <1>2, <1>3, <1>4, <1>5, <1>6, <1>7, <1>8, <1>9, <1>10, <1>11,
     <1>12, <1>13 DEF Begin

LEMMA CoherentGoOn ==
  ASSUME PipelineInv, GoOn
  PROVE  PipelineCoherent' /\ RefillCoherent'
<1> USE DEF PipelineInv, PipelineCoherent
<1>1. CASE DataProcShifted
  BY <1>1, MiddleFinish, StartRefillCoherent
  DEF DataProcShifted, DpFinish, LaterCycle, Middle
<1>2. CASE BoothStep
  BY <1>2, MiddleFinish, MiddleCoherent DEF BoothStep, LaterCycle, Middle
<1>3. CASE SwapRead \/ SwapWrite
  <2>1. x'.at = x.at
    BY <1>3 DEF SwapRead, SwapWrite, TypeOK, InFlight
  <2>2. QED
    BY <1>3, <2>1, MiddleCoherent DEF SwapRead, SwapWrite, LaterCycle, Middle
<1>4. CASE SwapEnd
  BY <1>4, MiddleFinish DEF SwapEnd, LoadedReg, LaterCycle, Middle
<1>5. CASE Store
  BY <1>5, MiddleFinish DEF Store, LaterCycle, Middle
<1>6. CASE LoadData
  <2>1. x'.at = x.at
    BY <1>6 DEF LoadData, TypeOK, InFlight
  <2>2. QED
    BY <1>6, <2>1, MiddleCoherent DEF LoadData, LaterCycle, Middle
<1>7. CASE LoadEnd
  BY <1>7, MiddleFinish, StartRefillCoherent
  DEF LoadEnd, LoadedReg, LaterCycle, Middle
<1>8. ASSUME NEW r \in Reg, BlockLoad(r)
      PROVE  PipelineCoherent' /\ RefillCoherent'
  <2>1. x'.at = x.at
    BY <1>8 DEF BlockLoad, TypeOK, InFlight
  <2>2. QED
    BY <1>8, <2>1, MiddleCoherent DEF BlockLoad, LaterCycle, Middle
<1>9. ASSUME NEW r \in Reg, BlockStore(r)
      PROVE  PipelineCoherent' /\ RefillCoherent'
  <2>1. Finish \/ (Continue("BDT", 1) /\ x'.at = x.at)
    BY <1>9 DEF BlockStore, TypeOK, InFlight
  <2>2. seq \in Middle /\ seq = "BDT" /\ f1' = f1 /\ pc' = pc
    BY <1>9 DEF BlockStore, LaterCycle, Middle
  <2>3. CASE Finish
    BY <2>2, <2>3, MiddleFinish
  <2>4. CASE Continue("BDT", 1) /\ x'.at = x.at
    BY <2>2, <2>4, MiddleCoherent
  <2>5. QED
    BY <2>1, <2>3, <2>4
<1>10. CASE BlockLoadEnd
  BY <1>10, MiddleFinish, StartRefillCoherent DEF BlockLoadEnd, LaterCycle, Middle
<1>11. CASE UndefinedEntry
  BY <1>11, StartRefillCoherent DEF UndefinedEntry
<1>12. CASE RefillTarget
  <2>1. x'.fa.addr = x'.target
    BY <1>12 DEF RefillTarget, TypeOK, InFlight
  <2>2. QED
    BY <1>12, <2>1 DEF RefillTarget, Continue, BoundaryCoherent, OperandCoherent,
                       RefillCoherent, AtBoundary
<1>13. CASE RefillNext
  BY <1>13 DEF RefillNext, BoundaryCoherent, OperandCoherent, RefillCoherent,
               AtBoundary
<1>14. QED
  BY <1>1, <1>2, <1>3, <1>4, <1>5, <1>6, <1>7, <1>8, <1>9, <1>10, <1>11,
     <1>12, <1>13 DEF GoOn

LEMMA PipelineInit ==
  ASSUME Init
  PROVE  PipelineInv
  BY TypeInit DEF Init, PipelineInv, PipelineCoherent, BoundaryCoherent,
                  OperandCoherent, RefillCoherent, AtBoundary

LEMMA PipelineStep ==
  ASSUME PipelineInv, [Next]_vars
  PROVE  PipelineInv'
<1>1. TypeOK'
  BY TypeStep DEF PipelineInv
<1>2. CASE BusCycle
  BY <1>1, <1>2, CoherentBegin, CoherentGoOn DEF BusCycle, PipelineInv
<1>3. CASE SetReset \/ SetFiq \/ SetIrq \/ UNCHANGED vars
  BY <1>1, <1>3
  DEF SetReset, SetFiq, SetIrq, vars, stages, requests, PipelineInv,
      PipelineCoherent, BoundaryCoherent, OperandCoherent, RefillCoherent,
      AtBoundary
<1>4. QED
  BY <1>2, <1>3 DEF Next

(* At every boundary out of reset the stages hold the words at R15 - 8 and   *)
(* R15 - 4, and inside a sequence those of the instruction and its           *)
(* successors.                                                               *)
THEOREM PipelineCorrect == Spec => []PipelineCoherent
<1>1. Spec => []PipelineInv
  BY PipelineInit, PipelineStep, PTL DEF Spec
<1>2. PipelineInv => PipelineCoherent
  BY DEF PipelineInv
<1>3. QED
  BY <1>1, <1>2, PTL

-----------------------------------------------------------------------------
(* Announced cycle types.  The invariant says where the next cycle goes      *)
(* whenever it was announced as S.                                           *)

AnnouncedInv ==
  next_type = "S" =>
    \/ seq = "IDLE" /\ pc \in {bus.addr, Inc(bus.addr)}
    \/ seq = "BDT" /\ x.rest # {} /\ x.addr = Inc(bus.addr)
    \/ seq = "REFILL" /\ k = 1 /\ x.target = bus.addr

Sequential == bus'.type = "S" => bus'.addr \in {bus.addr, Inc(bus.addr)}

LEMMA CycleDrives ==
  ASSUME NEW addr, NEW flags, NEW next, Cycle(addr, flags, next)
  PROVE  bus'.addr = addr /\ bus'.type = next_type /\ next_type' = next
  BY DEF Cycle

LEMMA LaterCycleDrives ==
  ASSUME NEW addr, NEW flags, NEW next, LaterCycle(addr, flags, next)
  PROVE  bus'.addr = addr /\ bus'.type = next_type /\ next_type' = next
         /\ pc' = pc
  BY CycleDrives DEF LaterCycle

(* A first cycle announces S only to stay at the boundary, with R15 one word *)
(* on; it drives R15.                                                        *)
LEMMA FetchDrives ==
  ASSUME NEW next, Cycle1Fetch(next)
  PROVE  bus'.addr = pc /\ bus'.type = next_type /\ next_type' = next
         /\ pc' = Inc(bus'.addr)
  BY CycleDrives DEF Cycle1Fetch

LEMMA AnnouncedBegin ==
  ASSUME AnnouncedInv, Begin
  PROVE  AnnouncedInv' /\ Sequential
<1> USE DEF AnnouncedInv, Sequential
<1>1. CASE ResetCycle
  BY <1>1, CycleDrives DEF ResetCycle, Picks, AtBoundary
<1>2. CASE \E e \in {"reset", "dabt", "fiq", "irq", "pabt"} : Exception(e)
  BY <1>2, LaterCycleDrives DEF Exception, Enter, Picks, AtBoundary
<1>3. CASE Skip
  BY <1>3, FetchDrives DEF Skip, Finish, AtBoundary
<1>4. ASSUME NEW op \in Insns, DataProc(op) \/ Mrs(op) \/ Msr(op)
      PROVE  AnnouncedInv' /\ Sequential
  BY <1>4, FetchDrives
  DEF DataProc, DpFinish, Mrs, Msr, StartRefill, Continue, Finish, Decodes, AtBoundary
<1>5. ASSUME NEW op \in Insns, DataProcShift(op) \/ Multiply(op) \/ Swap(op)
                                 \/ Branch(op)
      PROVE  AnnouncedInv' /\ Sequential
  BY <1>5, FetchDrives
  DEF DataProcShift, Multiply, Swap, Branch, Decodes, AtBoundary
<1>6. ASSUME NEW op \in Insns, Transfer(op)
      PROVE  AnnouncedInv' /\ Sequential
  BY <1>6, FetchDrives DEF Transfer, Decodes, AtBoundary
<1>7. ASSUME NEW op \in Insns, BlockTransfer(op)
      PROVE  AnnouncedInv' /\ Sequential
  BY <1>7, FetchDrives DEF BlockTransfer, Decodes, AtBoundary
<1>8. ASSUME NEW op \in Insns, Undefined(op) \/ Swi(op)
      PROVE  AnnouncedInv' /\ Sequential
  BY <1>8, LaterCycleDrives DEF Undefined, Swi, Enter, Decodes, AtBoundary
<1>9. QED
  BY <1>1, <1>2, <1>3, <1>4, <1>5, <1>6, <1>7, <1>8 DEF Begin

LEMMA AnnouncedGoOn ==
  ASSUME TypeOK, AnnouncedInv, GoOn
  PROVE  AnnouncedInv' /\ Sequential
<1> USE DEF AnnouncedInv, Sequential
<1>1. CASE DataProcShifted \/ BoothStep \/ SwapRead \/ SwapWrite \/ SwapEnd
  <2>1. CASE DataProcShifted
    BY <2>1, LaterCycleDrives DEF DataProcShifted, DpFinish, Finish
  <2>2. CASE BoothStep
    <3>1. k \in Int /\ x.op.n \in Int
      BY DEF TypeOK, InFlight, Insn
    <3>2. k < x.op.n => k # x.op.n
      BY <3>1
    <3>3. QED
      BY <2>2, <3>2, LaterCycleDrives DEF BoothStep, Finish
  <2>3. CASE SwapRead \/ SwapWrite
    BY <2>3, LaterCycleDrives DEF SwapRead, SwapWrite
  <2>4. CASE SwapEnd
    BY <2>4, LaterCycleDrives DEF SwapEnd, LoadedReg, Finish
  <2>5. QED
    BY <1>1, <2>1, <2>2, <2>3, <2>4
<1>2. CASE Store \/ LoadData \/ LoadEnd
  BY <1>2, LaterCycleDrives
  DEF Store, LoadData, LoadEnd, LoadedReg, StartRefill, Continue, Finish
<1>3. ASSUME NEW r \in Reg, BlockLoad(r)
      PROVE  AnnouncedInv' /\ Sequential
  <2>1. /\ seq = "BDT" /\ seq' = "BDT" /\ bus'.addr = x.addr
        /\ bus'.type = next_type
        /\ next_type' = IF x.rest = {r} THEN "I" ELSE "S"
    BY <1>3, LaterCycleDrives DEF BlockLoad, Continue
  <2>2. x'.addr = Inc(x.addr) /\ x'.rest = x.rest \ {r} /\ r \in x.rest
    BY <1>3 DEF BlockLoad, IsNext, TypeOK, InFlight
  <2>3. QED
    BY <2>1, <2>2
<1>4. ASSUME NEW r \in Reg, BlockStore(r)
      PROVE  AnnouncedInv' /\ Sequential
  <2>1. /\ seq = "BDT" /\ bus'.addr = x.addr /\ bus'.type = next_type
        /\ next_type' = IF x.rest = {r} THEN "N" ELSE "S"
        /\ x.rest # {r} => seq' = "BDT"
    BY <1>4, LaterCycleDrives DEF BlockStore, Continue
  <2>2. /\ r \in x.rest
        /\ x.rest # {r} => x'.addr = Inc(x.addr) /\ x'.rest = x.rest \ {r}
    BY <1>4 DEF BlockStore, IsNext, TypeOK, InFlight
  <2>3. QED
    BY <2>1, <2>2
<1>5. CASE BlockLoadEnd
  <2> DEFINE loadsPC == "pc" \in List(x.op) /\ ~x.ab
  <2>1. /\ seq = "BDT" /\ x.rest = {} /\ bus'.addr = pc /\ bus'.type = next_type
        /\ next_type' = (IF loadsPC THEN "N" ELSE "S") /\ pc' = pc
    BY <1>5, LaterCycleDrives DEF BlockLoadEnd
  <2>2. loadsPC \/ seq' = "IDLE"
    BY <1>5 DEF BlockLoadEnd, Finish
  <2> HIDE DEF loadsPC
  <2>3. QED
    BY <2>1, <2>2
<1>6. CASE UndefinedEntry
  BY <1>6, LaterCycleDrives DEF UndefinedEntry
<1>7. CASE RefillTarget
  <2>1. x'.target = x.target
    BY <1>7 DEF RefillTarget, TypeOK, InFlight
  <2>2. QED
    BY <1>7, <2>1, LaterCycleDrives DEF RefillTarget, Continue
<1>8. CASE RefillNext
  BY <1>8, CycleDrives DEF RefillNext
<1>9. QED
  BY <1>1, <1>2, <1>3, <1>4, <1>5, <1>6, <1>7, <1>8 DEF GoOn

LEMMA AnnouncedStep ==
  ASSUME TypeOK, AnnouncedInv, [Next]_vars
  PROVE  AnnouncedInv' /\ [Sequential]_vars
<1>1. CASE BusCycle
  BY <1>1, AnnouncedBegin, AnnouncedGoOn DEF BusCycle
<1>2. CASE SetReset \/ SetFiq \/ SetIrq
  BY <1>2 DEF SetReset, SetFiq, SetIrq, AnnouncedInv, Sequential
<1>3. CASE UNCHANGED vars
  BY <1>3 DEF vars, AnnouncedInv
<1>4. QED
  BY <1>1, <1>2, <1>3 DEF Next

(* An S cycle goes to the address of the cycle before it or the word after.  *)
THEOREM SequentialCorrect == Spec => SequentialCycles
<1>1. Init => AnnouncedInv
  BY DEF Init, AnnouncedInv
<1>2. TypeOK /\ AnnouncedInv /\ [Next]_vars => AnnouncedInv' /\ [Sequential]_vars
  BY AnnouncedStep
<1>3. QED
  BY <1>1, <1>2, TypeCorrect, PTL DEF Spec, SequentialCycles, Sequential

-----------------------------------------------------------------------------
(* Return addresses and modes *)

UndefinedCoherent == seq = "UNDEF" => x.addr = Inc(Inc(x.at))

LEMMA UndefinedStep ==
  ASSUME PipelineInv, UndefinedCoherent, [Next]_vars
  PROVE  UndefinedCoherent'
<1> USE DEF UndefinedCoherent
<1>1. ASSUME NEW op \in Insns, Undefined(op)
      PROVE  UndefinedCoherent'
  <2>1. ~in_reset /\ ~reset_exit /\ AtBoundary
    BY <1>1 DEF Undefined, Decodes, Requests, Rank
  <2>2. pc = Inc(Inc(ex.addr))
    BY <2>1 DEF PipelineInv, PipelineCoherent, BoundaryCoherent
  <2>3. x'.addr = pc /\ x'.at = ex.addr
    BY <1>1 DEF Undefined, Decoded, Retired, Clear
  <2>4. QED
    BY <2>2, <2>3
<1>2. CASE Begin /\ ~(\E op \in Insns : Undefined(op))
  BY <1>2
  DEF Begin, ResetCycle, Picks, AtBoundary, Exception, Enter, Skip, DataProc,
      DpFinish, DataProcShift, Mrs, Msr, Multiply, Swap, Transfer,
      BlockTransfer, Branch, Swi, StartRefill, Continue, Finish
<1>3. CASE GoOn
  BY <1>3
  DEF GoOn, DataProcShifted, DpFinish, BoothStep, SwapRead, SwapWrite, SwapEnd,
      LoadedReg, Store, LoadData, LoadEnd, BlockLoad, BlockStore, BlockLoadEnd,
      UndefinedEntry, RefillTarget, RefillNext, StartRefill, Continue, Finish
<1>4. CASE SetReset \/ SetFiq \/ SetIrq \/ UNCHANGED vars
  BY <1>4 DEF SetReset, SetFiq, SetIrq, vars
<1>5. QED
  BY <1>1, <1>2, <1>3, <1>4 DEF Next, BusCycle

Returns ==
  /\ \A e \in {"fiq", "irq", "pabt"} :
       Exception(e) => gpr'[Phys("r14", Entry[e].mode)] = Inc(ex.addr)
  /\ UndefinedEntry => gpr'[Phys("r14", "UND")] = Inc(x.at)
  /\ \A op \in Insns : Swi(op) => gpr'[Phys("r14", "SVC")] = Inc(ex.addr)

(* Out of reset, R14 becomes R15 - 4, the word after the execute stage's *)
LEMMA EnterReturns ==
  ASSUME PipelineInv, AtBoundary, ~in_reset, ~reset_exit,
         NEW e \in Entries, Enter(e)
  PROVE  gpr'[Phys("r14", Entry[e].mode)] = Inc(ex.addr)
<1>1. BankOf(Entry[e].mode) = Entry[e].mode /\ Entry[e].mode \in Bank
  BY VectorType
<1>2. Phys("r14", Entry[e].mode) \in PhysReg
  BY <1>1, PhysType DEF Reg
<1>3. gpr' = SetBank(gpr, "r14", Entry[e].mode, Dec(pc))
  BY <1>1 DEF Enter
<1>4. gpr'[Phys("r14", Entry[e].mode)] = Dec(pc)
  BY <1>2, <1>3 DEF SetBank, PipelineInv, TypeOK
<1>5. pc = Inc(Inc(ex.addr)) /\ Inc(ex.addr) \in Word
  BY IncType DEF PipelineInv, PipelineCoherent, BoundaryCoherent, TypeOK, Slot
<1>6. QED
  BY <1>4, <1>5, DecInc

LEMMA ReturnsStep ==
  ASSUME PipelineInv, UndefinedCoherent, [Next]_vars
  PROVE  [Returns]_vars
<1>1. ASSUME NEW e \in {"fiq", "irq", "pabt"}, Exception(e)
      PROVE  gpr'[Phys("r14", Entry[e].mode)] = Inc(ex.addr)
  <2>1. AtBoundary /\ ~in_reset /\ ~reset_exit
    <3>1. CASE e = "fiq"
      BY <1>1, <3>1 DEF Exception, Picks, Requests, Rank
    <3>2. CASE e = "irq"
      BY <1>1, <3>2 DEF Exception, Picks, Requests, Rank
    <3>3. CASE e = "pabt"
      BY <1>1, <3>3 DEF Exception, Picks, Requests, Rank
    <3>4. QED
      BY <3>1, <3>2, <3>3
  <2>2. QED
    BY <1>1, <2>1, EnterReturns DEF Exception, Entries
<1>2. ASSUME UndefinedEntry
      PROVE  gpr'[Phys("r14", "UND")] = Inc(x.at)
  <2>1. x.addr = Inc(Inc(x.at)) /\ Inc(x.at) \in Word
    BY <1>2, IncType
    DEF UndefinedEntry, UndefinedCoherent, PipelineInv, TypeOK, InFlight
  <2>2. Phys("r14", "UND") \in PhysReg
    BY PhysType DEF Reg, Bank
  <2>3. gpr'[Phys("r14", "UND")] = Dec(x.addr)
    BY <1>2, <2>2 DEF UndefinedEntry, SetBank, PipelineInv, TypeOK
  <2>4. QED
    BY <2>1, <2>3, DecInc
<1>3. ASSUME NEW op \in Insns, Swi(op)
      PROVE  gpr'[Phys("r14", "SVC")] = Inc(ex.addr)
  <2>1. AtBoundary /\ ~in_reset /\ ~reset_exit /\ Enter("swi")
    BY <1>3 DEF Swi, Decodes, Requests, Rank
  <2>2. "swi" \in Entries /\ Entry["swi"].mode = "SVC"
    BY DEF Entries, Entry
  <2>3. QED
    BY <2>1, <2>2, EnterReturns
<1>4. QED
  BY <1>1, <1>2, <1>3 DEF Returns

(* Every exception handler finds in R14 the address it returns to. *)
THEOREM ReturnCorrect == Spec => ReturnAddress
<1>1. Init => UndefinedCoherent
  BY DEF Init, UndefinedCoherent
<1>2. PipelineInv /\ UndefinedCoherent /\ [Next]_vars
        => UndefinedCoherent' /\ [Returns]_vars
  BY UndefinedStep, ReturnsStep
<1>3. QED
  BY <1>1, <1>2, PipelineInit, PipelineStep, PTL
  DEF Spec, ReturnAddress, Returns

-----------------------------------------------------------------------------
(* The register file and the PSRs: user mode is sealed and the banks are     *)
(* isolated by the types alone, one lemma for each kind of step; that an     *)
(* aborted transfer leaves its base register restartable needs BaseInv, what *)
(* a running transfer has done to its base register so far.                  *)

(* User mode: what UserSealed says of one step, and that every step does so *)

(* UserSealed of one step *)
Sealed ==
  (cpsr.mode = "USR" /\ cpsr'.mode # "USR")
    => /\ seq' = "REFILL" /\ cpsr'.i /\ spsr'[cpsr'.mode] = cpsr
       /\ <<x'.target, cpsr'.mode>> \in
            {<<Entry[e].vector, Entry[e].mode>> : e \in DOMAIN Entry}
              \cup {<<1, "UND">>}

(* User mode has no SPSR: a return leaves the CPSR as it is *)
LEMMA UserReturns ==
  ASSUME cpsr.mode = "USR" PROVE ReturnedPsr = cpsr
BY DEF ReturnedPsr, CurBank, BankOf

(* Every exception entry is one user mode may be left by *)
LEMMA EnterSealed ==
  ASSUME TypeOK, NEW e \in Entries, Enter(e) PROVE Sealed
<1> DEFINE mode == Entry[e].mode
<1>1. BankOf(mode) = mode /\ mode \in Bank /\ e \in DOMAIN Entry
  BY VectorType DEF Entries, Entry
<1>2. cpsr'.mode = mode /\ cpsr'.i /\ spsr'[mode] = cpsr
  BY <1>1 DEF Enter, TypeOK
<1>3. seq' = "REFILL" /\ x'.target = Entry[e].vector
  BY DEF Enter, StartRefill, Continue, Retired, Clear
<1>4. QED
  BY <1>1, <1>2, <1>3 DEF Sealed

(* No other step changes the mode of a user *)
LEMMA SealedStep ==
  ASSUME TypeOK, [Next]_vars PROVE [Sealed]_vars
<1>1. ASSUME NEW e \in {"reset", "dabt", "fiq", "irq", "pabt"}, Exception(e)
      PROVE  Sealed
  BY <1>1, EnterSealed DEF Exception, Entries
<1>2. ASSUME NEW op \in Insns, Swi(op) PROVE Sealed
  BY <1>2, EnterSealed DEF Swi, Entries
<1>3. CASE UndefinedEntry
  <2>1. cpsr'.mode = "UND" /\ cpsr'.i /\ spsr'["UND"] = cpsr
    BY <1>3 DEF UndefinedEntry, TypeOK, Psr, Bank
  <2>2. seq' = "REFILL" /\ x'.target = 1
    BY <1>3 DEF UndefinedEntry, StartRefill, Continue, Retired, Clear
  <2>3. QED
    BY <2>1, <2>2 DEF Sealed
<1>4. ASSUME NEW op \in Insns, DataProc(op) \/ Msr(op) PROVE Sealed
  BY <1>4, UserReturns DEF DataProc, DpFinish, Msr, Sealed
<1>5. CASE DataProcShifted
  BY <1>5, UserReturns DEF DataProcShifted, DpFinish, Sealed
<1>6. CASE BlockLoadEnd
  BY <1>6, UserReturns DEF BlockLoadEnd, Sealed
<1>7. CASE UNCHANGED cpsr
  BY <1>7 DEF Sealed
<1>8. ASSUME NEW op \in Insns,
             \/ DataProcShift(op) \/ Mrs(op) \/ Multiply(op) \/ Swap(op)
             \/ Transfer(op) \/ BlockTransfer(op) \/ Branch(op) \/ Undefined(op)
      PROVE  UNCHANGED cpsr
  BY <1>8 DEF DataProcShift, Mrs, Multiply, Swap, Transfer, BlockTransfer,
              Branch, Undefined, regs
<1>9. CASE ResetCycle \/ Skip \/ SetReset \/ SetFiq \/ SetIrq
  BY <1>9 DEF ResetCycle, Skip, SetReset, SetFiq, SetIrq, regs, Sealed
<1>10. CASE \/ BoothStep \/ SwapRead \/ SwapWrite \/ SwapEnd \/ Store
            \/ LoadData \/ LoadEnd \/ RefillTarget \/ RefillNext
            \/ \E r \in Reg : BlockLoad(r) \/ BlockStore(r)
  <2>1. UNCHANGED cpsr
    BY <1>10 DEF BoothStep, SwapRead, SwapWrite, SwapEnd, Store, LoadData,
         LoadEnd, RefillTarget, RefillNext, BlockLoad, BlockStore, regs
  <2>2. QED
    BY <2>1 DEF Sealed
<1>11. CASE Begin
  BY <1>1, <1>2, <1>4, <1>7, <1>8, <1>9, <1>11 DEF Begin
<1>12. CASE GoOn
  BY <1>3, <1>5, <1>6, <1>10, <1>12 DEF GoOn
<1>13. QED
  BY <1>9, <1>11, <1>12 DEF Next, BusCycle

(* User code stays in user mode until an exception entry. *)
THEOREM SealedCorrect == Spec => UserSealed
<1>1. TypeOK /\ [Next]_vars => [Sealed]_vars
  BY SealedStep
<1>2. QED
  BY <1>1, TypeCorrect, PTL DEF Spec, UserSealed, Sealed

-----------------------------------------------------------------------------
(* Banks: what BankIsolation says of one step, and that every step does so  *)

(* Registers of the current mode *)
OwnReg(p) == \E r \in Reg : p = Phys(r, CurBank)

(* BankIsolation of one step *)
Isolated ==
  /\ \A p \in PhysReg :
       gpr'[p] # gpr[p]
         => \/ \E r \in Reg : p = Phys(r, CurBank)
            \/ p = Phys("r14", BankOf(cpsr'.mode)) /\ spsr'[p[2]] = cpsr
            \/ seq = "BDT" /\ UserBank(x.op) /\ p[2] = "USR"
  /\ \A b \in Bank :
       spsr'[b] # spsr[b]
         => b # "USR" /\ (b = CurBank \/ b = BankOf(cpsr'.mode))

(* The file g differs from the present one in own registers only *)
OwnOnly(g) == \A p \in PhysReg : g[p] # gpr[p] => OwnReg(p)

(* A write to the file changes the register named, and no other *)
LEMMA SetBankOnly ==
  ASSUME NEW g \in [PhysReg -> Word], NEW r \in Reg, NEW b \in Bank, NEW v,
         NEW p \in PhysReg, SetBank(g, r, b, v)[p] # g[p]
  PROVE  p = Phys(r, b)
<1>1. CASE r = "pc"
  BY <1>1 DEF SetBank
<1>2. CASE r # "pc"
  BY <1>2, PhysType DEF SetBank
<1>3. QED
  BY <1>1, <1>2

(* ... which is one of its own for a write through the current bank *)
LEMMA SetRegOwn ==
  ASSUME TypeOK, NEW r \in Reg, NEW v PROVE OwnOnly(SetReg(gpr, r, v))
<1>1. CurBank \in Bank
  BY BankOfType DEF CurBank, TypeOK, Psr
<1>2. QED
  BY <1>1, SetBankOnly DEF SetReg, OwnOnly, OwnReg, TypeOK

LEMMA NoWrite == OwnOnly(gpr)
  BY DEF OwnOnly

(* Own registers written and no SPSR: isolated *)
LEMMA OwnIsolated ==
  ASSUME OwnOnly(gpr'), spsr' = spsr PROVE Isolated
  BY DEF Isolated, OwnOnly, OwnReg

(* The fields of a decoded instruction name registers *)
LEMMA FieldRegs ==
  ASSUME NEW op \in Insns PROVE op.rd \in Reg /\ op.rn \in Reg
  BY InsnAssumption DEF Insn

(* ... and so do those of the instruction in flight *)
LEMMA OpRegs == ASSUME TypeOK PROVE x.op.rd \in Reg /\ x.op.rn \in Reg
  BY DEF TypeOK, InFlight, Insn

(* An entry writes R14 and the SPSR of the mode it enters *)
LEMMA EntryIsolated ==
  ASSUME TypeOK, NEW b \in Bank, b # "USR", NEW v,
         gpr' = SetBank(gpr, "r14", b, v), spsr' = [spsr EXCEPT ![b] = cpsr],
         BankOf(cpsr'.mode) = b
  PROVE  Isolated
<1>1. "r14" \in Reg
  BY DEF Reg
<1>2. Phys("r14", b)[2] = b
  BY DEF Phys
<1>3. spsr'[b] = cpsr /\ \A c \in Bank : spsr'[c] # spsr[c] => c = b
  BY DEF TypeOK
<1>4. \A p \in PhysReg : gpr'[p] # gpr[p] => p = Phys("r14", b)
  BY <1>1, SetBankOnly DEF TypeOK
<1>5. QED
  BY <1>2, <1>3, <1>4 DEF Isolated

(* ... as Enter does for every vector of the table *)
LEMMA EnterIsolated ==
  ASSUME TypeOK, NEW e \in Entries, Enter(e) PROVE Isolated
<1>1. /\ BankOf(Entry[e].mode) \in Bank /\ Entry[e].mode # "USR"
      /\ BankOf(Entry[e].mode) = Entry[e].mode
  BY VectorType
<1>2. /\ gpr' = SetBank(gpr, "r14", BankOf(Entry[e].mode), Dec(pc))
      /\ spsr' = [spsr EXCEPT ![BankOf(Entry[e].mode)] = cpsr]
      /\ cpsr'.mode = Entry[e].mode
  BY DEF Enter
<1>3. QED
  BY <1>1, <1>2, EntryIsolated

(* The first cycle of a sequence *)
LEMMA IsolatedBegin ==
  ASSUME TypeOK, Begin PROVE Isolated
<1>1. CASE ResetCycle \/ Skip
  BY <1>1, NoWrite, OwnIsolated DEF ResetCycle, Skip, regs
<1>2. ASSUME NEW e \in {"reset", "dabt", "fiq", "irq", "pabt"}, Exception(e)
      PROVE  Isolated
  BY <1>2, EnterIsolated DEF Exception, Entries
<1>3. ASSUME NEW op \in Insns, Swi(op) PROVE Isolated
  BY <1>3, EnterIsolated DEF Swi, Entries
<1>4. ASSUME NEW op \in Insns,
             DataProcShift(op) \/ Swap(op) \/ Transfer(op) \/ BlockTransfer(op)
               \/ Undefined(op)
      PROVE  Isolated
  BY <1>4, NoWrite, OwnIsolated
  DEF DataProcShift, Swap, Transfer, BlockTransfer, Undefined, regs
<1>5. ASSUME NEW op \in Insns,
             DataProc(op) \/ Mrs(op) \/ Multiply(op) \/ Branch(op)
      PROVE  Isolated
  <2>1. op.rd \in Reg /\ "r14" \in Reg
    BY FieldRegs DEF Reg
  <2>2. gpr' = gpr \/ \E r \in Reg, v \in {Plus(Val(op.rn), op.n)} \cup Data
                          \cup {Val(op.rn), 0, Dec(pc)} : gpr' = SetReg(gpr, r, v)
    BY <1>5, <2>1 DEF DataProc, DpFinish, Mrs, Multiply, Branch
  <2>3. spsr' = spsr
    BY <1>5 DEF DataProc, Mrs, Multiply, Branch
  <2>4. QED
    BY <2>2, <2>3, SetRegOwn, NoWrite, OwnIsolated
<1>6. ASSUME NEW op \in Insns, Msr(op) PROVE Isolated
  <2>1. gpr' = gpr /\ \A b \in Bank : spsr'[b] # spsr[b] => b = CurBank /\ b # "USR"
    BY <1>6 DEF Msr, TypeOK
  <2>2. QED
    BY <2>1 DEF Isolated
<1>7. QED
  BY <1>1, <1>2, <1>3, <1>4, <1>5, <1>6 DEF Begin

(* ... and the later ones *)
LEMMA IsolatedGoOn ==
  ASSUME TypeOK, GoOn PROVE Isolated
<1> USE OpRegs
<1>1. CASE SwapRead \/ SwapWrite \/ RefillTarget \/ RefillNext
  BY <1>1, NoWrite, OwnIsolated
  DEF SwapRead, SwapWrite, RefillTarget, RefillNext, regs
<1>2. CASE DataProcShifted \/ BoothStep \/ SwapEnd \/ Store \/ LoadData \/ LoadEnd
  <2>1. gpr' = gpr \/ \E r \in Reg : \E v : gpr' = SetReg(gpr, r, v)
    BY <1>2 DEF DataProcShifted, DpFinish, BoothStep, SwapEnd, LoadedReg, Store,
       LoadData, LoadEnd, WrittenBack
  <2>2. spsr' = spsr
    BY <1>2 DEF DataProcShifted, BoothStep, SwapEnd, Store, LoadData, LoadEnd
  <2>3. QED
    BY <2>1, <2>2, SetRegOwn, NoWrite, OwnIsolated
<1>3. BlockWrittenBack \in [PhysReg -> Word] /\ OwnOnly(BlockWrittenBack)
  BY SetRegOwn, SetRegType, NoWrite DEF BlockWrittenBack, TypeOK, InFlight
<1>4. ASSUME NEW r \in Reg, BlockLoad(r) PROVE Isolated
  <2> DEFINE b == IF UserBank(x.op) THEN "USR" ELSE CurBank
  <2>1. b \in Bank
    BY BankOfType DEF CurBank, TypeOK, Psr, Bank
  <2>2. PICK v \in Data : gpr' \in {BlockWrittenBack, SetBank(BlockWrittenBack, r, b, v)}
    BY <1>4 DEF BlockLoad
  <2>3. \A p \in PhysReg : gpr'[p] # gpr[p] => OwnReg(p) \/ p = Phys(r, b)
    BY <1>3, <2>1, <2>2, SetBankOnly DEF OwnOnly
  <2>4. Phys(r, "USR")[2] = "USR"
    BY DEF Phys
  <2>5. seq = "BDT" /\ spsr' = spsr
    BY <1>4 DEF BlockLoad
  <2>6. QED
    BY <2>3, <2>4, <2>5 DEF Isolated, OwnReg
<1>5. ASSUME NEW r \in Reg, BlockStore(r) PROVE Isolated
  BY <1>3, <1>5, OwnIsolated DEF BlockStore
<1>6. CASE BlockLoadEnd
  <2>1. gpr' = gpr \/ \E v : gpr' = SetReg(gpr, x.op.rn, v)
    BY <1>6 DEF BlockLoadEnd
  <2>2. QED
    BY <1>6, <2>1, SetRegOwn, NoWrite, OwnIsolated DEF BlockLoadEnd
<1>7. CASE UndefinedEntry
  <2>1. cpsr'.mode = "UND" /\ BankOf("UND") = "UND" /\ "UND" \in Bank
    BY <1>7 DEF UndefinedEntry, TypeOK, Psr, BankOf, Bank
  <2>2. QED
    BY <1>7, <2>1, EntryIsolated DEF UndefinedEntry
<1>8. QED
  BY <1>1, <1>2, <1>4, <1>5, <1>6, <1>7 DEF GoOn

(* A step changes no register of a mode it neither runs in nor enters. *)
THEOREM BanksCorrect == Spec => BankIsolation
<1>1. ASSUME TypeOK, [Next]_vars PROVE [Isolated]_vars
  <2>1. CASE SetReset \/ SetFiq \/ SetIrq
    BY <2>1, NoWrite, OwnIsolated DEF SetReset, SetFiq, SetIrq, regs
  <2>2. QED
    BY <1>1, <2>1, IsolatedBegin, IsolatedGoOn DEF Next, BusCycle
<1>2. QED
  BY <1>1, TypeCorrect, PTL DEF Spec, BankIsolation, Isolated

-----------------------------------------------------------------------------
(* Base register: what AbortedBase says of one step; BaseInv is inductive   *)

(* The base register has the value v, when it is in the file *)
BaseIs(v) == x.op.rn # "pc" => gpr[Phys(x.op.rn, CurBank)] = v

(* What the base holds once the transfer has gone past its write-back *)
Updated(writes) == IF writes THEN x.wbv ELSE x.base

(* The base register of a running transfer: untouched until the data cycle   *)
(* of a single transfer and the first one of a block store, written back or   *)
(* left as it was by its own mode from then on.  A block load needs no clause: *)
(* its last cycle restores the base itself.                                   *)
BaseInv ==
  /\ seq \in {"SWP", "SDT", "BDT"} => x.op.cls = seq
  /\ seq = "SDT" =>
       \/ k = 1 /\ BaseIs(x.base)
       \/ k = 2 /\ BaseIs(Updated(WritesBack(x.op)))
  /\ seq = "BDT" => x.rest \subseteq List(x.op)
  /\ seq = "BDT" /\ "L" \notin x.op.bits =>
       IF x.rest = List(x.op) THEN BaseIs(x.base)
                              ELSE BaseIs(Updated("W" \in x.op.bits))

(* AbortedBase of one step *)
Aborted ==
  (~dabort_pending /\ dabort_pending' /\ x.op.rn # "pc")
    => LET now == gpr'[Phys(x.op.rn, CurBank)] IN
         /\ x.op.cls = "SDT"
              => now = IF "P" \in x.op.bits /\ "W" \notin x.op.bits
                      THEN x.base ELSE x.wbv
         /\ x.op.cls = "BDT"
              => now = IF "W" \in x.op.bits THEN x.wbv ELSE x.base

(* What SetReg leaves in the register it writes *)
LEMMA SetRegReads ==
  ASSUME TypeOK, NEW r \in Reg, r # "pc", NEW v
  PROVE  SetReg(gpr, r, v)[Phys(r, CurBank)] = v
<1>1. CurBank \in Bank
  BY BankOfType DEF CurBank, TypeOK, Psr
<1>2. Phys(r, CurBank) \in PhysReg
  BY <1>1, PhysType
<1>3. QED
  BY <1>2 DEF SetReg, SetBank, TypeOK

LEMMA BaseReg == ASSUME TypeOK PROVE x.op.rn \in Reg
  BY DEF TypeOK, InFlight, Insn

(* A sequence that is not a transfer has no base *)
LEMMA NoBase ==
  ASSUME seq' \notin {"SWP", "SDT", "BDT"} PROVE BaseInv'
  BY DEF BaseInv

(* A transfer begins with its base register as it was *)
LEMMA BaseBegin ==
  ASSUME TypeOK, Begin PROVE BaseInv'
<1>1. ASSUME NEW op \in Insns, Swap(op) PROVE BaseInv'
  <2>1. seq' = "SWP" /\ x'.op = op /\ op.cls = "SWP"
    BY <1>1, DecodedType DEF Swap, Continue, Decoded, Retired, Clear
  <2>2. QED
    BY <2>1 DEF BaseInv
<1>2. ASSUME NEW op \in Insns, Transfer(op) PROVE BaseInv'
  <2>1. /\ seq' = "SDT" /\ k' = 1 /\ x'.op = op /\ op.cls = "SDT"
        /\ x'.base = Val(op.rn) /\ gpr' = gpr /\ cpsr' = cpsr
    BY <1>2 DEF Transfer, Continue, Decoded, Retired, Clear, regs
  <2>2. QED
    BY <2>1 DEF BaseInv, BaseIs, Val, CurBank
<1>3. ASSUME NEW op \in Insns, BlockTransfer(op) PROVE BaseInv'
  <2>1. /\ seq' = "BDT" /\ x'.op = op /\ op.cls = "BDT" /\ x'.rest = List(op)
        /\ x'.base = Val(op.rn) /\ gpr' = gpr /\ cpsr' = cpsr
    BY <1>3 DEF BlockTransfer, Continue, Decoded, Retired, Clear, regs
  <2>2. QED
    BY <2>1 DEF BaseInv, BaseIs, Val, CurBank
<1>4. CASE ~(\E op \in Insns : Swap(op) \/ Transfer(op) \/ BlockTransfer(op))
  <2>1. seq' \notin {"SWP", "SDT", "BDT"}
    BY <1>4
    DEF Begin, ResetCycle, Picks, AtBoundary, Exception, Enter, Skip, DataProc,
        DpFinish, DataProcShift, Mrs, Msr, Multiply, Branch, Undefined, Swi,
        StartRefill, Continue, Finish
  <2>2. QED
    BY <2>1, NoBase
<1>5. QED
  BY <1>1, <1>2, <1>3, <1>4

(* The data cycle writes the base back and the last cycle of a load keeps it *)
LEMMA BaseSingle ==
  ASSUME TypeOK, BaseInv, LoadData \/ LoadEnd \/ Store
  PROVE  BaseInv' /\ Aborted
<1> USE BaseReg
<1> DEFINE base == Phys(x.op.rn, CurBank)
<1>1. x.op.cls = "SDT"
  BY DEF BaseInv, LoadData, LoadEnd, Store
<1>2. ASSUME x.op.rn # "pc", gpr[base] = x.base
      PROVE  WrittenBack[base] = Updated(WritesBack(x.op))
  BY <1>2, SetRegReads DEF WrittenBack, Updated
<1>3. CASE LoadData
  <2>1. /\ k = 1 /\ seq' = "SDT" /\ k' = 2 /\ gpr' = WrittenBack /\ cpsr' = cpsr
        /\ x'.op = x.op /\ x'.base = x.base /\ x'.wbv = x.wbv
        /\ dabort_pending' = dabort_pending
    BY <1>3 DEF LoadData, Continue, requests, TypeOK, InFlight
  <2>2. BaseIs(x.base)
    BY <1>3, <2>1 DEF BaseInv, LoadData
  <2>3. BaseIs(Updated(WritesBack(x.op)))'
    BY <1>2, <2>1, <2>2 DEF BaseIs, Updated, CurBank, WritesBack
  <2>4. QED
    BY <1>1, <2>1, <2>3 DEF BaseInv, Aborted
<1>4. CASE Store
  <2>1. seq' = "IDLE" /\ gpr' = WrittenBack
    BY <1>4 DEF Store, Finish
  <2>2. BaseIs(x.base) \/ BaseIs(Updated(WritesBack(x.op)))
    BY <1>4 DEF BaseInv, Store
  <2>3. x.op.rn # "pc" => gpr'[base] = Updated(WritesBack(x.op))
    BY <1>2, <2>1, <2>2, SetRegReads DEF BaseIs, WrittenBack, Updated
  <2>4. Aborted
    BY <1>1, <2>3 DEF Aborted, Updated, WritesBack
  <2>5. QED
    BY <2>1, <2>4, NoBase
<1>5. CASE LoadEnd
  <2>1. seq' \in {"IDLE", "REFILL"}
    BY <1>5 DEF LoadEnd, LoadedReg, StartRefill, Continue, Finish
  <2>2. ~dabort_pending /\ dabort_pending' => x.ab /\ gpr' = gpr
    BY <1>5 DEF LoadEnd, LoadedReg, TypeOK, InFlight
  <2>3. BaseIs(Updated(WritesBack(x.op)))
    BY <1>5 DEF BaseInv, LoadEnd
  <2>4. Aborted
    BY <1>1, <2>2, <2>3 DEF Aborted, Updated, WritesBack, BaseIs
  <2>5. QED
    BY <2>1, <2>4, NoBase
<1>6. QED
  BY <1>3, <1>4, <1>5

(* A block store writes the base back with its first word *)
LEMMA BaseBlock ==
  ASSUME TypeOK, BaseInv, NEW r \in Reg, BlockLoad(r) \/ BlockStore(r)
  PROVE  BaseInv' /\ Aborted
<1> USE BaseReg
<1> DEFINE base == Phys(x.op.rn, CurBank)
<1>1. x.op.cls = "BDT" /\ seq = "BDT" /\ r \in x.rest /\ x.rest \subseteq List(x.op)
  BY DEF BaseInv, BlockLoad, BlockStore, IsNext
<1>2. CASE BlockLoad(r)
  <2>1. /\ seq' = "BDT" /\ x'.op = x.op /\ x'.rest = x.rest \ {r}
        /\ "L" \in x.op.bits /\ dabort_pending' = dabort_pending
    BY <1>2 DEF BlockLoad, Continue, requests, TypeOK, InFlight
  <2>2. QED
    BY <1>1, <2>1 DEF BaseInv, Aborted
<1>3. CASE BlockStore(r)
  <2>1. "L" \notin x.op.bits /\ gpr' = BlockWrittenBack /\ cpsr' = cpsr
    BY <1>3 DEF BlockStore
  <2>2. x.op.rn # "pc" => gpr'[base] = Updated("W" \in x.op.bits)
    <3>1. CASE x.rest = List(x.op)
      BY <1>1, <2>1, <3>1, SetRegReads
      DEF BaseInv, BaseIs, BlockWrittenBack, Updated
    <3>2. CASE x.rest # List(x.op)
      BY <1>1, <2>1, <3>2 DEF BaseInv, BaseIs, BlockWrittenBack
    <3>3. QED
      BY <3>1, <3>2
  <2>3. Aborted
    BY <1>1, <2>2 DEF Aborted, Updated
  <2>4. CASE x.rest = {r}
    <3>1. seq' = "IDLE"
      BY <1>3, <2>4 DEF BlockStore, Finish
    <3>2. QED
      BY <2>3, <3>1, NoBase
  <2>5. CASE x.rest # {r}
    <3>1. /\ seq' = "BDT" /\ x'.op = x.op /\ x'.rest = x.rest \ {r}
          /\ x'.base = x.base /\ x'.wbv = x.wbv
      BY <1>3, <2>5 DEF BlockStore, Continue, TypeOK, InFlight
    <3>2. x'.rest # List(x.op) /\ x'.rest \subseteq List(x.op)
      BY <1>1, <3>1
    <3>3. BaseIs(Updated("W" \in x.op.bits))'
      BY <2>1, <2>2, <3>1 DEF BaseIs, Updated, CurBank
    <3>4. QED
      BY <1>1, <2>1, <2>3, <3>1, <3>2, <3>3 DEF BaseInv
  <2>6. QED
    BY <2>4, <2>5
<1>4. QED
  BY <1>2, <1>3

LEMMA BaseStep ==
  ASSUME TypeOK, BaseInv, [Next]_vars
  PROVE  BaseInv' /\ [Aborted]_vars
<1>1. CASE Begin
  <2>1. dabort_pending' => dabort_pending
    BY <1>1 DEF Begin, ResetCycle, Exception, Skip, DataProc, DataProcShift, Mrs,
       Msr, Multiply, Swap, Transfer, BlockTransfer, Branch, Undefined, Swi,
       requests
  <2>2. QED
    BY <1>1, <2>1, BaseBegin DEF Aborted
<1>2. CASE LoadData \/ LoadEnd \/ Store
  BY <1>2, BaseSingle
<1>3. ASSUME NEW r \in Reg, BlockLoad(r) \/ BlockStore(r)
      PROVE  BaseInv' /\ Aborted
  BY <1>3, BaseBlock
<1>4. CASE BlockLoadEnd
  <2>1. seq = "BDT" /\ seq' \in {"IDLE", "REFILL"}
    BY <1>4 DEF BlockLoadEnd, StartRefill, Continue, Finish
  <2>2. ~dabort_pending /\ dabort_pending'
          => gpr' = SetReg(gpr, x.op.rn,
                           IF "W" \in x.op.bits THEN x.wbv ELSE x.base)
    BY <1>4 DEF BlockLoadEnd
  <2>3. x.op.cls = "BDT"
    BY <2>1 DEF BaseInv
  <2>4. Aborted
    BY <2>2, <2>3, BaseReg, SetRegReads DEF Aborted
  <2>5. QED
    BY <2>1, <2>4, NoBase
<1>5. CASE SwapRead \/ SwapWrite \/ SwapEnd
  <2>1. x.op.cls = "SWP"
    BY <1>5 DEF BaseInv, SwapRead, SwapWrite, SwapEnd
  <2>2. seq' = "IDLE" \/ (seq' = "SWP" /\ x'.op = x.op)
    BY <1>5 DEF SwapRead, SwapWrite, SwapEnd, LoadedReg, Continue, Finish, TypeOK,
       InFlight
  <2>3. QED
    BY <2>1, <2>2 DEF BaseInv, Aborted
<1>6. CASE \/ DataProcShifted \/ BoothStep \/ UndefinedEntry
           \/ RefillTarget \/ RefillNext
  <2>1. seq' \notin {"SWP", "SDT", "BDT"} /\ dabort_pending' = dabort_pending
    BY <1>6 DEF DataProcShifted, DpFinish, BoothStep, UndefinedEntry,
       RefillTarget, RefillNext, StartRefill, Continue, Finish, requests
  <2>2. QED
    BY <2>1, NoBase DEF Aborted
<1>7. CASE SetReset \/ SetFiq \/ SetIrq
  BY <1>7 DEF SetReset, SetFiq, SetIrq, regs, requests, BaseInv, BaseIs, Updated,
     CurBank, Aborted
<1>8. CASE UNCHANGED vars
  BY <1>8 DEF vars, BaseInv, BaseIs, Updated, CurBank
<1>9. CASE GoOn
  BY <1>2, <1>3, <1>4, <1>5, <1>6, <1>9 DEF GoOn
<1>10. QED
  BY <1>1, <1>7, <1>8, <1>9 DEF Next, BusCycle

(* An aborted transfer leaves its base register restartable. *)
THEOREM AbortedBaseCorrect == Spec => AbortedBase
<1>1. Init => BaseInv
  BY DEF Init, BaseInv
<1>2. TypeOK /\ BaseInv /\ [Next]_vars => BaseInv' /\ [Aborted]_vars
  BY BaseStep
<1>3. QED
  BY <1>1, <1>2, TypeCorrect, PTL DEF Spec, AbortedBase, Aborted

-----------------------------------------------------------------------------
(* The return address of a data abort.  While nRESET stays released the      *)
(* abort is raised at the boundary right after the transfer: the execute     *)
(* stage then holds the instruction after it.  With resets it is not (the    *)
(* violation core_reset_abort shows).                                        *)

Released == ~in_reset

AbortInv ==
  /\ reset_exit => AtBoundary
  /\ dabort_pending => AtBoundary /\ ~reset_exit /\ ex.addr = Inc(x.at)

AbortReturns ==
  Exception("dabt") => gpr'[Phys("r14", "ABT")] = Inc(Inc(x.at))

(* A boundary takes what waits for it, the entry of the power-on first.      *)
LEMMA AbortBegin ==
  ASSUME AbortInv, Released, Begin
  PROVE  ~dabort_pending' /\ (reset_exit' => reset_exit /\ AtBoundary')
<1>1. CASE Skip \/ \E op \in Insns :
             \/ DataProc(op) \/ DataProcShift(op) \/ Mrs(op) \/ Msr(op)
             \/ Multiply(op) \/ Swap(op) \/ Transfer(op) \/ BlockTransfer(op)
             \/ Branch(op) \/ Undefined(op) \/ Swi(op)
  <2>1. Requests = {} /\ requests' = requests
    BY <1>1 DEF Skip, Decodes, DataProc, DataProcShift, Mrs, Msr, Multiply,
       Swap, Transfer, BlockTransfer, Branch, Undefined, Swi
  <2>2. ~dabort_pending /\ ~reset_exit
    BY <2>1 DEF Requests, Rank
  <2>3. QED
    BY <2>1, <2>2 DEF requests
<1>2. ASSUME NEW e \in {"reset", "dabt", "fiq", "irq", "pabt"}, Exception(e)
      PROVE  ~dabort_pending' /\ ~reset_exit'
  <2>1. /\ e \in Requests /\ \A h \in Requests : Rank[e] <= Rank[h]
        /\ reset_exit' = (reset_exit /\ e # "reset")
        /\ dabort_pending' = (dabort_pending /\ e # "dabt")
    BY <1>2 DEF Exception, Picks
  <2>2. CASE reset_exit
    <3>1. "reset" \in Requests /\ ~dabort_pending
      BY <2>2 DEF Requests, Rank, AbortInv
    <3>2. e = "reset"
      BY <2>1, <3>1 DEF Rank
    <3>3. QED
      BY <2>1, <3>1, <3>2
  <2>3. CASE ~reset_exit /\ dabort_pending
    <3>1. "dabt" \in Requests /\ "reset" \notin Requests
      BY <2>3 DEF Requests, Rank
    <3>2. e = "dabt"
      BY <2>1, <3>1 DEF Rank
    <3>3. QED
      BY <2>1, <2>3, <3>2
  <2>4. QED
    BY <2>1, <2>2, <2>3
<1>3. ~ResetCycle
  BY DEF ResetCycle, Picks, Requests, Released
<1>4. QED
  BY <1>1, <1>2, <1>3 DEF Begin

(* The end of a sequence puts the next instruction in the execute stage.     *)
LEMMA AbortFinish ==
  ASSUME PipelineInv, seq \in Middle, Finish
  PROVE  AtBoundary' /\ ex'.addr = Inc(x'.at)
<1>1. x'.at = ex.addr /\ ex' = de /\ seq' = "IDLE"
  BY DEF Finish, Retired, Clear
<1>2. QED
  BY <1>1 DEF AtBoundary, PipelineInv, PipelineCoherent, OperandCoherent, Middle

LEMMA AbortGoOn ==
  ASSUME PipelineInv, AbortInv, GoOn
  PROVE  AbortInv'
<1>1. ~AtBoundary
  BY DEF GoOn, AtBoundary, DataProcShifted, BoothStep, SwapRead, SwapWrite,
     SwapEnd, Store, LoadData, LoadEnd, BlockLoad, BlockStore, BlockLoadEnd,
     UndefinedEntry, RefillTarget, RefillNext
<1>2. ~reset_exit /\ ~dabort_pending
  BY <1>1 DEF AbortInv
<1>3. CASE \/ DataProcShifted \/ BoothStep \/ SwapRead \/ SwapWrite \/ LoadData
           \/ UndefinedEntry \/ RefillTarget \/ RefillNext
           \/ \E r \in Reg : BlockLoad(r)
  <2>1. requests' = requests
    BY <1>3 DEF DataProcShifted, BoothStep, SwapRead, SwapWrite, LoadData,
       UndefinedEntry, RefillTarget, RefillNext, BlockLoad
  <2>2. QED
    BY <1>2, <2>1 DEF AbortInv, requests
<1>4. CASE \/ SwapEnd \/ Store \/ LoadEnd \/ BlockLoadEnd
           \/ \E r \in Reg : BlockStore(r)
  <2>1. seq \in Middle /\ reset_exit' = reset_exit
    BY <1>4 DEF Middle, SwapEnd, Store, LoadEnd, BlockLoadEnd, BlockStore
  <2>2. dabort_pending' => Finish
    BY <1>2, <1>4 DEF SwapEnd, Store, LoadEnd, LoadedReg, BlockLoadEnd, BlockStore
  <2>3. QED
    BY <1>2, <2>1, <2>2, AbortFinish DEF AbortInv
<1>5. QED
  BY <1>3, <1>4 DEF GoOn

LEMMA AbortStep ==
  ASSUME PipelineInv, AbortInv, Released, Released', [Next]_vars
  PROVE  AbortInv' /\ [AbortReturns]_vars
<1>1. AbortInv'
  <2>1. CASE Begin
    BY <2>1, AbortBegin DEF AbortInv
  <2>2. CASE GoOn
    BY <2>2, AbortGoOn
  <2>3. CASE SetReset
    BY <2>3 DEF SetReset, Released
  <2>4. CASE SetFiq \/ SetIrq \/ UNCHANGED vars
    BY <2>4 DEF SetFiq, SetIrq, vars, requests, stages, AbortInv, AtBoundary
  <2>5. QED
    BY <2>1, <2>2, <2>3, <2>4 DEF Next, BusCycle
<1>2. ASSUME Exception("dabt")
      PROVE  gpr'[Phys("r14", "ABT")] = Inc(Inc(x.at))
  <2>1. dabort_pending /\ Enter("dabt")
    BY <1>2 DEF Exception, Picks, Requests
  <2>2. AtBoundary /\ ~reset_exit /\ ex.addr = Inc(x.at)
    BY <2>1 DEF AbortInv
  <2>3. "dabt" \in Entries /\ Entry["dabt"].mode = "ABT"
    BY DEF Entries, Entry
  <2>4. QED
    BY <2>1, <2>2, <2>3, EnterReturns DEF Released
<1>3. QED
  BY <1>1, <1>2 DEF AbortReturns

(* As long as nRESET is never asserted, a data abort leaves in R14 the       *)
(* aborted instruction's address + 8.                                        *)
THEOREM AbortReturnCorrect == Spec /\ []Released => AbortReturn
<1>1. Init => AbortInv
  BY DEF Init, AbortInv, AtBoundary
<1>2. PipelineInv /\ AbortInv /\ Released /\ Released' /\ [Next]_vars
        => AbortInv' /\ [AbortReturns]_vars
  BY AbortStep
<1>3. QED
  BY <1>1, <1>2, PipelineInit, PipelineStep, PTL
  DEF Spec, AbortReturn, AbortReturns

-----------------------------------------------------------------------------
(* The tables *)

CycleRow == [type : CycleType, addr : Int, flags : SUBSET BusFlag]

(* Instructions, and what stands in the tables like one *)
SheetOp ==
  [cls : Class \cup {"ENTRY", "SKIP"}, rd : Reg, rn : Reg, n : Int,
   bits : SUBSET Bits, list : SUBSET Reg]

LEMMA WordInt == Word \subseteq Int /\ 1 \in Word
  BY SizeAssumption DEF Word

LEMMA PlusInt ==
  ASSUME NEW a \in Word, NEW n \in Int
  PROVE  Plus(a, n) \in Int
<1>1. Plus(a, n) \in Word
  BY PlusType
<1>2. QED
  BY <1>1, WordInt, Zenon

LEMMA RowType ==
  ASSUME NEW type \in CycleType, NEW addr \in Int, NEW flags \in SUBSET BusFlag
  PROVE  Row(type, addr, flags) \in CycleRow
  BY DEF Row, CycleRow

LEMMA RowIs ==
  ASSUME NEW type, NEW addr, NEW flags
  PROVE  /\ Row(type, addr, flags).type = type
         /\ Row(type, addr, flags).addr = addr
         /\ Row(type, addr, flags).flags = flags
  BY DEF Row

LEMMA FixedRows ==
  ASSUME NEW at \in Word
  PROVE  /\ Fetch(at) \in CycleRow /\ Internal(at) \in CycleRow
         /\ Fetch(at).addr = Plus(at, 2) /\ Fetch(at).flags = {"OPC"}
<1>1. Plus(at, 2) \in Int /\ Plus(at, 3) \in Int
  BY PlusInt
<1>2. /\ "S" \in CycleType /\ "I" \in CycleType
      /\ {"OPC"} \in SUBSET BusFlag /\ {} \in SUBSET BusFlag
  BY DEF CycleType, BusFlag
<1>3. QED
  BY <1>1, <1>2, RowType, RowIs DEF Fetch, Internal

LEMMA SpecialOp ==
  ASSUME NEW cls \in {"ENTRY", "SKIP"}, NEW v \in Int
  PROVE  /\ Special(cls, v) \in SheetOp
         /\ Special(cls, v).cls = cls /\ Special(cls, v).n = v
         /\ Special(cls, v).rn = "r0" /\ Special(cls, v).bits = {}
  BY DEF Special, NoInsn, SheetOp, Class, Reg, Bits

LEMMA InsnOp ==
  ASSUME NEW op \in Insns
  PROVE  op \in SheetOp /\ op \in Insn
  BY InsnAssumption DEF SheetOp, Insn

(* The rows of a table whose inner rows are known *)
RowsAre(rows, at, inner, n) ==
  /\ rows \in Seq(CycleRow) /\ Len(rows) = 1 + n
  /\ rows[1] = Fetch(at)
  /\ \A i \in 1 .. n : rows[1 + i] = inner[i]

LEMMA RowsOf ==
  ASSUME NEW op, NEW at \in Word, NEW base, NEW inner \in Seq(CycleRow),
         Inner(op, at, base) = inner, NEW n, n = Len(inner)
  PROVE  RowsAre(Rows(op, at, base), at, inner, n)
<1> DEFINE one == <<Fetch(at)>>
<1>1. one \in Seq(CycleRow) /\ Len(one) = 1 /\ one[1] = Fetch(at)
  BY FixedRows
<1>2. Rows(op, at, base) = one \o inner
  BY DEF Rows
<1> HIDE DEF one
<1>3. Len(inner) \in Nat
  BY LenProperties
<1>4. /\ one \o inner \in Seq(CycleRow)
      /\ Len(one \o inner) = Len(one) + Len(inner)
      /\ \A i \in 1 .. Len(one) + Len(inner) : (one \o inner)[i] =
                     IF i <= Len(one) THEN one[i] ELSE inner[i - Len(one)]
  BY <1>1, ConcatProperties, Zenon
<1>5. PICK rows : rows = one \o inner
  OBVIOUS
<1>6. /\ rows \in Seq(CycleRow) /\ Len(rows) = 1 + n
      /\ \A i \in 1 .. 1 + n : rows[i] = IF i <= 1 THEN one[i] ELSE inner[i - 1]
  BY <1>1, <1>4, <1>5
<1>7. RowsAre(rows, at, inner, n)
  BY <1>1, <1>3, <1>6 DEF RowsAre
<1>8. QED
  BY <1>2, <1>5, <1>7

(* Tables without inner rows *)
Plain(op) ==
  \/ op.cls \in {"PSR", "BRANCH", "SWI", "ENTRY", "SKIP"}
  \/ op.cls = "DP" /\ "R" \notin op.bits

LEMMA PlainRows ==
  ASSUME NEW op, NEW at \in Word, NEW base, Plain(op)
  PROVE  Len(Rows(op, at, base)) = 1 /\ Rows(op, at, base)[1] = Fetch(at)
<1>1. Inner(op, at, base) = <<>>
  BY DEF Plain, Inner, Stores
<1>2. <<>> \in Seq(CycleRow) /\ Len(<<>>) = 0
  BY EmptySeq
<1>3. RowsAre(Rows(op, at, base), at, Inner(op, at, base), Len(Inner(op, at, base)))
  BY <1>1, <1>2, RowsOf
<1>4. QED
  BY <1>1, <1>2, <1>3 DEF RowsAre

LEMMA ShiftRows ==
  ASSUME NEW op, NEW at \in Word, NEW base, op.cls = "DP", "R" \in op.bits
  PROVE  /\ Len(Rows(op, at, base)) = 2
         /\ Rows(op, at, base)[1] = Fetch(at)
         /\ Rows(op, at, base)[2] = Internal(at)
<1>1. Inner(op, at, base) = <<Internal(at)>>
  BY DEF Inner, Stores
<1>2. <<Internal(at)>> \in Seq(CycleRow) /\ Len(<<Internal(at)>>) = 1
      /\ <<Internal(at)>>[1] = Internal(at)
  BY FixedRows
<1>3. RowsAre(Rows(op, at, base), at, Inner(op, at, base), Len(Inner(op, at, base)))
  BY <1>1, <1>2, RowsOf
<1>4. QED
  BY <1>1, <1>2, <1>3 DEF RowsAre

InternalTable(rows, at, n) ==
  /\ Len(rows) = 1 + n /\ rows[1] = Fetch(at)
  /\ \A i \in 1 .. n : rows[1 + i] = Internal(at)

LEMMA MultiplyRows ==
  ASSUME NEW op, NEW at \in Word, NEW base, op.cls = "MUL",
         NEW n \in Nat, op.n = n
  PROVE  InternalTable(Rows(op, at, base), at, n)
<1> DEFINE inner == Repeated(Internal(at), n)
<1>1. Inner(op, at, base) = inner
  BY DEF Inner, Stores
<1>2. inner = [i \in 1 .. n |-> Internal(at)]
  BY DEF Repeated
<1>3. inner \in Seq(CycleRow) /\ Len(inner) = n
  BY <1>2, FixedRows
<1>4. \A i \in 1 .. n : inner[i] = Internal(at)
  BY <1>2
<1> HIDE DEF inner
<1>5. RowsAre(Rows(op, at, base), at, inner, n)
  BY <1>1, <1>3, RowsOf
<1>6. QED
  BY <1>4, <1>5 DEF RowsAre, InternalTable

LEMMA SwapTable ==
  ASSUME NEW op, NEW at \in Word, NEW base \in Word, op.cls = "SWP"
  PROVE  /\ Len(Rows(op, at, base)) = 4
         /\ Rows(op, at, base)[1] = Fetch(at)
         /\ Rows(op, at, base)[2] = Row("N", base, {"LOCK"})
         /\ Rows(op, at, base)[3] = Row("N", base, {"LOCK", "WRITE"})
         /\ Rows(op, at, base)[4] = Internal(at)
<1>1. Inner(op, at, base) = SwapRows(at, base)
  BY DEF Inner, Stores
<1>2. "N" \in CycleType /\ base \in Int
      /\ {"LOCK"} \in SUBSET BusFlag /\ {"LOCK", "WRITE"} \in SUBSET BusFlag
  BY WordInt DEF CycleType, BusFlag
<1>3. /\ SwapRows(at, base) \in Seq(CycleRow)
      /\ Len(SwapRows(at, base)) = 3
      /\ SwapRows(at, base)[1] = Row("N", base, {"LOCK"})
      /\ SwapRows(at, base)[2] = Row("N", base, {"LOCK", "WRITE"})
      /\ SwapRows(at, base)[3] = Internal(at)
  BY <1>2, FixedRows, RowType DEF SwapRows
<1>4. RowsAre(Rows(op, at, base), at, SwapRows(at, base), 3)
  BY <1>1, <1>3, RowsOf
<1>5. QED
  BY <1>3, <1>4 DEF RowsAre

LEMMA UndefinedRows ==
  ASSUME NEW op, NEW at \in Word, NEW base, op.cls = "UNDEF"
  PROVE  /\ Len(Rows(op, at, base)) = 2
         /\ Rows(op, at, base)[1] = Fetch(at)
         /\ Rows(op, at, base)[2] = Row("I", Plus(at, 2), {"OPC"})
<1> DEFINE row == Row("I", Plus(at, 2), {"OPC"})
<1>1. Inner(op, at, base) = <<row>>
  BY DEF Inner, Stores, Fetch, Row
<1>2. row \in CycleRow
  <2>1. Plus(at, 2) \in Int /\ "I" \in CycleType /\ {"OPC"} \in SUBSET BusFlag
    BY PlusInt DEF CycleType, BusFlag
  <2>2. QED
    BY <2>1, RowType
<1>3. <<row>> \in Seq(CycleRow) /\ Len(<<row>>) = 1 /\ <<row>>[1] = row
  BY <1>2
<1> HIDE DEF row
<1>4. RowsAre(Rows(op, at, base), at, <<row>>, 1)
  BY <1>1, <1>3, RowsOf
<1>5. QED
  BY <1>3, <1>4 DEF RowsAre, row

(* The addresses of transfers *)
LEMMA SingleType ==
  ASSUME NEW op \in SheetOp, NEW base \in Word
  PROVE  Single(op, base) \in Word
<1>1. op.n \in Int /\ -op.n \in Int
  BY DEF SheetOp
<1>2. Plus(base, op.n) \in Word /\ Plus(base, -op.n) \in Word
  BY <1>1, PlusType
<1>3. QED
  BY <1>2 DEF Single

LEMMA StoreRows ==
  ASSUME NEW op \in SheetOp, NEW at \in Word, NEW base \in Word,
         op.cls = "SDT", "L" \notin op.bits
  PROVE  /\ Len(Rows(op, at, base)) = 2
         /\ Rows(op, at, base)[1] = Fetch(at)
         /\ Rows(op, at, base)[2] = Row("N", Single(op, base), {"WRITE"})
<1> DEFINE row == Row("N", Single(op, base), {"WRITE"})
<1>1. Inner(op, at, base) = <<row>>
  BY DEF Inner, Stores, TransferRows
<1>2. Single(op, base) \in Int /\ "N" \in CycleType /\ {"WRITE"} \in SUBSET BusFlag
  BY SingleType, WordInt DEF CycleType, BusFlag
<1>3. row \in CycleRow
  BY <1>2, RowType
<1> HIDE DEF row
<1>4. <<row>> \in Seq(CycleRow) /\ Len(<<row>>) = 1 /\ <<row>>[1] = row
  BY <1>3
<1>5. RowsAre(Rows(op, at, base), at, <<row>>, 1)
  BY <1>1, <1>4, RowsOf
<1>6. QED
  BY <1>4, <1>5 DEF RowsAre, row

LEMMA LoadRows ==
  ASSUME NEW op \in SheetOp, NEW at \in Word, NEW base \in Word,
         op.cls = "SDT", "L" \in op.bits
  PROVE  /\ Len(Rows(op, at, base)) = 3
         /\ Rows(op, at, base)[1] = Fetch(at)
         /\ Rows(op, at, base)[2] = Row("N", Single(op, base), {})
         /\ Rows(op, at, base)[3] = Internal(at)
<1> DEFINE row == Row("N", Single(op, base), {})
<1>1. Inner(op, at, base) = Append(<<row>>, Internal(at))
  BY DEF Inner, Stores, TransferRows
<1>2. Single(op, base) \in Int /\ "N" \in CycleType /\ {} \in SUBSET BusFlag
  BY SingleType, WordInt DEF CycleType
<1>3. row \in CycleRow
  BY <1>2, RowType
<1> HIDE DEF row
<1>4. PICK inner : inner = Append(<<row>>, Internal(at))
  OBVIOUS
<1>5. inner \in Seq(CycleRow) /\ Len(inner) = 2
      /\ inner[1] = row /\ inner[2] = Internal(at)
  BY <1>3, <1>4, FixedRows
<1>6. RowsAre(Rows(op, at, base), at, inner, 2)
  BY <1>1, <1>4, <1>5, RowsOf
<1>7. QED
  BY <1>5, <1>6 DEF RowsAre, row

(* Block transfers *)
BlockRow(op, base, i, flags) ==
  Row(IF i = 1 THEN "N" ELSE "S", Plus(Lowest(op, base), i - 1), flags)

LEMMA SheetList ==
  ASSUME NEW op \in SheetOp
  PROVE  /\ List(op) \subseteq Reg /\ IsFiniteSet(List(op))
         /\ Cardinality(List(op)) \in Nat \ {0} /\ Words(op) \in Int
<1>1. [op EXCEPT !.cls = "SWI"] \in Insn
  BY DEF SheetOp, Insn, Class
<1>2. /\ List([op EXCEPT !.cls = "SWI"]) = List(op)
      /\ Words([op EXCEPT !.cls = "SWI"]) = Words(op)
  BY DEF SheetOp, List, Words
<1>3. List(op) \subseteq Reg /\ Words(op) \in Int
  BY <1>1, <1>2, ListType
<1>4. IsFiniteSet(List(op))
  BY <1>3, RegFinite, FS_Subset
<1>5. Cardinality(List(op)) \in Nat
  BY <1>4, FS_CardinalityType
<1>6. List(op) # {}
  BY DEF List
<1>7. Cardinality(List(op)) # 0
  BY <1>4, <1>6, FS_EmptySet
<1>8. QED
  BY <1>3, <1>4, <1>5, <1>7

LEMMA LowestType ==
  ASSUME NEW op \in SheetOp, NEW base \in Word
  PROVE  Lowest(op, base) \in Word
<1>1. 1 - Words(op) \in Int /\ 0 \in Int
  BY SheetList
<1>2. PICK n \in Int : n = (IF "U" \in op.bits THEN 0 ELSE 1 - Words(op))
  BY <1>1
<1>3. Plus(base, n) \in Word
  BY PlusType
<1>4. PICK far \in Word : far = Plus(base, n)
  BY <1>3
<1>5. Inc(far) \in Word /\ Dec(far) \in Word
  BY IncType
<1>6. QED
  BY <1>2, <1>4, <1>5 DEF Lowest

LEMMA BurstRows ==
  ASSUME NEW op \in SheetOp, NEW base \in Word, NEW flags \in SUBSET BusFlag,
         NEW n \in Nat
  PROVE  LET burst == Burst(Lowest(op, base), n, flags) IN
           /\ burst \in Seq(CycleRow) /\ Len(burst) = n
           /\ \A i \in 1 .. n : burst[i] = BlockRow(op, base, i, flags)
<1>1. \A i \in 1 .. n : BlockRow(op, base, i, flags) \in CycleRow
  <2>1. TAKE i \in 1 .. n
  <2>2. Plus(Lowest(op, base), i - 1) \in Int
    BY LowestType, PlusInt
  <2>3. (IF i = 1 THEN "N" ELSE "S") \in CycleType
    BY DEF CycleType
  <2>4. QED
    BY <2>2, <2>3, RowType DEF BlockRow
<1>2. PICK burst : burst = [i \in 1 .. n |-> BlockRow(op, base, i, flags)]
  OBVIOUS
<1>3. Burst(Lowest(op, base), n, flags) = burst
  BY <1>2 DEF Burst, BlockRow
<1>4. burst \in Seq(CycleRow) /\ Len(burst) = n
  BY <1>1, <1>2
<1>5. QED
  BY <1>2, <1>3, <1>4

BlockTable(rows, op, base, n, flags) ==
  \A i \in 1 .. n : rows[1 + i] = BlockRow(op, base, i, flags)

LEMMA BlockStoreRows ==
  ASSUME NEW op \in SheetOp, NEW at \in Word, NEW base \in Word,
         op.cls = "BDT", "L" \notin op.bits,
         NEW n, n = Cardinality(List(op))
  PROVE  /\ Len(Rows(op, at, base)) = 1 + n
         /\ Rows(op, at, base)[1] = Fetch(at)
         /\ BlockTable(Rows(op, at, base), op, base, n, {"WRITE"})
<1>1. n \in Nat /\ {"WRITE"} \in SUBSET BusFlag
  BY SheetList DEF BusFlag
<1>2. PICK burst : burst = Burst(Lowest(op, base), n, {"WRITE"})
  OBVIOUS
<1>3. Inner(op, at, base) = burst
  BY <1>2 DEF Inner, Stores, TransferRows
<1>4. /\ burst \in Seq(CycleRow) /\ Len(burst) = n
      /\ \A i \in 1 .. n : burst[i] = BlockRow(op, base, i, {"WRITE"})
  BY <1>1, <1>2, BurstRows
<1>5. RowsAre(Rows(op, at, base), at, burst, n)
  BY <1>3, <1>4, RowsOf
<1>6. QED
  BY <1>4, <1>5 DEF RowsAre, BlockTable

LEMMA BlockLoadRows ==
  ASSUME NEW op \in SheetOp, NEW at \in Word, NEW base \in Word,
         op.cls = "BDT", "L" \in op.bits,
         NEW n, n = Cardinality(List(op))
  PROVE  /\ Len(Rows(op, at, base)) = 2 + n
         /\ Rows(op, at, base)[1] = Fetch(at)
         /\ BlockTable(Rows(op, at, base), op, base, n, {})
         /\ Rows(op, at, base)[2 + n] = Internal(at)
<1>1. n \in Nat /\ {} \in SUBSET BusFlag
  BY SheetList
<1>2. PICK burst : burst = Burst(Lowest(op, base), n, {})
  OBVIOUS
<1>3. Inner(op, at, base) = Append(burst, Internal(at))
  BY <1>2 DEF Inner, Stores, TransferRows
<1>4. /\ burst \in Seq(CycleRow) /\ Len(burst) = n
      /\ \A i \in 1 .. n : burst[i] = BlockRow(op, base, i, {})
  BY <1>1, <1>2, BurstRows
<1>5. PICK inner : inner = Append(burst, Internal(at))
  OBVIOUS
<1>6. /\ inner \in Seq(CycleRow) /\ Len(inner) = n + 1
      /\ \A i \in 1 .. n : inner[i] = burst[i]
      /\ inner[n + 1] = Internal(at)
  BY <1>4, <1>5, FixedRows, AppendProperties
<1>7. PICK m \in Nat : m = n + 1
  BY <1>1
<1>8. RowsAre(Rows(op, at, base), at, inner, m)
  BY <1>3, <1>5, <1>6, <1>7, RowsOf
<1>9. QED
  BY <1>1, <1>4, <1>6, <1>7, <1>8 DEF RowsAre, BlockTable

LEMMA FirstRow ==
  ASSUME NEW op \in SheetOp, NEW at \in Word, NEW base \in Word,
         op.cls = "MUL" => op.n \in Nat
  PROVE  Rows(op, at, base)[1] = Fetch(at)
<1>1. CASE Plain(op)
  BY <1>1, PlainRows
<1>2. CASE op.cls = "DP" /\ "R" \in op.bits
  BY <1>2, ShiftRows
<1>3. CASE op.cls = "MUL"
  BY <1>3, MultiplyRows DEF InternalTable
<1>4. CASE op.cls = "SWP"
  BY <1>4, SwapTable
<1>5. CASE op.cls = "UNDEF"
  BY <1>5, UndefinedRows
<1>6. CASE op.cls = "SDT"
  BY <1>6, StoreRows, LoadRows
<1>7. CASE op.cls = "BDT"
  BY <1>7, BlockStoreRows, BlockLoadRows
<1>8. QED
  BY <1>1, <1>2, <1>3, <1>4, <1>5, <1>6, <1>7 DEF SheetOp, Class, Plain

-----------------------------------------------------------------------------
(* The monitor *)

Trace ==
  [op : SheetOp, at : Word, base : Word, rows : Seq(CycleRow), ok : {TRUE}]

Table(t) == Rows(t.op, t.at, t.base)

(* The first m cycles of t are those of its table *)
Follows(t, m) ==
  /\ t \in Trace
  /\ t.rows[1].addr = Plus(t.at, 2) /\ t.rows[1].flags = {"OPC"}
  /\ \A i \in 2 .. m : t.rows[i] = Table(t)[i]

OnTable(t, m) == Follows(t, m) /\ Len(t.rows) = m

Driven == Row(bus'.type, bus'.addr, bus'.flags \ {"USER"})
Aborting == dabort_pending' /\ ~dabort_pending

(* t is what has been driven with the cycle of this step *)
Goes(t) ==
  /\ seq' # "IDLE" => trace' = t
  /\ seq' = "IDLE"
       => trace' = [Idle EXCEPT !.ok = Conforms(t, t.rows, Aborting, next_type')]

LEMMA DrivenType ==
  ASSUME TypeOK'
  PROVE  Driven \in CycleRow
<1>1. bus'.type \in CycleType /\ bus'.addr \in Int /\ bus'.flags \ {"USER"} \in SUBSET BusFlag
  BY WordInt DEF TypeOK
<1>2. QED
  BY <1>1, RowType DEF Driven

LEMMA IdleType == Idle \in Trace
<1>1. NoInsn \in SheetOp
  BY DEF NoInsn, SheetOp, Class, Reg, Bits
<1>2. 0 \in Word
  BY VectorType
<1>3. <<>> \in Seq(CycleRow)
  BY EmptySeq
<1>4. QED
  BY <1>1, <1>2, <1>3 DEF Idle, Trace

LEMMA IdleAgain == [Idle EXCEPT !.ok = TRUE] = Idle
<1>1. Idle \in Trace /\ Idle.ok = TRUE
  BY IdleType DEF Idle
<1>2. QED
  BY <1>1 DEF Trace

LEMMA AppendTrace ==
  ASSUME NEW t \in Trace, NEW row \in CycleRow, NEW m \in Nat, Len(t.rows) = m,
         NEW n, n = m + 1, NEW u, u = [t EXCEPT !.rows = Append(t.rows, row)]
  PROVE  /\ u \in Trace /\ u.op = t.op /\ u.at = t.at /\ u.base = t.base
         /\ Len(u.rows) = n /\ u.rows[n] = row
         /\ \A i \in 1 .. m : u.rows[i] = t.rows[i]
<1>1. PICK rows \in Seq(CycleRow) : rows = t.rows
  BY DEF Trace
<1>2. /\ Append(rows, row) \in Seq(CycleRow)
      /\ Len(Append(rows, row)) = Len(rows) + 1
      /\ \A i \in 1 .. Len(rows) : Append(rows, row)[i] = rows[i]
      /\ Append(rows, row)[Len(rows) + 1] = row
  BY AppendProperties
<1>3. u \in Trace /\ u.op = t.op /\ u.at = t.at /\ u.base = t.base
      /\ u.rows = Append(rows, row)
  BY <1>1, <1>2 DEF Trace
<1>4. QED
  BY <1>1, <1>2, <1>3

(* The first cycle *)
LEMMA BeginTrace ==
  ASSUME TypeOK, TypeOK', NEW op \in SheetOp, NEW at \in Word, Follow(op, at),
         bus'.addr = Plus(at, 2), bus'.flags \ {"USER"} = {"OPC"}
  PROVE  \E t \in Trace :
           /\ t.op = op /\ t.at = at /\ t.base = Val(op.rn)
           /\ OnTable(t, 1) /\ Goes(t)
<1>1. Val(op.rn) \in Word
  BY ValType DEF SheetOp
<1>2. PICK s : s = [Idle EXCEPT !.op = op, !.at = at, !.base = Val(op.rn)]
  OBVIOUS
<1>3. /\ s \in Trace /\ s.op = op /\ s.at = at /\ s.base = Val(op.rn)
      /\ s.rows = <<>>
  BY <1>1, <1>2, IdleType DEF Trace, Idle
<1>4. PICK row : row = Driven
  OBVIOUS
<1>5. row \in CycleRow /\ row.addr = Plus(at, 2) /\ row.flags = {"OPC"}
  BY <1>4, DrivenType, RowIs DEF Driven
<1>6. PICK m \in Nat, n \in Nat : m = 0 /\ n = 1 /\ n = m + 1 /\ Len(s.rows) = m
  BY <1>3
<1>a. PICK t : t = [s EXCEPT !.rows = Append(s.rows, row)]
  OBVIOUS
<1>b. s \in Trace
  BY <1>3
<1>c. n = m + 1 /\ Len(s.rows) = m /\ m \in Nat
  BY <1>6
<1>d. /\ t \in Trace /\ t.op = s.op /\ t.at = s.at /\ t.base = s.base
      /\ Len(t.rows) = n /\ t.rows[n] = row
  BY <1>5, <1>a, <1>b, <1>c, AppendTrace
<1>7. /\ t \in Trace /\ t.op = s.op /\ t.at = s.at /\ t.base = s.base
      /\ Len(t.rows) = 1 /\ t.rows[1] = row
  BY <1>6, <1>d
<1>8. OnTable(t, 1)
  BY <1>3, <1>5, <1>7 DEF OnTable, Follows
<1>9. Traced(s)
  BY <1>2 DEF Follow
<1>10. t.rows = Append(s.rows, Driven) /\ t = [s EXCEPT !.rows = Append(s.rows, Driven)]
  BY <1>b, <1>4, <1>a DEF Trace
<1>11. Goes(t)
  BY <1>7, <1>9, <1>10 DEF Traced, Goes, Conforms, Aborting, Driven
<1>12. QED
  BY <1>3, <1>7, <1>8, <1>11

(* One row more *)
LEMMA FollowOn ==
  ASSUME TypeOK', NEW m \in Nat \ {0}, OnTable(trace, m), Traced(trace),
         NEW n, n = m + 1
  PROVE  \E t \in Trace :
           /\ t.op = trace.op /\ t.at = trace.at /\ t.base = trace.base
           /\ Len(t.rows) = n /\ Follows(t, m) /\ t.rows[n] = Driven
           /\ Goes(t)
<1>1. PICK t : t = [trace EXCEPT !.rows = Append(trace.rows, Driven)]
  OBVIOUS
<1>2. trace \in Trace /\ Len(trace.rows) = m
  BY DEF OnTable, Follows
<1>3. /\ t \in Trace /\ t.op = trace.op /\ t.at = trace.at /\ t.base = trace.base
      /\ Len(t.rows) = n /\ t.rows[n] = Driven
      /\ \A i \in 1 .. m : t.rows[i] = trace.rows[i]
  BY <1>1, <1>2, DrivenType, AppendTrace
<1>4. Table(t) = Table(trace)
  BY <1>3 DEF Table
<1>5. Follows(t, m)
  BY <1>3, <1>4 DEF OnTable, Follows
<1>6. t.rows = Append(trace.rows, Driven)
  BY <1>1, <1>2 DEF Trace
<1>7. Goes(t)
  BY <1>1, <1>3, <1>6 DEF Traced, Goes, Conforms, Aborting, Driven
<1>8. QED
  BY <1>3, <1>5, <1>7

LEMMA GoOnTrace ==
  ASSUME TypeOK', NEW m \in Nat \ {0}, OnTable(trace, m), Traced(trace),
         NEW n, n = m + 1, Driven = Table(trace)[n]
  PROVE  \E t \in Trace :
           /\ t.op = trace.op /\ t.at = trace.at /\ t.base = trace.base
           /\ OnTable(t, n) /\ Goes(t)
<1>1. PICK t \in Trace :
        /\ t.op = trace.op /\ t.at = trace.at /\ t.base = trace.base
        /\ Len(t.rows) = n /\ Follows(t, m) /\ t.rows[n] = Driven
        /\ Goes(t)
  BY FollowOn
<1>2. Table(t) = Table(trace)
  BY <1>1 DEF Table
<1>3. \A i \in 2 .. n : t.rows[i] = Table(t)[i]
  BY <1>1, <1>2 DEF Follows
<1>4. OnTable(t, n)
  BY <1>1, <1>3 DEF OnTable, Follows
<1>5. QED
  BY <1>1, <1>4

(* The last row: of the table *)
LEMMA EndTrace ==
  ASSUME NEW t \in Trace, NEW n \in Nat \ {0}, OnTable(t, n), n = Len(Table(t)),
         Goes(t), seq' = "IDLE", ~Refills(t.op) \/ Aborting,
         next_type' = IF Stores(t.op) THEN "N" ELSE "S",
         t.op.cls = "MUL" => t.op.n \in Nat
  PROVE  trace' = Idle
<1>1. /\ Rows(t.op, t.at, t.base)[1] = Fetch(t.at)
      /\ Fetch(t.at).addr = Plus(t.at, 2) /\ Fetch(t.at).flags = {"OPC"}
  BY FirstRow, FixedRows DEF Trace
<1>2. Conforms(t, t.rows, Aborting, next_type')
  BY <1>1 DEF Conforms, OnTable, Follows, Table
<1>3. [Idle EXCEPT !.ok = TRUE] = Idle
  BY IdleAgain
<1>4. QED
  BY <1>2, <1>3 DEF Goes

(* ... and of the refill *)
LEMMA EndRefilled ==
  ASSUME NEW t \in Trace, NEW n \in Nat \ {0}, Follows(t, n), n = Len(Table(t)),
         Len(t.rows) = n + 2, Goes(t), seq' = "IDLE", Refills(t.op), ~Aborting,
         next_type' = "S", ~Stores(t.op),
         NEW target \in FixedTarget(t.op, t.at),
         t.rows[n + 1] = Row("N", target, {"OPC"}),
         t.rows[n + 2] = Row("S", Inc(target), {"OPC"}),
         t.op.cls = "MUL" => t.op.n \in Nat
  PROVE  trace' = Idle
<1>1. /\ Rows(t.op, t.at, t.base)[1] = Fetch(t.at)
      /\ Fetch(t.at).addr = Plus(t.at, 2) /\ Fetch(t.at).flags = {"OPC"}
  BY FirstRow, FixedRows DEF Trace
<1>2. Conforms(t, t.rows, Aborting, next_type')
  BY <1>1 DEF Conforms, Follows, Table
<1>3. [Idle EXCEPT !.ok = TRUE] = Idle
  BY IdleAgain
<1>4. QED
  BY <1>2, <1>3 DEF Goes

-----------------------------------------------------------------------------
(* The invariant: how many rows each sequence has driven, and where its      *)
(* latches lead the ones to come.                                            *)

Running(m) ==
  /\ x.op \in Insns /\ trace.op = x.op /\ trace.at = x.at /\ ~dabort_pending
  /\ OnTable(trace, m)

ShiftInv ==
  seq = "DP" => x.op.cls = "DP" /\ "R" \in x.op.bits /\ Running(1) /\ next_type = "I"

MultiplyInv ==
  seq = "MUL" => x.op.cls = "MUL" /\ k \in 1 .. x.op.n /\ Running(k) /\ next_type = "I"

SwapInv ==
  seq = "SWP" => /\ x.op.cls = "SWP" /\ k \in 1 .. 3 /\ Running(k)
                 /\ x.addr = trace.base
                 /\ next_type = IF k = 3 THEN "I" ELSE "N"

SingleInv ==
  seq = "SDT" =>
    /\ x.op.cls = "SDT"
    /\ \/ k = 1 /\ Running(1) /\ next_type = "N"
          /\ x.addr = Single(x.op, trace.base)
       \/ k = 2 /\ Running(2) /\ next_type = "I" /\ "L" \in x.op.bits

Moving(m) ==
  /\ Running(m)
  /\ m + Cardinality(x.rest) = 1 + Cardinality(List(x.op))
  /\ x.addr = Plus(Lowest(x.op, trace.base), m - 1)
  /\ next_type = IF x.rest = {} THEN "I" ELSE IF m = 1 THEN "N" ELSE "S"

BlockInv ==
  seq = "BDT" => /\ x.op.cls = "BDT" /\ x.rest \subseteq List(x.op)
                 /\ "L" \notin x.op.bits => x.rest # {}
                 /\ \E m \in Nat \ {0} : Moving(m)

UndefinedInv ==
  seq = "UNDEF" => /\ x.op.cls = "UNDEF" /\ Running(1) /\ next_type = "I"
                   /\ x.addr = Plus(x.at, 2)

Refilling(t) ==
  /\ t.op.cls # "MUL" /\ Refills(t.op) /\ ~Stores(t.op)
  /\ x.target \in FixedTarget(t.op, t.at)

RefillInv ==
  seq = "REFILL" =>
    /\ Refilling(trace)
    /\ \E n \in Nat \ {0} :
         /\ n = Len(Table(trace)) /\ Follows(trace, n)
         /\ \/ k = 0 /\ Len(trace.rows) = n /\ next_type = "N"
            \/ /\ k = 1 /\ Len(trace.rows) = n + 1 /\ next_type = "S"
               /\ trace.rows[n + 1] = Row("N", x.target, {"OPC"})

RestInv == seq = "IDLE" => trace = Idle

SequenceInv ==
  /\ ShiftInv /\ MultiplyInv /\ SwapInv /\ SingleInv /\ BlockInv /\ UndefinedInv
  /\ RefillInv /\ RestInv

SheetInv == PipelineInv /\ trace.ok /\ SequenceInv

LEMMA RestHolds ==
  ASSUME seq' = "IDLE", trace' = Idle
  PROVE  SequenceInv' /\ trace'.ok
<1>1. Idle.ok
  BY DEF Idle
<1>2. QED
  BY <1>1 DEF SequenceInv, ShiftInv, MultiplyInv, SwapInv, SingleInv, BlockInv,
              UndefinedInv, RefillInv, RestInv

LEMMA TraceOk ==
  ASSUME NEW t \in Trace PROVE t.ok
  BY DEF Trace

(* Where the program counter points *)
LEMMA BoundaryPc ==
  ASSUME PipelineInv, AtBoundary, ~in_reset, ~reset_exit
  PROVE  pc = Plus(ex.addr, 2) /\ ex.addr \in Word
<1>1. ex.addr \in Word
  BY DEF PipelineInv, TypeOK, Slot
<1>2. pc = Inc(Inc(ex.addr))
  BY DEF PipelineInv, PipelineCoherent, BoundaryCoherent
<1>3. Plus(Plus(ex.addr, 1), 1) = Plus(ex.addr, 1 + 1)
  BY <1>1, PlusPlus
<1>4. QED
  BY <1>1, <1>2, <1>3 DEF Inc

LEMMA MiddlePc ==
  ASSUME PipelineInv, seq \in Middle
  PROVE  pc = Plus(x.at, 3) /\ x.at \in Word
<1>1. x.at \in Word
  BY DEF PipelineInv, TypeOK, InFlight
<1>2. pc = Inc(Inc(Inc(x.at)))
  BY DEF PipelineInv, PipelineCoherent, OperandCoherent, Middle
<1>3. Plus(Plus(x.at, 1), 1) = Plus(x.at, 1 + 1)
  BY <1>1, PlusPlus
<1>4. Plus(Plus(x.at, 2), 1) = Plus(x.at, 2 + 1)
  BY <1>1, PlusPlus
<1>5. QED
  BY <1>1, <1>2, <1>3, <1>4 DEF Inc

LEMMA Decoding ==
  ASSUME PipelineInv, AtBoundary, Requests = {}
  PROVE  ~in_reset /\ ~reset_exit /\ ~dabort_pending
         /\ pc = Plus(ex.addr, 2) /\ ex.addr \in Word
<1>1. ~in_reset /\ ~reset_exit /\ ~dabort_pending
  BY DEF Requests, Rank
<1>2. QED
  BY <1>1, BoundaryPc

(* What a cycle puts on the trace *)
LEMMA Flags ==
  /\ Fetching \ {"USER"} = {"OPC"} /\ UserFlag \ {"USER"} = {}
  /\ TransferFlags \ {"USER"} = {}
  /\ ({"LOCK"} \cup UserFlag) \ {"USER"} = {"LOCK"}
  /\ ({"LOCK", "WRITE"} \cup UserFlag) \ {"USER"} = {"LOCK", "WRITE"}
  /\ ({"WRITE"} \cup UserFlag) \ {"USER"} = {"WRITE"}
  /\ ({"WRITE"} \cup TransferFlags) \ {"USER"} = {"WRITE"}
  BY DEF Fetching, UserFlag, TransferFlags

LEMMA FetchCycle ==
  ASSUME NEW next, Cycle1Fetch(next) \/ LaterCycle(pc, Fetching, next)
  PROVE  bus'.addr = pc /\ bus'.flags \ {"USER"} = {"OPC"} /\ next_type' = next
<1>1. \E flags : Cycle(pc, Fetching, next)
  BY DEF Cycle1Fetch, LaterCycle
<1>2. bus'.addr = pc /\ bus'.flags = Fetching /\ next_type' = next
  BY <1>1 DEF Cycle
<1>3. QED
  BY <1>2, Flags

LEMMA CycleRowOf ==
  ASSUME NEW addr, NEW flags, NEW next, LaterCycle(addr, flags, next),
         NEW kept, flags \ {"USER"} = kept
  PROVE  Driven = Row(next_type, addr, kept) /\ next_type' = next
  BY DEF LaterCycle, Cycle, Driven

LEMMA InternalCycle ==
  ASSUME PipelineInv, seq \in Middle, NEW next, LaterCycle(pc, UserFlag, next),
         next_type = "I"
  PROVE  Driven = Internal(x.at) /\ next_type' = next
  BY Flags, CycleRowOf, MiddlePc DEF Internal

-----------------------------------------------------------------------------
(* First cycles *)

LEMMA Begun ==
  ASSUME PipelineInv, PipelineInv', NEW op \in Insns, Decodes(op), NEW next,
         Cycle1Fetch(next) \/ LaterCycle(pc, Fetching, next),
         Follow(op, ex.addr)
  PROVE  /\ next_type' = next /\ ~dabort_pending /\ pc = Plus(ex.addr, 2)
         /\ \E t \in Trace :
              /\ t.op = op /\ t.at = ex.addr /\ t.base = Val(op.rn)
              /\ OnTable(t, 1) /\ Goes(t)
<1>1. ~dabort_pending /\ pc = Plus(ex.addr, 2) /\ ex.addr \in Word
  BY Decoding DEF Decodes
<1>2. bus'.addr = pc /\ bus'.flags \ {"USER"} = {"OPC"} /\ next_type' = next
  BY FetchCycle
<1>3. op \in SheetOp
  BY InsnOp
<1>4. \E t \in Trace :
        /\ t.op = op /\ t.at = ex.addr /\ t.base = Val(op.rn)
        /\ OnTable(t, 1) /\ Goes(t)
  BY <1>1, <1>2, <1>3, BeginTrace DEF PipelineInv
<1>5. QED
  BY <1>1, <1>2, <1>4

(* A table that is done at the boundary *)
LEMMA TableEnds ==
  ASSUME NEW t \in Trace, NEW n \in Nat \ {0}, OnTable(t, n), n = Len(Table(t)),
         Goes(t), Finish, ~Refills(t.op) \/ Aborting,
         next_type' = IF Stores(t.op) THEN "N" ELSE "S",
         t.op.cls = "MUL" => t.op.n \in Nat
  PROVE  SequenceInv' /\ trace'.ok
<1>1. seq' = "IDLE"
  BY DEF Finish
<1>2. trace' = Idle
  BY <1>1, EndTrace
<1>3. QED
  BY <1>1, <1>2, RestHolds

LEMMA RefillStarts ==
  ASSUME NEW t \in Trace, NEW n \in Nat \ {0}, OnTable(t, n), n = Len(Table(t)),
         Goes(t), NEW target \in FixedTarget(t.op, t.at), StartRefill(target),
         Refills(t.op), ~Stores(t.op), t.op.cls # "MUL", next_type' = "N",
         x.at \in Word
  PROVE  SequenceInv' /\ trace'.ok
<1>1. seq' = "REFILL" /\ k' = 0
  BY DEF StartRefill, Continue
<1>2. x'.target = target
  BY DEF StartRefill, Retired, Clear
<1>3. trace' = t
  BY <1>1 DEF Goes
<1>4. Refilling(trace)'
  BY <1>2, <1>3 DEF Refilling
<1>5. Follows(t, n) /\ Len(t.rows) = n
  BY DEF OnTable
<1>6. Follows(trace', n) /\ Len(trace'.rows) = n /\ n = Len(Table(trace'))
  BY <1>3, <1>5
<1>7. RefillInv'
  BY <1>1, <1>4, <1>6 DEF RefillInv, Follows, Table
<1>8. SequenceInv'
  BY <1>1, <1>7 DEF SequenceInv, ShiftInv, MultiplyInv, SwapInv, SingleInv,
                    BlockInv, UndefinedInv, RestInv
<1>9. QED
  BY <1>3, <1>8, TraceOk

LEMMA PlainEnds ==
  ASSUME NEW t \in Trace, OnTable(t, 1), Goes(t), Plain(t.op), Finish,
         ~Refills(t.op), next_type' = "S"
  PROVE  SequenceInv' /\ trace'.ok
<1>1. Len(Table(t)) = 1
  BY PlainRows DEF Table, Trace
<1>2. ~Stores(t.op) /\ t.op.cls # "MUL"
  BY DEF Plain, Stores
<1>3. PICK n \in Nat \ {0} : n = 1
  OBVIOUS
<1>4. OnTable(t, n) /\ n = Len(Table(t))
  BY <1>1, <1>3
<1>5. QED
  BY <1>2, <1>4, TableEnds

LEMMA PlainRefills ==
  ASSUME NEW t \in Trace, OnTable(t, 1), Goes(t), Plain(t.op),
         NEW target \in FixedTarget(t.op, t.at), StartRefill(target),
         Refills(t.op), next_type' = "N", x.at \in Word
  PROVE  SequenceInv' /\ trace'.ok
<1>1. Len(Table(t)) = 1
  BY PlainRows DEF Table, Trace
<1>2. ~Stores(t.op) /\ t.op.cls # "MUL"
  BY DEF Plain, Stores
<1>3. PICK n \in Nat \ {0} : n = 1
  OBVIOUS
<1>4. OnTable(t, n) /\ n = Len(Table(t))
  BY <1>1, <1>3
<1>5. QED
  BY <1>2, <1>4, RefillStarts

(* Table 22 *)
LEMMA SheetException ==
  ASSUME SheetInv, PipelineInv', NEW e \in {"reset", "dabt", "fiq", "irq", "pabt"},
         NEW at, Exception(e), at = IF e = "reset" THEN Plus(pc, -2) ELSE ex.addr,
         Follow(Special("ENTRY", Entry[e].vector), at)
  PROVE  SequenceInv' /\ trace'.ok
<1> DEFINE op == Special("ENTRY", Entry[e].vector)
<1>1. pc = Plus(at, 2) /\ at \in Word
  <2>1. CASE e = "reset"
    <3>1. pc \in Word
      BY DEF SheetInv, PipelineInv, TypeOK
    <3>2. Plus(Plus(pc, -2), 2) = Plus(pc, -2 + 2) /\ Plus(pc, -2) \in Word
      BY <3>1, PlusPlus, PlusType
    <3>3. Plus(pc, 0) = pc
      BY <3>1, PlusZero
    <3>4. QED
      BY <2>1, <3>2, <3>3
  <2>2. CASE e # "reset"
    <3>1. ~in_reset /\ ~reset_exit /\ AtBoundary
      BY <2>2 DEF Exception, Picks, Requests, Rank
    <3>2. QED
      BY <2>2, <3>1, BoundaryPc DEF SheetInv
  <2>3. QED
    BY <2>1, <2>2
<1>2. Entry[e].vector \in Word /\ Entry[e].vector \in Int
  BY VectorType, WordInt DEF Entries
<1>3. /\ op \in SheetOp /\ op.cls = "ENTRY" /\ op.n = Entry[e].vector
  BY <1>2, SpecialOp
<1> HIDE DEF op
<1>4. Enter(e) /\ LaterCycle(pc, Fetching, "N") /\ StartRefill(Entry[e].vector)
  BY DEF Exception, Enter
<1>5. bus'.addr = pc /\ bus'.flags \ {"USER"} = {"OPC"} /\ next_type' = "N"
  BY <1>4, FetchCycle
<1>6. PICK t \in Trace :
        t.op = op /\ t.at = at /\ OnTable(t, 1) /\ Goes(t)
  BY <1>1, <1>3, <1>5, BeginTrace DEF PipelineInv, SheetInv, op
<1>7. Plain(t.op) /\ Refills(t.op) /\ Entry[e].vector \in FixedTarget(t.op, t.at)
  BY <1>3, <1>6 DEF Plain, Refills, FixedTarget
<1>8. x.at \in Word
  BY DEF SheetInv, PipelineInv, TypeOK, InFlight
<1>9. QED
  BY <1>4, <1>5, <1>6, <1>7, <1>8, PlainRefills

LEMMA SheetSkip ==
  ASSUME SheetInv, PipelineInv', Skip, Follow(Special("SKIP", 0), ex.addr)
  PROVE  SequenceInv' /\ trace'.ok
<1> DEFINE op == Special("SKIP", 0)
<1>1. pc = Plus(ex.addr, 2) /\ ex.addr \in Word
  BY Decoding DEF Skip, SheetInv
<1>2. op \in SheetOp /\ op.cls = "SKIP"
  BY SpecialOp
<1> HIDE DEF op
<1>3. bus'.addr = pc /\ bus'.flags \ {"USER"} = {"OPC"} /\ next_type' = "S"
  BY FetchCycle DEF Skip
<1>4. PICK t \in Trace :
        t.op = op /\ t.at = ex.addr /\ OnTable(t, 1) /\ Goes(t)
  BY <1>1, <1>2, <1>3, BeginTrace DEF PipelineInv, SheetInv, op
<1>5. Plain(t.op) /\ ~Refills(t.op)
  BY <1>2, <1>4 DEF Plain, Refills
<1>6. QED
  BY <1>3, <1>4, <1>5, PlainEnds DEF Skip

(* The end of a data processing instruction, Tables 14 and 15 *)
LEMMA DpEnds ==
  ASSUME PipelineInv, NEW t \in Trace, NEW n \in Nat \ {0}, OnTable(t, n),
         n = Len(Table(t)), Goes(t), t.op.cls = "DP", DpFinish(t.op),
         next_type' = IF WritesPC(t.op) THEN "N" ELSE "S"
  PROVE  SequenceInv' /\ trace'.ok
<1>1. ~Stores(t.op) /\ (Refills(t.op) <=> WritesPC(t.op))
  BY DEF Stores, Refills
<1>2. CASE WritesPC(t.op)
  <2>1. PICK target : target = Plus(Val(t.op.rn), t.op.n) /\ StartRefill(target)
    BY <1>2 DEF DpFinish
  <2>2. t.op.rn \in Reg /\ t.op.n \in Int
    BY DEF Trace, SheetOp
  <2>3. Val(t.op.rn) \in Word
    BY <2>2, ValType DEF PipelineInv
  <2>4. target \in Word
    BY <2>1, <2>2, <2>3, PlusType
  <2>5. target \in FixedTarget(t.op, t.at)
    BY <2>4 DEF FixedTarget
  <2>6. x.at \in Word
    BY DEF PipelineInv, TypeOK, InFlight
  <2>7. QED
    BY <1>1, <1>2, <2>1, <2>5, <2>6, RefillStarts
<1>3. CASE ~WritesPC(t.op)
  <2>1. Finish
    BY <1>3 DEF DpFinish
  <2>2. QED
    BY <1>1, <1>3, <2>1, TableEnds
<1>4. QED
  BY <1>2, <1>3

LEMMA SheetDataProc ==
  ASSUME SheetInv, PipelineInv', NEW op \in Insns, DataProc(op), Follow(op, ex.addr)
  PROVE  SequenceInv' /\ trace'.ok
<1>1. PICK next : next = (IF WritesPC(op) THEN "N" ELSE "S") /\ Cycle1Fetch(next)
  BY DEF DataProc
<1>2. Decodes(op) /\ op.cls = "DP" /\ "R" \notin op.bits /\ DpFinish(op)
  BY DEF DataProc
<1>3. next_type' = next
  BY <1>1, FetchCycle
<1>4. PICK t \in Trace : t.op = op /\ OnTable(t, 1) /\ Goes(t)
  BY <1>1, <1>2, Begun DEF SheetInv
<1>5. Len(Table(t)) = 1
  BY <1>2, <1>4, PlainRows DEF Table, Trace, Plain
<1>6. PICK n \in Nat \ {0} : n = 1
  OBVIOUS
<1>7. OnTable(t, n) /\ n = Len(Table(t))
  BY <1>4, <1>5, <1>6
<1>8. QED
  BY <1>1, <1>2, <1>3, <1>4, <1>7, DpEnds DEF SheetInv

LEMMA SheetMrs ==
  ASSUME SheetInv, PipelineInv', NEW op \in Insns, Mrs(op), Follow(op, ex.addr)
  PROVE  SequenceInv' /\ trace'.ok
<1>1. PICK next : next = (IF op.rd = "pc" THEN "N" ELSE "S") /\ Cycle1Fetch(next)
  BY DEF Mrs
<1>2. Decodes(op) /\ op.cls = "PSR" /\ "M" \notin op.bits
  BY DEF Mrs
<1>3. next_type' = next
  BY <1>1, FetchCycle
<1>4. PICK t \in Trace : t.op = op /\ OnTable(t, 1) /\ Goes(t)
  BY <1>1, <1>2, Begun DEF SheetInv
<1>5. Plain(t.op) /\ (Refills(t.op) <=> op.rd = "pc")
  BY <1>2, <1>4 DEF Plain, Refills
<1>6. CASE op.rd = "pc"
  <2>1. PICK target \in Data : StartRefill(target)
    BY <1>6 DEF Mrs
  <2>2. target \in FixedTarget(t.op, t.at)
    BY <1>2, <1>4, DataAssumption DEF FixedTarget
  <2>3. x.at \in Word
    BY DEF SheetInv, PipelineInv, TypeOK, InFlight
  <2>4. QED
    BY <1>1, <1>3, <1>4, <1>5, <1>6, <2>1, <2>2, <2>3, PlainRefills
<1>7. CASE op.rd # "pc"
  <2>1. Finish
    BY <1>7 DEF Mrs
  <2>2. QED
    BY <1>1, <1>3, <1>4, <1>5, <1>7, <2>1, PlainEnds
<1>8. QED
  BY <1>6, <1>7

LEMMA SheetMsr ==
  ASSUME SheetInv, PipelineInv', NEW op \in Insns, Msr(op), Follow(op, ex.addr)
  PROVE  SequenceInv' /\ trace'.ok
<1>1. Cycle1Fetch("S") /\ Decodes(op) /\ op.cls = "PSR" /\ "M" \in op.bits /\ Finish
  BY DEF Msr
<1>2. next_type' = "S"
  BY <1>1, FetchCycle
<1>3. PICK t \in Trace : t.op = op /\ OnTable(t, 1) /\ Goes(t)
  BY <1>1, Begun DEF SheetInv
<1>4. Plain(t.op) /\ ~Refills(t.op)
  BY <1>1, <1>3 DEF Plain, Refills
<1>5. QED
  BY <1>1, <1>2, <1>3, <1>4, PlainEnds

LEMMA SheetBranch ==
  ASSUME SheetInv, PipelineInv', NEW op \in Insns, Branch(op), Follow(op, ex.addr)
  PROVE  SequenceInv' /\ trace'.ok
<1>1. Cycle1Fetch("N") /\ Decodes(op) /\ op.cls = "BRANCH"
  BY DEF Branch
<1>2. next_type' = "N" /\ pc = Plus(ex.addr, 2)
  BY <1>1, Begun DEF SheetInv
<1>3. PICK t \in Trace :
        t.op = op /\ t.at = ex.addr /\ OnTable(t, 1) /\ Goes(t)
  BY <1>1, Begun DEF SheetInv
<1>4. PICK target : target = Plus(pc, op.n) /\ StartRefill(target)
  BY DEF Branch
<1>5. Plain(t.op) /\ Refills(t.op) /\ target \in FixedTarget(t.op, t.at)
  BY <1>1, <1>2, <1>3, <1>4 DEF Plain, Refills, FixedTarget
<1>6. x.at \in Word
  BY DEF SheetInv, PipelineInv, TypeOK, InFlight
<1>7. QED
  BY <1>2, <1>3, <1>4, <1>5, <1>6, PlainRefills

LEMMA SheetSwi ==
  ASSUME SheetInv, PipelineInv', NEW op \in Insns, Swi(op), Follow(op, ex.addr)
  PROVE  SequenceInv' /\ trace'.ok
<1>1. LaterCycle(pc, Fetching, "N") /\ Decodes(op) /\ op.cls = "SWI"
      /\ StartRefill(Entry["swi"].vector)
  BY DEF Swi, Enter
<1>2. next_type' = "N" /\ pc = Plus(ex.addr, 2)
  BY <1>1, Begun DEF SheetInv
<1>3. PICK t \in Trace :
        t.op = op /\ t.at = ex.addr /\ OnTable(t, 1) /\ Goes(t)
  BY <1>1, Begun DEF SheetInv
<1>4. Entry["swi"].vector = 2
  BY DEF Entry
<1>5. Plain(t.op) /\ Refills(t.op) /\ 2 \in FixedTarget(t.op, t.at)
  BY <1>1, <1>3 DEF Plain, Refills, FixedTarget
<1>6. x.at \in Word
  BY DEF SheetInv, PipelineInv, TypeOK, InFlight
<1>7. QED
  BY <1>1, <1>2, <1>3, <1>4, <1>5, <1>6, PlainRefills

(* Sequences of more cycles *)
LEMMA RunningBegins ==
  ASSUME SheetInv, PipelineInv', NEW op \in Insns, Decodes(op), NEW next,
         Cycle1Fetch(next) \/ LaterCycle(pc, Fetching, next), Follow(op, ex.addr),
         x'.op = op, x'.at = ex.addr, dabort_pending' = dabort_pending,
         seq' # "IDLE"
  PROVE  Running(1)' /\ trace'.ok /\ trace'.base = Val(op.rn) /\ next_type' = next
<1>1. PICK t \in Trace :
        /\ t.op = op /\ t.at = ex.addr /\ t.base = Val(op.rn)
        /\ OnTable(t, 1) /\ Goes(t)
  BY Begun DEF SheetInv
<1>2. ~dabort_pending /\ next_type' = next
  BY Begun DEF SheetInv
<1>3. trace' = t
  BY <1>1 DEF Goes
<1>4. OnTable(trace', 1)
  BY <1>1, <1>3
<1>5. QED
  BY <1>1, <1>2, <1>3, <1>4, TraceOk DEF Running, OnTable, Follows, Table

LEMMA SheetDataProcShift ==
  ASSUME SheetInv, PipelineInv', NEW op \in Insns, DataProcShift(op),
         Follow(op, ex.addr)
  PROVE  SequenceInv' /\ trace'.ok
<1>1. /\ Decodes(op) /\ op.cls = "DP" /\ "R" \in op.bits /\ Cycle1Fetch("I")
      /\ seq' = "DP" /\ dabort_pending' = dabort_pending
      /\ x'.op = op /\ x'.at = ex.addr
  BY DEF DataProcShift, Continue, Decoded, Retired, Clear, requests
<1>2. Running(1)' /\ trace'.ok /\ next_type' = "I"
  BY <1>1, RunningBegins
<1>3. ShiftInv'
  BY <1>1, <1>2 DEF ShiftInv
<1>4. QED
  BY <1>1, <1>2, <1>3 DEF SequenceInv, MultiplyInv, SwapInv, SingleInv, BlockInv,
                          UndefinedInv, RefillInv, RestInv

LEMMA SheetMultiply ==
  ASSUME SheetInv, PipelineInv', NEW op \in Insns, Multiply(op),
         Follow(op, ex.addr)
  PROVE  SequenceInv' /\ trace'.ok
<1>1. /\ Decodes(op) /\ op.cls = "MUL" /\ Cycle1Fetch("I")
      /\ seq' = "MUL" /\ k' = 1 /\ dabort_pending' = dabort_pending
      /\ x'.op = op /\ x'.at = ex.addr
  BY DEF Multiply, Continue, Decoded, Retired, Clear, requests
<1>2. Running(1)' /\ trace'.ok /\ next_type' = "I"
  BY <1>1, RunningBegins
<1>3. op.n \in 1 .. 16
  BY <1>1, InsnAssumption
<1>4. MultiplyInv'
  BY <1>1, <1>2, <1>3 DEF MultiplyInv
<1>5. QED
  BY <1>1, <1>2, <1>4 DEF SequenceInv, ShiftInv, SwapInv, SingleInv, BlockInv,
                          UndefinedInv, RefillInv, RestInv

LEMMA SheetSwap ==
  ASSUME SheetInv, PipelineInv', NEW op \in Insns, Swap(op), Follow(op, ex.addr)
  PROVE  SequenceInv' /\ trace'.ok
<1>1. /\ Decodes(op) /\ op.cls = "SWP" /\ Cycle1Fetch("N")
      /\ seq' = "SWP" /\ k' = 1 /\ dabort_pending' = dabort_pending
      /\ x'.op = op /\ x'.at = ex.addr /\ x'.addr = Val(op.rn)
  BY DEF Swap, Continue, Decoded, Retired, Clear, requests
<1>2. Running(1)' /\ trace'.ok /\ next_type' = "N" /\ trace'.base = Val(op.rn)
  BY <1>1, RunningBegins
<1>3. SwapInv'
  BY <1>1, <1>2 DEF SwapInv
<1>4. QED
  BY <1>1, <1>2, <1>3 DEF SequenceInv, ShiftInv, MultiplyInv, SingleInv, BlockInv,
                          UndefinedInv, RefillInv, RestInv

LEMMA SheetTransfer ==
  ASSUME SheetInv, PipelineInv', NEW op \in Insns, Transfer(op),
         Follow(op, ex.addr)
  PROVE  SequenceInv' /\ trace'.ok
<1>1. /\ Decodes(op) /\ op.cls = "SDT" /\ Cycle1Fetch("N")
      /\ seq' = "SDT" /\ k' = 1 /\ dabort_pending' = dabort_pending
      /\ x'.op = op /\ x'.at = ex.addr
      /\ x'.addr = IF "P" \in op.bits
                   THEN Plus(Val(op.rn), IF "U" \in op.bits THEN op.n ELSE -op.n)
                   ELSE Val(op.rn)
  BY DEF Transfer, Continue, Decoded, Retired, Clear, requests
<1>2. Running(1)' /\ trace'.ok /\ next_type' = "N" /\ trace'.base = Val(op.rn)
  BY <1>1, RunningBegins
<1>3. x'.addr = Single(x'.op, trace'.base)
  BY <1>1, <1>2 DEF Single
<1>4. SingleInv'
  BY <1>1, <1>2, <1>3 DEF SingleInv
<1>5. QED
  BY <1>1, <1>2, <1>4 DEF SequenceInv, ShiftInv, MultiplyInv, SwapInv, BlockInv,
                          UndefinedInv, RefillInv, RestInv

LEMMA SheetUndefined ==
  ASSUME SheetInv, PipelineInv', NEW op \in Insns, Undefined(op),
         Follow(op, ex.addr)
  PROVE  SequenceInv' /\ trace'.ok
<1>1. /\ Decodes(op) /\ op.cls = "UNDEF" /\ LaterCycle(pc, Fetching, "I")
      /\ seq' = "UNDEF" /\ dabort_pending' = dabort_pending
      /\ x'.op = op /\ x'.at = ex.addr /\ x'.addr = pc
  BY DEF Undefined, Continue, Decoded, Retired, Clear, requests
<1>2. Running(1)' /\ trace'.ok /\ next_type' = "I"
  BY <1>1, RunningBegins
<1>3. pc = Plus(ex.addr, 2)
  BY <1>1, Begun DEF SheetInv
<1>4. UndefinedInv'
  BY <1>1, <1>2, <1>3 DEF UndefinedInv
<1>5. QED
  BY <1>1, <1>2, <1>4 DEF SequenceInv, ShiftInv, MultiplyInv, SwapInv, SingleInv,
                          BlockInv, RefillInv, RestInv

(* A block begins at its lowest address *)
LEMMA BlockStart ==
  ASSUME NEW op \in Insns, NEW base \in Word, NEW low, NEW first,
         low = IF "U" \in op.bits THEN base ELSE Plus(base, -Words(op)),
         first = IF ("U" \in op.bits) = ("P" \in op.bits) THEN Inc(low) ELSE low
  PROVE  first = Lowest(op, base)
<1>1. PICK n \in Int : n = Words(op)
  BY SheetList, InsnOp
<1>2. Plus(base, 0) = base
  BY PlusZero
<1>3. Plus(Plus(base, -n), 1) = Plus(base, -n + 1) /\ -n + 1 = 1 - n
  BY PlusPlus
<1>4. Plus(Plus(base, 1 - n), -1) = Plus(base, (1 - n) + -1)
  BY PlusPlus
<1>5. (1 - n) + -1 = -n
  OBVIOUS
<1>6. Inc(Plus(base, -n)) = Plus(base, 1 - n) /\ Dec(Plus(base, 1 - n)) = Plus(base, -n)
  BY <1>3, <1>4, <1>5 DEF Inc, Dec
<1>7. CASE "U" \in op.bits
  BY <1>2, <1>7 DEF Lowest
<1>8. CASE "U" \notin op.bits
  BY <1>1, <1>6, <1>8 DEF Lowest
<1>9. QED
  BY <1>7, <1>8

LEMMA SheetBlockTransfer ==
  ASSUME SheetInv, PipelineInv', NEW op \in Insns, BlockTransfer(op),
         Follow(op, ex.addr)
  PROVE  SequenceInv' /\ trace'.ok
<1>1. /\ Decodes(op) /\ op.cls = "BDT" /\ Cycle1Fetch("N")
      /\ seq' = "BDT" /\ dabort_pending' = dabort_pending
      /\ x'.op = op /\ x'.at = ex.addr /\ x'.rest = List(op)
  BY DEF BlockTransfer, Continue, Decoded, Retired, Clear, requests
<1>2. PICK low :
        /\ low = (IF "U" \in op.bits THEN Val(op.rn)
                                     ELSE Plus(Val(op.rn), -Words(op)))
        /\ x'.addr = IF ("U" \in op.bits) = ("P" \in op.bits)
                     THEN Inc(low) ELSE low
  BY DEF BlockTransfer, Decoded, Retired, Clear
<1>3. op \in SheetOp /\ op.rn \in Reg
  BY InsnOp DEF SheetOp
<1>4. Val(op.rn) \in Word
  BY <1>3, ValType DEF SheetInv, PipelineInv
<1>5. x'.addr = Lowest(op, Val(op.rn))
  BY <1>2, <1>4, BlockStart
<1>6. Running(1)' /\ trace'.ok /\ next_type' = "N" /\ trace'.base = Val(op.rn)
  BY <1>1, RunningBegins
<1>7. List(op) # {} /\ Cardinality(List(op)) \in Nat
  BY <1>3, SheetList DEF List
<1>8. Plus(Lowest(op, Val(op.rn)), 0) = Lowest(op, Val(op.rn))
  BY <1>3, <1>4, LowestType, PlusZero
<1>9. Moving(1)'
  BY <1>1, <1>5, <1>6, <1>7, <1>8 DEF Moving
<1>10. PICK m \in Nat \ {0} : m = 1
  OBVIOUS
<1>11. BlockInv'
  BY <1>1, <1>7, <1>9, <1>10 DEF BlockInv
<1>12. QED
  BY <1>1, <1>6, <1>11 DEF SequenceInv, ShiftInv, MultiplyInv, SwapInv, SingleInv,
                           UndefinedInv, RefillInv, RestInv

-----------------------------------------------------------------------------
(* The cycles of a sequence *)

(* One row more of the table of the instruction under way *)
LEMMA RunningOn ==
  ASSUME SheetInv, PipelineInv', NEW m \in Nat \ {0}, Running(m), Traced(trace),
         NEW n, n = m + 1, Driven = Table(trace)[n]
  PROVE  \E t \in Trace :
           /\ t.op = x.op /\ t.at = x.at /\ t.base = trace.base
           /\ OnTable(t, n) /\ Goes(t)
<1>1. OnTable(trace, m) /\ trace.op = x.op /\ trace.at = x.at
  BY DEF Running
<1>2. QED
  BY <1>1, GoOnTrace DEF PipelineInv

LEMMA RunningKept ==
  ASSUME NEW t \in Trace, NEW n, t.op = x.op, t.at = x.at, OnTable(t, n), Goes(t),
         x'.op = x.op, x'.at = x.at, x.op \in Insns, seq' # "IDLE",
         ~dabort_pending'
  PROVE  Running(n)' /\ trace'.ok /\ trace'.base = t.base
<1>1. trace' = t
  BY DEF Goes
<1>2. OnTable(trace', n)
  BY <1>1
<1>3. QED
  BY <1>1, <1>2, TraceOk DEF Running, OnTable, Follows, Table

LEMMA TraceTypes ==
  ASSUME NEW m, Running(m)
  PROVE  /\ trace \in Trace /\ x.op \in SheetOp /\ x.op \in Insns
         /\ trace.op = x.op /\ trace.at = x.at
         /\ x.at \in Word /\ trace.base \in Word
         /\ Table(trace) = Rows(x.op, x.at, trace.base)
  BY DEF Running, OnTable, Follows, Trace, Table

LEMMA SheetDataProcShifted ==
  ASSUME SheetInv, PipelineInv', DataProcShifted, Traced(trace)
  PROVE  SequenceInv' /\ trace'.ok
<1>1. PICK next : next = (IF WritesPC(x.op) THEN "N" ELSE "S")
                  /\ LaterCycle(pc, UserFlag, next)
  BY DEF DataProcShifted
<1>2. seq = "DP" /\ DpFinish(x.op)
  BY DEF DataProcShifted
<1>3. x.op.cls = "DP" /\ "R" \in x.op.bits /\ Running(1) /\ next_type = "I"
  BY <1>2 DEF SheetInv, SequenceInv, ShiftInv
<1>4. Driven = Internal(x.at) /\ next_type' = next
  BY <1>1, <1>2, <1>3, InternalCycle DEF SheetInv, Middle
<1>5. Len(Table(trace)) = 2 /\ Table(trace)[2] = Internal(x.at)
  BY <1>3, TraceTypes, ShiftRows
<1>6. PICK m \in Nat \ {0}, n \in Nat \ {0} : m = 1 /\ n = 2 /\ n = m + 1
  OBVIOUS
<1>7. Running(m) /\ Driven = Table(trace)[n]
  BY <1>3, <1>4, <1>5, <1>6
<1>8. PICK t \in Trace :
        /\ t.op = x.op /\ t.at = x.at /\ t.base = trace.base
        /\ OnTable(t, n) /\ Goes(t)
  BY <1>6, <1>7, RunningOn
<1>9. n = Len(Table(t))
  BY <1>3, <1>5, <1>6, <1>8, TraceTypes DEF Table
<1>10. QED
  BY <1>1, <1>2, <1>3, <1>4, <1>8, <1>9, DpEnds DEF SheetInv

LEMMA SheetBoothStep ==
  ASSUME SheetInv, PipelineInv', BoothStep, Traced(trace)
  PROVE  SequenceInv' /\ trace'.ok
<1>1. PICK next : next = (IF k = x.op.n THEN "S" ELSE "I")
                  /\ LaterCycle(pc, UserFlag, next)
  BY DEF BoothStep
<1>2. seq = "MUL" /\ dabort_pending' = dabort_pending
  BY DEF BoothStep, requests
<1>3. x.op.cls = "MUL" /\ k \in 1 .. x.op.n /\ Running(k) /\ next_type = "I"
  BY <1>2 DEF SheetInv, SequenceInv, MultiplyInv
<1>4. Driven = Internal(x.at) /\ next_type' = next
  BY <1>1, <1>2, <1>3, InternalCycle DEF SheetInv, Middle
<1>5. x.op.n \in 1 .. 16
  BY <1>3, TraceTypes, InsnAssumption
<1>6. PICK c \in 1 .. 16 : c = x.op.n
  BY <1>5
<1>7. PICK m \in 1 .. c : m = k
  BY <1>3, <1>6
<1>8. /\ Len(Rows(x.op, x.at, trace.base)) = 1 + c
      /\ \A i \in 1 .. c : Rows(x.op, x.at, trace.base)[1 + i] = Internal(x.at)
  <2>1. x.at \in Word /\ c \in Nat
    BY <1>3, TraceTypes
  <2>2. QED
    <3>1. x.op.cls = "MUL" /\ x.op.n = c
      BY <1>3, <1>6
    <3>2. InternalTable(Rows(x.op, x.at, trace.base), x.at, c)
      BY <2>1, <3>1, MultiplyRows, Zenon
    <3>3. QED
      BY <3>2, Zenon DEF InternalTable
<1>9. PICK n \in Nat \ {0} : n = m + 1 /\ n = 1 + m
  OBVIOUS
<1>10. Table(trace) = Rows(x.op, x.at, trace.base)
  BY <1>3, TraceTypes
<1>11. Driven = Table(trace)[n]
  BY <1>4, <1>7, <1>8, <1>9, <1>10
<1>12. m \in Nat \ {0} /\ Running(m)
  BY <1>3, <1>7
<1>13. PICK t \in Trace :
        /\ t.op = x.op /\ t.at = x.at /\ t.base = trace.base
        /\ OnTable(t, n) /\ Goes(t)
  BY <1>9, <1>11, <1>12, RunningOn
<1>14. Table(t) = Table(trace)
  BY <1>3, <1>13, TraceTypes DEF Table
<1>15. CASE k = x.op.n
  <2>1. Finish
    BY <1>15, <1>6 DEF BoothStep
  <2>2. n = Len(Table(t))
    BY <1>6, <1>7, <1>8, <1>9, <1>10, <1>14, <1>15
  <2>3. ~Refills(t.op) /\ ~Stores(t.op) /\ t.op.n \in Nat
    BY <1>3, <1>5, <1>13 DEF Refills, Stores
  <2>4. next_type' = "S"
    BY <1>1, <1>4, <1>15
  <2>5. QED
    BY <1>13, <2>1, <2>2, <2>3, <2>4, TableEnds
<1>16. CASE k # x.op.n
  <2>1. k < x.op.n /\ seq' = "MUL" /\ k' = k + 1 /\ x' = x
    BY <1>16, <1>3 DEF BoothStep, Continue
  <2>2. Running(n)' /\ trace'.ok
    BY <1>2, <1>3, <1>13, <2>1, RunningKept DEF Running
  <2>3. n \in 1 .. c /\ k' = n
    BY <1>6, <1>7, <1>9, <2>1
  <2>4. next_type' = "I"
    BY <1>1, <1>4, <1>16
  <2>5. MultiplyInv'
    BY <1>3, <1>6, <2>1, <2>2, <2>3, <2>4 DEF MultiplyInv
  <2>6. QED
    BY <2>1, <2>2, <2>5 DEF SequenceInv, ShiftInv, SwapInv, SingleInv, BlockInv,
                            UndefinedInv, RefillInv, RestInv
<1>17. QED
  BY <1>15, <1>16

LEMMA SheetSwapRead ==
  ASSUME SheetInv, PipelineInv', SwapRead, Traced(trace)
  PROVE  SequenceInv' /\ trace'.ok
<1>1. seq = "SWP" /\ k = 1 /\ LaterCycle(x.addr, {"LOCK"} \cup UserFlag, "N")
      /\ seq' = "SWP" /\ k' = 2 /\ dabort_pending' = dabort_pending
  BY DEF SwapRead, Continue, requests
<1>2. x.op.cls = "SWP" /\ Running(1) /\ x.addr = trace.base /\ next_type = "N"
  BY <1>1 DEF SheetInv, SequenceInv, SwapInv
<1>3. Driven = Row("N", trace.base, {"LOCK"}) /\ next_type' = "N"
  BY <1>1, <1>2, Flags, CycleRowOf
<1>4. Table(trace)[2] = Row("N", trace.base, {"LOCK"})
  <2>1. /\ x.at \in Word /\ trace.base \in Word
        /\ Table(trace) = Rows(x.op, x.at, trace.base)
    BY <1>2, TraceTypes
  <2>2. QED
    BY <1>2, <2>1, SwapTable
<1>5. PICK m \in Nat \ {0}, n \in Nat \ {0} : m = 1 /\ n = 2 /\ n = m + 1
  OBVIOUS
<1>6. Running(m) /\ Driven = Table(trace)[n]
  BY <1>2, <1>3, <1>4, <1>5
<1>7. PICK t \in Trace :
        /\ t.op = x.op /\ t.at = x.at /\ t.base = trace.base
        /\ OnTable(t, n) /\ Goes(t)
  BY <1>5, <1>6, RunningOn
<1>8. x'.op = x.op /\ x'.at = x.at /\ x'.addr = x.addr
  BY DEF SwapRead, SheetInv, PipelineInv, TypeOK, InFlight
<1>9. Running(n)' /\ trace'.ok /\ trace'.base = trace.base
  BY <1>1, <1>2, <1>7, <1>8, RunningKept DEF Running
<1>10. SwapInv'
  BY <1>1, <1>2, <1>3, <1>5, <1>8, <1>9 DEF SwapInv
<1>11. QED
  BY <1>1, <1>9, <1>10 DEF SequenceInv, ShiftInv, MultiplyInv, SingleInv, BlockInv,
                           UndefinedInv, RefillInv, RestInv

LEMMA SheetSwapWrite ==
  ASSUME SheetInv, PipelineInv', SwapWrite, Traced(trace)
  PROVE  SequenceInv' /\ trace'.ok
<1>1. seq = "SWP" /\ k = 2 /\ LaterCycle(x.addr, {"LOCK", "WRITE"} \cup UserFlag, "I")
      /\ seq' = "SWP" /\ k' = 3 /\ dabort_pending' = dabort_pending
  BY DEF SwapWrite, Continue, requests
<1>2. x.op.cls = "SWP" /\ Running(2) /\ x.addr = trace.base /\ next_type = "N"
  BY <1>1 DEF SheetInv, SequenceInv, SwapInv
<1>3. Driven = Row("N", trace.base, {"LOCK", "WRITE"}) /\ next_type' = "I"
  BY <1>1, <1>2, Flags, CycleRowOf
<1>4. Table(trace)[3] = Row("N", trace.base, {"LOCK", "WRITE"})
  <2>1. /\ x.at \in Word /\ trace.base \in Word
        /\ Table(trace) = Rows(x.op, x.at, trace.base)
    BY <1>2, TraceTypes
  <2>2. QED
    BY <1>2, <2>1, SwapTable
<1>5. PICK m \in Nat \ {0}, n \in Nat \ {0} : m = 2 /\ n = 3 /\ n = m + 1
  OBVIOUS
<1>6. Running(m) /\ Driven = Table(trace)[n]
  BY <1>2, <1>3, <1>4, <1>5
<1>7. PICK t \in Trace :
        /\ t.op = x.op /\ t.at = x.at /\ t.base = trace.base
        /\ OnTable(t, n) /\ Goes(t)
  BY <1>5, <1>6, RunningOn
<1>8. x'.op = x.op /\ x'.at = x.at /\ x'.addr = x.addr
  BY DEF SwapWrite, SheetInv, PipelineInv, TypeOK, InFlight
<1>9. Running(n)' /\ trace'.ok /\ trace'.base = trace.base
  BY <1>1, <1>2, <1>7, <1>8, RunningKept DEF Running
<1>10. SwapInv'
  BY <1>1, <1>2, <1>3, <1>5, <1>8, <1>9 DEF SwapInv
<1>11. QED
  BY <1>1, <1>9, <1>10 DEF SequenceInv, ShiftInv, MultiplyInv, SingleInv, BlockInv,
                           UndefinedInv, RefillInv, RestInv

LEMMA SheetSwapEnd ==
  ASSUME SheetInv, PipelineInv', SwapEnd, Traced(trace)
  PROVE  SequenceInv' /\ trace'.ok
<1>1. seq = "SWP" /\ k = 3 /\ LaterCycle(pc, UserFlag, "S") /\ Finish
  BY DEF SwapEnd, LoadedReg
<1>2. x.op.cls = "SWP" /\ Running(3) /\ next_type = "I"
  BY <1>1 DEF SheetInv, SequenceInv, SwapInv
<1>3. Driven = Internal(x.at) /\ next_type' = "S"
  BY <1>1, <1>2, InternalCycle DEF SheetInv, Middle
<1>4. Table(trace)[4] = Internal(x.at) /\ Len(Table(trace)) = 4
  <2>1. /\ x.at \in Word /\ trace.base \in Word
        /\ Table(trace) = Rows(x.op, x.at, trace.base)
    BY <1>2, TraceTypes
  <2>2. QED
    BY <1>2, <2>1, SwapTable
<1>5. PICK m \in Nat \ {0}, n \in Nat \ {0} : m = 3 /\ n = 4 /\ n = m + 1
  OBVIOUS
<1>6. Running(m) /\ Driven = Table(trace)[n]
  BY <1>2, <1>3, <1>4, <1>5
<1>7. PICK t \in Trace :
        /\ t.op = x.op /\ t.at = x.at /\ t.base = trace.base
        /\ OnTable(t, n) /\ Goes(t)
  BY <1>5, <1>6, RunningOn
<1>8. n = Len(Table(t))
  BY <1>2, <1>4, <1>5, <1>7, TraceTypes DEF Table
<1>9. ~Refills(t.op) /\ ~Stores(t.op) /\ t.op.cls # "MUL"
  BY <1>2, <1>7 DEF Refills, Stores
<1>10. QED
  BY <1>1, <1>3, <1>7, <1>8, <1>9, TableEnds

LEMMA SheetStore ==
  ASSUME SheetInv, PipelineInv', Store, Traced(trace)
  PROVE  SequenceInv' /\ trace'.ok
<1>1. seq = "SDT" /\ "L" \notin x.op.bits /\ Finish
      /\ LaterCycle(x.addr, {"WRITE"} \cup TransferFlags, "N")
  BY DEF Store
<1>2. x.op.cls = "SDT" /\ Running(1) /\ next_type = "N"
      /\ x.addr = Single(x.op, trace.base)
  BY <1>1 DEF SheetInv, SequenceInv, SingleInv
<1>3. Driven = Row("N", Single(x.op, trace.base), {"WRITE"}) /\ next_type' = "N"
  BY <1>1, <1>2, Flags, CycleRowOf
<1>4. Table(trace)[2] = Row("N", Single(x.op, trace.base), {"WRITE"})
      /\ Len(Table(trace)) = 2
  <2>1. /\ x.op \in SheetOp /\ x.at \in Word /\ trace.base \in Word
        /\ Table(trace) = Rows(x.op, x.at, trace.base)
    BY <1>2, TraceTypes
  <2>2. QED
    BY <1>1, <1>2, <2>1, StoreRows
<1>5. PICK m \in Nat \ {0}, n \in Nat \ {0} : m = 1 /\ n = 2 /\ n = m + 1
  OBVIOUS
<1>6. Running(m) /\ Driven = Table(trace)[n]
  BY <1>2, <1>3, <1>4, <1>5
<1>7. PICK t \in Trace :
        /\ t.op = x.op /\ t.at = x.at /\ t.base = trace.base
        /\ OnTable(t, n) /\ Goes(t)
  BY <1>5, <1>6, RunningOn
<1>8. n = Len(Table(t))
  BY <1>2, <1>4, <1>5, <1>7, TraceTypes DEF Table
<1>9. ~Refills(t.op) /\ Stores(t.op) /\ t.op.cls # "MUL"
  BY <1>1, <1>2, <1>7 DEF Refills, Stores
<1>10. QED
  BY <1>1, <1>3, <1>7, <1>8, <1>9, TableEnds

LEMMA SheetLoadData ==
  ASSUME SheetInv, PipelineInv', LoadData, Traced(trace)
  PROVE  SequenceInv' /\ trace'.ok
<1>1. /\ seq = "SDT" /\ k = 1 /\ "L" \in x.op.bits
      /\ LaterCycle(x.addr, TransferFlags, "I")
      /\ seq' = "SDT" /\ k' = 2 /\ dabort_pending' = dabort_pending
  BY DEF LoadData, Continue, requests
<1>2. x.op.cls = "SDT" /\ Running(1) /\ next_type = "N"
      /\ x.addr = Single(x.op, trace.base)
  BY <1>1 DEF SheetInv, SequenceInv, SingleInv
<1>3. Driven = Row("N", Single(x.op, trace.base), {}) /\ next_type' = "I"
  BY <1>1, <1>2, Flags, CycleRowOf
<1>4. Table(trace)[2] = Row("N", Single(x.op, trace.base), {})
  <2>1. /\ x.op \in SheetOp /\ x.at \in Word /\ trace.base \in Word
        /\ Table(trace) = Rows(x.op, x.at, trace.base)
    BY <1>2, TraceTypes
  <2>2. QED
    BY <1>1, <1>2, <2>1, LoadRows
<1>5. PICK m \in Nat \ {0}, n \in Nat \ {0} : m = 1 /\ n = 2 /\ n = m + 1
  OBVIOUS
<1>6. Running(m) /\ Driven = Table(trace)[n]
  BY <1>2, <1>3, <1>4, <1>5
<1>7. PICK t \in Trace :
        /\ t.op = x.op /\ t.at = x.at /\ t.base = trace.base
        /\ OnTable(t, n) /\ Goes(t)
  BY <1>5, <1>6, RunningOn
<1>8. x'.op = x.op /\ x'.at = x.at
  BY DEF LoadData, SheetInv, PipelineInv, TypeOK, InFlight
<1>9. Running(n)' /\ trace'.ok
  BY <1>1, <1>2, <1>7, <1>8, RunningKept DEF Running
<1>10. SingleInv'
  BY <1>1, <1>2, <1>3, <1>5, <1>8, <1>9 DEF SingleInv
<1>11. QED
  BY <1>1, <1>9, <1>10 DEF SequenceInv, ShiftInv, MultiplyInv, SwapInv, BlockInv,
                           UndefinedInv, RefillInv, RestInv

LEMMA SheetLoadEnd ==
  ASSUME SheetInv, PipelineInv', LoadEnd, Traced(trace)
  PROVE  SequenceInv' /\ trace'.ok
<1>1. seq = "SDT" /\ k = 2 /\ "L" \in x.op.bits
  BY DEF LoadEnd
<1>2. x.op.cls = "SDT" /\ Running(2) /\ next_type = "I"
  BY <1>1 DEF SheetInv, SequenceInv, SingleInv
<1>3. PICK next : LaterCycle(pc, UserFlag, next)
                  /\ next = IF x.ab \/ x.op.rd # "pc" THEN "S" ELSE "N"
  BY DEF LoadEnd
<1>4. Driven = Internal(x.at) /\ next_type' = next
  BY <1>1, <1>2, <1>3, InternalCycle DEF SheetInv, Middle
<1>5. Table(trace)[3] = Internal(x.at) /\ Len(Table(trace)) = 3
  <2>1. /\ x.op \in SheetOp /\ x.at \in Word /\ trace.base \in Word
        /\ Table(trace) = Rows(x.op, x.at, trace.base)
    BY <1>2, TraceTypes
  <2>2. QED
    BY <1>1, <1>2, <2>1, LoadRows
<1>6. PICK m \in Nat \ {0}, n \in Nat \ {0} : m = 2 /\ n = 3 /\ n = m + 1
  OBVIOUS
<1>7. Running(m) /\ Driven = Table(trace)[n]
  BY <1>2, <1>4, <1>5, <1>6
<1>8. PICK t \in Trace :
        /\ t.op = x.op /\ t.at = x.at /\ t.base = trace.base
        /\ OnTable(t, n) /\ Goes(t)
  BY <1>6, <1>7, RunningOn
<1>9. n = Len(Table(t))
  BY <1>2, <1>5, <1>6, <1>8, TraceTypes DEF Table
<1>10. /\ Refills(t.op) <=> x.op.rd = "pc"
       /\ ~Stores(t.op) /\ t.op.cls # "MUL"
  BY <1>1, <1>2, <1>8 DEF Refills, Stores
<1>11. CASE x.ab \/ x.op.rd # "pc"
  <2>1. LoadedReg
    BY <1>11 DEF LoadEnd
  <2>2. Finish /\ (x.ab => Aborting)
    BY <1>2, <2>1 DEF LoadedReg, Aborting, Running
  <2>3. QED
    BY <1>3, <1>4, <1>8, <1>9, <1>10, <1>11, <2>2, TableEnds
<1>12. CASE ~(x.ab \/ x.op.rd # "pc")
  <2>1. PICK target \in Data : StartRefill(target)
    BY <1>12 DEF LoadEnd
  <2>2. target \in FixedTarget(t.op, t.at)
    BY <1>2, <1>8, DataAssumption DEF FixedTarget
  <2>3. x.at \in Word
    BY DEF SheetInv, PipelineInv, TypeOK, InFlight
  <2>4. QED
    BY <1>3, <1>4, <1>8, <1>9, <1>10, <1>12, <2>1, <2>2, <2>3, RefillStarts
<1>13. QED
  BY <1>11, <1>12

LEMMA SheetUndefinedEntry ==
  ASSUME SheetInv, PipelineInv', UndefinedEntry, Traced(trace)
  PROVE  SequenceInv' /\ trace'.ok
<1>1. seq = "UNDEF" /\ LaterCycle(x.addr, Fetching, "N") /\ StartRefill(1)
  BY DEF UndefinedEntry
<1>2. x.op.cls = "UNDEF" /\ Running(1) /\ next_type = "I" /\ x.addr = Plus(x.at, 2)
  BY <1>1 DEF SheetInv, SequenceInv, UndefinedInv
<1>3. Driven = Row("I", Plus(x.at, 2), {"OPC"}) /\ next_type' = "N"
  BY <1>1, <1>2, Flags, CycleRowOf
<1>4. Table(trace)[2] = Row("I", Plus(x.at, 2), {"OPC"}) /\ Len(Table(trace)) = 2
  <2>1. /\ x.at \in Word /\ trace.base \in Word
        /\ Table(trace) = Rows(x.op, x.at, trace.base)
    BY <1>2, TraceTypes
  <2>2. QED
    BY <1>2, <2>1, UndefinedRows
<1>5. PICK m \in Nat \ {0}, n \in Nat \ {0} : m = 1 /\ n = 2 /\ n = m + 1
  OBVIOUS
<1>6. Running(m) /\ Driven = Table(trace)[n]
  BY <1>2, <1>3, <1>4, <1>5
<1>7. PICK t \in Trace :
        /\ t.op = x.op /\ t.at = x.at /\ t.base = trace.base
        /\ OnTable(t, n) /\ Goes(t)
  BY <1>5, <1>6, RunningOn
<1>8. n = Len(Table(t))
  BY <1>2, <1>4, <1>5, <1>7, TraceTypes DEF Table
<1>9. Refills(t.op) /\ ~Stores(t.op) /\ t.op.cls # "MUL"
      /\ 1 \in FixedTarget(t.op, t.at)
  BY <1>2, <1>7 DEF Refills, Stores, FixedTarget
<1>10. x.at \in Word
  BY DEF SheetInv, PipelineInv, TypeOK, InFlight
<1>11. QED
  BY <1>1, <1>3, <1>7, <1>8, <1>9, <1>10, RefillStarts

(* The refill *)
LEMMA SheetRefillTarget ==
  ASSUME SheetInv, PipelineInv', RefillTarget, Traced(trace)
  PROVE  SequenceInv' /\ trace'.ok
<1>1. /\ seq = "REFILL" /\ k = 0 /\ LaterCycle(x.target, Fetching, "S")
      /\ seq' = "REFILL" /\ k' = 1
  BY DEF RefillTarget, Continue
<1>2. Refilling(trace)
  BY <1>1 DEF SheetInv, SequenceInv, RefillInv
<1>3. PICK n \in Nat \ {0} :
        /\ n = Len(Table(trace)) /\ Follows(trace, n)
        /\ Len(trace.rows) = n /\ next_type = "N"
  BY <1>1 DEF SheetInv, SequenceInv, RefillInv
<1>4. Driven = Row("N", x.target, {"OPC"}) /\ next_type' = "S"
  BY <1>1, <1>3, Flags, CycleRowOf
<1>5. OnTable(trace, n)
  BY <1>3 DEF OnTable
<1>6. PICK q \in Nat \ {0} : q = n + 1
  OBVIOUS
<1>7. PICK t \in Trace :
        /\ t.op = trace.op /\ t.at = trace.at /\ t.base = trace.base
        /\ Len(t.rows) = q /\ Follows(t, n) /\ t.rows[q] = Driven
        /\ Goes(t)
  BY <1>5, <1>6, FollowOn DEF PipelineInv
<1>8. trace' = t
  BY <1>1, <1>7 DEF Goes
<1>9. x'.target = x.target
  BY DEF RefillTarget, SheetInv, PipelineInv, TypeOK, InFlight
<1>10. Refilling(trace)'
  BY <1>2, <1>7, <1>8, <1>9 DEF Refilling
<1>11. n = Len(Table(trace')) /\ Follows(trace', n)
  BY <1>3, <1>7, <1>8 DEF Table
<1>12. Len(trace'.rows) = n + 1 /\ trace'.rows[n + 1] = Row("N", x'.target, {"OPC"})
  BY <1>4, <1>6, <1>7, <1>8, <1>9
<1>13. RefillInv'
  BY <1>1, <1>4, <1>10, <1>11, <1>12 DEF RefillInv, Follows, Table
<1>14. SequenceInv'
  BY <1>1, <1>13 DEF SequenceInv, ShiftInv, MultiplyInv, SwapInv, SingleInv,
                     BlockInv, UndefinedInv, RestInv
<1>15. QED
  BY <1>8, <1>14, TraceOk

LEMMA SheetRefillNext ==
  ASSUME SheetInv, PipelineInv', RefillNext, Traced(trace)
  PROVE  SequenceInv' /\ trace'.ok
<1>1. /\ seq = "REFILL" /\ k = 1 /\ Cycle(Inc(x.target), Fetching, "S")
      /\ seq' = "IDLE" /\ dabort_pending' = dabort_pending
  BY DEF RefillNext, requests
<1>2. Refilling(trace)
  BY <1>1 DEF SheetInv, SequenceInv, RefillInv
<1>3. PICK n \in Nat \ {0} :
        /\ n = Len(Table(trace)) /\ Follows(trace, n)
        /\ Len(trace.rows) = n + 1 /\ next_type = "S"
        /\ trace.rows[n + 1] = Row("N", x.target, {"OPC"})
  BY <1>1 DEF SheetInv, SequenceInv, RefillInv
<1>4. Driven = Row("S", Inc(x.target), {"OPC"}) /\ next_type' = "S"
  <2>1. /\ bus'.addr = Inc(x.target) /\ bus'.type = "S" /\ next_type' = "S"
        /\ bus'.flags = Fetching
    BY <1>1, <1>3 DEF Cycle
  <2>2. QED
    BY <2>1, Flags DEF Driven
<1>5. trace \in Trace
  BY <1>3 DEF Follows
<1>6. PICK q \in Nat \ {0}, z \in Nat \ {0} : q = n + 1 /\ z = q + 1 /\ z = n + 2
  OBVIOUS
<1>7. PICK t : t = [trace EXCEPT !.rows = Append(trace.rows, Driven)]
  OBVIOUS
<1>8. /\ t \in Trace /\ t.op = trace.op /\ t.at = trace.at /\ t.base = trace.base
      /\ Len(t.rows) = z /\ t.rows[z] = Driven
      /\ \A i \in 1 .. q : t.rows[i] = trace.rows[i]
  <2>1. Driven \in CycleRow
    BY DrivenType DEF PipelineInv
  <2>2. q \in Nat /\ Len(trace.rows) = q /\ z = q + 1
    BY <1>3, <1>6
  <2>3. QED
    BY <1>5, <1>7, <2>1, <2>2, AppendTrace
<1>9. Table(t) = Table(trace)
  BY <1>8 DEF Table
<1>10. Follows(t, n)
  BY <1>3, <1>6, <1>8, <1>9 DEF Follows
<1>11. t.rows = Append(trace.rows, Driven)
  BY <1>5, <1>7 DEF Trace
<1>12. Goes(t)
  BY <1>7, <1>8, <1>11 DEF Traced, Goes, Conforms, Aborting, Driven
<1>13. t.rows[n + 1] = Row("N", x.target, {"OPC"})
       /\ t.rows[n + 2] = Row("S", Inc(x.target), {"OPC"}) /\ Len(t.rows) = n + 2
  BY <1>3, <1>4, <1>6, <1>8
<1>14. /\ Refills(t.op) /\ ~Stores(t.op) /\ t.op.cls # "MUL"
       /\ x.target \in FixedTarget(t.op, t.at)
  BY <1>2, <1>8 DEF Refilling
<1>15. ~Aborting
  BY <1>1 DEF Aborting
<1>16. trace' = Idle
  BY <1>1, <1>3, <1>4, <1>8, <1>9, <1>10, <1>12, <1>13, <1>14, <1>15, EndRefilled
<1>17. QED
  BY <1>1, <1>16, RestHolds

(* Blocks *)
LEMMA BlockCounts ==
  ASSUME SheetInv, seq = "BDT"
  PROVE  /\ x.op.cls = "BDT" /\ x.op \in SheetOp
         /\ x.rest \subseteq List(x.op) /\ IsFiniteSet(x.rest)
         /\ Cardinality(x.rest) \in Nat /\ Cardinality(List(x.op)) \in Nat
         /\ \E m \in Nat \ {0} : Moving(m)
<1>1. /\ x.op.cls = "BDT" /\ x.rest \subseteq List(x.op)
      /\ \E m \in Nat \ {0} : Moving(m)
  BY DEF SheetInv, SequenceInv, BlockInv
<1>2. x.op \in SheetOp
  BY <1>1, TraceTypes DEF Moving
<1>3. IsFiniteSet(List(x.op)) /\ Cardinality(List(x.op)) \in Nat
  BY <1>2, SheetList
<1>4. IsFiniteSet(x.rest)
  BY <1>1, <1>3, FS_Subset
<1>5. QED
  BY <1>1, <1>2, <1>3, <1>4, FS_CardinalityType

(* One transfer of a block *)
LEMMA BlockMoves ==
  ASSUME SheetInv, PipelineInv', Traced(trace), seq = "BDT",
         NEW r, r \in x.rest, NEW flags, NEW kept, NEW next,
         kept = IF "L" \in x.op.bits THEN {} ELSE {"WRITE"},
         flags \ {"USER"} = kept, LaterCycle(x.addr, flags, next)
  PROVE  \E m \in Nat \ {0}, n \in Nat \ {0}, t \in Trace :
           /\ Moving(m) /\ n = m + 1 /\ next_type' = next
           /\ t.op = x.op /\ t.at = x.at /\ t.base = trace.base
           /\ OnTable(t, n) /\ Goes(t)
<1>1. PICK m \in Nat \ {0} : Moving(m)
  BY BlockCounts
<1>2. PICK c \in Nat, d \in Nat :
        c = Cardinality(List(x.op)) /\ d = Cardinality(x.rest)
  BY BlockCounts
<1>3. d # 0
  BY <1>2, BlockCounts, FS_EmptySet
<1>4. m \in 1 .. c
  BY <1>1, <1>2, <1>3 DEF Moving
<1>5. /\ x.op \in SheetOp /\ x.op.cls = "BDT" /\ x.at \in Word /\ trace.base \in Word
      /\ Table(trace) = Rows(x.op, x.at, trace.base)
  BY <1>1, BlockCounts, TraceTypes DEF Moving
<1>6. BlockTable(Rows(x.op, x.at, trace.base), x.op, trace.base, c, kept)
  BY <1>2, <1>5, BlockStoreRows, BlockLoadRows
<1>7. PICK n \in Nat \ {0} : n = m + 1 /\ n = 1 + m
  OBVIOUS
<1>8. Table(trace)[n] = BlockRow(x.op, trace.base, m, kept)
  BY <1>4, <1>5, <1>6, <1>7 DEF BlockTable
<1>9. Driven = Row(next_type, x.addr, kept) /\ next_type' = next
  BY CycleRowOf
<1>10. next_type = (IF m = 1 THEN "N" ELSE "S")
       /\ x.addr = Plus(Lowest(x.op, trace.base), m - 1)
  BY <1>1 DEF Moving
<1>11. Driven = Table(trace)[n]
  BY <1>8, <1>9, <1>10 DEF BlockRow
<1>12. Running(m)
  BY <1>1 DEF Moving
<1>13. \E t \in Trace :
         /\ t.op = x.op /\ t.at = x.at /\ t.base = trace.base
         /\ OnTable(t, n) /\ Goes(t)
  BY <1>7, <1>11, <1>12, RunningOn
<1>14. QED
  BY <1>1, <1>7, <1>9, <1>13

(* ... after which there are more *)
LEMMA BlockGoesOn ==
  ASSUME SheetInv, PipelineInv', seq = "BDT", NEW r \in x.rest,
         NEW m \in Nat \ {0}, Moving(m), NEW n \in Nat \ {0}, n = m + 1,
         NEW t \in Trace, t.op = x.op, t.at = x.at, t.base = trace.base,
         OnTable(t, n), Goes(t), dabort_pending' = dabort_pending,
         Continue("BDT", 1), x'.op = x.op, x'.at = x.at,
         x'.rest = x.rest \ {r}, x'.addr = Inc(x.addr),
         next_type' = IF x.rest = {r} THEN "I" ELSE "S",
         "L" \notin x.op.bits => x.rest # {r}
  PROVE  SequenceInv' /\ trace'.ok
<1>1. Running(m) /\ ~dabort_pending /\ x.op \in Insns
  BY DEF Moving, Running
<1>2. seq' = "BDT"
  BY DEF Continue
<1>3. Running(n)' /\ trace'.ok /\ trace'.base = trace.base
  BY <1>1, <1>2, RunningKept
<1>4. PICK c \in Nat, d \in Nat :
        c = Cardinality(List(x.op)) /\ d = Cardinality(x.rest)
  BY BlockCounts
<1>5. Cardinality(x.rest \ {r}) = d - 1
  BY <1>4, BlockCounts, FS_RemoveElement
<1>6. n + Cardinality(x'.rest) = 1 + Cardinality(List(x'.op))
  BY <1>4, <1>5 DEF Moving
<1>7. x'.addr = Plus(Lowest(x'.op, trace'.base), n - 1)
  <2>1. PICK low \in Word : low = Lowest(x.op, trace.base)
    BY <1>1, BlockCounts, TraceTypes, LowestType
  <2>2. PICK j \in Int : j = m - 1
    OBVIOUS
  <2>3. Plus(Plus(low, j), 1) = Plus(low, j + 1) /\ j + 1 = n - 1
    BY <2>2, PlusPlus
  <2>4. QED
    BY <1>3, <2>1, <2>2, <2>3 DEF Moving, Inc
<1>8. x'.rest = {} <=> x.rest = {r}
  OBVIOUS
<1>9. Moving(n)'
  BY <1>3, <1>6, <1>7, <1>8 DEF Moving
<1>10. x'.rest \subseteq List(x'.op) /\ x'.op.cls = "BDT"
  BY BlockCounts
<1>11. BlockInv'
  BY <1>8, <1>9, <1>10 DEF BlockInv
<1>12. QED
  BY <1>2, <1>3, <1>11 DEF SequenceInv, ShiftInv, MultiplyInv, SwapInv, SingleInv,
                           UndefinedInv, RefillInv, RestInv

LEMMA SheetBlockLoad ==
  ASSUME SheetInv, PipelineInv', NEW r \in Reg, BlockLoad(r), Traced(trace)
  PROVE  SequenceInv' /\ trace'.ok
<1>1. PICK next :
        /\ next = (IF x.rest = {r} THEN "I" ELSE "S")
        /\ LaterCycle(x.addr, UserFlag, next)
  BY DEF BlockLoad
<1>2. /\ seq = "BDT" /\ "L" \in x.op.bits /\ r \in x.rest
      /\ Continue("BDT", 1) /\ dabort_pending' = dabort_pending
  BY DEF BlockLoad, IsNext, requests
<1>3. /\ x'.op = x.op /\ x'.at = x.at /\ x'.rest = x.rest \ {r}
      /\ x'.addr = Inc(x.addr)
  BY DEF BlockLoad, SheetInv, PipelineInv, TypeOK, InFlight
<1>4. PICK m \in Nat \ {0}, n \in Nat \ {0}, t \in Trace :
        /\ Moving(m) /\ n = m + 1 /\ next_type' = next
        /\ t.op = x.op /\ t.at = x.at /\ t.base = trace.base
        /\ OnTable(t, n) /\ Goes(t)
  <2>1. PICK flags, kept : flags = UserFlag /\ kept = {}
    OBVIOUS
  <2>2. /\ kept = IF "L" \in x.op.bits THEN {} ELSE {"WRITE"}
        /\ flags \ {"USER"} = kept /\ LaterCycle(x.addr, flags, next)
    BY <1>1, <1>2, <2>1, Flags
  <2>3. QED
    BY <1>2, <2>2, BlockMoves, Zenon
<1>5. QED
  BY <1>1, <1>2, <1>3, <1>4, BlockGoesOn

LEMMA SheetBlockStore ==
  ASSUME SheetInv, PipelineInv', NEW r \in Reg, BlockStore(r), Traced(trace)
  PROVE  SequenceInv' /\ trace'.ok
<1>1. PICK next :
        /\ next = (IF x.rest = {r} THEN "N" ELSE "S")
        /\ LaterCycle(x.addr, {"WRITE"} \cup UserFlag, next)
  BY DEF BlockStore
<1>2. seq = "BDT" /\ "L" \notin x.op.bits /\ r \in x.rest
  BY DEF BlockStore, IsNext
<1>3. PICK m \in Nat \ {0}, n \in Nat \ {0}, t \in Trace :
        /\ Moving(m) /\ n = m + 1 /\ next_type' = next
        /\ t.op = x.op /\ t.at = x.at /\ t.base = trace.base
        /\ OnTable(t, n) /\ Goes(t)
  <2>1. PICK flags, kept : flags = {"WRITE"} \cup UserFlag /\ kept = {"WRITE"}
    OBVIOUS
  <2>2. /\ kept = IF "L" \in x.op.bits THEN {} ELSE {"WRITE"}
        /\ flags \ {"USER"} = kept /\ LaterCycle(x.addr, flags, next)
    BY <1>1, <1>2, <2>1, Flags
  <2>3. QED
    BY <1>2, <2>2, BlockMoves, Zenon
<1>4. CASE x.rest = {r}
  <2>1. Finish
    BY <1>4 DEF BlockStore
  <2>2. Cardinality(x.rest) = 1
    BY <1>4, FS_Singleton
  <2>3. /\ x.op \in SheetOp /\ x.op.cls = "BDT" /\ x.at \in Word
        /\ trace.base \in Word
    BY <1>3, BlockCounts, <1>2, TraceTypes DEF Moving
  <2>4. PICK c \in Nat : c = Cardinality(List(x.op))
    BY <1>2, BlockCounts
  <2>5. Len(Rows(x.op, x.at, trace.base)) = 1 + c
    BY <1>2, <2>3, <2>4, BlockStoreRows
  <2>6. m = c
    BY <1>3, <2>2, <2>4 DEF Moving
  <2>7. n = Len(Table(t))
    BY <1>3, <2>5, <2>6 DEF Table
  <2>8. ~Refills(t.op) /\ Stores(t.op) /\ t.op.cls # "MUL"
    BY <1>2, <1>3, <2>3 DEF Refills, Stores
  <2>9. QED
    BY <1>1, <1>3, <1>4, <2>1, <2>7, <2>8, TableEnds
<1>5. CASE x.rest # {r}
  <2>1. /\ Continue("BDT", 1) /\ dabort_pending' = dabort_pending
        /\ x'.op = x.op /\ x'.at = x.at /\ x'.rest = x.rest \ {r}
        /\ x'.addr = Inc(x.addr)
    BY <1>5 DEF BlockStore, SheetInv, PipelineInv, TypeOK, InFlight
  <2>2. QED
    BY <1>1, <1>2, <1>3, <1>5, <2>1, BlockGoesOn
<1>6. QED
  BY <1>4, <1>5

LEMMA SheetBlockLoadEnd ==
  ASSUME SheetInv, PipelineInv', BlockLoadEnd, Traced(trace)
  PROVE  SequenceInv' /\ trace'.ok
<1> DEFINE loadsPC == "pc" \in List(x.op) /\ ~x.ab
<1>1. seq = "BDT" /\ "L" \in x.op.bits /\ x.rest = {}
  BY DEF BlockLoadEnd
<1>2. PICK next : LaterCycle(pc, UserFlag, next)
                  /\ next = IF loadsPC THEN "N" ELSE "S"
  BY DEF BlockLoadEnd
<1>3. PICK m \in Nat \ {0} : Moving(m)
  BY <1>1, BlockCounts
<1>4. Running(m) /\ next_type = "I"
  BY <1>1, <1>3 DEF Moving
<1>5. Driven = Internal(x.at) /\ next_type' = next
  BY <1>1, <1>2, <1>4, InternalCycle DEF SheetInv, Middle
<1>6. PICK c \in Nat : c = Cardinality(List(x.op))
  BY <1>1, BlockCounts
<1>7. m = 1 + c
  <2>1. Cardinality(x.rest) = 0
    BY <1>1, FS_EmptySet
  <2>2. QED
    BY <1>3, <1>6, <2>1 DEF Moving
<1>8. /\ x.op \in SheetOp /\ x.op.cls = "BDT" /\ x.at \in Word
      /\ trace.base \in Word /\ Table(trace) = Rows(x.op, x.at, trace.base)
  BY <1>1, <1>4, BlockCounts, TraceTypes
<1>9. /\ Len(Rows(x.op, x.at, trace.base)) = 2 + c
      /\ Rows(x.op, x.at, trace.base)[2 + c] = Internal(x.at)
  BY <1>1, <1>6, <1>8, BlockLoadRows
<1>10. PICK n \in Nat \ {0} : n = m + 1 /\ n = 2 + c
  BY <1>7
<1>11. Driven = Table(trace)[n]
  BY <1>5, <1>8, <1>9, <1>10
<1>12. PICK t \in Trace :
        /\ t.op = x.op /\ t.at = x.at /\ t.base = trace.base
        /\ OnTable(t, n) /\ Goes(t)
  BY <1>4, <1>10, <1>11, RunningOn
<1>13. n = Len(Table(t))
  BY <1>9, <1>10, <1>12 DEF Table
<1>14. /\ Refills(t.op) <=> "pc" \in List(x.op)
       /\ ~Stores(t.op) /\ t.op.cls # "MUL"
  BY <1>1, <1>8, <1>12 DEF Refills, Stores
<1>15. CASE x.ab \/ ~loadsPC
  <2>1. Finish /\ (x.ab => dabort_pending')
    BY <1>15 DEF BlockLoadEnd
  <2>2. x.ab => Aborting
    BY <1>4, <2>1 DEF Aborting, Running
  <2>3. QED
    BY <1>2, <1>5, <1>12, <1>13, <1>14, <1>15, <2>1, <2>2, TableEnds
<1>16. CASE loadsPC
  <2>1. PICK target \in Data : StartRefill(target)
    BY <1>16 DEF BlockLoadEnd
  <2>2. target \in FixedTarget(t.op, t.at)
    BY <1>8, <1>12, DataAssumption DEF FixedTarget
  <2>3. QED
    BY <1>2, <1>5, <1>8, <1>12, <1>13, <1>14, <1>16, <2>1, <2>2, RefillStarts
<1>17. QED
  BY <1>15, <1>16

-----------------------------------------------------------------------------

LEMMA SheetStart ==
  ASSUME SheetInit PROVE SheetInv
<1>1. PipelineInv
  BY PipelineInit DEF SheetInit
<1>2. seq = "IDLE" /\ trace = Idle
  BY DEF SheetInit, Init
<1>3. Idle.ok
  BY DEF Idle
<1>4. QED
  BY <1>1, <1>2, <1>3
  DEF SheetInv, SequenceInv, ShiftInv, MultiplyInv, SwapInv, SingleInv, BlockInv,
      UndefinedInv, RefillInv, RestInv

LEMMA SheetBegins ==
  ASSUME SheetInv, PipelineInv', SheetBegin
  PROVE  SequenceInv' /\ trace'.ok
<1>1. CASE Exception("reset") /\ Follow(Special("ENTRY", 0), Plus(pc, -2))
  <2>1. Entry["reset"].vector = 0
    BY DEF Entry
  <2>2. QED
    BY <1>1, <2>1, SheetException
<1>2. ASSUME NEW e \in {"dabt", "fiq", "irq", "pabt"}, Exception(e),
             Follow(Special("ENTRY", Entry[e].vector), ex.addr)
      PROVE  SequenceInv' /\ trace'.ok
  BY <1>2, SheetException
<1>3. CASE Skip /\ Follow(Special("SKIP", 0), ex.addr)
  BY <1>3, SheetSkip
<1>4. ASSUME NEW op \in Insns, Executes(op), Follow(op, ex.addr)
      PROVE  SequenceInv' /\ trace'.ok
  BY <1>4, SheetDataProc, SheetDataProcShift, SheetMrs, SheetMsr, SheetMultiply,
     SheetSwap, SheetTransfer, SheetBlockTransfer, SheetBranch, SheetUndefined,
     SheetSwi DEF Executes
<1>5. QED
  BY <1>1, <1>2, <1>3, <1>4 DEF SheetBegin

LEMMA SheetGoesOn ==
  ASSUME SheetInv, PipelineInv', SheetGoOn
  PROVE  SequenceInv' /\ trace'.ok
BY SheetDataProcShifted, SheetBoothStep, SheetSwapRead, SheetSwapWrite, SheetSwapEnd,
   SheetStore, SheetLoadData, SheetLoadEnd, SheetBlockLoad, SheetBlockStore,
   SheetBlockLoadEnd, SheetUndefinedEntry, SheetRefillTarget, SheetRefillNext
DEF SheetGoOn, GoOn

LEMMA SheetStays ==
  ASSUME SheetInv, Untraced \/ UNCHANGED <<vars, trace>>
  PROVE  SequenceInv' /\ trace'.ok
<1>1. CASE ResetCycle /\ trace' = trace
  <2>1. seq = "IDLE" /\ seq' = "IDLE"
    BY <1>1 DEF ResetCycle, Picks, AtBoundary
  <2>2. trace' = Idle
    BY <1>1, <2>1 DEF SheetInv, SequenceInv, RestInv
  <2>3. QED
    BY <2>1, <2>2, RestHolds
<1>2. CASE ~ResetCycle
  <2>1. /\ seq' = seq /\ k' = k /\ x' = x /\ next_type' = next_type
        /\ dabort_pending' = dabort_pending /\ trace' = trace
    BY <1>2 DEF Untraced, SetReset, SetFiq, SetIrq, vars, requests
  <2>2. \A m : Running(m)' <=> Running(m)
    BY <2>1 DEF Running, OnTable, Follows, Table
  <2>3. \A m : Moving(m)' <=> Moving(m)
    BY <2>1, <2>2 DEF Moving
  <2>4. ShiftInv' /\ MultiplyInv' /\ SwapInv' /\ SingleInv' /\ UndefinedInv'
    BY <2>1, <2>2 DEF SheetInv, SequenceInv, ShiftInv, MultiplyInv, SwapInv,
                      SingleInv, UndefinedInv
  <2>5. BlockInv'
    BY <2>1, <2>3 DEF SheetInv, SequenceInv, BlockInv
  <2>6. RefillInv' /\ RestInv'
    BY <2>1 DEF SheetInv, SequenceInv, RefillInv, RestInv, Refilling, Follows, Table
  <2>7. QED
    BY <2>1, <2>4, <2>5, <2>6 DEF SheetInv, SequenceInv
<1>3. QED
  BY <1>1, <1>2 DEF Untraced, vars

LEMMA SheetStep ==
  ASSUME SheetInv, [SheetNext]_<<vars, trace>>
  PROVE  SheetInv'
<1>1. [Next]_vars
  BY DEF SheetNext, SheetBegin, SheetGoOn, Untraced, Executes, Next, BusCycle,
         Begin, vars
<1>2. PipelineInv'
  BY <1>1, PipelineStep DEF SheetInv
<1>3. SequenceInv' /\ trace'.ok
  BY <1>2, SheetBegins, SheetGoesOn, SheetStays DEF SheetNext
<1>4. QED
  BY <1>2, <1>3 DEF SheetInv

(* From every reachable state, through resets, interrupts and aborts, every  *)
(* instruction and entry drives the bus cycles of its data sheet table and   *)
(* announces the type of the cycle after it.                                 *)
THEOREM InTablesCorrect == SheetSpec => []InTables
<1>1. SheetInit => SheetInv
  BY SheetStart
<1>2. SheetInv /\ [SheetNext]_<<vars, trace>> => SheetInv'
  BY SheetStep
<1>3. SheetInv => InTables
  BY DEF SheetInv, InTables
<1>4. QED
  BY <1>1, <1>2, <1>3, PTL DEF SheetSpec

=============================================================================
