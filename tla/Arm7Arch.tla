------------------------------ MODULE Arm7Arch ------------------------------
(***************************************************************************)
(* What the core model (model/src/arm7di.cpp) and the RTL core              *)
(* (rtl/v1/wren7_core.sv) share: words, registers, modes, the instruction   *)
(* fields the sequencers look at, and the vocabulary of the bus.            *)
(***************************************************************************)
EXTENDS Integers, FiniteSets

CONSTANTS
  Size,     \* words in the address space (2^30 in the processor)
  Insns,    \* the instructions memory may hold
  Data,     \* the values memory, the multiplier and the PSRs as data may yield
  Psrs,     \* the PSR images an MSR may write
  Aborts    \* the values ABORT may have (BOOLEAN, or {FALSE} as on the AICA)

-----------------------------------------------------------------------------
(* Static structure: registers, modes, instructions *)

Word == 0 .. Size - 1

Plus(a, n) == (a + n) % Size
IncUnwrapped(a) == a + 1   \* mutant
Inc(a) == Plus(a, 1)
DecTwo(a) == Plus(a, -2)   \* mutant
Dec(a) == Plus(a, -1)

(* "ILL" stands for the mode values of 3.3 that name no mode *)
Mode == {"USR", "FIQ", "IRQ", "SVC", "ABT", "UND", "ILL"}
Bank == {"USR", "FIQ", "IRQ", "SVC", "ABT", "UND"}
BankOf(mode) == IF mode = "ILL" THEN "USR" ELSE mode

Psr == [mode : Mode, i : BOOLEAN, f : BOOLEAN]

(* One register of each kind: never banked, banked for FIQ, banked for all. *)
Num == [r0 |-> 0, r8 |-> 8, r14 |-> 14, pc |-> 15]
Reg == {"r0", "r8", "r14", "pc"}

Phys(r, bank) ==
  CASE r = "r0" -> <<"r0", "USR">>
    [] r = "r8" -> <<"r8", IF bank = "FIQ" THEN "FIQ" ELSE "USR">>
    [] OTHER    -> <<r, bank>>

PhysReg == {<<"r0", "USR">>, <<"r8", "USR">>, <<"r8", "FIQ">>}
             \cup ({"r14"} \X Bank)

(* The instruction fields the sequencer looks at.  bits: S, L, P, U, W, A    *)
(* as in the data sheet; "R" shift by register, "T" TST..CMN, "B" the SPSR   *)
(* form of MRS/MSR, "M" MSR, "C" MSR of the control field.                   *)
(* n: ALU operand, transfer offset, branch offset or Booth steps.            *)
Class == {"DP", "PSR", "MUL", "SWP", "SDT", "BDT", "BRANCH", "UNDEF", "SWI"}
Bits  == {"S", "L", "P", "U", "W", "A", "R", "T", "B", "M", "C"}

Insn == [cls : Class, rd : Reg, rn : Reg, n : Int, bits : SUBSET Bits,
         list : SUBSET Reg]

NoInsn == [cls |-> "SWI", rd |-> "r0", rn |-> "r0", n |-> 0, bits |-> {},
           list |-> {}]

(* Destination R15, of an operation that writes one *)
WritesPC(op) == op.rd = "pc" /\ "T" \notin op.bits

(* Post-indexing always writes the base back *)
WritesBack(op) == "P" \notin op.bits \/ "W" \in op.bits

(* The empty list transfers R15 and moves the base by 16 words *)
List(op) == IF op.list = {} THEN {"pc"} ELSE op.list
Words(op) == IF op.list = {} THEN 16 ELSE Cardinality(op.list)

UserBank(op) == "S" \in op.bits /\ ~("L" \in op.bits /\ "pc" \in List(op))

-----------------------------------------------------------------------------
(* The bus *)

Slot == [addr : Word, abort : BOOLEAN]

CycleType == {"N", "S", "I"}
BusFlag   == {"WRITE", "OPC", "LOCK", "USER"}

ZeroSlot == [addr |-> 0, abort |-> FALSE]

ASSUME SizeAssumption   == Size \in Nat /\ Size >= 8
ASSUME InsnAssumption   ==
  /\ Insns \subseteq Insn
  /\ \A op \in Insns : op.cls = "MUL" => op.n \in 1 .. 16
ASSUME DataAssumption   == Data \subseteq Word
ASSUME PsrAssumption    == Psrs \subseteq Psr
ASSUME AbortAssumption  == Aborts \subseteq BOOLEAN

=============================================================================
