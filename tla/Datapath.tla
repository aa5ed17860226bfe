------------------------------ MODULE Datapath ------------------------------
(***************************************************************************)
(* The data path that the core model and the RTL core build differently:    *)
(* the operand's shift, the adder of the data operations, and the           *)
(* multiplier that shifts and adds in 2-bit Booth steps (c_mul of           *)
(* model/src/arm7di.cpp, S_MUL of rtl/v1/wren7_core.sv).  A behaviour is    *)
(* one operation, run by both at once; a step is an internal cycle.         *)
(***************************************************************************)
EXTENDS Shifter

CONSTANTS
  Multipliers,   \* Rs
  Operands,      \* Rm: what is multiplied, or shifted
  Addends,       \* MLA's Rn, or 0
  Amounts        \* of a shift by a register

ASSUME OperandAssumption ==
  /\ Multipliers \subseteq Values /\ Operands \subseteq Values
  /\ Addends \subseteq Values /\ Amounts \subseteq Nat

VARIABLES
  in,      \* the operation and its operands
  cpp,     \* the core model's latches: x_.acc, mul, borrow, flags; ended
  rtl      \* the RTL's: x_calc, x_base, x_borrow, flags; ended

dvars == <<in, cpp, rtl>>

Multiplication ==
  [op : {"MUL"}, rm : Operands, rs : Multipliers, acc : Addends,
   same : BOOLEAN, cin : {0, 1}]
Arithmetics == {"SUB", "CMP", "RSB", "ADD", "CMN", "ADC", "SBC", "RSC"}
DataOp ==
  [op : {"ALU"}, opc : Arithmetics, a : Operands, b : Multipliers,
   cin : {0, 1}]
Shift ==
  [op : {"SHIFT"}, rm : Operands, type : Types, imm : BOOLEAN,
   n : Amounts, cin : {0, 1}]

Latched(acc, rs) ==
  [acc |-> acc, mul |-> rs, borrow |-> 0, k |-> 0, c |-> 0, v |-> 0,
   ended |-> FALSE]

(* Cycle 1: Rd is initialised and Rs latched *)
DataInit ==
  \/ /\ in \in Multiplication
     /\ cpp = Latched(in.acc, in.rs) /\ rtl = Latched(in.acc, in.rs)
  \/ /\ in \in DataOp
     /\ cpp = Latched(0, 0) /\ rtl = Latched(0, 0)
  \/ /\ in \in Shift /\ (in.imm => in.n < W)
     /\ cpp = Latched(0, 0) /\ rtl = Latched(0, 0)

(* Rm is read again in every step, and Rd = Rm has the sum so far in it *)
Rm(s) == IF in.same THEN s.acc ELSE in.rm

(* add(): the sum, its carry and its signed overflow *)
Not(v) == 2^W - 1 - v
Added(a, b, cin) ==
  [q |-> Cut(a + b + cin), c |-> (a + b + cin) \div 2^W,
   v |-> IF Sign(a) = Sign(b) /\ Sign(Cut(a + b + cin)) # Sign(a)
         THEN 1 ELSE 0]

Digit == <<0, 1, 1, 2, -2, -1, -1, 0>>
Index(s) == 2 * (s.mul % 4) + s.borrow

Shifted(s, acc, c, ended) ==
  [s EXCEPT !.acc = acc, !.mul = s.mul \div 4, !.borrow = Bit(s.mul, 1),
            !.k = s.k + 1, !.c = c, !.ended = ended]

-----------------------------------------------------------------------------
(* The core model: the number of steps is settled in cycle 1 *)

Steps(rs) ==
  CHOOSE m \in 1 .. W \div 2 :
    /\ m = W \div 2 \/ rs \div 2^(2 * m - 1) = 0
    /\ \A l \in 1 .. m - 1 : rs \div 2^(2 * l - 1) # 0

(* dp_finish *)
CppSum(opc, a, b, cin) ==
  CASE opc \in {"SUB", "CMP"} -> Added(a, Not(b), 1)
    [] opc \in {"ADD", "CMN"} -> Added(a, b, 0)
    [] opc = "RSB" -> Added(b, Not(a), 1)
    [] opc = "ADC" -> Added(a, b, cin)
    [] opc = "SBC" -> Added(a, Not(b), cin)
    [] opc = "RSC" -> Added(b, Not(a), cin)

CppStep ==
  LET d  == Digit[Index(cpp) + 1]
      sh == 2 * cpp.k + (IF d \in {2, -2} THEN 1 ELSE 0)
      m  == Left(Rm(cpp), sh)
      sum == CASE d > 0 -> Cut(cpp.acc + m)
               [] d < 0 -> Cut(cpp.acc - m)
               [] d = 0 -> cpp.acc
  IN  cpp' = Shifted(cpp, sum, IF sh > 0 THEN Bit(Rm(cpp), W - sh) ELSE in.cin,
                     cpp.k + 1 = Steps(in.rs))

-----------------------------------------------------------------------------
(* The RTL: it stops when no multiplier bit is left, and subtracts by adding *)
(* the complement and a carry.                                               *)

LastUnseen == rtl.k = W \div 2 - 1 \/ rtl.mul \div 4 = 0   \* mutant
m_last == rtl.k = W \div 2 - 1 \/ rtl.mul \div 2 = 0

m_pos == Index(rtl) \in {1, 2, 3}
m_neg == Index(rtl) \in {4, 5, 6}
m_two == Index(rtl) \in {3, 4}

(* The adder's three inputs *)
RtlSum(opc, a, b, cin) ==
  LET reversed == opc \in {"RSB", "RSC"}
      ax == IF reversed THEN b ELSE a
      ay == IF opc \in {"SUB", "SBC", "CMP"} THEN Not(b)
            ELSE IF reversed THEN Not(a) ELSE b
      aci == IF opc \in {"SUB", "RSB", "CMP"} THEN 1
             ELSE IF opc \in {"ADC", "SBC", "RSC"} THEN cin ELSE 0
  IN  Added(ax, ay, aci)

RtlStep ==
  LET sh  == wren7_shifter(Rm(rtl), "LSL", 2 * rtl.k + (IF m_two THEN 1 ELSE 0),
                           FALSE, in.cin)
      sum == IF m_neg THEN Cut(rtl.acc + Not(sh.q) + 1)
                      ELSE Cut(rtl.acc + sh.q)
  IN  rtl' = Shifted(rtl, IF m_pos \/ m_neg THEN sum ELSE rtl.acc, sh.c, m_last)

-----------------------------------------------------------------------------
(* The steps the data sheet gives a multiplication (4.6.3), as timing_check  *)
(* counts them                                                               *)
datasheet_m(rs) ==
  IF rs <= 1 THEN 1
  ELSE IF rs >= 2^(W - 3) THEN W \div 2
  ELSE CHOOSE m \in 2 .. W \div 2 : rs \in 2^(2 * m - 3) .. 2^(2 * m - 1) - 1

MulStep ==
  /\ in.op = "MUL" /\ ~cpp.ended /\ ~rtl.ended
  /\ CppStep /\ RtlStep
  /\ UNCHANGED in

(* The second operand of a data operation *)
ShiftOnce ==
  /\ in.op = "SHIFT" /\ ~cpp.ended
  /\ LET one == IF in.imm THEN shift_imm(in.rm, in.type, in.n, in.cin)
                          ELSE shift_reg(in.rm, in.type, in.n, in.cin)
         two == wren7_shifter(in.rm, in.type, in.n, in.imm, in.cin)
     IN  /\ cpp' = [cpp EXCEPT !.acc = one.q, !.c = one.c, !.ended = TRUE]
         /\ rtl' = [rtl EXCEPT !.acc = two.q, !.c = two.c, !.ended = TRUE]
  /\ UNCHANGED in

Finished(s, out) ==
  [s EXCEPT !.acc = out.q, !.c = out.c, !.v = out.v, !.ended = TRUE]

ArithmeticOnce ==
  /\ in.op = "ALU" /\ ~cpp.ended
  /\ cpp' = Finished(cpp, CppSum(in.opc, in.a, in.b, in.cin))
  /\ rtl' = Finished(rtl, RtlSum(in.opc, in.a, in.b, in.cin))
  /\ UNCHANGED in

DataNext == MulStep \/ ShiftOnce \/ ArithmeticOnce

DataSpec == DataInit /\ [][DataNext]_dvars

-----------------------------------------------------------------------------
(* The two cores have the same result and the same flags after every step,   *)
(* and end in the same one: the early end that c_mul counts ahead and the    *)
(* RTL sees, the rotator with its masks against shifts, for every amount and *)
(* encoding, and Rm read again when it is Rd.                                *)
DatapathsAgree == cpp = rtl

Signed(v) == v - Sign(v) * 2^W

(* What an arithmetic operation computes: minus (a borrow) or plus (a carry) *)
Exact(opc, a, b, cin) ==
  CASE opc \in {"SUB", "CMP"} -> a - b
    [] opc \in {"ADD", "CMN"} -> a + b
    [] opc = "RSB" -> b - a
    [] opc = "ADC" -> a + b + cin
    [] opc = "SBC" -> a - b - (1 - cin)
    [] opc = "RSC" -> b - a - (1 - cin)

Adds(opc) == opc \in {"ADD", "ADC", "CMN"}

(* An operation ends with its result.  A multiplication: the product, after  *)
(* the data sheet's number of steps, so that what the early end leaves       *)
(* undone is nothing, the last borrow included; and with Rd = Rm, MUL gives  *)
(* 0 (c_mul and its comment).  A sum or difference: its value, C for a carry *)
(* or for no borrow, V for a signed result out of range (add() and its       *)
(* comment).                                                                 *)
ResultRight ==
  rtl.ended =>
    /\ in.op = "MUL" =>
         /\ rtl.k = datasheet_m(in.rs)
         /\ ~in.same => rtl.acc = Cut(in.acc + in.rm * in.rs)
         /\ in.same /\ in.acc = 0 => rtl.acc = 0
    /\ in.op = "ALU" =>
         LET u == Exact(in.opc, in.a, in.b, in.cin)
             s == Exact(in.opc, Signed(in.a), Signed(in.b), in.cin)
         IN  /\ rtl.acc = Cut(u)
             /\ rtl.c = 1 <=> u >= (IF Adds(in.opc) THEN 2^W ELSE 0)
             /\ rtl.v = 1 <=> s \notin -2^(W - 1) .. 2^(W - 1) - 1

=============================================================================
