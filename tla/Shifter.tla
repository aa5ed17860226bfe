------------------------------- MODULE Shifter -------------------------------
(***************************************************************************)
(* The barrel shifter twice: as the core model shifts (shift_imm, shift_reg *)
(* of model/src/arm7di.cpp, one rule for each type and amount) and as the   *)
(* RTL does (rtl/v1/wren7_shifter.sv, one right rotator and masks).  Words  *)
(* have W bits; a carry is 0 or 1.                                          *)
(***************************************************************************)
EXTENDS Integers

CONSTANT W   \* 32 in the processor

ASSUME WidthAssumption == \E k \in 2 .. 5 : W = 2^k

Values == 0 .. 2^W - 1
Types == {"LSL", "LSR", "ASR", "ROR"}

Bit(v, i) == (v \div 2^i) % 2
Sign(v) == Bit(v, W - 1)
Cut(v) == v % 2^W

Left(v, n) == Cut(v * 2^n)
Right(v, n) == v \div 2^n
Arithmetic(v, n) == Cut((v - Sign(v) * 2^W) \div 2^n)
Rotated(v, n) == Right(v, n) + Left(v, W - n)

Out(q, c) == [q |-> q, c |-> c]

-----------------------------------------------------------------------------
(* The core model.  An immediate 0 is LSL #0, LSR #32, ASR #32 and RRX.      *)

RotatedExtended(v, cin) == Out(cin * 2^(W - 1) + Right(v, 1), Bit(v, 0))

Within(v, t, n) ==
  CASE t = "LSL" -> Out(Left(v, n), Bit(v, W - n))
    [] t = "LSR" -> Out(Right(v, n), Bit(v, n - 1))
    [] t = "ASR" -> Out(Arithmetic(v, n), Bit(v, n - 1))
    [] t = "ROR" -> Out(Rotated(v, n), Bit(v, n - 1))

shift_imm(v, t, n, cin) ==
  IF n > 0 THEN Within(v, t, n)
  ELSE CASE t = "LSL" -> Out(v, cin)
         [] t = "LSR" -> Out(0, Sign(v))
         [] t = "ASR" -> Out(Arithmetic(v, W), Sign(v))
         [] t = "ROR" -> RotatedExtended(v, cin)

shift_reg(v, t, n, cin) ==
  CASE n = 0 -> Out(v, cin)
    [] t = "ROR" /\ n > 0 ->
         IF n % W = 0 THEN Out(v, Sign(v)) ELSE Within(v, t, n % W)
    [] t # "ROR" /\ n \in 1 .. W - 1 -> Within(v, t, n)
    [] t = "ASR" /\ n >= W -> Out(Arithmetic(v, W), Sign(v))
    [] t = "LSL" /\ n >= W -> Out(0, IF n = W THEN Bit(v, 0) ELSE 0)
    [] t = "LSR" /\ n >= W -> Out(0, IF n = W THEN Sign(v) ELSE 0)

-----------------------------------------------------------------------------
(* The RTL *)

(* Immediate encodings mapped onto the amounts of a register (ne) *)
EffectiveAsIs(t, n, imm) == n   \* mutant
Effective(t, n, imm) ==
  IF imm /\ n = 0 /\ t \in {"LSR", "ASR"} THEN W ELSE n

(* The rotator: a level for each bit of the amount r (s0 to s3, rot)         *)
Rotator(v, r) ==
  LET Level(u, i) == IF Bit(r, i) = 0 THEN u ELSE Rotated(u, 2^i)
  IN  Level(Level(Level(Level(Level(v, 0), 1), 2), 3), 4)

(* The bits the masks lo and hi clear or fill *)
LowCleared(v, n)  == v - (v % 2^n)
HighCleared(v, n) == v % 2^(W - n)
HighFilled(v, n)  == HighCleared(v, n) + (2^n - 1) * 2^(W - n)

wren7_shifter(v, t, n, imm, cin) ==
  LET ne  == Effective(t, n, imm)
      rot == Rotator(v, (IF t = "LSL" THEN -ne ELSE ne) % W)
      top == Sign(rot)
  IN  CASE imm /\ t = "ROR" /\ n = 0 -> RotatedExtended(v, cin)
        [] ne = 0 /\ ~(imm /\ t = "ROR") -> Out(v, cin)
        [] t = "LSL" /\ ne > 0 ->
             IF ne < W THEN Out(LowCleared(rot, ne), Bit(rot, 0))
             ELSE Out(0, IF ne = W THEN Bit(v, 0) ELSE 0)
        [] t = "LSR" /\ ne > 0 ->
             IF ne < W THEN Out(HighCleared(rot, ne), top)
             ELSE Out(0, IF ne = W THEN Sign(v) ELSE 0)
        [] t = "ASR" /\ ne > 0 ->
             IF ne < W
               THEN Out(IF Sign(v) = 1 THEN HighFilled(rot, ne)
                        ELSE HighCleared(rot, ne), top)
             ELSE Out(Sign(v) * (2^W - 1), Sign(v))
        [] t = "ROR" /\ ne > 0 -> Out(rot, top)

=============================================================================
