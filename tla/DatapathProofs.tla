--------------------------- MODULE DatapathProofs ---------------------------
(***************************************************************************)
(* Theorems about the data path of both cores, for every operand, shift     *)
(* amount and type and for words of 4 to 32 bits.                           *)
(***************************************************************************)
EXTENDS Datapath, WellFoundedInduction, TLAPS

-----------------------------------------------------------------------------
(* Least elements *)

(* A set of naturals that is not empty has a least element *)
LEMMA Least ==
  ASSUME NEW T, T \subseteq Nat, T # {}
  PROVE  \E m \in T : \A l \in T : m <= l
<1>1. \E m \in T : \A l \in T : <<l, m>> \notin OpToRel(<, Nat)
  BY NatLessThanWellFounded, WFMin, Zenon
<1>2. PICK m \in T : \A l \in T : <<l, m>> \notin OpToRel(<, Nat)
  BY <1>1
<1>3. \A l \in T : ~(l < m)
  BY <1>2 DEF OpToRel
<1>4. QED
  BY <1>3

-----------------------------------------------------------------------------
(* Powers of two: a word has at most 32 bits, and so has a shift *)

Power(n) == 2^n

LEMMA Powers ==
  /\ Power(0) = 1 /\ Power(1) = 2 /\ Power(2) = 4 /\ Power(3) = 8
  /\ Power(4) = 16 /\ Power(5) = 32 /\ Power(6) = 64 /\ Power(7) = 128
  /\ Power(8) = 256 /\ Power(9) = 512 /\ Power(10) = 1024 /\ Power(11) = 2048
  /\ Power(12) = 4096 /\ Power(13) = 8192 /\ Power(14) = 16384 /\ Power(15) = 32768
  /\ Power(16) = 65536 /\ Power(17) = 131072 /\ Power(18) = 262144 /\ Power(19) = 524288
  /\ Power(20) = 1048576 /\ Power(21) = 2097152 /\ Power(22) = 4194304 /\ Power(23) = 8388608
  /\ Power(24) = 16777216 /\ Power(25) = 33554432 /\ Power(26) = 67108864 /\ Power(27) = 134217728
  /\ Power(28) = 268435456 /\ Power(29) = 536870912 /\ Power(30) = 1073741824 /\ Power(31) = 2147483648
  /\ Power(32) = 4294967296
BY SMT DEF Power

(* Powers grow by doubling *)
LEMMA Doubled ==
  ASSUME NEW n \in 0 .. 31, NEW m, m = n + 1
  PROVE  Power(m) = 2 * Power(n)
BY Powers, SMT

LEMMA PowerType ==
  ASSUME NEW n \in 0 .. 32
  PROVE  Power(n) \in Nat \ {0}
BY Powers, SMT

(* 2^(a + b) is a product *)
LEMMA PowerSum ==
  ASSUME NEW a \in 0 .. 32, NEW b \in 0 .. 32, NEW c \in 0 .. 32, c = a + b
  PROVE  Power(c) = Power(a) * Power(b)
<1> DEFINE Bad == {n \in 0 .. 32 : \E m, s \in 0 .. 32 :
                     s = m + n /\ Power(s) # Power(m) * Power(n)}
<1>1. SUFFICES ASSUME Bad # {}
               PROVE  FALSE
  OBVIOUS
<1>2. PICK n \in Bad : \A l \in Bad : n <= l
  <2>1. Bad \subseteq Nat
    OBVIOUS
  <2> HIDE DEF Bad
  <2>2. QED
    BY <1>1, <2>1, Least
<1>3. PICK m \in 0 .. 32, s \in 0 .. 32 : s = m + n /\ Power(s) # Power(m) * Power(n)
  BY <1>2
<1>4. CASE n = 0
  BY <1>3, <1>4, Powers, PowerType, SMT
<1>5. CASE n > 0
  <2>1. PICK p \in 0 .. 31, t \in 0 .. 31 : n = p + 1 /\ s = t + 1 /\ t = m + p
    BY <1>2, <1>3, <1>5
  <2>2. p \notin Bad
    BY <1>2, <2>1
  <2>3. Power(t) = Power(m) * Power(p)
    BY <1>3, <2>1, <2>2
  <2>4. Power(n) = 2 * Power(p) /\ Power(s) = 2 * Power(t)
    BY <2>1, Doubled
  <2>5. Power(m) \in Nat /\ Power(p) \in Nat
    BY <2>1, PowerType
  <2>6. Power(s) = Power(m) * Power(n)
    BY <2>3, <2>4, <2>5, SMT
  <2>7. QED
    BY <1>3, <2>6
<1>6. QED
  BY <1>2, <1>4, <1>5

LEMMA PowerOrder ==
  ASSUME NEW a \in 0 .. 32, NEW b \in 0 .. 32, a <= b
  PROVE  Power(a) <= Power(b)
BY Powers, SMT

(* The size of a word *)
LEMMA WidthType == W \in {4, 8, 16, 32} /\ W \div 2 \in {2, 4, 8, 16} /\ W = 2 * (W \div 2)
<1>1. PICK k \in 2 .. 5 : W = Power(k)
  BY WidthAssumption DEF Power
<1>2. W \in {4, 8, 16, 32}
  BY <1>1, Powers, SMT
<1>3. QED
  BY <1>2, SMT

(* The operators of Shifter, with the powers kept opaque *)
LEMMA WordType ==
  /\ Values = 0 .. Power(W) - 1 
  /\ \A v : Cut(v) = v % Power(W)
  /\ \A v, n : Left(v, n) = Cut(v * Power(n)) /\ Right(v, n) = v \div Power(n)
  /\ \A v, i : Bit(v, i) = (v \div Power(i)) % 2
BY Zenon DEF Values, Cut, Left, Right, Bit, Power

-----------------------------------------------------------------------------
(* Quotients, remainders and products *)

(* Quotient and rest *)
LEMMA Divided ==
  ASSUME NEW a \in Int, NEW s \in Nat \ {0}
  PROVE  /\ a \div s \in Int /\ a % s \in 0 .. s - 1
         /\ a = (a \div s) * s + (a % s)
<1>1. a \div s \in Int /\ a % s \in 0 .. s - 1
  OBVIOUS
<1>2. ASSUME NEW q, q = a \div s, NEW r, r = a % s
      PROVE  a = s * q + r
  BY <1>2
<1>3. ASSUME NEW q \in Int
      PROVE  s * q = q * s
  OBVIOUS
<1>4. QED
  BY <1>1, <1>2, <1>3, Zenon

LEMMA Ordered ==
  ASSUME NEW a \in Int, NEW b \in Int, a <= b, NEW c \in Nat
  PROVE  a * c <= b * c
OBVIOUS

(* There is only one *)
LEMMA OneQuotient ==
  ASSUME NEW s \in Nat \ {0}, NEW q \in Int, NEW u \in Int,
         NEW r \in 0 .. s - 1, NEW v \in 0 .. s - 1, s * q + r = s * u + v
  PROVE  q = u /\ r = v
OBVIOUS

(* The quotient and the remainder of a number written as such *)
LEMMA Quotient ==
  ASSUME NEW s \in Nat \ {0}, NEW q \in Int, NEW r \in 0 .. s - 1,
         NEW a \in Int, a = q * s + r
  PROVE  a \div s = q /\ a % s = r
<1>1. PICK u \in Int, v \in 0 .. s - 1 : u = a \div s /\ v = a % s
  BY Divided, Zenon
<1>2. a = u * s + v
  BY <1>1, Divided, Zenon
<1>3. s * q + r = s * u + v
  BY <1>2
<1>4. q = u /\ r = v
  BY <1>3, OneQuotient
<1>5. QED
  BY <1>1, <1>4

(* Two parts of a word change places *)
LEMMA Halves ==
  ASSUME NEW P \in Nat \ {0}, NEW Q \in Nat \ {0}, NEW N \in Nat \ {0}, N = P * Q,
         NEW hi \in 0 .. Q - 1, NEW lo \in 0 .. P - 1, NEW v, v = hi * P + lo
  PROVE  /\ v \in 0 .. N - 1 /\ hi + lo * Q \in 0 .. N - 1
         /\ (v * Q) % N = lo * Q
<1>2. PICK h \in Nat : h = hi * P
  OBVIOUS
<1>3. PICK l \in Nat : l = lo * Q
  OBVIOUS
<1>4. h <= N - P
  <2>1. hi * P <= (Q - 1) * P
    BY Ordered
  <2>2. (Q - 1) * P = P * Q - P
    OBVIOUS
  <2>3. QED
    BY <1>2, <2>1, <2>2
<1>5. l <= N - Q
  <2>1. lo * Q <= (P - 1) * Q
    BY Ordered
  <2>2. (P - 1) * Q = P * Q - Q
    OBVIOUS
  <2>3. QED
    BY <1>3, <2>1, <2>2
<1>6. (h + lo) * Q = hi * N + l
  <2>1. (hi * P + lo) * Q = hi * (P * Q) + lo * Q
    OBVIOUS
  <2>2. QED
    BY <1>2, <1>3, <2>1
<1>7. PICK a \in Int : a = (h + lo) * Q
  OBVIOUS
<1>8. a % N = l
  <2>1. hi \in Int /\ l \in 0 .. N - 1 /\ a = hi * N + l
    BY <1>5, <1>6, <1>7
  <2>2. QED
    BY <2>1, Quotient, Zenon
<1>9. QED
  BY <1>2, <1>3, <1>4, <1>5, <1>7, <1>8

-----------------------------------------------------------------------------
(* Rotation: a word cut at bit n, its two parts exchanged *)

Cuts(v, n, m, hi, lo) ==
  /\ hi \in 0 .. Power(m) - 1 /\ lo \in 0 .. Power(n) - 1
  /\ v = hi * Power(n) + lo

(* A word of w bits is cut into n and m bits *)
LEMMA Parts ==
  ASSUME NEW w \in 0 .. W, NEW n \in 0 .. W, NEW m \in 0 .. W, w = n + m
  PROVE  /\ Power(n) \in Nat \ {0} /\ Power(m) \in Nat \ {0}
         /\ Power(w) = Power(n) * Power(m)
<1>1. n \in 0 .. 32 /\ m \in 0 .. 32 /\ w \in 0 .. 32
  BY WidthType
<1>2. QED
  BY <1>1, PowerType, PowerSum

(* Every word can be cut into a high and a low part *)
LEMMA CutAt ==
  ASSUME NEW w \in 0 .. W, NEW n \in 0 .. W, NEW m \in 0 .. W, w = n + m,
         NEW v \in 0 .. Power(w) - 1
  PROVE  \E hi, lo \in Nat : Cuts(v, n, m, hi, lo)
<1>1. PICK P \in Nat \ {0}, Q \in Nat \ {0} :
        P = Power(n) /\ Q = Power(m) /\ Power(w) = P * Q
  BY Parts
<1>2. PICK hi \in Int, lo \in 0 .. P - 1 : v = hi * P + lo
  <2>1. v \in Int
    BY <1>1
  <2>2. QED
    BY <2>1, Divided
<1>3. 0 <= v /\ v < P * Q
  BY <1>1
<1>4. hi >= 0
  <2>1. ASSUME hi <= -1
        PROVE  FALSE
    <3>1. hi * P <= (-1) * P
      BY <2>1, Ordered
    <3>2. QED
      BY <3>1, <1>2, <1>3
  <2>2. QED
    BY <2>1
<1>5. hi < Q
  <2>1. ASSUME Q <= hi
        PROVE  FALSE
    <3>1. Q * P <= hi * P
      BY <2>1, Ordered
    <3>2. QED
      BY <3>1, <1>2, <1>3
  <2>2. QED
    BY <2>1
<1>6. QED
  BY <1>1, <1>2, <1>4, <1>5 DEF Cuts

(* A rotation exchanges the two parts *)
LEMMA RotatedIs ==
  ASSUME NEW n \in 0 .. W, NEW m \in 0 .. W, W = n + m,
         NEW hi \in Nat, NEW lo \in Nat, NEW v, Cuts(v, n, m, hi, lo)
  PROVE  /\ v \in Values /\ Right(v, n) = hi /\ Left(v, m) = lo * Power(m)
         /\ Rotated(v, n) = hi + lo * Power(m) /\ Rotated(v, n) \in Values
<1>1. PICK P \in Nat \ {0}, Q \in Nat \ {0} :
        P = Power(n) /\ Q = Power(m) /\ Power(W) = P * Q
  <2>1. W \in 0 .. W
    BY WidthType
  <2>2. /\ Power(n) \in Nat \ {0} /\ Power(m) \in Nat \ {0}
        /\ Power(W) = Power(n) * Power(m)
    BY <2>1, Parts
  <2>3. QED
    BY <2>2
<1>n. PICK N \in Nat \ {0} : N = P * Q /\ N = Power(W) /\ Values = 0 .. N - 1
  BY <1>1, WordType
<1>2. hi \in 0 .. Q - 1 /\ lo \in 0 .. P - 1 /\ v = hi * P + lo
  BY <1>1 DEF Cuts
<1>3. v \in Values /\ hi + lo * Q \in Values /\ (v * Q) % N = lo * Q
  <2>1. v \in 0 .. N - 1 /\ hi + lo * Q \in 0 .. N - 1 /\ (v * Q) % N = lo * Q
    BY <1>2, <1>n, Halves
  <2>2. QED
    BY <2>1, <1>n, Zenon
<1>4. Right(v, n) = hi
  <2>1. v \in Int /\ hi \in Int
    BY <1>2
  <2>2. v \div P = hi
    BY <1>2, <2>1, Quotient, Zenon
  <2>3. QED
    BY <1>1, <2>2, WordType
<1>5. Left(v, m) = lo * Q
  BY <1>1, <1>3, <1>n, WordType, Zenon
<1>6. Rotated(v, n) = hi + lo * Q
  <2>1. m = W - n
    BY WidthType
  <2>2. Rotated(v, n) = Right(v, n) + Left(v, m)
    BY <2>1, Zenon DEF Rotated
  <2>3. QED
    BY <1>4, <1>5, <2>2
<1>7. QED
  BY <1>1, <1>3, <1>4, <1>5, <1>6, Zenon

(* Two rotations are one by the sum *)
LEMMA RotatedTwice ==
  ASSUME NEW a \in 0 .. W, NEW b \in 0 .. W, NEW s \in 0 .. W, s = a + b,
         NEW v \in Values
  PROVE  Rotated(Rotated(v, a), b) = Rotated(v, s)
<1>1. PICK c \in 0 .. W, bc \in 0 .. W, ac \in 0 .. W :
        /\ W = s + c /\ bc = b + c /\ ac = a + c /\ W = a + bc /\ W = b + ac
        /\ W \in 0 .. W
  <2>1. W - s \in 0 .. W /\ W - a \in 0 .. W /\ W - b \in 0 .. W
    BY WidthType
  <2>2. /\ W = s + (W - s) /\ W - a = b + (W - s) /\ W - b = a + (W - s)
        /\ W = a + (W - a) /\ W = b + (W - b) /\ W \in 0 .. W
    BY WidthType
  <2> WITNESS W - s \in 0 .. W, W - a \in 0 .. W, W - b \in 0 .. W
  <2>3. QED
    BY <2>2
<1>2. PICK A \in Nat \ {0}, B \in Nat \ {0}, C \in Nat \ {0} :
        A = Power(a) /\ B = Power(b) /\ C = Power(c)
  BY <1>1, Parts
<1>3. Power(s) = A * B /\ Power(bc) = B * C /\ Power(ac) = A * C
  BY <1>1, <1>2, Parts
<1>4. PICK t \in Nat, l \in Nat : Cuts(v, a, bc, t, l)
  BY <1>1, CutAt, WordType
<1>5. PICK h \in Nat, m \in Nat : Cuts(t, b, c, h, m)
  <2>1. t \in 0 .. Power(bc) - 1
    BY <1>4 DEF Cuts
  <2>2. QED
    BY <2>1, <1>1, CutAt
<1>6. /\ h \in 0 .. C - 1 /\ m \in 0 .. B - 1 /\ l \in 0 .. A - 1
      /\ t = h * B + m /\ v = t * A + l
  BY <1>2, <1>4, <1>5 DEF Cuts
<1>7. PICK u \in Nat : u = t + l * (B * C) /\ u = Rotated(v, a)
  <2>1. Rotated(v, a) = t + l * Power(bc)
    BY <1>1, <1>4, RotatedIs
  <2>2. QED
    BY <2>1, <1>3
<1>8. PICK lc \in Nat : lc = l * C
  OBVIOUS
<1>9. PICK ma \in Nat : ma = m * A
  OBVIOUS
<1>10. h + lc \in 0 .. A * C - 1
  <2>1. PICK N \in Nat \ {0}, z \in Nat : N = A * C /\ z = h * A + l
    OBVIOUS
  <2>2. h + l * C \in 0 .. N - 1
    BY <1>6, <2>1, Halves
  <2>3. QED
    BY <1>8, <2>1, <2>2
<1>11. ma + l \in 0 .. A * B - 1
  <2>1. PICK N \in Nat \ {0}, z \in Nat : N = A * B /\ z = m * A + l
    OBVIOUS
  <2>2. z \in 0 .. N - 1
    BY <1>6, <2>1, Halves
  <2>3. QED
    BY <1>9, <2>1, <2>2
<1>12. Rotated(u, b) = (h + lc) + m * (A * C)
  <2>1. u = (h + lc) * B + m
    BY <1>6, <1>7, <1>8
  <2>2. PICK hl \in Nat : hl = h + lc
    OBVIOUS
  <2>3. Cuts(u, b, ac, hl, m)
    BY <2>1, <2>2, <1>2, <1>3, <1>6, <1>10 DEF Cuts
  <2>4. Rotated(u, b) = hl + m * Power(ac)
    BY <2>3, <1>1, RotatedIs
  <2>5. QED
    BY <2>2, <2>4, <1>3
<1>13. Rotated(v, s) = h + (ma + l) * C
  <2>1. v = h * (A * B) + (ma + l)
    BY <1>6, <1>9
  <2>2. PICK ml \in Nat : ml = ma + l
    OBVIOUS
  <2>3. Cuts(v, s, c, h, ml)
    BY <2>1, <2>2, <1>2, <1>3, <1>6, <1>11 DEF Cuts
  <2>4. Rotated(v, s) = h + ml * Power(c)
    BY <2>3, <1>1, RotatedIs
  <2>5. QED
    BY <2>2, <2>4, <1>2
<1>14. (h + lc) + m * (A * C) = h + (ma + l) * C
  BY <1>8, <1>9
<1>15. QED
  BY <1>7, <1>12, <1>13, <1>14

(* The levels of the rotator: after level i the word is rotated by the bits  *)
(* up to i of the amount                                                     *)
LEMMA LowBits ==
  ASSUME NEW r \in 0 .. W - 1, NEW i \in 0 .. 4, NEW j, j = i + 1
  PROVE  /\ Bit(r, i) \in {0, 1}
         /\ r % Power(j) = (r % Power(i)) + (IF Bit(r, i) = 0 THEN 0 ELSE Power(i))
         /\ r % Power(j) \in 0 .. r /\ r % Power(i) \in 0 .. r
         /\ Bit(r, i) # 0 => Power(i) \in 0 .. r
<1>1. r \in Nat
  BY WidthType
<1>2. \A p \in {1, 2, 4, 8, 16} :
        LET b == (r \div p) % 2
        IN  /\ b \in {0, 1}
            /\ r % (2 * p) = (r % p) + (IF b = 0 THEN 0 ELSE p)
            /\ r % (2 * p) \in 0 .. r /\ r % p \in 0 .. r
            /\ b # 0 => p \in 0 .. r
  BY <1>1, SMT
<1>3. Power(i) \in {1, 2, 4, 8, 16} /\ Power(j) = 2 * Power(i)
  BY Powers, SMT
<1>4. Bit(r, i) = (r \div Power(i)) % 2
  BY WordType, Zenon
<1>5. QED
  BY <1>2, <1>3, <1>4

(* One level of the rotator: one more bit of the amount *)
LEMMA RotatorLevel ==
  ASSUME NEW v \in Values, NEW r \in 0 .. W - 1, NEW i \in 0 .. 4,
         NEW j, j = i + 1, NEW u, u = Rotated(v, r % Power(i))
  PROVE  (IF Bit(r, i) = 0 THEN u ELSE Rotated(u, 2^i)) = Rotated(v, r % Power(j))
<1>1. PICK l \in 0 .. r, s \in 0 .. r : l = r % Power(i) /\ s = r % Power(j)
  BY LowBits
<1>2. CASE Bit(r, i) = 0
  <2>1. s = l
    BY <1>1, <1>2, LowBits
  <2>2. QED
    BY <1>1, <1>2, <2>1
<1>3. CASE Bit(r, i) # 0
  <2>1. PICK p \in 0 .. r : p = Power(i) /\ s = l + p
    BY <1>1, <1>3, LowBits
  <2>2. l \in 0 .. W /\ p \in 0 .. W /\ s \in 0 .. W
    BY WidthType
  <2>3. Rotated(Rotated(v, l), p) = Rotated(v, s)
    BY <2>1, <2>2, RotatedTwice
  <2>4. p = 2^i
    BY <2>1 DEF Power
  <2>5. QED
    BY <1>1, <1>3, <2>3, <2>4, Zenon
<1>4. QED
  BY <1>2, <1>3

LEMMA RotatedNot ==
  ASSUME NEW v \in Values
  PROVE  Rotated(v, 0) = v
<1>1. PICK N \in Nat \ {0} : N = Power(W) /\ Values = 0 .. N - 1
  <2>1. W \in 0 .. 32
    BY WidthType
  <2>2. Power(W) \in Nat \ {0}
    BY <2>1, PowerType
  <2>3. QED
    BY <2>2, WordType
<1>2. v \in Nat /\ Right(v, 0) = v
  <2>1. Right(v, 0) = v \div Power(0)
    BY WordType, Zenon
  <2>2. QED
    BY <2>1, <1>1, Powers
<1>3. Left(v, W) = 0
  <2>1. PICK a \in Int : a = v * N
    BY <1>2
  <2>2. a % N = 0
    <3>1. 0 \in 0 .. N - 1 /\ a = v * N + 0 /\ v \in Int
      BY <1>2, <2>1
    <3>2. QED
      BY <3>1, Quotient, Zenon
  <2>3. Left(v, W) = (v * N) % N
    BY <1>1, WordType, Zenon
  <2>4. QED
    BY <2>1, <2>2, <2>3, Zenon
<1>4. W - 0 = W
  BY WidthType
<1>5. Rotated(v, 0) = Right(v, 0) + Left(v, W)
  BY <1>4, Zenon DEF Rotated
<1>6. QED
  BY <1>2, <1>3, <1>5

(* The five levels rotate by the whole amount *)
LEMMA RotatorIs ==
  ASSUME NEW v \in Values, NEW r \in 0 .. W - 1
  PROVE  Rotator(v, r) = Rotated(v, r)
<1> DEFINE Level(u, i) == IF Bit(r, i) = 0 THEN u ELSE Rotated(u, 2^i)
           s0 == Level(v, 0)
           s1 == Level(s0, 1)
           s2 == Level(s1, 2)
           s3 == Level(s2, 3)
           rot == Level(s3, 4)
<1>1. Rotator(v, r) = rot
  BY Zenon DEF Rotator
<1>2. v = Rotated(v, r % Power(0))
  <2>1. r % Power(0) = 0
    BY Powers, WidthType
  <2>2. QED
    BY <2>1, RotatedNot
<1>3. ASSUME NEW i \in 0 .. 4, NEW j, j = i + 1, NEW u, u = Rotated(v, r % Power(i))
      PROVE  Level(u, i) = Rotated(v, r % Power(j))
  BY <1>3, RotatorLevel
<1>4. s0 = Rotated(v, r % Power(1))
  <2> HIDE DEF Level
  <2>1. QED
    BY <1>2, <1>3
<1>5. s1 = Rotated(v, r % Power(2))
  <2> HIDE DEF Level, s0
  <2>1. QED
    BY <1>4, <1>3
<1>6. s2 = Rotated(v, r % Power(3))
  <2> HIDE DEF Level, s1
  <2>1. QED
    BY <1>5, <1>3
<1>7. s3 = Rotated(v, r % Power(4))
  <2> HIDE DEF Level, s2
  <2>1. QED
    BY <1>6, <1>3
<1>8. rot = Rotated(v, r % Power(5))
  <2> HIDE DEF Level, s3
  <2>1. QED
    BY <1>7, <1>3
<1>9. r % Power(5) = r
  BY Powers, WidthType
<1>10. QED
  BY <1>1, <1>8, <1>9, Zenon

-----------------------------------------------------------------------------
(* The shifts by less than a word: the rotator and the masks of the RTL give *)
(* what the core model's shifts give, and so does the carry                  *)

LEMMA WordSize ==
  /\ W \in 0 .. W /\ Power(W) \in Nat \ {0} /\ Values \subseteq Nat
<1>1. W \in 0 .. W /\ W \in 0 .. 32
  BY WidthType
<1>2. Power(W) \in Nat \ {0}
  BY <1>1, PowerType
<1>3. QED
  BY <1>1, <1>2, WordType

LEMMA BitType ==
  ASSUME NEW v \in Nat, NEW i \in 0 .. W
  PROVE  Bit(v, i) \in {0, 1}
<1>1. i \in 0 .. 32
  BY WidthType
<1>2. PICK p \in Nat \ {0} : p = Power(i)
  BY <1>1, PowerType
<1>3. PICK q \in Int : q = v \div p
  BY <1>2, Divided
<1>4. Bit(v, i) = q % 2
  BY <1>2, <1>3, WordType, Zenon
<1>5. QED
  BY <1>4

(* LSL: rotate right by W - n, and clear the low bits *)
LEMMA LeftShift ==
  ASSUME NEW v \in Values, NEW n \in 1 .. W - 1, NEW m \in 1 .. W - 1, W = m + n
  PROVE  /\ LowCleared(Rotator(v, m), n) = Left(v, n)
         /\ Bit(Rotator(v, m), 0) = Bit(v, m)
<1>1. /\ n \in 0 .. W /\ m \in 0 .. W /\ m \in 0 .. W - 1 /\ n \in 1 .. 32
      /\ W = m + n /\ W \in 0 .. W
  BY WidthType
<1>2. PICK hi \in Nat, lo \in Nat : Cuts(v, m, n, hi, lo)
  BY <1>1, WordType, CutAt
<1>3. PICK p \in Nat \ {0} : p = Power(n)
  BY <1>1, Parts
<1>4. hi \in 0 .. p - 1
  BY <1>2, <1>3 DEF Cuts
<1>5. PICK rot : rot = Rotator(v, m)
  OBVIOUS
<1>6. rot = hi + lo * p /\ Left(v, n) = lo * p /\ Right(v, m) = hi
  <2>1. rot = Rotated(v, m)
    BY <1>1, <1>5, RotatorIs
  <2>2. QED
    BY <2>1, <1>1, <1>2, <1>3, RotatedIs
<1>7. rot \in Int /\ rot % p = hi
  <2>1. rot = lo * p + hi /\ rot \in Int /\ lo \in Int
    BY <1>4, <1>6
  <2>2. QED
    BY <2>1, <1>4, Quotient, Zenon
<1>8. LowCleared(rot, n) = rot - hi
  BY <1>3, <1>7, Zenon DEF LowCleared, Power
<1>9. rot % 2 = hi % 2
  <2>1. PICK k \in 0 .. 31 : n = k + 1
    BY <1>1
  <2>2. PICK h \in Nat : h = Power(k)
    BY <2>1, PowerType
  <2>3. p = 2 * h
    BY <1>3, <2>1, <2>2, Doubled
  <2>4. PICK z \in Int : z = lo * h
    BY <2>2
  <2>5. rot = hi + 2 * z
    BY <1>6, <2>2, <2>3, <2>4
  <2>6. QED
    BY <2>5
<1>10. Bit(rot, 0) = rot % 2
  <2>1. Bit(rot, 0) = (rot \div Power(0)) % 2
    BY WordType, Zenon
  <2>2. Power(0) = 1 /\ rot \div 1 = rot
    BY <1>7, Powers
  <2>3. QED
    BY <2>1, <2>2, Zenon
<1>11. Bit(v, m) = hi % 2
  BY <1>6, WordType, Zenon
<1>12. LowCleared(rot, n) = Left(v, n)
  BY <1>6, <1>7, <1>8
<1>13. QED
  BY <1>5, <1>9, <1>10, <1>11, <1>12, Zenon

(* LSR and ASR: rotate, and clear or fill the high bits; the carry is the top *)
LEMMA RightShift ==
  ASSUME NEW v \in Values, NEW n \in 1 .. W - 1
  PROVE  /\ Rotator(v, n) = Rotated(v, n)
         /\ HighCleared(Rotator(v, n), n) = Right(v, n)
         /\ Sign(v) = 0 => HighCleared(Rotator(v, n), n) = Arithmetic(v, n)
         /\ Sign(v) = 1 => HighFilled(Rotator(v, n), n) = Arithmetic(v, n)
         /\ Sign(Rotator(v, n)) = Bit(v, n - 1)
<1>1. PICK m \in 1 .. W - 1, k \in 0 .. W - 1, w \in 0 .. W - 1 :
        m = W - n /\ k = n - 1 /\ w = W - 1
  BY WidthType
<1>2. /\ n \in 0 .. W /\ m \in 0 .. W /\ n \in 0 .. W - 1 /\ W = n + m
      /\ W \in 0 .. W /\ n \in 1 .. 32 /\ k \in 0 .. 31 /\ w \in 0 .. 31
      /\ n = k + 1 /\ W = w + 1 /\ w = k + m /\ k \in 0 .. W /\ w \in 0 .. W
  BY <1>1, WidthType
<1>3. PICK hi \in Nat, lo \in Nat : Cuts(v, n, m, hi, lo)
  BY <1>2, WordType, CutAt
<1>4. PICK P \in Nat \ {0}, Q \in Nat \ {0}, h \in Nat \ {0}, N \in Nat \ {0},
           H \in Nat \ {0} :
        P = Power(n) /\ Q = Power(m) /\ h = Power(k) /\ N = Power(W) /\ H = Power(w)
  <2>1. Power(n) \in Nat \ {0} /\ Power(m) \in Nat \ {0}
    BY <1>2, Parts
  <2>2. Power(k) \in Nat \ {0} /\ Power(w) \in Nat \ {0}
    <3>1. k \in 0 .. 32 /\ w \in 0 .. 32
      BY <1>2
    <3>2. QED
      BY <3>1, PowerType
  <2>3. QED
    BY <2>1, <2>2, WordSize
<1>5. P = 2 * h /\ N = 2 * H /\ N = P * Q /\ H = h * Q
  <2>1. P = 2 * h /\ N = 2 * H
    BY <1>2, <1>4, Doubled
  <2>2. N = P * Q
    BY <1>2, <1>4, Parts
  <2>3. H = h * Q
    BY <1>2, <1>4, Parts
  <2>4. QED
    BY <2>1, <2>2, <2>3
<1>6. hi \in 0 .. Q - 1 /\ lo \in 0 .. P - 1 /\ v = hi * P + lo
  BY <1>3, <1>4 DEF Cuts
<1>7. PICK rot \in Nat : rot = Rotator(v, n) /\ rot = Rotated(v, n)
  <2>1. Rotator(v, n) = Rotated(v, n) /\ Rotated(v, n) \in Values
    BY <1>2, <1>3, RotatorIs, RotatedIs
  <2>2. QED
    BY <2>1, WordSize
<1>8. rot = lo * Q + hi /\ Right(v, n) = hi
  BY <1>2, <1>3, <1>4, <1>7, RotatedIs
<1>9. HighCleared(rot, n) = hi
  <2>1. rot % Q = hi
    <3>1. /\ lo \in Int /\ rot \in Int /\ Q \in Nat \ {0}
          /\ hi \in 0 .. Q - 1 /\ rot = lo * Q + hi
      BY <1>4, <1>6, <1>7, <1>8
    <3>2. QED
      BY <3>1, Quotient, Zenon
  <2>2. QED
    BY <1>1, <1>4, <2>1, Zenon DEF HighCleared, Power
<1>10. Sign(rot) = Bit(v, n - 1)
  <2>1. PICK b \in {0, 1}, l \in 0 .. h - 1 : lo = b * h + l
    <3>1. CASE lo < h
      BY <3>1
    <3>2. CASE h <= lo
      <4>1. lo - h \in 0 .. h - 1
        BY <3>2, <1>5, <1>6
      <4>2. QED
        BY <4>1
    <3>3. QED
      BY <3>1, <3>2
  <2>2. Bit(v, k) = b
    <3>1. v = (hi * 2 + b) * h + l
      <4>1. hi * (2 * h) = (hi * 2) * h
        OBVIOUS
      <4>2. QED
        BY <4>1, <1>5, <1>6, <2>1
    <3>2. PICK q \in Int : q = hi * 2 + b
      OBVIOUS
    <3>3. v \in Int
      BY <1>6
    <3>4. v \div h = q
      <4>1. /\ v \in Int /\ q \in Int /\ h \in Nat \ {0} /\ l \in 0 .. h - 1
            /\ v = q * h + l
        BY <3>1, <3>2, <3>3, <1>4, <2>1
      <4>2. QED
        BY <4>1, Quotient, Zenon
    <3>5. Bit(v, k) = q % 2
      BY <1>4, <3>4, WordType, Zenon
    <3>6. q % 2 = b
      BY <3>2
    <3>7. QED
      BY <3>5, <3>6, Zenon
  <2>3. Bit(rot, w) = b
    <3>1. PICK r \in 0 .. H - 1 : r = l * Q + hi
      <4>1. hi + l * Q \in 0 .. H - 1
        <5>1. PICK z \in Nat : z = hi * h + l
          OBVIOUS
        <5>2. QED
          BY <5>1, <1>5, <1>6, Halves
      <4>2. QED
        BY <4>1
    <3>2. rot = b * H + r
      <4>1. (b * h + l) * Q = b * (h * Q) + l * Q
        OBVIOUS
      <4>2. QED
        BY <4>1, <1>5, <1>8, <2>1, <3>1
    <3>3. rot \div H = b
      <4>1. b \in Int /\ rot \in Int
        OBVIOUS
      <4>2. QED
        BY <4>1, <3>1, <3>2, Quotient, Zenon
    <3>4. Bit(rot, w) = b % 2
      BY <1>4, <3>3, WordType, Zenon
    <3>5. QED
      BY <3>4
  <2>4. QED
    BY <1>1, <2>2, <2>3, Zenon DEF Sign
<1>11. Arithmetic(v, n) = Cut((v - Sign(v) * N) \div P)
  BY <1>4, Zenon DEF Arithmetic, Power
<1>12. Q <= N
  <2>1. 1 * Q <= P * Q
    BY Ordered
  <2>2. QED
    BY <2>1, <1>5
<1>13. Sign(v) = 0 => Arithmetic(v, n) = hi
  <2>1. SUFFICES ASSUME Sign(v) = 0
                 PROVE  Arithmetic(v, n) = hi
    OBVIOUS
  <2>2. v - Sign(v) * N = v
    BY <2>1, <1>6
  <2>3. v \div P = hi
    BY <1>4, <1>8, WordType, Zenon
  <2>4. hi % N = hi
    BY <1>6, <1>12
  <2>5. QED
    BY <1>4, <1>11, <2>2, <2>3, <2>4, WordType, Zenon
<1>14. Sign(v) = 1 => Arithmetic(v, n) = hi + N - Q
  <2>1. SUFFICES ASSUME Sign(v) = 1
                 PROVE  Arithmetic(v, n) = hi + N - Q
    OBVIOUS
  <2>2. PICK a \in Int, q \in Int : a = v - Sign(v) * N /\ q = hi - Q
    BY <2>1, <1>6
  <2>3. a = q * P + lo
    <3>1. (hi - Q) * P = hi * P - P * Q
      OBVIOUS
    <3>2. QED
      BY <3>1, <2>1, <2>2, <1>5, <1>6
  <2>4. a \div P = q
    <3>1. /\ a \in Int /\ q \in Int /\ P \in Nat \ {0} /\ lo \in 0 .. P - 1
          /\ a = q * P + lo
      BY <2>2, <2>3, <1>4, <1>6
    <3>2. QED
      BY <3>1, Quotient, Zenon
  <2>5. q % N = hi + N - Q
    <3>1. hi + N - Q \in 0 .. N - 1
      BY <1>6, <1>12
    <3>2. PICK r \in 0 .. N - 1 : r = hi + N - Q
      BY <3>1
    <3>3. q = (-1) * N + r
      BY <2>2, <3>2
    <3>4. q % N = r
      BY <3>3, Quotient
    <3>5. QED
      BY <3>2, <3>4
  <2>6. QED
    BY <1>4, <1>11, <2>2, <2>4, <2>5, WordType, Zenon
<1>15. HighFilled(rot, n) = hi + N - Q
  <2>1. HighFilled(rot, n) = HighCleared(rot, n) + (P - 1) * Q
    BY <1>1, <1>4, Zenon DEF HighFilled, Power
  <2>2. (P - 1) * Q = P * Q - Q
    OBVIOUS
  <2>3. QED
    BY <2>1, <2>2, <1>5, <1>9
<1>16. QED
  BY <1>7, <1>8, <1>9, <1>10, <1>13, <1>14, <1>15, Zenon

-----------------------------------------------------------------------------
(* The two shifters *)

(* The amount the RTL rotates by *)
LEMMA Amount ==
  ASSUME NEW n \in Nat, NEW t \in Types, t # "LSL" \/ n \in 1 .. W - 1
  PROVE  /\ (IF t = "LSL" THEN -n ELSE n) % W \in 0 .. W - 1
         /\ t = "LSL" => (IF t = "LSL" THEN -n ELSE n) % W = W - n
         /\ t # "LSL" => (IF t = "LSL" THEN -n ELSE n) % W = n % W
         /\ n < W => n % W = n
<1>1. W \in Nat \ {0} /\ -n \in Int
  BY WidthType
<1>2. n % W \in 0 .. W - 1 /\ (n < W => n % W = n)
  BY <1>1
<1>3. CASE t = "LSL"
  <2>1. W - n \in 0 .. W - 1 /\ -n = (-1) * W + (W - n) /\ -1 \in Int
    BY <1>1, <1>3
  <2>2. PICK r \in 0 .. W - 1, a \in Int, q \in Int :
          r = W - n /\ a = -n /\ q = -1 /\ a = q * W + r
    BY <2>1, <1>1
  <2>3. a % W = r
    BY <1>1, <2>2, Quotient
  <2>4. QED
    BY <1>2, <1>3, <2>2, <2>3
<1>4. CASE t # "LSL"
  BY <1>2, <1>4
<1>5. QED
  BY <1>3, <1>4

(* Amounts below the width, and those of at least the width *)
LEMMA LessThanWord ==
  ASSUME NEW v \in Values, NEW t \in Types, NEW n \in 1 .. W - 1,
         NEW imm \in BOOLEAN, NEW cin \in {0, 1}
  PROVE  wren7_shifter(v, t, n, imm, cin) = Within(v, t, n)
<1>1. n \in Nat /\ n > 0 /\ n < W /\ n # 0
  BY WidthType
<1>2. Effective(t, n, imm) = n
  BY <1>1 DEF Effective
<1> DEFINE r == (IF t = "LSL" THEN -n ELSE n) % W
           rot == Rotator(v, r)
<1>3. r \in 0 .. W - 1 /\ r = IF t = "LSL" THEN W - n ELSE n
  BY <1>1, Amount
<1> HIDE DEF r
<1>4. wren7_shifter(v, t, n, imm, cin) =
        CASE t = "LSL" -> Out(LowCleared(rot, n), Bit(rot, 0))
          [] t = "LSR" -> Out(HighCleared(rot, n), Sign(rot))
          [] t = "ASR" -> Out(IF Sign(v) = 1 THEN HighFilled(rot, n)
                              ELSE HighCleared(rot, n), Sign(rot))
          [] t = "ROR" -> Out(rot, Sign(rot))
  BY <1>1, <1>2 DEF wren7_shifter, r, Types
<1>5. CASE t = "LSL"
  <2>1. PICK m \in 1 .. W - 1 : m = W - n /\ W = m + n
    <3>1. W - n \in 1 .. W - 1 /\ W = (W - n) + n
      BY WidthType
    <3>2. QED
      BY <3>1, Zenon
  <2>2. LowCleared(Rotator(v, m), n) = Left(v, n) /\ Bit(Rotator(v, m), 0) = Bit(v, m)
    BY <2>1, LeftShift
  <2>3. r = m
    BY <1>3, <1>5, <2>1
  <2>4. Within(v, t, n) = Out(Left(v, n), Bit(v, m))
    BY <1>5, <2>1 DEF Within
  <2>5. QED
    BY <1>4, <1>5, <2>2, <2>3, <2>4
<1>6. CASE t # "LSL"
  <2>1. r = n
    BY <1>3, <1>6
  <2>2. /\ rot = Rotated(v, n) /\ HighCleared(rot, n) = Right(v, n)
        /\ Sign(v) = 0 => HighCleared(rot, n) = Arithmetic(v, n)
        /\ Sign(v) = 1 => HighFilled(rot, n) = Arithmetic(v, n)
        /\ Sign(rot) = Bit(v, n - 1)
    BY <2>1, RightShift, Zenon
  <2>3. Sign(v) \in {0, 1}
    <3>1. W - 1 \in 0 .. W /\ v \in Nat
      BY WidthType, WordSize
    <3>2. QED
      BY <3>1, BitType, Zenon DEF Sign
  <2> HIDE DEF rot
  <2>4. QED
    BY <1>4, <1>6, <2>2, <2>3 DEF Within, Types
<1>7. QED
  BY <1>5, <1>6

(* All of the word is shifted out *)
LEMMA ShiftedOut ==
  ASSUME NEW v \in Values
  PROVE  Arithmetic(v, W) = Sign(v) * (2^W - 1) /\ Sign(v) \in {0, 1}
<1>1. PICK N \in Nat \ {0} : N = Power(W) /\ Values = 0 .. N - 1
  BY WordSize, WordType
<1>2. v \in Nat /\ Sign(v) \in {0, 1}
  <2>1. W - 1 \in 0 .. W /\ v \in Nat
    BY WidthType, WordSize
  <2>2. QED
    BY <2>1, BitType, Zenon DEF Sign
<1>3. PICK s \in {0, 1}, a \in Int : s = Sign(v) /\ a = v - s * N
  BY <1>1, <1>2
<1>4. Arithmetic(v, W) = (a \div N) % N
  BY <1>1, <1>3, WordType, Zenon DEF Arithmetic, Power
<1>5. ASSUME NEW q \in Int, NEW r \in 0 .. N - 1, NEW z \in Int, z = q * N + r
      PROVE  z \div N = q /\ z % N = r
  BY <1>5, Quotient
<1>6. CASE s = 0
  <2>1. a = 0 * N + v /\ v \in 0 .. N - 1 /\ 0 \in Int
    BY <1>1, <1>3, <1>6
  <2>2. a \div N = 0
    BY <2>1, <1>5, Zenon
  <2>3. 0 % N = 0 /\ s * (N - 1) = 0
    BY <1>1, <1>6
  <2>4. QED
    BY <1>1, <1>2, <1>3, <1>4, <2>2, <2>3, Zenon DEF Power
<1>7. CASE s = 1
  <2>1. PICK m \in Int : m = -1
    OBVIOUS
  <2>2. a = m * N + v /\ v \in 0 .. N - 1
    BY <1>1, <1>3, <1>7, <2>1
  <2>3. a \div N = m
    BY <2>2, <1>5, Zenon
  <2>4. PICK r \in 0 .. N - 1 : r = N - 1
    BY <1>1
  <2>5. m = m * N + r
    BY <2>1, <2>4
  <2>6. m % N = r
    BY <2>5, <1>5, Zenon
  <2>7. s * (N - 1) = r
    BY <1>7, <2>4
  <2>8. QED
    BY <1>1, <1>2, <1>3, <1>4, <2>3, <2>6, <2>7, Zenon DEF Power
<1>8. QED
  BY <1>6, <1>7

LEMMA WholeWord ==
  ASSUME NEW v \in Values, NEW t \in Types, NEW n \in Nat, n >= W,
         NEW cin \in {0, 1}
  PROVE  wren7_shifter(v, t, n, FALSE, cin) = shift_reg(v, t, n, cin)
<1>1. n # 0 /\ n > 0 /\ ~(n < W) /\ n \notin 1 .. W - 1
  BY WidthType
<1>2. Effective(t, n, FALSE) = n
  BY DEF Effective
<1> DEFINE r == (IF t = "LSL" THEN -n ELSE n) % W
           rot == Rotator(v, r)
<1>3. wren7_shifter(v, t, n, FALSE, cin) =
        CASE t = "LSL" -> Out(0, IF n = W THEN Bit(v, 0) ELSE 0)
          [] t = "LSR" -> Out(0, IF n = W THEN Sign(v) ELSE 0)
          [] t = "ASR" -> Out(Sign(v) * (2^W - 1), Sign(v))
          [] t = "ROR" -> Out(rot, Sign(rot))
  BY <1>1, <1>2 DEF wren7_shifter, Types
<1>4. shift_reg(v, t, n, cin) =
        CASE t = "LSL" -> Out(0, IF n = W THEN Bit(v, 0) ELSE 0)
          [] t = "LSR" -> Out(0, IF n = W THEN Sign(v) ELSE 0)
          [] t = "ASR" -> Out(Arithmetic(v, W), Sign(v))
          [] t = "ROR" -> IF n % W = 0 THEN Out(v, Sign(v)) ELSE Within(v, t, n % W)
  BY <1>1 DEF shift_reg, Types
<1>5. CASE t = "ROR"
  <2>1. r \in 0 .. W - 1 /\ r = n % W
    BY <1>5, Amount
  <2> HIDE DEF r
  <2>2. rot = Rotated(v, r)
    BY <2>1, RotatorIs
  <2>3. CASE r = 0
    <3>1. rot = v
      BY <2>2, <2>3, RotatedNot
    <3>2. QED
      BY <1>3, <1>4, <1>5, <2>1, <2>3, <3>1, Zenon
  <2>4. CASE r # 0
    <3>1. r \in 1 .. W - 1
      BY <2>1, <2>4
    <3>2. Sign(rot) = Bit(v, r - 1)
      BY <3>1, RightShift
    <3>3. Within(v, t, r) = Out(Rotated(v, r), Bit(v, r - 1))
      BY <1>5 DEF Within
    <3> HIDE DEF rot
    <3>4. QED
      BY <1>3, <1>4, <1>5, <2>1, <2>2, <2>4, <3>2, <3>3, Zenon
  <2>5. QED
    BY <2>3, <2>4
<1>6. CASE t # "ROR"
  BY <1>3, <1>4, <1>6, ShiftedOut DEF Types
<1>7. QED
  BY <1>5, <1>6

(* The register shifts agree for every amount, the immediate ones for every  *)
(* encoding: 0 is LSR #32, ASR #32 and RRX.                                  *)
LEMMA ShiftersAgree ==
  ASSUME NEW v \in Values, NEW t \in Types, NEW n \in Nat,
         NEW imm \in BOOLEAN, imm => n < W, NEW cin \in {0, 1}
  PROVE  wren7_shifter(v, t, n, imm, cin) =
           IF imm THEN shift_imm(v, t, n, cin) ELSE shift_reg(v, t, n, cin)
<1>1. W \in Nat \ {0, 1}
  BY WidthType
<1>2. CASE n \in 1 .. W - 1
  <2>1. wren7_shifter(v, t, n, imm, cin) = Within(v, t, n)
    BY <1>2, LessThanWord
  <2>2. n > 0 /\ n # 0 /\ n % W = n /\ ~(n >= W)
    BY <1>1, <1>2
  <2>3. shift_imm(v, t, n, cin) = Within(v, t, n)
    BY <2>2 DEF shift_imm
  <2>4. shift_reg(v, t, n, cin) = Within(v, t, n)
    BY <1>2, <2>2 DEF shift_reg, Types
  <2>5. QED
    BY <2>1, <2>3, <2>4
<1>3. CASE n >= W
  <2>1. ~imm
    BY <1>1, <1>3
  <2>2. QED
    BY <1>3, <2>1, WholeWord
<1>4. CASE n = 0
  <2>1. CASE ~imm
    <3>1. Effective(t, n, imm) = 0
      BY <1>4, <2>1 DEF Effective
    <3>2. wren7_shifter(v, t, n, imm, cin) = Out(v, cin)
      BY <2>1, <3>1 DEF wren7_shifter, Types
    <3>3. shift_reg(v, t, n, cin) = Out(v, cin)
      BY <1>4, <1>1 DEF shift_reg
    <3>4. QED
      BY <2>1, <3>2, <3>3
  <2>2. CASE imm
    <3>1. shift_imm(v, t, n, cin) =
            CASE t = "LSL" -> Out(v, cin)
              [] t = "LSR" -> Out(0, Sign(v))
              [] t = "ASR" -> Out(Arithmetic(v, W), Sign(v))
              [] t = "ROR" -> RotatedExtended(v, cin)
      BY <1>4 DEF shift_imm
    <3>2. Effective(t, n, imm) = IF t \in {"LSR", "ASR"} THEN W ELSE 0
      BY <1>4, <2>2 DEF Effective
    <3>3. wren7_shifter(v, t, n, imm, cin) =
            CASE t = "LSL" -> Out(v, cin)
              [] t = "LSR" -> Out(0, Sign(v))
              [] t = "ASR" -> Out(Sign(v) * (2^W - 1), Sign(v))
              [] t = "ROR" -> RotatedExtended(v, cin)
      <4>1. W > 0 /\ W # 0 /\ ~(W < W)
        BY <1>1
      <4>2. CASE t \in {"LSL", "ROR"}
        <5>1. Effective(t, n, imm) = 0
          BY <3>2, <4>2
        <5>2. CASE t = "LSL"
          <6>1. wren7_shifter(v, t, n, imm, cin) = Out(v, cin)
            BY <5>1, <5>2 DEF wren7_shifter
          <6>2. QED
            BY <5>2, <6>1
        <5>3. CASE t = "ROR"
          <6>1. wren7_shifter(v, t, n, imm, cin) = RotatedExtended(v, cin)
            <7>1. imm = TRUE /\ ~(0 > 0)
              BY <2>2
            <7>2. /\ (imm /\ t = "ROR" /\ n = 0) = TRUE
                  /\ (Effective(t, n, imm) = 0 /\ ~(imm /\ t = "ROR")) = FALSE
                  /\ t # "LSL" /\ t # "LSR" /\ t # "ASR"
              BY <1>4, <2>2, <5>3
            <7>3. QED
              BY <5>1, <5>3, <7>1, <7>2 DEF wren7_shifter
          <6>2. QED
            BY <5>3, <6>1
        <5>4. QED
          BY <4>2, <5>2, <5>3
      <4>3. CASE t \in {"LSR", "ASR"}
        <5>1. Effective(t, n, imm) = W
          BY <3>2, <4>3
        <5>2. QED
          BY <4>1, <4>3, <5>1 DEF wren7_shifter
      <4>4. QED
        BY <4>2, <4>3 DEF Types
    <3>4. QED
      BY <2>2, <3>1, <3>3, ShiftedOut DEF Types
  <2>3. QED
    BY <2>1, <2>2
<1>5. QED
  BY <1>1, <1>2, <1>3, <1>4

-----------------------------------------------------------------------------
(* The adder *)

(* The sign is the upper half *)
LEMMA HalfWord ==
  \E H \in Nat \ {0} :
    /\ H = 2^(W - 1) /\ 2^W = 2 * H /\ Values = 0 .. 2 * H - 1
    /\ \A x \in Values : Sign(x) = IF x < H THEN 0 ELSE 1
    /\ \A s \in Int : Cut(s) = s % (2 * H)
<1>1. PICK w \in 0 .. 31 : w = W - 1 /\ W = w + 1
  <2>1. W - 1 \in 0 .. 31 /\ W = (W - 1) + 1
    BY WidthType
  <2>2. QED
    BY <2>1, Zenon
<1>2. PICK H \in Nat \ {0} : H = Power(w)
  <2>1. w \in 0 .. 32
    BY <1>1
  <2>2. QED
    BY <2>1, PowerType
<1>3. Power(W) = 2 * H
  BY <1>1, <1>2, Doubled
<1>4. Values = 0 .. 2 * H - 1 /\ \A s : Cut(s) = s % (2 * H)
  BY <1>3, WordType, Zenon
<1>5. ASSUME NEW x \in Values
      PROVE  Sign(x) = IF x < H THEN 0 ELSE 1
  <2>1. Sign(x) = (x \div H) % 2
    BY <1>1, <1>2, WordType, Zenon DEF Sign
  <2>2. x \in Int /\ x \in 0 .. 2 * H - 1
    BY <1>4
  <2>3. CASE x < H
    <3>1. x = 0 * H + x /\ x \in 0 .. H - 1 /\ 0 \in Int
      BY <2>2, <2>3
    <3>2. x \div H = 0
      BY <3>1, <2>2, <1>2, Quotient, Zenon
    <3>3. QED
      BY <2>1, <2>3, <3>2
  <2>4. CASE ~(x < H)
    <3>1. PICK r \in 0 .. H - 1 : x = 1 * H + r
      <4>1. x - H \in 0 .. H - 1 /\ x = 1 * H + (x - H)
        BY <2>2, <2>4
      <4>2. QED
        BY <4>1, Zenon
    <3>2. 1 \in Int
      OBVIOUS
    <3>3. x \div H = 1
      BY <3>1, <3>2, <2>2, <1>2, Quotient, Zenon
    <3>4. QED
      BY <2>1, <2>4, <3>3
  <2>5. QED
    BY <2>3, <2>4
<1>6. QED
  BY <1>1, <1>2, <1>3, <1>4, <1>5 DEF Power

(* add(): sum, carry and overflow *)
LEMMA AddedIs ==
  ASSUME NEW x \in Values, NEW y \in Values, NEW ci \in {0, 1},
         NEW s, s = Added(x, y, ci)
  PROVE  /\ s.q \in Values /\ s.c \in {0, 1} /\ s.v \in {0, 1}
         /\ s.q = Cut(x + y + ci)
         /\ s.c = 1 <=> x + y + ci >= 2^W
         /\ s.v = 1 <=> Signed(x) + Signed(y) + ci \notin -2^(W - 1) .. 2^(W - 1) - 1
<1>1. PICK H \in Nat \ {0} :
        /\ H = 2^(W - 1) /\ 2^W = 2 * H /\ Values = 0 .. 2 * H - 1
        /\ \A z \in Values : Sign(z) = IF z < H THEN 0 ELSE 1
        /\ \A z \in Int : Cut(z) = z % (2 * H)
  BY HalfWord
<1>2. PICK u \in 0 .. 4 * H - 1 : u = x + y + ci
  <2>1. x \in 0 .. 2 * H - 1 /\ y \in 0 .. 2 * H - 1
    BY <1>1, Zenon
  <2>2. x + y + ci \in 0 .. 4 * H - 1
    BY <2>1
  <2>3. QED
    BY <2>2
<1>3. PICK N \in Nat \ {0} : N = 2 * H
  OBVIOUS
<1>4. u \div N = (IF u < N THEN 0 ELSE 1) /\ u % N = (IF u < N THEN u ELSE u - N)
  <2>1. ASSUME NEW q \in Int, NEW r \in 0 .. N - 1, u = q * N + r
        PROVE  u \div N = q /\ u % N = r
    <3>1. u \in Int
      OBVIOUS
    <3>2. QED
      BY <2>1, <3>1, Quotient
  <2>2. CASE u < N
    <3>1. u \in 0 .. N - 1 /\ u = 0 * N + u /\ 0 \in Int
      BY <2>2
    <3>2. u \div N = 0 /\ u % N = u
      BY <2>1, <3>1, Zenon
    <3>3. QED
      BY <2>2, <3>2
  <2>3. CASE ~(u < N)
    <3>1. PICK r \in 0 .. N - 1 : r = u - N /\ u = 1 * N + r
      <4>1. u - N \in 0 .. N - 1 /\ u = 1 * N + (u - N)
        BY <1>3, <2>3
      <4>2. QED
        BY <4>1, Zenon
    <3>2. 1 \in Int
      OBVIOUS
    <3>3. u \div N = 1 /\ u % N = r
      BY <2>1, <3>1, <3>2, Zenon
    <3>4. QED
      BY <2>3, <3>1, <3>3
  <2>4. QED
    BY <2>2, <2>3
<1>5. PICK q \in Values : q = IF u < N THEN u ELSE u - N
  <2>1. (IF u < N THEN u ELSE u - N) \in 0 .. 2 * H - 1
    BY <1>3
  <2>2. QED
    BY <2>1, <1>1, Zenon
<1>6. Cut(u) = q
  <2>1. Cut(u) = u % N
    <3>1. u \in Int
      OBVIOUS
    <3>2. QED
      BY <3>1, <1>1, <1>3, Zenon
  <2>2. QED
    BY <2>1, <1>4, <1>5
<1>7. /\ s.q = q /\ s.c = (IF u < N THEN 0 ELSE 1)
      /\ s.v = IF Sign(x) = Sign(y) /\ Sign(q) # Sign(x) THEN 1 ELSE 0
  BY <1>1, <1>2, <1>3, <1>4, <1>5, <1>6 DEF Added
<1>8. /\ Signed(x) = (IF x < H THEN x ELSE x - N)
      /\ Signed(y) = (IF y < H THEN y ELSE y - N)
      /\ Sign(x) = (IF x < H THEN 0 ELSE 1) /\ Sign(y) = (IF y < H THEN 0 ELSE 1)
      /\ Sign(q) = (IF q < H THEN 0 ELSE 1)
  <2>1. ASSUME NEW z \in Values
        PROVE  /\ Signed(z) = (IF z < H THEN z ELSE z - N)
               /\ Sign(z) = (IF z < H THEN 0 ELSE 1)
    <3>1. Sign(z) = (IF z < H THEN 0 ELSE 1) /\ z \in Int
      BY <1>1
    <3>2. Signed(z) = z - Sign(z) * N
      BY <1>1, <1>3 DEF Signed
    <3>3. QED
      BY <3>1, <3>2
  <2>2. QED
    BY <2>1
<1>9. /\ s.v \in {0, 1}
      /\ s.v = 1 <=> Signed(x) + Signed(y) + ci \notin -H .. H - 1
  <2>1. x \in 0 .. 2 * H - 1 /\ y \in 0 .. 2 * H - 1 /\ q \in 0 .. 2 * H - 1
    BY <1>1
  <2>2. QED
    BY <2>1, <1>2, <1>3, <1>5, <1>7, <1>8
<1>10. s.q \in Values /\ s.c \in {0, 1} /\ (s.c = 1 <=> u >= 2^W)
  <2>1. 2^W = N
    BY <1>1, <1>3, Zenon
  <2>2. s.c \in {0, 1} /\ (s.c = 1 <=> u >= N)
    BY <1>3, <1>7
  <2>3. QED
    BY <2>1, <2>2, <1>5, <1>7, Zenon
<1>11. s.q = Cut(x + y + ci)
  BY <1>2, <1>6, <1>7, Zenon
<1>12. QED
  BY <1>1, <1>2, <1>9, <1>10, <1>11, Zenon

(* A word and a multiple of 2^W *)
LEMMA CutType ==
  ASSUME NEW z \in Int
  PROVE  /\ Cut(z) \in Values /\ \E k \in Int : z = Cut(z) + k * 2^W
<1>1. PICK N \in Nat \ {0} : N = 2^W /\ N = Power(W)
  BY WordSize DEF Power
<1>2. z \div N \in Int /\ z % N \in 0 .. N - 1 /\ z = (z \div N) * N + (z % N)
  BY Divided
<1>3. Cut(z) = z % N
  BY <1>1, Zenon DEF Cut
<1>4. PICK k \in Int, r \in 0 .. N - 1 : r = z % N /\ z = k * N + r
  BY <1>2, Zenon
<1>5. z = r + k * N
  BY <1>4
<1>6. Values = 0 .. N - 1
  BY <1>1, WordType, Zenon
<1>7. QED
  BY <1>1, <1>3, <1>4, <1>5, <1>6, Zenon

(* Words are equal when the numbers differ by multiples of the word size *)
LEMMA SameRest ==
  ASSUME NEW N \in Nat \ {0}, NEW y \in Int, NEW k \in Int
  PROVE  (y + k * N) % N = y % N
<1>1. PICK j \in Int, r \in 0 .. N - 1 : r = y % N /\ y = j * N + r
  BY Divided, Zenon
<1>2. PICK z \in Int, i \in Int : z = y + k * N /\ i = j + k
  OBVIOUS
<1>3. z = i * N + r
  <2>1. (j + k) * N = j * N + k * N
    OBVIOUS
  <2>2. QED
    BY <2>1, <1>1, <1>2
<1>4. z % N = r
  <2>1. z \in Int /\ i \in Int /\ r \in 0 .. N - 1
    BY <1>1, <1>2
  <2>2. QED
    BY <2>1, <1>3, Quotient
<1>5. QED
  BY <1>1, <1>2, <1>4, Zenon

LEMMA SameWord ==
  ASSUME NEW y \in Int, NEW z \in Int, NEW k \in Int, z = y + k * 2^W
  PROVE  Cut(z) = Cut(y)
BY WordSize, SameRest, Zenon DEF Cut, Power

(* A subtraction adds the complement and a carry *)
LEMMA Complement ==
  ASSUME NEW b \in Values
  PROVE  Not(b) \in Values /\ Signed(Not(b)) = -1 - Signed(b) /\ Signed(b) \in Int
<1>1. PICK H \in Nat \ {0} :
        /\ 2^W = 2 * H /\ Values = 0 .. 2 * H - 1
        /\ \A z \in Values : Sign(z) = IF z < H THEN 0 ELSE 1
  BY HalfWord
<1>2. b \in 0 .. 2 * H - 1
  BY <1>1, Zenon
<1>3. PICK n \in 0 .. 2 * H - 1 : n = Not(b) /\ n = 2 * H - 1 - b
  <2>1. 2 * H - 1 - b \in 0 .. 2 * H - 1
    BY <1>2
  <2>2. Not(b) = 2 * H - 1 - b
    BY <1>1, Zenon DEF Not
  <2>3. QED
    BY <2>1, <2>2, Zenon
<1>4. n \in Values
  BY <1>1, Zenon
<1>5. Sign(b) = (IF b < H THEN 0 ELSE 1) /\ Sign(n) = (IF n < H THEN 0 ELSE 1)
  BY <1>1, <1>4, Zenon
<1>6. Signed(b) = b - Sign(b) * (2 * H) /\ Signed(n) = n - Sign(n) * (2 * H)
  BY <1>1, Zenon DEF Signed
<1>7. Signed(n) = -1 - Signed(b) /\ Signed(b) \in Int
  BY <1>2, <1>3, <1>5, <1>6
<1>8. QED
  BY <1>3, <1>4, <1>7, Zenon

LEMMA Subtracted ==
  ASSUME NEW a \in Values, NEW b \in Values, NEW ci \in {0, 1},
         NEW s, s = Added(a, Not(b), ci)
  PROVE  /\ s.q \in Values /\ s.c \in {0, 1} /\ s.v \in {0, 1}
         /\ s.q = Cut(a - b - (1 - ci))
         /\ s.c = 1 <=> a - b - (1 - ci) >= 0
         /\ s.v = 1 <=> Signed(a) - Signed(b) - (1 - ci)
                          \notin -2^(W - 1) .. 2^(W - 1) - 1
<1>1. PICK N \in Nat \ {0} : N = 2^W /\ Values = 0 .. N - 1
  BY WordSize, WordType DEF Power
<1>2. PICK n \in Values : n = Not(b) /\ n = N - 1 - b /\ Signed(n) = -1 - Signed(b)
  BY <1>1, Complement, Zenon DEF Not
<1>3. a \in 0 .. N - 1 /\ b \in 0 .. N - 1 /\ Signed(a) \in Int /\ Signed(b) \in Int
  BY <1>1, Complement, Zenon
<1>4. PICK u \in Int, d \in Int : u = a + n + ci /\ d = a - b - (1 - ci)
  BY <1>2, <1>3
<1>5. /\ s.q \in Values /\ s.c \in {0, 1} /\ s.v \in {0, 1} /\ s.q = Cut(u)
      /\ s.c = 1 <=> u >= N
      /\ s.v = 1 <=> Signed(a) + Signed(n) + ci \notin -2^(W - 1) .. 2^(W - 1) - 1
  <2>1. s = Added(a, n, ci)
    BY <1>2, Zenon
  <2>2. /\ s.q \in Values /\ s.c \in {0, 1} /\ s.v \in {0, 1}
        /\ s.q = Cut(a + n + ci) /\ (s.c = 1 <=> a + n + ci >= 2^W)
        /\ s.v = 1 <=> Signed(a) + Signed(n) + ci \notin -2^(W - 1) .. 2^(W - 1) - 1
    BY <2>1, AddedIs
  <2>3. QED
    BY <2>2, <1>1, <1>4, Zenon
<1>6. u = d + 1 * N
  BY <1>2, <1>3, <1>4
<1>7. Cut(u) = Cut(d)
  <2>1. 1 \in Int
    OBVIOUS
  <2>2. QED
    BY <2>1, <1>1, <1>6, SameWord, Zenon
<1>8. u >= N <=> d >= 0
  BY <1>6
<1>9. Signed(a) + Signed(n) + ci = Signed(a) - Signed(b) - (1 - ci)
  BY <1>2, <1>3
<1>10. QED
  BY <1>4, <1>5, <1>7, <1>8, <1>9, Zenon

SignedRange == -2^(W - 1) .. 2^(W - 1) - 1

(* What a sum or a difference has to be *)
SumIs(s, opc, a, b, cin) ==
  LET u == Exact(opc, a, b, cin)
      sg == Exact(opc, Signed(a), Signed(b), cin)
  IN  /\ s.q \in Values /\ s.c \in {0, 1} /\ s.v \in {0, 1}
      /\ s.q = Cut(u)
      /\ s.c = 1 <=> u >= (IF Adds(opc) THEN 2^W ELSE 0)
      /\ s.v = 1 <=> sg \notin SignedRange

(* The two adders, and what they have to compute *)
LEMMA SumsAgree ==
  ASSUME NEW opc \in Arithmetics, NEW a, NEW b, NEW cin
  PROVE  CppSum(opc, a, b, cin) = RtlSum(opc, a, b, cin)
BY DEF CppSum, RtlSum, Arithmetics

LEMMA SumRight ==
  ASSUME NEW opc \in Arithmetics, NEW a \in Values, NEW b \in Values,
         NEW cin \in {0, 1}
  PROVE  SumIs(CppSum(opc, a, b, cin), opc, a, b, cin)
<1>1. /\ a \in Int /\ b \in Int /\ Signed(a) \in Int /\ Signed(b) \in Int
      /\ 0 \in {0, 1} /\ 1 \in {0, 1} /\ cin \in Int
  BY WordSize, Complement
<1>2. CASE opc \in {"SUB", "CMP", "SBC"}
  <2>1. PICK ci \in {0, 1} :
          /\ ci = IF opc = "SBC" THEN cin ELSE 1
          /\ CppSum(opc, a, b, cin) = Added(a, Not(b), ci)
    BY <1>2 DEF CppSum
  <2>2. PICK s : s = Added(a, Not(b), ci)
    OBVIOUS
  <2>3. /\ s.q \in Values /\ s.c \in {0, 1} /\ s.v \in {0, 1}
        /\ s.q = Cut(a - b - (1 - ci))
        /\ s.c = 1 <=> a - b - (1 - ci) >= 0
        /\ s.v = 1 <=> Signed(a) - Signed(b) - (1 - ci) \notin SignedRange
    BY <2>2, Subtracted DEF SignedRange
  <2>4. Exact(opc, a, b, cin) = a - b - (1 - ci)
    BY <1>1, <1>2, <2>1 DEF Exact
  <2>5. Exact(opc, Signed(a), Signed(b), cin) = Signed(a) - Signed(b) - (1 - ci)
    BY <1>1, <1>2, <2>1 DEF Exact
  <2>6. ~Adds(opc)
    BY <1>2 DEF Adds
  <2>7. QED
    BY <2>1, <2>2, <2>3, <2>4, <2>5, <2>6, Zenon DEF SumIs
<1>3. CASE opc \in {"RSB", "RSC"}
  <2>1. PICK ci \in {0, 1} :
          /\ ci = IF opc = "RSC" THEN cin ELSE 1
          /\ CppSum(opc, a, b, cin) = Added(b, Not(a), ci)
    BY <1>3 DEF CppSum
  <2>2. PICK s : s = Added(b, Not(a), ci)
    OBVIOUS
  <2>3. /\ s.q \in Values /\ s.c \in {0, 1} /\ s.v \in {0, 1}
        /\ s.q = Cut(b - a - (1 - ci))
        /\ s.c = 1 <=> b - a - (1 - ci) >= 0
        /\ s.v = 1 <=> Signed(b) - Signed(a) - (1 - ci) \notin SignedRange
    BY <2>2, Subtracted DEF SignedRange
  <2>4. Exact(opc, a, b, cin) = b - a - (1 - ci)
    BY <1>1, <1>3, <2>1 DEF Exact
  <2>5. Exact(opc, Signed(a), Signed(b), cin) = Signed(b) - Signed(a) - (1 - ci)
    BY <1>1, <1>3, <2>1 DEF Exact
  <2>6. ~Adds(opc)
    BY <1>3 DEF Adds
  <2>7. QED
    BY <2>1, <2>2, <2>3, <2>4, <2>5, <2>6, Zenon DEF SumIs
<1>4. CASE opc \in {"ADD", "CMN", "ADC"}
  <2>1. PICK ci \in {0, 1} :
          /\ ci = IF opc = "ADC" THEN cin ELSE 0
          /\ CppSum(opc, a, b, cin) = Added(a, b, ci)
    BY <1>4 DEF CppSum
  <2>2. PICK s : s = Added(a, b, ci)
    OBVIOUS
  <2>3. /\ s.q \in Values /\ s.c \in {0, 1} /\ s.v \in {0, 1}
        /\ s.q = Cut(a + b + ci)
        /\ s.c = 1 <=> a + b + ci >= 2^W
        /\ s.v = 1 <=> Signed(a) + Signed(b) + ci \notin SignedRange
    BY <2>2, AddedIs DEF SignedRange
  <2>4. Exact(opc, a, b, cin) = a + b + ci
    BY <1>1, <1>4, <2>1 DEF Exact
  <2>5. Exact(opc, Signed(a), Signed(b), cin) = Signed(a) + Signed(b) + ci
    BY <1>1, <1>4, <2>1 DEF Exact
  <2>6. Adds(opc)
    BY <1>4 DEF Adds
  <2>7. QED
    BY <2>1, <2>2, <2>3, <2>4, <2>5, <2>6, Zenon DEF SumIs
<1>5. QED
  BY <1>2, <1>3, <1>4 DEF Arithmetics

-----------------------------------------------------------------------------
(* The number of steps of a multiplication *)

(* No multiplier bit is left after step m, or it is the last there is *)
Last(rs, m) == m = W \div 2 \/ rs \div 2^(2 * m - 1) = 0

(* The core model counts its steps ahead *)
LEMMA StepsIs ==
  ASSUME NEW rs
  PROVE  /\ Steps(rs) \in 1 .. W \div 2 /\ Last(rs, Steps(rs))
         /\ \A l \in 1 .. Steps(rs) - 1 : rs \div 2^(2 * l - 1) # 0
<1> DEFINE Ends == {m \in 1 .. W \div 2 : Last(rs, m)}
           Found(m) == Last(rs, m) /\ \A l \in 1 .. m - 1 : rs \div 2^(2 * l - 1) # 0
<1>1. W \div 2 \in Ends
  <2>1. W \div 2 \in 1 .. W \div 2
    BY WidthType
  <2>2. QED
    BY <2>1, Zenon DEF Last
<1>2. PICK m \in Ends : \A l \in Ends : m <= l
  <2>1. Ends \subseteq Nat /\ Ends # {}
    BY <1>1
  <2> HIDE DEF Ends
  <2>2. QED
    BY <2>1, Least
<1>3. m \in 1 .. W \div 2 /\ Found(m)
  <2>1. m \in 1 .. W \div 2 /\ Last(rs, m)
    BY <1>2
  <2>2. ASSUME NEW l \in 1 .. m - 1
        PROVE  rs \div 2^(2 * l - 1) # 0
    <3>1. l \in 1 .. W \div 2 /\ ~(m <= l)
      BY <2>1, WidthType
    <3>2. ~Last(rs, l)
      BY <1>2, <3>1
    <3>3. QED
      BY <3>2 DEF Last
  <2>3. QED
    BY <2>1, <2>2
<1>4. Steps(rs) = CHOOSE n \in 1 .. W \div 2 : Found(n)
  BY Zenon DEF Steps, Last
<1>5. QED
  <2> HIDE DEF Found
  <2>1. Steps(rs) \in 1 .. W \div 2 /\ Found(Steps(rs))
    BY <1>3, <1>4, Zenon
  <2>2. QED
    BY <2>1, Zenon DEF Found

(* Counted ahead or seen on the way, the end is the same *)
LEMMA EndSeen ==
  ASSUME NEW rs, NEW m \in 1 .. W \div 2,
         \A l \in 1 .. m - 1 : rs \div 2^(2 * l - 1) # 0
  PROVE  m = Steps(rs) <=> Last(rs, m)
<1>1. PICK n \in 1 .. W \div 2 :
        /\ n = Steps(rs) /\ Last(rs, n)
        /\ \A l \in 1 .. n - 1 : rs \div 2^(2 * l - 1) # 0
  BY StepsIs, Zenon
<1>2. W \div 2 \in Nat /\ m \in Nat /\ n \in Nat
  BY WidthType
<1>3. ASSUME Last(rs, m), m < n
      PROVE  FALSE
  <2>1. m \in 1 .. n - 1 /\ m # W \div 2
    BY <1>2, <1>3
  <2>2. QED
    BY <1>1, <1>3, <2>1, Zenon DEF Last
<1>4. ASSUME n < m
      PROVE  FALSE
  <2>1. n \in 1 .. m - 1 /\ n # W \div 2
    BY <1>2, <1>4
  <2>2. QED
    BY <1>1, <2>1, Zenon DEF Last
<1>5. QED
  BY <1>1, <1>2, <1>3, <1>4

(* A right shift by a power leaves nothing of what is smaller *)
LEMMA NothingLeft ==
  ASSUME NEW v \in Nat, NEW i \in 0 .. 32
  PROVE  v \div 2^i = 0 <=> v < 2^i
<1>1. PICK p \in Nat \ {0} : p = 2^i
  BY PowerType DEF Power
<1>2. v \div p \in Int /\ v % p \in 0 .. p - 1 /\ v = (v \div p) * p + (v % p)
  BY Divided
<1>3. PICK q \in Int, r \in 0 .. p - 1 : q = v \div p /\ v = q * p + r
  BY <1>2, Zenon
<1>4. q = 0 <=> v < p
  <2>1. q = 0 => v < p
    BY <1>3
  <2>2. ASSUME q <= -1
        PROVE  FALSE
    <3>1. q * p <= (-1) * p
      BY <2>2, Ordered
    <3>2. QED
      BY <3>1, <1>3
  <2>3. ASSUME q >= 1
        PROVE  v >= p
    <3>1. 1 * p <= q * p
      BY <2>3, Ordered
    <3>2. QED
      BY <3>1, <1>3
  <2>4. QED
    BY <2>1, <2>2, <2>3
<1>5. QED
  BY <1>1, <1>3, <1>4, Zenon

(* The number of steps is the data sheet's *)
LEMMA SheetSteps ==
  ASSUME NEW rs \in Values, NEW m \in 1 .. W \div 2, Last(rs, m),
         \A l \in 1 .. m - 1 : rs \div 2^(2 * l - 1) # 0
  PROVE  m = datasheet_m(rs)
<1>1. PICK w \in {2, 4, 8, 16} : W = 2 * w /\ W \div 2 = w /\ m \in 1 .. w
  BY WidthType
<1>2. rs \in Nat
  BY WordSize
<1>3. ASSUME NEW l \in 1 .. w
      PROVE  2 * l - 1 \in 1 .. 32
  BY <1>1
<1>4. ASSUME NEW l \in 1 .. m - 1
      PROVE  ~(rs < 2^(2 * l - 1))
  <2>1. l \in 1 .. w
    BY <1>1
  <2>2. PICK i \in 0 .. 32 : i = 2 * l - 1
    BY <2>1, <1>3
  <2>3. rs \div 2^i # 0
    BY <2>2, Zenon
  <2>4. ~(rs < 2^i)
    BY <2>3, <1>2, NothingLeft
  <2>5. QED
    BY <2>2, <2>4, Zenon
<1>5. m # w => rs < 2^(2 * m - 1)
  <2>1. PICK i \in 0 .. 32 : i = 2 * m - 1
    BY <1>1, <1>3
  <2>2. m # w => rs \div 2^i = 0
    BY <1>1, <2>1, Zenon DEF Last
  <2>3. m # w => rs < 2^i
    BY <2>2, <1>2, NothingLeft
  <2>4. QED
    BY <2>1, <2>3, Zenon
<1>6. ASSUME NEW i \in 0 .. 32, NEW j \in 0 .. 32, i <= j
      PROVE  2^i <= 2^j /\ 2^i \in Nat /\ 2^j \in Nat
  BY <1>6, PowerOrder, PowerType DEF Power
<1>7. CASE rs <= 1
  <2>1. m = 1
    <3>1. SUFFICES ASSUME m # 1
                   PROVE  FALSE
      OBVIOUS
    <3>2. 1 \in 1 .. m - 1
      BY <3>1, <1>1
    <3>3. ~(rs < 2^(2 * 1 - 1))
      BY <3>2, <1>4
    <3>4. QED
      BY <3>3, <1>2, <1>7, SMT
  <2>2. QED
    BY <1>7, <2>1 DEF datasheet_m
<1>8. CASE ~(rs <= 1) /\ rs >= 2^(W - 3)
  <2>1. m = w
    <3>1. SUFFICES ASSUME m # w
                   PROVE  FALSE
      OBVIOUS
    <3>2. PICK i \in 0 .. 32, j \in 0 .. 32 : i = 2 * m - 1 /\ j = W - 3 /\ i <= j
      <4>1. 2 * m - 1 \in 0 .. 32 /\ W - 3 \in 0 .. 32 /\ 2 * m - 1 <= W - 3
        BY <1>1, <3>1
      <4>2. QED
        BY <4>1
    <3>3. 2^i <= 2^j /\ 2^i \in Nat /\ 2^j \in Nat
      BY <3>2, <1>6
    <3>4. rs < 2^i /\ rs >= 2^j
      BY <1>5, <1>8, <3>1, <3>2, Zenon
    <3>5. QED
      BY <3>3, <3>4, <1>2
  <2>2. QED
    BY <1>1, <1>8, <2>1, Zenon DEF datasheet_m
<1>9. CASE ~(rs <= 1) /\ ~(rs >= 2^(W - 3))
  <2> DEFINE Between(n) == rs \in 2^(2 * n - 3) .. 2^(2 * n - 1) - 1
  <2>1. m # 1
    <3>1. SUFFICES ASSUME m = 1
                   PROVE  FALSE
      OBVIOUS
    <3>2. m # w
      BY <3>1, <1>1
    <3>3. rs < 2^(2 * 1 - 1)
      BY <3>1, <3>2, <1>5
    <3>4. QED
      BY <3>3, <1>2, <1>9, SMT
  <2>2. PICK k \in 1 .. w, i \in 0 .. 32, j \in 0 .. 32, t \in 0 .. 32 :
          /\ k = m - 1 /\ i = 2 * k - 1 /\ i = 2 * m - 3 /\ j = 2 * m - 1 /\ t = W - 3
    <3>1. /\ m - 1 \in 1 .. w /\ 2 * m - 3 \in 0 .. 32 /\ 2 * m - 1 \in 0 .. 32
          /\ W - 3 \in 0 .. 32 /\ 2 * m - 3 = 2 * (m - 1) - 1
      BY <1>1, <2>1
    <3>2. QED
      BY <3>1, Zenon
  <2>3. m \in 2 .. W \div 2
    BY <1>1, <2>1
  <2>4. ~(rs < 2^i)
    <3>1. k \in 1 .. m - 1
      BY <2>2
    <3>2. ~(rs < 2^(2 * k - 1))
      BY <3>1, <1>4
    <3>3. QED
      BY <2>2, <3>2, Zenon
  <2>5. rs < 2^j
    <3>1. CASE m # w
      BY <1>5, <2>2, <3>1, Zenon
    <3>2. CASE m = w
      <4>1. t <= j
        BY <1>1, <2>2, <3>2
      <4>2. 2^t <= 2^j /\ 2^t \in Nat /\ 2^j \in Nat
        BY <4>1, <1>6
      <4>3. ~(rs >= 2^t)
        BY <1>9, <2>2, Zenon
      <4>4. QED
        BY <4>2, <4>3, <1>2
    <3>3. QED
      BY <3>1, <3>2
  <2>6. Between(m)
    <3>1. 2^i \in Nat /\ 2^j \in Nat
      BY PowerType DEF Power
    <3>2. rs \in 2^i .. 2^j - 1
      BY <3>1, <2>4, <2>5, <1>2
    <3>3. QED
      BY <2>2, <3>2, Zenon
  <2>7. ASSUME NEW n \in 2 .. W \div 2, NEW o \in 2 .. W \div 2, n < o,
               Between(n), Between(o)
        PROVE  FALSE
    <3>1. PICK a \in 0 .. 32, b \in 0 .. 32, c \in 0 .. 32, d \in 0 .. 32 :
            /\ a = 2 * n - 3 /\ b = 2 * n - 1 /\ c = 2 * o - 3 /\ d = 2 * o - 1
            /\ b <= c
      <4>1. /\ 2 * n - 3 \in 0 .. 32 /\ 2 * n - 1 \in 0 .. 32 /\ 2 * o - 3 \in 0 .. 32
            /\ 2 * o - 1 \in 0 .. 32 /\ 2 * n - 1 <= 2 * o - 3
        BY <1>1, <2>7
      <4>2. QED
        BY <4>1
    <3>2. rs \in 2^a .. 2^b - 1 /\ rs \in 2^c .. 2^d - 1
      BY <2>7, <3>1, Zenon
    <3>3. 2^b <= 2^c /\ 2^b \in Nat /\ 2^c \in Nat
      BY <3>1, <1>6
    <3>4. 2^a \in Nat /\ 2^d \in Nat
      BY PowerType DEF Power
    <3>5. QED
      BY <3>2, <3>3, <3>4, <1>2
  <2>8. datasheet_m(rs) = CHOOSE n \in 2 .. W \div 2 : Between(n)
    BY <1>9, Zenon DEF datasheet_m
  <2> HIDE DEF Between
  <2>9. PICK n \in 2 .. W \div 2 : n = datasheet_m(rs) /\ Between(n)
    BY <2>3, <2>6, <2>8, Zenon
  <2>10. ~(n < m) /\ ~(m < n)
    BY <2>3, <2>6, <2>7, <2>9
  <2>11. n = m
    BY <2>10, <1>1
  <2>12. QED
    BY <2>9, <2>11, Zenon
<1>10. QED
  BY <1>7, <1>8, <1>9

-----------------------------------------------------------------------------
(* One Booth step *)

Latch ==
  [acc : Values, mul : Nat, borrow : {0, 1}, k : 0 .. W \div 2, c : {0, 1},
   v : {0, 1}, ended : BOOLEAN]

(* The two low bits of the multiplier and the borrow are the next digit *)
LEMMA DigitIs ==
  ASSUME NEW s \in Latch
  PROVE  \E h \in Nat, b1 \in {0, 1}, b0 \in {0, 1} :
           /\ s.mul = 4 * h + 2 * b1 + b0
           /\ s.mul \div 4 = h /\ Bit(s.mul, 1) = b1
           /\ Index(s) = 4 * b1 + 2 * b0 + s.borrow
           /\ Digit[Index(s) + 1] = b0 + s.borrow - 2 * b1
<1>1. PICK m \in Nat, e \in {0, 1} : m = s.mul /\ e = s.borrow
  BY DEF Latch
<1>2. PICK h \in Nat, b1 \in {0, 1}, b0 \in {0, 1} :
        /\ m = 4 * h + 2 * b1 + b0 /\ m \div 4 = h /\ m % 4 = 2 * b1 + b0
        /\ (m \div 2) % 2 = b1
  <2>1. PICK h \in Nat, r \in 0 .. 3 : h = m \div 4 /\ r = m % 4 /\ m = 4 * h + r
    BY <1>1
  <2>2. PICK b1 \in {0, 1}, b0 \in {0, 1} : r = 2 * b1 + b0
    <3>1. r = 0 \/ r = 1 \/ r = 2 \/ r = 3
      BY <2>1
    <3>2. 0 = 2 * 0 + 0 /\ 1 = 2 * 0 + 1 /\ 2 = 2 * 1 + 0 /\ 3 = 2 * 1 + 1
      OBVIOUS
    <3>3. QED
      BY <3>1, <3>2
  <2>3. (m \div 2) % 2 = b1
    BY <2>1, <2>2
  <2>4. QED
    BY <2>1, <2>2, <2>3
<1>3. Bit(m, 1) = b1
  <2>1. Bit(m, 1) = (m \div Power(1)) % 2
    BY WordType, Zenon
  <2>2. QED
    BY <2>1, <1>2, Powers
<1>4. PICK i \in 0 .. 7 : i = Index(s) /\ i = 4 * b1 + 2 * b0 + e
  BY <1>1, <1>2 DEF Index
<1>5. Digit[i + 1] = b0 + e - 2 * b1
  BY <1>4 DEF Digit
<1>6. QED
  BY <1>1, <1>2, <1>3, <1>4, <1>5

(* The multiple's shift, below the width *)
LEMMA FullShift ==
  ASSUME NEW v \in Values, NEW sh \in 0 .. W - 1, NEW cin \in {0, 1}
  PROVE  LET out == wren7_shifter(v, "LSL", sh, FALSE, cin)
         IN  /\ out.q = Left(v, sh)
             /\ out.c = IF sh > 0 THEN Bit(v, W - sh) ELSE cin
<1>1. sh \in Nat /\ "LSL" \in Types /\ FALSE \in BOOLEAN
  BY DEF Types
<1>2. PICK t \in Types : t = "LSL"
  BY <1>1
<1> DEFINE out == wren7_shifter(v, t, sh, FALSE, cin)
<1>3. out = shift_reg(v, t, sh, cin)
  BY <1>1, ShiftersAgree
<1>4. ASSUME NEW q, NEW c
      PROVE  Out(q, c).q = q /\ Out(q, c).c = c
  BY DEF Out
<1> HIDE DEF out
<1>5. ASSUME sh = 0
      PROVE  out.q = Left(v, sh) /\ out.c = IF sh > 0 THEN Bit(v, W - sh) ELSE cin
  <2>1. shift_reg(v, t, sh, cin) = Out(v, cin)
    BY <1>5, WidthType DEF shift_reg
  <2>2. Left(v, sh) = v
    <3>1. PICK N \in Nat \ {0} : N = Power(W) /\ Values = 0 .. N - 1
      BY WordSize, WordType
    <3>2. v \in Nat /\ v % N = v
      BY <3>1
    <3>3. Left(v, sh) = (v * Power(0)) % N
      BY <1>5, <3>1, WordType, Zenon
    <3>4. v * Power(0) = v
      BY <3>2, Powers
    <3>5. QED
      BY <3>2, <3>3, <3>4, Zenon
  <2>3. QED
    BY <1>3, <1>4, <1>5, <2>1, <2>2
<1>6. ASSUME sh # 0
      PROVE  out.q = Left(v, sh) /\ out.c = IF sh > 0 THEN Bit(v, W - sh) ELSE cin
  <2>1. sh \in 1 .. W - 1 /\ sh > 0
    BY <1>6
  <2>2. shift_reg(v, t, sh, cin) = Out(Left(v, sh), Bit(v, W - sh))
    <3>1. shift_reg(v, t, sh, cin) = Within(v, t, sh)
      BY <1>1, <1>2, <1>6, <2>1, WidthType DEF shift_reg
    <3>2. QED
      BY <1>2, <3>1 DEF Within
  <2>3. QED
    BY <1>3, <1>4, <2>1, <2>2
<1>7. out.q = Left(v, sh) /\ out.c = IF sh > 0 THEN Bit(v, W - sh) ELSE cin
  BY <1>5, <1>6
<1>8. QED
  BY <1>2, <1>7, Zenon DEF out

(* The multiple that is added, subtracted or left out *)
Summed(acc, rm, sh, d) ==
  CASE d > 0 -> Cut(acc + Left(rm, sh))
    [] d < 0 -> Cut(acc - Left(rm, sh))
    [] d = 0 -> acc

ShiftOf(s) == 2 * s.k + (IF Index(s) \in {3, 4} THEN 1 ELSE 0)
CarryOf(s) == IF ShiftOf(s) > 0 THEN Bit(Rm(s), W - ShiftOf(s)) ELSE in.cin

(* The digit's sign and size from the three bits *)
LEMMA DigitCases ==
  ASSUME NEW s \in Latch
  PROVE  /\ Index(s) \in 0 .. 7 /\ Digit[Index(s) + 1] \in -2 .. 2
         /\ Digit[Index(s) + 1] > 0 <=> Index(s) \in {1, 2, 3}
         /\ Digit[Index(s) + 1] < 0 <=> Index(s) \in {4, 5, 6}
         /\ Digit[Index(s) + 1] \in {2, -2} <=> Index(s) \in {3, 4}
<1>1. PICK b1 \in {0, 1}, b0 \in {0, 1}, e \in {0, 1}, i \in Int :
        /\ i = Index(s) /\ i = 4 * b1 + 2 * b0 + e
  <2>1. s.borrow \in {0, 1}
    BY DEF Latch
  <2>2. QED
    BY <2>1, DigitIs
<1>2. i \in 0 .. 7
  BY <1>1
<1>3. /\ Digit[i + 1] \in -2 .. 2
      /\ Digit[i + 1] > 0 <=> i \in {1, 2, 3}
      /\ Digit[i + 1] < 0 <=> i \in {4, 5, 6}
      /\ Digit[i + 1] \in {2, -2} <=> i \in {3, 4}
  BY <1>2 DEF Digit
<1>4. QED
  BY <1>1, <1>2, <1>3

LEMMA ShiftType ==
  ASSUME NEW s \in Latch, s.k < W \div 2
  PROVE  ShiftOf(s) \in 0 .. W - 1
<1>1. PICK w \in Nat : W = 2 * w /\ W \div 2 = w
  BY WidthType
<1>2. PICK k \in 0 .. w - 1 : k = s.k
  BY <1>1 DEF Latch
<1>3. QED
  BY <1>1, <1>2 DEF ShiftOf

(* A step of the core model from the latches s, and the RTL's *)
Stepped(s, ended) ==
  Shifted(s, Summed(s.acc, Rm(s), ShiftOf(s), Digit[Index(s) + 1]),
          CarryOf(s), ended)

(* A step of the core model, and of the RTL *)
LEMMA CppStepIs ==
  ASSUME cpp \in Latch
  PROVE  CppStep <=> cpp' = Stepped(cpp, cpp.k + 1 = Steps(in.rs))
<1> DEFINE d == Digit[Index(cpp) + 1]
           sh == 2 * cpp.k + (IF d \in {2, -2} THEN 1 ELSE 0)
<1>1. sh = ShiftOf(cpp)
  BY DigitCases, Zenon DEF ShiftOf
<1>2. CppStep <=>
        cpp' = Shifted(cpp, Summed(cpp.acc, Rm(cpp), sh, d),
                       IF sh > 0 THEN Bit(Rm(cpp), W - sh) ELSE in.cin,
                       cpp.k + 1 = Steps(in.rs))
  BY Zenon DEF CppStep, Summed
<1> HIDE DEF d, sh
<1>3. QED
  BY <1>1, <1>2, Zenon DEF Stepped, CarryOf, d

LEMMA RtlStepIs ==
  ASSUME rtl \in Latch, rtl.k < W \div 2, Rm(rtl) \in Values, in.cin \in {0, 1}
  PROVE  RtlStep <=> rtl' = Stepped(rtl, m_last)
<1> DEFINE sh == 2 * rtl.k + (IF m_two THEN 1 ELSE 0)
           out == wren7_shifter(Rm(rtl), "LSL", sh, FALSE, in.cin)
           sum == IF m_neg THEN Cut(rtl.acc + Not(out.q) + 1)
                  ELSE Cut(rtl.acc + out.q)
           d == Digit[Index(rtl) + 1]
<1>1. sh = ShiftOf(rtl) /\ sh \in 0 .. W - 1
  BY ShiftType, Zenon DEF m_two, ShiftOf
<1>2. RtlStep <=>
        rtl' = Shifted(rtl, IF m_pos \/ m_neg THEN sum ELSE rtl.acc, out.c, m_last)
  BY Zenon DEF RtlStep
<1>3. out.q = Left(Rm(rtl), sh) /\ out.c = CarryOf(rtl)
  <2> HIDE DEF sh
  <2>1. /\ out.q = Left(Rm(rtl), sh)
        /\ out.c = IF sh > 0 THEN Bit(Rm(rtl), W - sh) ELSE in.cin
    BY <1>1, FullShift, Zenon
  <2>2. QED
    BY <2>1, <1>1, Zenon DEF CarryOf
<1>4. (IF m_pos \/ m_neg THEN sum ELSE rtl.acc) = Summed(rtl.acc, Rm(rtl), sh, d)
  <2> HIDE DEF sh, out
  <2>1. PICK acc \in Values, x \in Values : acc = rtl.acc /\ x = Left(Rm(rtl), sh)
    <3>1. Left(Rm(rtl), sh) \in Values /\ rtl.acc \in Values
      <4>1. PICK p \in Nat : p = Power(sh)
        <5>1. sh \in 0 .. 32
          BY <1>1, WidthType
        <5>2. QED
          BY <5>1, PowerType
      <4>2. Left(Rm(rtl), sh) = Cut(Rm(rtl) * p)
        BY <4>1, WordType, Zenon
      <4>3. Rm(rtl) * p \in Int
        <5>1. PICK r \in Nat : r = Rm(rtl)
          BY WordSize
        <5>2. QED
          BY <4>1, <5>1
      <4>4. QED
        BY <4>2, <4>3, CutType DEF Latch
    <3>2. QED
      BY <3>1
  <2>2. PICK N \in Nat \ {0} : N = 2^W
    BY WordSize DEF Power
  <2>3. Cut(acc + Not(x) + 1) = Cut(acc - x)
    <3>1. acc \in Int /\ x \in Int /\ 1 \in Int
      BY WordSize
    <3>2. PICK y \in Int, z \in Int : y = acc - x /\ z = acc + Not(x) + 1
      BY <3>1, <2>2 DEF Not
    <3>3. z = y + 1 * N
      BY <3>1, <3>2, <2>2 DEF Not
    <3>4. Cut(z) = Cut(y)
      BY <3>1, <3>3, <2>2, SameWord, Zenon
    <3>5. QED
      BY <3>2, <3>4, Zenon
  <2>4. /\ m_pos <=> d > 0
        /\ m_neg <=> d < 0
        /\ d \in -2 .. 2
    BY DigitCases, Zenon DEF m_pos, m_neg
  <2>5. sum = IF m_neg THEN Cut(acc - x) ELSE Cut(acc + x)
    BY <1>3, <2>1, <2>3, Zenon
  <2> HIDE DEF sum, d
  <2>6. QED
    BY <2>1, <2>4, <2>5 DEF Summed
<1> HIDE DEF sh, out, sum, d
<1>5. QED
  BY <1>1, <1>2, <1>3, <1>4, Zenon DEF Stepped, d

(* A step adds the digit times the multiplicand, up to multiples of the word *)
LEMMA SummedIs ==
  ASSUME NEW s \in Latch, s.k < W \div 2, NEW rm \in Values,
         NEW d, d = Digit[Index(s) + 1], NEW p, p = 2^(2 * s.k)
  PROVE  /\ Summed(s.acc, rm, ShiftOf(s), d) \in Values
         /\ \E z \in Int :
              Summed(s.acc, rm, ShiftOf(s), d) = s.acc + d * (rm * p) + z * 2^W
<1>1. PICK N \in Nat \ {0} : N = 2^W /\ N = Power(W)
  BY WordSize DEF Power
<1>2. PICK sh \in 0 .. 31, k2 \in 0 .. 30 :
        sh = ShiftOf(s) /\ k2 = 2 * s.k /\ sh = k2 + (IF d \in {2, -2} THEN 1 ELSE 0)
  <2>1. PICK w \in {2, 4, 8, 16} : W = 2 * w /\ W \div 2 = w
    BY WidthType
  <2>2. PICK k \in 0 .. w - 1 : k = s.k
    BY <2>1 DEF Latch
  <2>3. ShiftOf(s) = 2 * s.k + (IF d \in {2, -2} THEN 1 ELSE 0)
    BY DigitCases, Zenon DEF ShiftOf
  <2>4. 2 * k \in 0 .. 30 /\ 2 * k + 1 \in 0 .. 31 /\ 2 * k + 0 \in 0 .. 31
    BY <2>1
  <2>5. QED
    BY <2>2, <2>3, <2>4
<1>3. p = Power(k2) /\ p \in Nat
  <2>1. k2 \in 0 .. 32
    OBVIOUS
  <2>2. Power(k2) \in Nat
    BY <2>1, PowerType
  <2>3. p = Power(k2)
    BY <1>2, Zenon DEF Power
  <2>4. QED
    BY <2>2, <2>3
<1>4. Power(sh) = IF d \in {2, -2} THEN 2 * p ELSE p
  <2>1. CASE d \in {2, -2}
    <3>1. sh = k2 + 1 /\ k2 \in 0 .. 31
      BY <1>2, <2>1
    <3>2. Power(sh) = 2 * Power(k2)
      BY <3>1, Doubled
    <3>3. QED
      BY <1>3, <2>1, <3>2
  <2>2. CASE d \notin {2, -2}
    <3>1. sh = k2
      BY <1>2, <2>2
    <3>2. QED
      BY <1>3, <2>2, <3>1
  <2>3. QED
    BY <2>1, <2>2
<1>5. PICK x \in Nat : x = rm * p
  BY <1>3, WordSize
<1>6. PICK y \in Nat : y = (IF d \in {2, -2} THEN 2 * x ELSE x) /\ Left(rm, sh) = Cut(y)
  <2>1. Left(rm, sh) = Cut(rm * Power(sh))
    BY WordType, Zenon
  <2>2. rm \in Nat
    BY WordSize
  <2>3. rm * Power(sh) = IF d \in {2, -2} THEN 2 * x ELSE x
    BY <2>2, <1>3, <1>4, <1>5
  <2>4. QED
    BY <2>1, <2>3
<1>7. PICK l \in Values, i \in Int : l = Left(rm, sh) /\ y = l + i * N
  <2>1. y \in Int
    OBVIOUS
  <2>2. PICK i \in Int : y = Cut(y) + i * 2^W
    BY <2>1, CutType
  <2>3. Cut(y) \in Values
    BY <2>1, CutType
  <2>4. QED
    BY <1>1, <1>6, <2>2, <2>3, Zenon
<1>8. PICK acc \in Values : acc = s.acc
  BY DEF Latch
<1>9. acc \in Nat /\ l \in Nat
  BY WordSize
<1>10. d \in -2 .. 2
  BY DigitCases, Zenon
<1>11. ASSUME NEW a \in Int
       PROVE  Cut(a) \in Values /\ \E z \in Int : Cut(a) = a + z * N
  <2>1. PICK k \in Int, c \in Values : c = Cut(a) /\ a = c + k * N
    BY <1>1, CutType, Zenon
  <2>2. c \in Int
    BY WordSize
  <2>3. c = a + (-k) * N /\ -k \in Int
    BY <2>1, <2>2
  <2>4. QED
    BY <2>1, <2>3, Zenon
<1>12. CASE d > 0
  <2>1. PICK z \in Int, c \in Values : c = Cut(acc + l) /\ c = acc + l + z * N
    <3>1. acc + l \in Int
      BY <1>9
    <3>2. QED
      BY <3>1, <1>11, Zenon
  <2>2. PICK j \in Int : j = z - i
    OBVIOUS
  <2>3. y = d * x
    BY <1>6, <1>10, <1>12
  <2>4. c = acc + d * x + j * N
    <3>1. (z - i) * N = z * N - i * N
      OBVIOUS
    <3>2. c \in Int
      BY WordSize
    <3>3. QED
      BY <3>1, <3>2, <2>1, <2>2, <2>3, <1>7, <1>9
  <2>5. Summed(s.acc, rm, ShiftOf(s), d) = c
    BY <1>2, <1>7, <1>8, <1>10, <1>12, <2>1 DEF Summed
  <2>6. QED
    BY <1>1, <1>5, <1>8, <2>4, <2>5
<1>13. CASE d < 0
  <2>1. PICK z \in Int, c \in Values : c = Cut(acc - l) /\ c = acc - l + z * N
    <3>1. acc - l \in Int
      BY <1>9
    <3>2. QED
      BY <3>1, <1>11, Zenon
  <2>2. PICK j \in Int : j = z + i
    OBVIOUS
  <2>3. -y = d * x
    BY <1>6, <1>10, <1>13
  <2>4. c = acc + d * x + j * N
    <3>1. (z + i) * N = z * N + i * N
      OBVIOUS
    <3>2. c \in Int
      BY WordSize
    <3>3. QED
      BY <3>1, <3>2, <2>1, <2>2, <2>3, <1>7, <1>9
  <2>5. Summed(s.acc, rm, ShiftOf(s), d) = c
    BY <1>2, <1>7, <1>8, <1>10, <1>13, <2>1 DEF Summed
  <2>6. QED
    BY <1>1, <1>5, <1>8, <2>4, <2>5
<1>14. CASE d = 0
  <2>1. Summed(s.acc, rm, ShiftOf(s), d) = acc
    BY <1>8, <1>14 DEF Summed
  <2>2. acc = acc + d * x + 0 * N /\ 0 \in Int
    BY <1>9, <1>14
  <2>3. QED
    BY <1>1, <1>5, <1>8, <2>1, <2>2
<1>15. QED
  BY <1>10, <1>12, <1>13, <1>14

LEMMA SteppedIs ==
  ASSUME NEW s \in Latch, s.k < W \div 2, Rm(s) \in Values, in.cin \in {0, 1},
         NEW ended \in BOOLEAN, NEW t, t = Stepped(s, ended)
  PROVE  /\ t \in Latch /\ t.acc = Summed(s.acc, Rm(s), ShiftOf(s), Digit[Index(s) + 1])
         /\ t.mul = s.mul \div 4 /\ t.borrow = Bit(s.mul, 1) /\ t.k = s.k + 1
         /\ t.ended = ended
<1>1. PICK acc \in Values :
        acc = Summed(s.acc, Rm(s), ShiftOf(s), Digit[Index(s) + 1])
  BY SummedIs, Zenon
<1>2. PICK c \in {0, 1} : c = CarryOf(s)
  <2>1. CASE ~(ShiftOf(s) > 0)
    BY <2>1 DEF CarryOf
  <2>2. CASE ShiftOf(s) > 0
    <3>1. PICK sh \in 0 .. W - 1 : sh = ShiftOf(s)
      BY ShiftType
    <3>2. W - sh \in 0 .. W /\ Rm(s) \in Nat
      <4>1. W - sh \in 0 .. W
        BY WidthType
      <4>2. QED
        BY <4>1, WordSize
    <3>3. Bit(Rm(s), W - sh) \in {0, 1}
      BY <3>2, BitType
    <3>4. QED
      BY <2>2, <3>1, <3>3, Zenon DEF CarryOf
  <2>3. QED
    BY <2>1, <2>2
<1>3. PICK h \in Nat, b1 \in {0, 1} : h = s.mul \div 4 /\ b1 = Bit(s.mul, 1)
  BY DigitIs
<1>4. PICK k \in 0 .. W \div 2 : k = s.k + 1
  BY WidthType DEF Latch
<1>5. t = [s EXCEPT !.acc = acc, !.mul = h, !.borrow = b1, !.k = k, !.c = c,
                    !.ended = ended]
  BY <1>1, <1>2, <1>3, <1>4, Zenon DEF Stepped, Shifted
<1>6. /\ t \in Latch /\ t.acc = acc /\ t.mul = h /\ t.borrow = b1 /\ t.k = k
      /\ t.ended = ended
  BY <1>5 DEF Latch
<1>7. QED
  BY <1>1, <1>3, <1>4, <1>6, Zenon

(* What the sum will be when the rest of the multiplier has been worked off  *)
Ahead(s) == (s.mul + s.borrow) * 2^(2 * s.k)
Owed(s, rm) == Cut(s.acc + rm * Ahead(s))

(* What is owed does not change in a step *)
LEMMA ProductKept ==
  ASSUME NEW s \in Latch, s.k < W \div 2, NEW rm \in Values, rm = Rm(s),
         in.cin \in {0, 1}, NEW ended \in BOOLEAN, NEW t, t = Stepped(s, ended)
  PROVE  Owed(t, rm) = Owed(s, rm)
<1>1. PICK N \in Nat \ {0} : N = 2^W
  BY WordSize DEF Power
<1>2. PICK h \in Nat, b1 \in {0, 1}, b0 \in {0, 1}, d \in Int :
        /\ s.mul = 4 * h + 2 * b1 + b0 /\ s.mul \div 4 = h /\ Bit(s.mul, 1) = b1
        /\ d = Digit[Index(s) + 1] /\ d = b0 + s.borrow - 2 * b1
  <2>1. Digit[Index(s) + 1] \in Int
    BY DigitCases
  <2>2. QED
    BY <2>1, DigitIs
<1>3. PICK e \in {0, 1}, acc \in Values, k \in Nat :
        e = s.borrow /\ acc = s.acc /\ k = s.k
  BY WidthType DEF Latch
<1>4. PICK p \in Nat, q \in Nat : p = 2^(2 * k) /\ q = 2^(2 * (k + 1)) /\ q = 4 * p
  <2>1. PICK i \in 0 .. 30, j \in 0 .. 31, l \in 0 .. 32 :
          i = 2 * k /\ j = i + 1 /\ l = j + 1 /\ l = 2 * (k + 1)
    <3>1. PICK w \in {2, 4, 8, 16} : k \in 0 .. w - 1
      BY <1>3, WidthType
    <3>2. 2 * k \in 0 .. 30 /\ 2 * k + 1 \in 0 .. 31 /\ (2 * k + 1) + 1 \in 0 .. 32
          /\ (2 * k + 1) + 1 = 2 * (k + 1)
      BY <3>1
    <3>3. QED
      BY <3>2
  <2>2. Power(j) = 2 * Power(i)
    <3>1. i \in 0 .. 31
      OBVIOUS
    <3>2. QED
      BY <2>1, <3>1, Doubled
  <2>3. Power(l) = 2 * Power(j)
    BY <2>1, Doubled
  <2>4. Power(i) \in Nat /\ Power(l) \in Nat
    <3>1. i \in 0 .. 32
      OBVIOUS
    <3>2. QED
      BY <3>1, PowerType
  <2>5. Power(i) = 2^(2 * k) /\ Power(l) = 2^(2 * (k + 1))
    BY <2>1, Zenon DEF Power
  <2>6. Power(l) = 4 * Power(i)
    BY <2>2, <2>3, <2>4
  <2>7. QED
    BY <2>4, <2>5, <2>6
<1>5. PICK sum \in Values, z \in Int :
        sum = t.acc /\ sum = acc + d * (rm * p) + z * N
  <2>1. p = 2^(2 * s.k)
    BY <1>3, <1>4, Zenon
  <2>2. d = Digit[Index(s) + 1] /\ Rm(s) \in Values
    BY <1>2
  <2>3. PICK sum \in Values, z \in Int :
          /\ sum = Summed(s.acc, rm, ShiftOf(s), d)
          /\ sum = s.acc + d * (rm * p) + z * 2^W
    <3>1. /\ Summed(s.acc, rm, ShiftOf(s), d) \in Values
          /\ \E z \in Int :
               Summed(s.acc, rm, ShiftOf(s), d) = s.acc + d * (rm * p) + z * 2^W
      BY <2>1, <2>2, SummedIs
    <3>2. QED
      BY <3>1, Zenon
  <2>4. t.acc = Summed(s.acc, Rm(s), ShiftOf(s), Digit[Index(s) + 1])
    BY <2>2, SteppedIs
  <2>5. QED
    BY <2>2, <2>3, <2>4, <1>1, <1>3, Zenon
<1>6. t.mul = h /\ t.borrow = b1 /\ t.k = k + 1
  BY <1>2, <1>3, SteppedIs, Zenon
<1>7. Owed(s, rm) = Cut(acc + rm * (((4 * h + 2 * b1 + b0) + e) * p))
  BY <1>2, <1>3, <1>4, Zenon DEF Owed, Ahead
<1>8. Owed(t, rm) = Cut(sum + rm * ((h + b1) * q))
  BY <1>4, <1>5, <1>6, Zenon DEF Owed, Ahead
<1>9. PICK x \in Nat, m \in Nat : x = rm * p /\ m = h * x
  BY WordSize
<1>10. PICK u \in Int, v \in Int :
         /\ u = acc + rm * (((4 * h + 2 * b1 + b0) + e) * p)
         /\ v = sum + rm * ((h + b1) * q)
  BY WordSize
<1>11. u = acc + 4 * m + (2 * b1 + b0 + e) * x
  <2>1. rm * (((4 * h + 2 * b1 + b0) + e) * p) = 4 * (h * (rm * p)) + (2 * b1 + b0 + e) * (rm * p)
    BY WordSize
  <2>2. acc \in Nat
    BY WordSize
  <2>3. QED
    BY <1>9, <1>10, <2>1, <2>2
<1>12. v = sum + 4 * m + 4 * b1 * x
  <2>1. rm * ((h + b1) * (4 * p)) = 4 * (h * (rm * p)) + 4 * b1 * (rm * p)
    BY WordSize
  <2>2. sum \in Nat
    BY WordSize
  <2>3. QED
    BY <1>4, <1>9, <1>10, <2>1, <2>2
<1>13. v = u + z * N
  <2>1. sum = acc + (b0 + e - 2 * b1) * x + z * N
    BY <1>2, <1>3, <1>5, <1>9
  <2>2. acc \in Nat /\ sum \in Nat
    BY WordSize
  <2>3. QED
    BY <2>1, <2>2, <1>11, <1>12
<1>14. QED
  <2>1. v = u + z * 2^W
    BY <1>1, <1>13, Zenon
  <2>2. Cut(v) = Cut(u)
    BY <2>1, SameWord
  <2>3. QED
    BY <2>2, <1>7, <1>8, <1>10, Zenon

(* The multiplier loses two bits a step *)
LEMMA DividedTwice ==
  ASSUME NEW v \in Nat, NEW a \in Nat \ {0}, NEW b \in Nat \ {0}
  PROVE  (v \div a) \div b = v \div (a * b)
<1>1. v \in Int
  OBVIOUS
<1>2. PICK q \in Int, r \in 0 .. a - 1 : q = v \div a /\ v = q * a + r
  BY <1>1, Divided, Zenon
<1>3. PICK u \in Int, t \in 0 .. b - 1 : u = q \div b /\ q = u * b + t
  BY Divided, Zenon
<1>4. PICK N \in Nat \ {0} : N = a * b
  OBVIOUS
<1>5. PICK ta \in Nat : ta = t * a
  OBVIOUS
<1>6. ta + r \in 0 .. N - 1
  <2>1. t * a <= (b - 1) * a
    BY Ordered
  <2>2. (b - 1) * a = a * b - a
    OBVIOUS
  <2>3. QED
    BY <2>1, <2>2, <1>4, <1>5
<1>7. v = u * N + (ta + r)
  <2>1. (u * b + t) * a = u * (a * b) + t * a
    OBVIOUS
  <2>2. q * a = u * N + ta
    BY <2>1, <1>3, <1>4, <1>5, Zenon
  <2>3. PICK x \in Int, y \in Int : x = q * a /\ y = u * N
    BY <1>2
  <2>4. v = x + r /\ x = y + ta
    BY <2>2, <2>3, <1>2, Zenon
  <2>5. QED
    BY <2>3, <2>4
<1>8. PICK s \in 0 .. N - 1 : s = ta + r
  BY <1>6
<1>9. v = u * N + s
  BY <1>7, <1>8
<1>10. v \div N = u
  BY <1>1, <1>9, Quotient
<1>11. QED
  BY <1>2, <1>3, <1>4, <1>10, Zenon

(* What is left of it, and whether its last bits are used *)
LEMMA MultiplierLeft ==
  ASSUME NEW rs \in Nat, NEW k \in 0 .. W \div 2 - 1, NEW mul,
         mul = rs \div 2^(2 * k)
  PROVE  /\ mul \in Nat /\ mul \div 4 = rs \div 2^(2 * (k + 1))
         /\ mul \div 2 = rs \div 2^(2 * (k + 1) - 1)
<1>1. PICK i \in 0 .. 30, j \in 0 .. 32, l \in 0 .. 32 :
        /\ i = 2 * k /\ j = i + 1 /\ l = j + 1
        /\ l = 2 * (k + 1) /\ j = 2 * (k + 1) - 1
  <2>1. PICK w \in {2, 4, 8, 16} : k \in 0 .. w - 1
    BY WidthType
  <2>2. /\ 2 * k \in 0 .. 30 /\ 2 * k + 1 \in 0 .. 32 /\ (2 * k + 1) + 1 \in 0 .. 32
        /\ (2 * k + 1) + 1 = 2 * (k + 1) /\ 2 * k + 1 = 2 * (k + 1) - 1
    BY <2>1
  <2>3. QED
    BY <2>2
<1>2. PICK p \in Nat \ {0} : p = Power(i) /\ p = 2^(2 * k)
  <2>1. i \in 0 .. 32
    OBVIOUS
  <2>2. Power(i) \in Nat \ {0} /\ Power(i) = 2^(2 * k)
    BY <2>1, <1>1, PowerType DEF Power
  <2>3. QED
    BY <2>2
<1>3. Power(j) = p * 2 /\ Power(l) = p * 4
  <2>1. i \in 0 .. 31 /\ j \in 0 .. 31
    BY <1>1
  <2>2. Power(j) = 2 * Power(i) /\ Power(l) = 2 * Power(j)
    BY <2>1, <1>1, Doubled
  <2>3. QED
    BY <2>2, <1>2
<1>4. Power(j) = 2^(2 * (k + 1) - 1) /\ Power(l) = 2^(2 * (k + 1))
  BY <1>1, Zenon DEF Power
<1>5. mul = rs \div p
  BY <1>2, Zenon
<1>6. mul \in Nat
  BY <1>5
<1>7. (rs \div p) \div 2 = rs \div (p * 2) /\ (rs \div p) \div 4 = rs \div (p * 4)
  <2>1. 2 \in Nat \ {0} /\ 4 \in Nat \ {0}
    OBVIOUS
  <2>2. QED
    BY <2>1, DividedTwice
<1>8. QED
  BY <1>3, <1>4, <1>5, <1>6, <1>7, Zenon

-----------------------------------------------------------------------------
(* The inductive invariant *)

OpType ==
  \/ in \in Multiplication
  \/ in \in DataOp
  \/ in \in Shift /\ (in.imm => in.n < W)

(* No step up to k has been the last *)
Unseen(k) == \A l \in 1 .. k : in.rs \div 2^(2 * l - 1) # 0

(* The multiplier that is left, which steps there have been, and what the    *)
(* sum so far and the steps to come amount to                                *)
MulInv ==
  in.op = "MUL" =>
    /\ rtl.mul = in.rs \div 2^(2 * rtl.k)
    /\ ~rtl.ended => rtl.k < W \div 2 /\ Unseen(rtl.k)
    /\ rtl.ended =>
         /\ rtl.k # 0 /\ Last(in.rs, rtl.k) /\ Unseen(rtl.k - 1)
         /\ rtl.k = W \div 2 \/ rtl.mul + rtl.borrow = 0
    /\ ~in.same => Owed(rtl, in.rm) = Cut(in.acc + in.rm * in.rs)
    /\ in.same /\ in.acc = 0 => rtl.acc = 0

AluInv ==
  in.op = "ALU" /\ rtl.ended =>
    SumIs([q |-> rtl.acc, c |-> rtl.c, v |-> rtl.v], in.opc, in.a, in.b, in.cin)

DataInv == OpType /\ rtl \in Latch /\ cpp = rtl /\ MulInv /\ AluInv

(* The operands' types *)
LEMMA OpFields ==
  ASSUME OpType
  PROVE  /\ in.cin \in {0, 1}
         /\ in.op = "MUL" => /\ in.rm \in Values /\ in.rs \in Values
                             /\ in.acc \in Values /\ in.same \in BOOLEAN
         /\ in.op = "ALU" => /\ in.opc \in Arithmetics /\ in.a \in Values
                             /\ in.b \in Values
         /\ in.op = "SHIFT" => /\ in.rm \in Values /\ in.type \in Types
                               /\ in.imm \in BOOLEAN /\ in.n \in Nat
                               /\ (in.imm => in.n < W)
BY OperandAssumption DEF OpType, Multiplication, DataOp, Shift

Fresh(s, acc, rs) ==
  /\ s \in Latch /\ s.acc = acc /\ s.mul = rs /\ s.borrow = 0 /\ s.k = 0
  /\ s.ended = FALSE

LEMMA LatchedIs ==
  ASSUME NEW acc, NEW rs, acc \in Values, rs \in Values
  PROVE  Fresh(Latched(acc, rs), acc, rs)
<1>1. 0 \in 0 .. W \div 2 /\ rs \in Nat
  BY WidthType, WordSize
<1>2. QED
  BY <1>1 DEF Fresh, Latched, Latch

LEMMA DataInitInv == DataInit => DataInv
<1> SUFFICES ASSUME DataInit
             PROVE  DataInv
  OBVIOUS
<1>1. OpType /\ cpp = rtl
  BY DEF DataInit, OpType
<1>2. 0 \in Values
  <2>1. PICK N \in Nat \ {0} : Values = 0 .. N - 1
    BY WordSize, WordType
  <2>2. QED
    BY <2>1
<1>3. CASE in \in Multiplication
  <2>1. /\ in.op = "MUL" /\ rtl = Latched(in.acc, in.rs)
        /\ in.acc \in Values /\ in.rs \in Values /\ in.rm \in Values
    BY <1>3, OperandAssumption DEF DataInit, Multiplication, DataOp, Shift
  <2>2. /\ rtl \in Latch /\ rtl.acc = in.acc /\ rtl.mul = in.rs /\ rtl.borrow = 0
        /\ rtl.k = 0 /\ rtl.ended = FALSE
    <3>1. Fresh(Latched(in.acc, in.rs), in.acc, in.rs)
      BY <2>1, LatchedIs
    <3>2. QED
      BY <2>1, <3>1 DEF Fresh
  <2>3. in.rs \in Nat /\ in.rm \in Nat /\ in.acc \in Nat /\ W \div 2 > 0
    <3>1. W \div 2 > 0
      BY WidthType
    <3>2. QED
      BY <3>1, <2>1, WordSize, Zenon
  <2>4. PICK i \in Nat : i = 2 * rtl.k /\ i = 0 /\ 2^i = 1
    <3>1. PICK i \in Nat : i = 0
      OBVIOUS
    <3>2. Power(i) = 1
      BY <3>1, Powers
    <3>3. 2 * rtl.k = 0
      BY <2>2
    <3>4. QED
      BY <3>1, <3>2, <3>3, Zenon DEF Power
  <2>5. rtl.mul = in.rs \div 2^(2 * rtl.k)
    <3>1. in.rs \div 2^i = in.rs
      BY <2>3, <2>4
    <3>2. QED
      BY <2>2, <2>4, <3>1, Zenon
  <2>6. Owed(rtl, in.rm) = Cut(in.acc + in.rm * in.rs)
    <3>1. Ahead(rtl) = (in.rs + 0) * 1
      BY <2>2, <2>4, Zenon DEF Ahead
    <3>2. Ahead(rtl) = in.rs
      BY <3>1, <2>3
    <3>3. QED
      BY <3>2, <2>2, Zenon DEF Owed
  <2>7. Unseen(rtl.k)
    BY <2>2 DEF Unseen
  <2>8. MulInv /\ AluInv
    BY <2>1, <2>2, <2>3, <2>5, <2>6, <2>7 DEF MulInv, AluInv
  <2>9. QED
    BY <1>1, <2>2, <2>8 DEF DataInv
<1>4. CASE in \notin Multiplication
  <2>1. in.op # "MUL" /\ rtl = Latched(0, 0)
    BY <1>4 DEF DataInit, DataOp, Shift
  <2>2. rtl \in Latch /\ rtl.ended = FALSE
    BY <2>1, <1>2, LatchedIs DEF Fresh
  <2>3. QED
    BY <1>1, <2>1, <2>2 DEF DataInv, MulInv, AluInv
<1>5. QED
  BY <1>3, <1>4

-----------------------------------------------------------------------------
(* The steps *)

IsOut(o) == o.q \in Values /\ o.c \in {0, 1}

LEMMA OutIs ==
  ASSUME NEW q \in Values, NEW c \in {0, 1}
  PROVE  IsOut(Out(q, c))
BY DEF IsOut, Out

(* What a shift has as its result *)
LEMMA RightType ==
  ASSUME NEW v \in Values, NEW n \in 1 .. W - 1
  PROVE  Right(v, n) \in Values /\ Rotated(v, n) \in Values
<1>1. PICK m \in 1 .. W - 1 : W = n + m
  <2>1. W - n \in 1 .. W - 1 /\ W = n + (W - n)
    BY WidthType
  <2>2. QED
    BY <2>1
<1>2. n \in 0 .. W /\ m \in 0 .. W /\ W \in 0 .. W
  BY WordSize
<1>3. v \in 0 .. Power(W) - 1
  BY WordType, Zenon
<1>4. PICK hi, lo \in Nat : Cuts(v, n, m, hi, lo)
  BY <1>1, <1>2, <1>3, CutAt, Zenon
<1>5. Right(v, n) = hi /\ Rotated(v, n) \in Values
  BY <1>1, <1>2, <1>4, RotatedIs
<1>6. PICK P \in Nat \ {0} : P = Power(n)
  BY <1>1, <1>2, Parts
<1>7. v = hi * P + lo
  BY <1>4, <1>6 DEF Cuts
<1>8. hi <= hi * P
  <2>1. 1 \in Int /\ P \in Int /\ 1 <= P
    BY <1>6
  <2>2. 1 * hi <= P * hi
    BY <2>1, Ordered
  <2>3. QED
    BY <2>2
<1>9. PICK N \in Nat \ {0} : N = Power(W)
  BY WordSize
<1>10. hi \in 0 .. N - 1
  <2>1. PICK x \in Nat : x = hi * P
    BY <1>6
  <2>2. QED
    BY <2>1, <1>3, <1>7, <1>8, <1>9
<1>11. QED
  BY <1>5, <1>9, <1>10, WordType, Zenon

LEMMA WithinType ==
  ASSUME NEW v \in Values, NEW t \in Types, NEW n \in 1 .. W - 1
  PROVE  IsOut(Within(v, t, n))
<1>1. n - 1 \in 0 .. W /\ W - n \in 0 .. W /\ v \in Nat
  BY WidthType, WordSize
<1>2. Bit(v, n - 1) \in {0, 1} /\ Bit(v, W - n) \in {0, 1}
  BY <1>1, BitType, Zenon
<1>3. Left(v, n) \in Values
  <2>1. PICK z \in Int : z = v * Power(n)
    <3>1. n \in 0 .. 32
      BY WidthType
    <3>2. Power(n) \in Nat
      BY <3>1, PowerType
    <3>3. QED
      BY <3>2, <1>1
  <2>2. Left(v, n) = Cut(z)
    BY <2>1, WordType, Zenon
  <2>3. QED
    BY <2>2, CutType, Zenon
<1>4. Arithmetic(v, n) \in Values
  <2>1. PICK z \in Int : z = (v - Sign(v) * 2^W) \div 2^n
    <3>1. n \in 0 .. 32
      BY WidthType
    <3>2. PICK p \in Nat \ {0}, N \in Nat \ {0}, s \in {0, 1} :
            p = 2^n /\ N = 2^W /\ s = Sign(v)
      <4>1. Power(n) \in Nat \ {0} /\ Power(W) \in Nat \ {0}
        BY <3>1, PowerType, WordSize
      <4>2. W - 1 \in 0 .. W
        BY WidthType
      <4>3. Sign(v) \in {0, 1}
        BY <1>1, <4>2, BitType DEF Sign
      <4>4. QED
        BY <4>1, <4>3 DEF Power
    <3>3. PICK u \in Int : u = v - s * N
      BY <1>1, <3>2
    <3>4. u \div p \in Int
      BY <3>2, <3>3
    <3>5. QED
      BY <3>2, <3>3, <3>4, Zenon
  <2>2. Arithmetic(v, n) = Cut(z)
    BY <2>1, Zenon DEF Arithmetic
  <2>3. QED
    BY <2>2, CutType, Zenon
<1>5. Right(v, n) \in Values /\ Rotated(v, n) \in Values
  BY RightType
<1>6. CASE t = "LSL"
  BY <1>2, <1>3, <1>6, OutIs DEF Within
<1>7. CASE t = "LSR"
  BY <1>2, <1>5, <1>7, OutIs DEF Within
<1>8. CASE t = "ASR"
  BY <1>2, <1>4, <1>8, OutIs DEF Within
<1>9. CASE t = "ROR"
  BY <1>2, <1>5, <1>9, OutIs DEF Within
<1>10. QED
  BY <1>6, <1>7, <1>8, <1>9 DEF Types

LEMMA ShiftedType ==
  ASSUME NEW v \in Values, NEW t \in Types, NEW n \in Nat, NEW cin \in {0, 1}
  PROVE  /\ n < W => IsOut(shift_imm(v, t, n, cin))
         /\ IsOut(shift_reg(v, t, n, cin))
<1>1. PICK H \in Nat \ {0} :
        H = 2^(W - 1) /\ 2^W = 2 * H /\ Values = 0 .. 2 * H - 1
  BY HalfWord
<1>2. 0 \in Values /\ W \in Nat /\ v \in Nat /\ W > 3
  BY <1>1, WidthType
<1>3. Arithmetic(v, W) \in Values /\ Sign(v) \in {0, 1}
  <2>1. Arithmetic(v, W) = Sign(v) * (2^W - 1) /\ Sign(v) \in {0, 1}
    BY ShiftedOut
  <2>2. PICK s \in {0, 1} : s = Sign(v)
    BY <2>1
  <2>3. s * (2 * H - 1) \in Values
    BY <1>1
  <2>4. QED
    BY <2>1, <2>2, <2>3, <1>1, Zenon
<1>4. Bit(v, 0) \in {0, 1}
  <2>1. 0 \in 0 .. W
    BY <1>2
  <2>2. QED
    BY <1>2, <2>1, BitType
<1>5. IsOut(RotatedExtended(v, cin))
  <2>1. Right(v, 1) = v \div 2
    BY SMT DEF Right
  <2>2. cin * H + v \div 2 \in Values
    BY <1>1
  <2>3. cin * 2^(W - 1) + Right(v, 1) \in Values
    BY <1>1, <2>1, <2>2, Zenon
  <2>4. QED
    BY <1>4, <2>3, OutIs DEF RotatedExtended
<1>6. \A i \in 1 .. W - 1 : IsOut(Within(v, t, i))
  BY WithinType
<1>7. IsOut(Out(v, cin)) /\ IsOut(Out(v, Sign(v))) /\ IsOut(Out(0, Sign(v)))
  BY <1>2, <1>3, OutIs
<1>8. IsOut(Out(0, 0)) /\ IsOut(Out(0, Bit(v, 0))) /\ IsOut(Out(Arithmetic(v, W), Sign(v)))
  BY <1>2, <1>3, <1>4, OutIs
<1>9. n < W => IsOut(shift_imm(v, t, n, cin))
  BY <1>2, <1>5, <1>6, <1>7, <1>8 DEF shift_imm, Types
<1>10. IsOut(shift_reg(v, t, n, cin))
  <2>1. CASE n = 0
    BY <2>1, <1>2, <1>7 DEF shift_reg
  <2>2. CASE n # 0 /\ t = "ROR"
    <3>1. n % W \in 0 .. W - 1
      BY <1>2
    <3>2. CASE n % W = 0
      BY <2>2, <3>2, <1>7 DEF shift_reg
    <3>3. CASE n % W # 0
      <4>1. IsOut(Within(v, t, n % W))
        BY <3>1, <3>3, <1>6
      <4>2. QED
        BY <2>2, <3>3, <4>1 DEF shift_reg
    <3>4. QED
      BY <3>2, <3>3
  <2>3. CASE t # "ROR" /\ n \in 1 .. W - 1
    BY <2>3, <1>2, <1>6 DEF shift_reg
  <2>4. CASE t # "ROR" /\ n >= W
    BY <2>4, <1>2, <1>7, <1>8 DEF shift_reg, Types
  <2>5. QED
    BY <2>1, <2>2, <2>3, <2>4, <1>2
<1>11. QED
  BY <1>9, <1>10

(* A shift keeps the invariant *)
LEMMA ShiftKeeps ==
  ASSUME DataInv, ShiftOnce
  PROVE  DataInv'
<1>1. /\ in' = in /\ in.op = "SHIFT" /\ OpType /\ cpp = rtl /\ rtl \in Latch
  BY DEF DataInv, ShiftOnce
<1>2. /\ in.cin \in {0, 1} /\ in.rm \in Values /\ in.type \in Types
      /\ in.imm \in BOOLEAN /\ in.n \in Nat /\ (in.imm => in.n < W)
  BY <1>1, OpFields
<1>3. PICK o : o = IF in.imm THEN shift_imm(in.rm, in.type, in.n, in.cin)
                             ELSE shift_reg(in.rm, in.type, in.n, in.cin)
  OBVIOUS
<1>4. IsOut(o)
  <2>1. /\ in.n < W => IsOut(shift_imm(in.rm, in.type, in.n, in.cin))
        /\ IsOut(shift_reg(in.rm, in.type, in.n, in.cin))
    BY <1>2, ShiftedType
  <2>2. QED
    BY <1>2, <1>3, <2>1
<1>5. wren7_shifter(in.rm, in.type, in.n, in.imm, in.cin) = o
  BY <1>2, <1>3, ShiftersAgree
<1>6. /\ cpp' = [cpp EXCEPT !.acc = o.q, !.c = o.c, !.ended = TRUE]
      /\ rtl' = [rtl EXCEPT !.acc = o.q, !.c = o.c, !.ended = TRUE]
  BY <1>3, <1>5 DEF ShiftOnce
<1>7. rtl' \in Latch /\ cpp' = rtl'
  BY <1>1, <1>4, <1>6 DEF Latch, IsOut
<1>8. OpType'
  BY <1>1 DEF OpType
<1>9. MulInv' /\ AluInv'
  BY <1>1 DEF MulInv, AluInv
<1>10. QED
  BY <1>7, <1>8, <1>9 DEF DataInv

(* A sum or a difference keeps the invariant *)
LEMMA ArithmeticKeeps ==
  ASSUME DataInv, ArithmeticOnce
  PROVE  DataInv'
<1>1. /\ in' = in /\ in.op = "ALU" /\ OpType /\ cpp = rtl /\ rtl \in Latch
  BY DEF DataInv, ArithmeticOnce
<1>2. /\ in.cin \in {0, 1} /\ in.opc \in Arithmetics /\ in.a \in Values
      /\ in.b \in Values
  BY <1>1, OpFields
<1>3. PICK o : o = CppSum(in.opc, in.a, in.b, in.cin)
  OBVIOUS
<1>4. SumIs(o, in.opc, in.a, in.b, in.cin)
  BY <1>2, <1>3, SumRight
<1>5. RtlSum(in.opc, in.a, in.b, in.cin) = o
  BY <1>2, <1>3, SumsAgree
<1>6. cpp' = Finished(rtl, o) /\ rtl' = Finished(rtl, o)
  BY <1>1, <1>3, <1>5 DEF ArithmeticOnce
<1>7. o.q \in Values /\ o.c \in {0, 1} /\ o.v \in {0, 1}
  BY <1>4 DEF SumIs
<1>8. /\ rtl' \in Latch /\ cpp' = rtl'
      /\ rtl'.acc = o.q /\ rtl'.c = o.c /\ rtl'.v = o.v
  BY <1>1, <1>6, <1>7 DEF Latch, Finished
<1>9. OpType'
  BY <1>1 DEF OpType
<1>10. SumIs([q |-> o.q, c |-> o.c, v |-> o.v], in.opc, in.a, in.b, in.cin)
  BY <1>4, Zenon DEF SumIs
<1>11. MulInv' /\ AluInv'
  BY <1>1, <1>8, <1>10 DEF MulInv, AluInv
<1>12. QED
  BY <1>8, <1>9, <1>11 DEF DataInv

(* A Booth step keeps the invariant *)
LEMMA MulKeeps ==
  ASSUME DataInv, MulStep
  PROVE  DataInv'
<1>1. /\ in' = in /\ in.op = "MUL" /\ OpType /\ cpp = rtl /\ rtl \in Latch
      /\ rtl.ended = FALSE /\ CppStep /\ RtlStep /\ MulInv
  BY DEF DataInv, MulStep, Latch
<1>2. /\ in.cin \in {0, 1} /\ in.rm \in Values /\ in.rs \in Values
      /\ in.acc \in Values /\ in.same \in BOOLEAN
  BY <1>1, OpFields
<1>3. PICK s \in Latch : s = rtl
  BY <1>1
<1>4. /\ s.mul = in.rs \div 2^(2 * s.k) /\ s.k < W \div 2 /\ Unseen(s.k)
      /\ ~in.same => Owed(s, in.rm) = Cut(in.acc + in.rm * in.rs)
      /\ in.same /\ in.acc = 0 => s.acc = 0
  BY <1>1, <1>3 DEF MulInv
<1>5. Rm(s) \in Values
  BY <1>2 DEF Rm, Latch
<1>6. PICK k \in 0 .. W \div 2 - 1, m \in 1 .. W \div 2 :
        k = s.k /\ m = k + 1 /\ m - 1 = k
  <2>1. s.k \in 0 .. W \div 2 - 1 /\ s.k + 1 \in 1 .. W \div 2
    BY <1>4, WidthType DEF Latch
  <2>2. QED
    BY <2>1
<1>7. /\ s.mul \in Nat /\ s.mul \div 4 = in.rs \div 2^(2 * m)
      /\ s.mul \div 2 = in.rs \div 2^(2 * m - 1)
  <2>1. PICK rs \in Nat : rs = in.rs
    BY <1>2, WordSize
  <2>2. s.mul = rs \div 2^(2 * k)
    BY <1>4, <1>6, <2>1, Zenon
  <2>3. /\ s.mul \in Nat /\ s.mul \div 4 = rs \div 2^(2 * (k + 1))
        /\ s.mul \div 2 = rs \div 2^(2 * (k + 1) - 1)
    BY <1>6, <2>1, <2>2, MultiplierLeft
  <2>4. QED
    BY <1>6, <2>1, <2>3, Zenon
<1>8. m_last <=> Last(in.rs, m)
  <2>1. rtl.k = W \div 2 - 1 <=> m = W \div 2
    BY <1>3, <1>6, WidthType
  <2>2. QED
    BY <1>3, <1>7, <2>1, Zenon DEF m_last, Last
<1>9. m = Steps(in.rs) <=> Last(in.rs, m)
  <2>1. \A l \in 1 .. m - 1 : in.rs \div 2^(2 * l - 1) # 0
    BY <1>4, <1>6, Zenon DEF Unseen
  <2>2. QED
    BY <1>6, <2>1, EndSeen
<1>10. PICK e \in BOOLEAN : e <=> Last(in.rs, m)
  <2>1. Last(in.rs, m) \in BOOLEAN
    BY DEF Last
  <2>2. QED
    BY <2>1
<1>11. rtl' = Stepped(s, e) /\ cpp' = Stepped(s, e)
  <2>1. m_last = e /\ (cpp.k + 1 = Steps(in.rs)) = e
    <3>1. m_last \in BOOLEAN
      BY DEF m_last
    <3>2. cpp.k + 1 = m
      BY <1>1, <1>3, <1>6
    <3>3. (m = Steps(in.rs)) = e
      BY <1>9, <1>10
    <3>4. m_last = e
      BY <1>8, <1>10, <3>1
    <3>5. QED
      BY <3>2, <3>3, <3>4, Zenon
  <2>2. cpp' = Stepped(cpp, cpp.k + 1 = Steps(in.rs))
    <3>1. cpp \in Latch
      BY <1>1
    <3>2. QED
      BY <1>1, <3>1, CppStepIs
  <2>3. rtl' = Stepped(rtl, m_last)
    <3>1. rtl \in Latch /\ rtl.k < W \div 2 /\ Rm(rtl) \in Values
      BY <1>1, <1>3, <1>4, <1>5
    <3>2. QED
      BY <1>1, <1>2, <3>1, RtlStepIs
  <2>4. QED
    BY <1>1, <1>3, <2>1, <2>2, <2>3, Zenon
<1>12. PICK t : t = Stepped(s, e)
  OBVIOUS
<1>13. /\ t \in Latch /\ t.acc = Summed(s.acc, Rm(s), ShiftOf(s), Digit[Index(s) + 1])
       /\ t.mul = s.mul \div 4 /\ t.borrow = Bit(s.mul, 1) /\ t.k = m
       /\ t.ended = e
  <2>1. /\ t \in Latch /\ t.acc = Summed(s.acc, Rm(s), ShiftOf(s), Digit[Index(s) + 1])
        /\ t.mul = s.mul \div 4 /\ t.borrow = Bit(s.mul, 1) /\ t.k = s.k + 1
        /\ t.ended = e
    BY <1>2, <1>3, <1>4, <1>5, <1>10, <1>12, SteppedIs
  <2>2. QED
    BY <2>1, <1>6, Zenon
<1>14. t.mul = in.rs \div 2^(2 * t.k)
  BY <1>7, <1>13, Zenon
<1>15. ASSUME ~t.ended PROVE t.k < W \div 2 /\ Unseen(t.k)
  <2>1. ~Last(in.rs, m)
    BY <1>10, <1>13, <1>15
  <2>2. m # W \div 2 /\ in.rs \div 2^(2 * m - 1) # 0
    BY <2>1 DEF Last
  <2>3. \A l \in 1 .. m : l = m \/ l \in 1 .. k
    BY <1>6
  <2>4. Unseen(m)
    BY <1>4, <1>6, <2>2, <2>3, Zenon DEF Unseen
  <2>5. m < W \div 2
    BY <1>6, <2>2, WidthType
  <2>6. QED
    BY <1>13, <2>4, <2>5, Zenon
<1>16. ASSUME t.ended
       PROVE  /\ t.k # 0 /\ Last(in.rs, t.k) /\ Unseen(t.k - 1)
              /\ t.k = W \div 2 \/ t.mul + t.borrow = 0
  <2>1. Last(in.rs, m)
    BY <1>10, <1>13, <1>16
  <2>2. Unseen(m - 1)
    BY <1>4, <1>6, Zenon
  <2>3. ASSUME m # W \div 2 PROVE t.mul + t.borrow = 0
    <3>1. s.mul \div 2 = 0
      BY <2>1, <2>3, <1>7 DEF Last
    <3>2. s.mul \in {0, 1}
      BY <3>1, <1>7
    <3>3. PICK h \in Nat, b1 \in {0, 1}, b0 \in {0, 1} :
            s.mul = 4 * h + 2 * b1 + b0 /\ s.mul \div 4 = h /\ Bit(s.mul, 1) = b1
      BY <1>3, DigitIs
    <3>4. h = 0 /\ b1 = 0
      BY <3>2, <3>3
    <3>5. QED
      BY <3>3, <3>4, <1>13
  <2>4. m # 0
    BY <1>6
  <2>5. QED
    BY <1>13, <2>1, <2>2, <2>3, <2>4, Zenon
<1>17. ASSUME ~in.same PROVE Owed(t, in.rm) = Cut(in.acc + in.rm * in.rs)
  <2>1. Rm(s) = in.rm
    BY <1>17 DEF Rm
  <2>2. PICK rm \in Values : rm = in.rm /\ rm = Rm(s)
    BY <1>2, <2>1
  <2>3. Owed(t, rm) = Owed(s, rm)
    BY <1>2, <1>3, <1>4, <1>10, <1>12, <2>2, ProductKept
  <2>4. QED
    BY <1>4, <1>17, <2>2, <2>3, Zenon
<1>18. ASSUME in.same, in.acc = 0 PROVE t.acc = 0
  <2>1. s.acc = 0 /\ Rm(s) = 0
    BY <1>4, <1>18 DEF Rm
  <2>2. PICK i \in 0 .. 32 : i = ShiftOf(s)
    <3>1. ShiftOf(s) \in 0 .. W - 1
      BY <1>3, <1>4, ShiftType
    <3>2. QED
      BY <3>1, WidthType
  <2>3. PICK p \in Nat \ {0} : p = Power(i)
    BY <2>2, PowerType
  <2>4. PICK N \in Nat \ {0} : N = Power(W)
    BY WordSize
  <2>5. Cut(0) = 0
    <3>1. 0 % N = 0
      OBVIOUS
    <3>2. QED
      BY <3>1, <2>4, WordType, Zenon
  <2>6. Left(0, i) = 0
    <3>1. 0 * p = 0
      OBVIOUS
    <3>2. Left(0, i) = Cut(0 * Power(i))
      BY WordType
    <3>3. QED
      BY <3>1, <3>2, <2>3, <2>5, Zenon
  <2>7. PICK d \in -2 .. 2 : d = Digit[Index(s) + 1]
    BY <1>3, DigitCases
  <2>8. Summed(0, 0, i, d) = 0
    BY <2>5, <2>6, <2>7 DEF Summed
  <2>9. QED
    BY <1>13, <2>1, <2>2, <2>7, <2>8, Zenon
<1>19. rtl' = t /\ cpp' = t
  BY <1>11, <1>12, Zenon
<1>20. OpType'
  BY <1>1 DEF OpType
<1>21. MulInv'
  <2>1. Unseen(t.k)' <=> Unseen(t.k)
    BY <1>1 DEF Unseen
  <2>2. Unseen(t.k - 1)' <=> Unseen(t.k - 1)
    BY <1>1 DEF Unseen
  <2>3. QED
    BY <1>1, <1>14, <1>15, <1>16, <1>17, <1>18, <1>19 DEF MulInv, Unseen
<1>22. AluInv'
  BY <1>1 DEF AluInv
<1>23. QED
  BY <1>13, <1>19, <1>20, <1>21, <1>22 DEF DataInv

(* The inductive invariant: both data paths hold the same latches, and the  *)
(* multiplier's say how much of the product is still owed (c_mul, S_MUL).   *)
THEOREM DataInvariant == DataSpec => []DataInv
<1>1. DataInv /\ [DataNext]_dvars => DataInv'
  <2> SUFFICES ASSUME DataInv, [DataNext]_dvars
               PROVE  DataInv'
    OBVIOUS
  <2>1. CASE MulStep
    BY <2>1, MulKeeps
  <2>2. CASE ShiftOnce
    BY <2>2, ShiftKeeps
  <2>3. CASE ArithmeticOnce
    BY <2>3, ArithmeticKeeps
  <2>4. CASE UNCHANGED dvars
    BY <2>4 DEF dvars, DataInv, OpType, MulInv, AluInv, Unseen
  <2>5. QED
    BY <2>1, <2>2, <2>3, <2>4 DEF DataNext
<1>2. QED
  BY <1>1, DataInitInv, PTL DEF DataSpec

-----------------------------------------------------------------------------
(* The theorems *)

(* The two data paths have the same latches after every cycle (c_mul,       *)
(* shift_imm, shift_reg and dp_finish of arm7di.cpp against S_MUL, the      *)
(* shifter and the adder of the RTL), whatever the operands.                *)
THEOREM AgreeCorrect == DataSpec => []DatapathsAgree
<1>1. DataInv => DatapathsAgree
  BY DEF DataInv, DatapathsAgree
<1>2. QED
  BY <1>1, DataInvariant, PTL

(* A word is its own rest *)
LEMMA Whole ==
  ASSUME NEW a \in Values
  PROVE  Cut(a) = a
<1>1. PICK N \in Nat \ {0} : N = Power(W)
  BY WordSize
<1>2. a \in 0 .. N - 1
  BY <1>1, WordType, Zenon
<1>3. a % N = a
  BY <1>2
<1>4. QED
  BY <1>1, <1>3, WordType, Zenon

(* Nothing is owed when the multiplier is used up, or when what is left is   *)
(* worth a multiple of the word                                              *)
LEMMA NothingOwed ==
  ASSUME NEW s \in Latch, NEW rm \in Values,
         s.k = W \div 2 \/ s.mul + s.borrow = 0
  PROVE  Owed(s, rm) = s.acc
<1>1. PICK a \in Values, x \in Nat, y \in Nat, z \in Nat :
        a = s.acc /\ x = s.mul + s.borrow /\ y = 2^(2 * s.k) /\ z = x * y
  <2>1. s.mul + s.borrow \in Nat
    BY DEF Latch
  <2>2. 2^(2 * s.k) \in Nat
    <3>1. PICK i \in 0 .. 32 : i = 2 * s.k
      <4>1. 2 * s.k \in 0 .. 32
        BY WidthType DEF Latch
      <4>2. QED
        BY <4>1
    <3>2. QED
      BY <3>1, PowerType, Zenon DEF Power
  <2>3. s.acc \in Values
    BY DEF Latch
  <2>4. PICK x \in Nat, y \in Nat : x = s.mul + s.borrow /\ y = 2^(2 * s.k)
    BY <2>1, <2>2
  <2>5. x * y \in Nat
    BY <2>4
  <2>6. QED
    BY <2>3, <2>4, <2>5
<1>2. a \in Nat /\ rm \in Nat
  BY <1>1, WordSize
<1>3. Owed(s, rm) = Cut(a + rm * z)
  BY <1>1, Zenon DEF Owed, Ahead
<1>4. Cut(a) = a
  BY <1>1, Whole
<1>5. CASE x = 0
  <2>1. z = 0
    BY <1>1, <1>5
  <2>2. a + rm * z = a
    BY <2>1, <1>2
  <2>3. QED
    BY <2>2, <1>1, <1>3, <1>4, Zenon
<1>6. CASE s.k = W \div 2
  <2>1. y = 2^W
    <3>1. 2 * s.k = W
      BY <1>6, WidthType
    <3>2. QED
      BY <1>1, <3>1, Zenon
  <2>2. PICK l \in Int : l = rm * x
    BY <1>1, <1>2
  <2>3. rm * z = l * y
    <3>1. rm * (x * y) = (rm * x) * y
      BY <1>1, <1>2
    <3>2. QED
      BY <1>1, <2>2, <3>1, Zenon
  <2>4. PICK u \in Int : u = a + rm * z
    BY <1>1, <1>2
  <2>5. u = a + l * 2^W
    BY <2>1, <2>3, <2>4, Zenon
  <2>6. a \in Int
    BY <1>2
  <2>7. Cut(u) = Cut(a)
    BY <2>2, <2>4, <2>5, <2>6, SameWord
  <2>8. QED
    BY <2>4, <2>7, <1>1, <1>3, <1>4, Zenon
<1>7. QED
  BY <1>1, <1>5, <1>6

(* A multiplication ends with the product, after as many steps as the data   *)
(* sheet gives its multiplier; a sum or a difference with its value, carry   *)
(* and overflow (c_mul and its comment, add() and its comment).              *)
THEOREM ResultCorrect == DataSpec => []ResultRight
<1>1. DataInv => ResultRight
  <2> SUFFICES ASSUME DataInv, rtl.ended
               PROVE  /\ in.op = "MUL" =>
                           /\ rtl.k = datasheet_m(in.rs)
                           /\ ~in.same => rtl.acc = Cut(in.acc + in.rm * in.rs)
                           /\ in.same /\ in.acc = 0 => rtl.acc = 0
                      /\ in.op = "ALU" =>
                           LET u == Exact(in.opc, in.a, in.b, in.cin)
                               s == Exact(in.opc, Signed(in.a), Signed(in.b), in.cin)
                           IN  /\ rtl.acc = Cut(u)
                               /\ rtl.c = 1 <=> u >= (IF Adds(in.opc) THEN 2^W ELSE 0)
                               /\ rtl.v = 1 <=> s \notin -2^(W - 1) .. 2^(W - 1) - 1
    BY Zenon DEF ResultRight
  <2>1. OpType /\ rtl \in Latch /\ MulInv /\ AluInv
    BY DEF DataInv
  <2>2. ASSUME in.op = "MUL"
        PROVE  /\ rtl.k = datasheet_m(in.rs)
               /\ ~in.same => rtl.acc = Cut(in.acc + in.rm * in.rs)
               /\ in.same /\ in.acc = 0 => rtl.acc = 0
    <3>1. /\ rtl.k # 0 /\ Last(in.rs, rtl.k) /\ Unseen(rtl.k - 1)
          /\ rtl.k = W \div 2 \/ rtl.mul + rtl.borrow = 0
          /\ ~in.same => Owed(rtl, in.rm) = Cut(in.acc + in.rm * in.rs)
          /\ in.same /\ in.acc = 0 => rtl.acc = 0
      BY <2>1, <2>2 DEF MulInv
    <3>2. in.rs \in Values /\ in.rm \in Values
      BY <2>1, <2>2, OpFields
    <3>3. rtl.k = datasheet_m(in.rs)
      <4>1. rtl.k \in 1 .. W \div 2
        BY <2>1, <3>1, WidthType DEF Latch
      <4>2. \A l \in 1 .. rtl.k - 1 : in.rs \div 2^(2 * l - 1) # 0
        BY <3>1 DEF Unseen
      <4>3. QED
        BY <3>1, <3>2, <4>1, <4>2, SheetSteps
    <3>4. Owed(rtl, in.rm) = rtl.acc
      BY <2>1, <3>1, <3>2, NothingOwed
    <3>5. QED
      BY <3>1, <3>3, <3>4, Zenon
  <2>3. ASSUME in.op = "ALU"
        PROVE  LET u == Exact(in.opc, in.a, in.b, in.cin)
                   s == Exact(in.opc, Signed(in.a), Signed(in.b), in.cin)
               IN  /\ rtl.acc = Cut(u)
                   /\ rtl.c = 1 <=> u >= (IF Adds(in.opc) THEN 2^W ELSE 0)
                   /\ rtl.v = 1 <=> s \notin -2^(W - 1) .. 2^(W - 1) - 1
    <3>1. PICK o : o = [q |-> rtl.acc, c |-> rtl.c, v |-> rtl.v]
      OBVIOUS
    <3>2. SumIs(o, in.opc, in.a, in.b, in.cin)
      BY <2>1, <2>3, <3>1 DEF AluInv
    <3>3. o.q = rtl.acc /\ o.c = rtl.c /\ o.v = rtl.v
      BY <3>1
    <3>4. QED
      BY <3>2, <3>3, Zenon DEF SumIs, SignedRange
  <2>4. QED
    BY <2>2, <2>3, Zenon
<1>2. QED
  BY <1>1, DataInvariant, PTL

=============================================================================
