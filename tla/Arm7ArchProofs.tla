--------------------------- MODULE Arm7ArchProofs ---------------------------
(***************************************************************************)
(* Types of the words, registers and lists both cores compute with.         *)
(***************************************************************************)
EXTENDS Arm7Arch, FiniteSetTheorems, TLAPS

LEMMA PlusType ==
  ASSUME NEW a \in Word, NEW n \in Int
  PROVE  Plus(a, n) \in Word
  BY SizeAssumption DEF Plus, Word

LEMMA IncType ==
  ASSUME NEW a \in Word
  PROVE  Inc(a) \in Word /\ Dec(a) \in Word
  BY SizeAssumption DEF Inc, Dec, Plus, Word

LEMMA DecInc ==
  ASSUME NEW a \in Word
  PROVE  Dec(Inc(a)) = a
  BY SizeAssumption DEF Inc, Dec, Plus, Word

(* Remainders *)

LEMMA Remainder ==
  ASSUME NEW S \in Nat \ {0}, NEW b \in Int
  PROVE  \E q \in Int, r \in 0 .. S - 1 : b = S * q + r /\ b % S = r
<1>1. b \div S \in Int /\ b % S \in 0 .. S - 1
  OBVIOUS
<1>2. ASSUME NEW q, q = b \div S, NEW r, r = b % S
      PROVE  b = S * q + r
  BY <1>2
<1>3. PICK q \in Int, r \in 0 .. S - 1 : q = b \div S /\ r = b % S
  BY <1>1, Zenon
<1>4. b = S * q + r
  BY <1>2, <1>3
<1>5. QED
  BY <1>3, <1>4, Zenon

LEMMA SameRemainder ==
  ASSUME NEW S \in Nat \ {0}, NEW r \in 0 .. S - 1, NEW v \in 0 .. S - 1,
         NEW q \in Int, NEW u \in Int, S * q + r = S * u + v
  PROVE  r = v
OBVIOUS

LEMMA ModPlus ==
  ASSUME NEW S \in Nat \ {0}, NEW b \in Int, NEW n \in Int
  PROVE  ((b % S) + n) % S = (b + n) % S
<1>1. PICK q \in Int, r \in 0 .. S - 1 : b = S * q + r /\ b % S = r
  BY Remainder
<1>2. b + n \in Int /\ r + n \in Int
  OBVIOUS
<1>3. PICK u \in Int, v \in 0 .. S - 1 : b + n = S * u + v /\ (b + n) % S = v
  BY <1>2, Remainder
<1>4. PICK w \in Int, z \in 0 .. S - 1 : r + n = S * w + z /\ (r + n) % S = z
  BY <1>2, Remainder
<1>5. b = S * q + r /\ b + n = S * u + v /\ r + n = S * w + z
  BY <1>1, <1>3, <1>4
<1>6. S * (q + w) + z = S * u + v
  BY <1>5
<1>7. z = v
  BY <1>6, SameRemainder
<1>8. QED
  BY <1>1, <1>3, <1>4, <1>7

LEMMA PlusPlus ==
  ASSUME NEW a \in Word, NEW m \in Int, NEW n \in Int
  PROVE  Plus(Plus(a, m), n) = Plus(a, m + n)
<1>1. a \in Int /\ Size \in Nat \ {0} /\ a + m \in Int
  BY SizeAssumption DEF Word
<1>2. (((a + m) % Size) + n) % Size = ((a + m) + n) % Size
  BY <1>1, ModPlus
<1>3. (a + m) + n = a + (m + n)
  BY <1>1
<1>4. QED
  BY <1>2, <1>3 DEF Plus

LEMMA PlusZero ==
  ASSUME NEW a \in Word
  PROVE  Plus(a, 0) = a
BY SizeAssumption DEF Plus, Word

LEMMA IncDec ==
  ASSUME NEW a \in Word
  PROVE  Inc(Dec(a)) = a
  BY SizeAssumption DEF Inc, Dec, Plus, Word

LEMMA PhysType ==
  ASSUME NEW r \in Reg, r # "pc", NEW b \in Bank
  PROVE  Phys(r, b) \in PhysReg
  BY DEF Reg, Bank, Phys, PhysReg

LEMMA BankOfType ==
  ASSUME NEW m \in Mode
  PROVE  BankOf(m) \in Bank
  BY DEF Mode, Bank, BankOf

LEMMA RegFinite == IsFiniteSet(Reg)
<1>1. IsFiniteSet({} \cup {"r0"})
  BY FS_EmptySet, FS_AddElement
<1>2. IsFiniteSet(({} \cup {"r0"}) \cup {"r8"})
  BY <1>1, FS_AddElement
<1>3. IsFiniteSet((({} \cup {"r0"}) \cup {"r8"}) \cup {"r14"})
  BY <1>2, FS_AddElement
<1>4. IsFiniteSet(((({} \cup {"r0"}) \cup {"r8"}) \cup {"r14"}) \cup {"pc"})
  BY <1>3, FS_AddElement
<1>5. Reg = ((({} \cup {"r0"}) \cup {"r8"}) \cup {"r14"}) \cup {"pc"}
  BY DEF Reg
<1>6. QED
  BY <1>4, <1>5

LEMMA ListType ==
  ASSUME NEW op \in Insn
  PROVE  List(op) \subseteq Reg /\ Words(op) \in Int
<1>1. op.list \subseteq Reg
  BY DEF Insn
<1>3. Cardinality(op.list) \in Nat
  BY <1>1, RegFinite, FS_Subset, FS_CardinalityType
<1>4. List(op) \subseteq Reg
  BY <1>1 DEF List, Reg
<1>5. Words(op) \in Int
  BY <1>3 DEF Words
<1>6. QED
  BY <1>4, <1>5

=============================================================================
