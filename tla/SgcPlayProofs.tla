---------------------------- MODULE SgcPlayProofs ----------------------------
(***************************************************************************)
(* Proofs about the sound generator's slots: an ADPCM channel has its word   *)
(* in every sample and fetches in exactly the measured share of them, at     *)
(* every pitch and start; and the channels come in order, for every number   *)
(* of steps, phase and first channel.                                        *)
(***************************************************************************)
EXTENDS SgcPlay, FiniteSetTheorems, TLAPS

-----------------------------------------------------------------------------
(* Quotients and remainders *)

LEMMA Divided ==
  ASSUME NEW a \in Int, NEW s \in Nat \ {0}
  PROVE  /\ a \div s \in Int /\ a % s \in 0 .. s - 1
         /\ a = s * (a \div s) + (a % s)
<1>1. a \div s \in Int /\ a % s \in 0 .. s - 1
  OBVIOUS
<1>2. ASSUME NEW q, q = a \div s, NEW r, r = a % s
      PROVE  a = s * q + r
  BY <1>2
<1>3. a = s * (a \div s) + (a % s)
  BY <1>2, Zenon
<1>4. QED
  BY <1>1, <1>3, Zenon

LEMMA Division ==
  ASSUME NEW a \in Int, NEW s \in Nat \ {0}
  PROVE  \E q \in Int, r \in 0 .. s - 1 : a = s * q + r /\ a % s = r
<1>1. PICK q \in Int, r \in 0 .. s - 1 : q = a \div s /\ r = a % s
  BY Divided, Zenon
<1>2. a = s * q + r
  BY <1>1, Divided, Zenon
<1>3. QED
  BY <1>1, <1>2, Zenon

LEMMA OneQuotient ==
  ASSUME NEW s \in Nat \ {0}, NEW q \in Int, NEW u \in Int,
         NEW r \in 0 .. s - 1, NEW v \in 0 .. s - 1, s * q + r = s * u + v
  PROVE  q = u /\ r = v
OBVIOUS

(* The quotient and the remainder of a number written as such *)
LEMMA Quotient ==
  ASSUME NEW s \in Nat \ {0}, NEW q \in Int, NEW r \in 0 .. s - 1,
         NEW a \in Int, a = s * q + r
  PROVE  a \div s = q /\ a % s = r
BY Divided, OneQuotient

-----------------------------------------------------------------------------
(* The order of the channels *)

LEMMA ChannelCount == Cardinality(Channel) = Steps \div 2
<1>1. Steps \div 2 \in Nat
  BY StepsAssumption
<1>2. QED
  BY <1>1, FS_Interval DEF Channel

(* The channels whose slots come before step 0 belong to the next sample:    *)
(* in the code steps 114 to 126 of 128, sgc_step0 = -14 and channels 0 to 6. *)
Wrapped == SgcStep0 = Steps - 2 * Early /\ 2 * Early <= Steps

(* Seen from channel 0's step the grid is one count of steps.                *)
LEMMA FromChannel0 ==
  ASSUME Wrapped, NEW b \in Int
  PROVE  LET e == b - DspPhase + 2 * Early
         IN  /\ SgcIndex(StepAt(b)) = e % Steps
             /\ SampleAt(b) + (IF e % Steps < 2 * Early THEN 1 ELSE 0)
                  = e \div Steps
<1> DEFINE d == b - DspPhase
           e == d + 2 * Early
           Q == e \div Steps
           R == e % Steps
           past == R < 2 * Early
           q == IF past THEN Q - 1 ELSE Q
           r == IF past THEN Steps + R - 2 * Early ELSE R - 2 * Early
<1>1. Steps \in Nat \ {0} /\ Early \in Nat /\ DspPhase \in Int /\ SgcStep0 \in Int
  BY StepsAssumption, PhaseAssumption
<1>2. d \in Int /\ e \in Int
  BY <1>1
<1>3. Q \in Int /\ R \in 0 .. Steps - 1 /\ e = Steps * Q + R
  BY <1>1, <1>2, Divided
<1> HIDE DEF Q, R
<1>4. q \in Int /\ r \in 0 .. Steps - 1
  BY <1>1, <1>3 DEF Wrapped
<1>5. d = Steps * q + r
  BY <1>1, <1>2, <1>3
<1> HIDE DEF d, q, r
<1>6. d \div Steps = q /\ d % Steps = r
  BY <1>1, <1>2, <1>4, <1>5, Quotient
<1>7. SampleAt(b) + (IF past THEN 1 ELSE 0) = Q
  BY <1>3, <1>6 DEF SampleAt, d, q
<1>8. SgcIndex(StepAt(b)) = R
  <2>1. SgcIndex(StepAt(b)) = (r - SgcStep0) % Steps
    BY <1>6 DEF SgcIndex, StepAt, d
  <2>2. r - SgcStep0 = Steps * (IF past THEN 0 ELSE -1) + R
    BY <1>1, <1>3 DEF Wrapped, r
  <2>3. QED
    BY <1>1, <1>3, <1>4, <2>1, <2>2, Quotient
<1>9. QED
  BY <1>7, <1>8 DEF Q, R, d

LEMMA SlotIs ==
  ASSUME Wrapped, NEW b \in Int, HasChannel(StepAt(b))
  PROVE  Slot(b) \in Int /\ 2 * Slot(b) = b - DspPhase + 2 * Early
<1> DEFINE e == b - DspPhase + 2 * Early
           Q == e \div Steps
           R == e % Steps
<1>1. Steps \in Nat \ {0} /\ Steps % 2 = 0 /\ Early \in Nat /\ e \in Int
  BY StepsAssumption, PhaseAssumption
<1>2. Q \in Int /\ R \in 0 .. Steps - 1 /\ e = Steps * Q + R
  BY <1>1, Divided
<1>3. /\ SgcIndex(StepAt(b)) = R
      /\ SampleAt(b) + (IF R < 2 * Early THEN 1 ELSE 0) = Q
  BY FromChannel0
<1>4. R % 2 = 0 /\ ChannelAt(StepAt(b)) = R \div 2
  BY <1>3 DEF HasChannel, ChannelAt
<1> HIDE DEF Q, R, e
<1>5. R \div 2 < Early <=> R < 2 * Early
  BY <1>1, <1>2, <1>4
<1>6. SgcSample(R \div 2, SampleAt(b)) = Q
  BY <1>3, <1>5 DEF SgcSample
<1>7. Slot(b) = Q * (Steps \div 2) + R \div 2
  BY <1>4, <1>6, ChannelCount DEF Slot
<1>8. PICK h \in Nat : Steps = 2 * h /\ Steps \div 2 = h
  BY <1>1
<1>9. PICK j \in Nat : R = 2 * j /\ R \div 2 = j
  BY <1>2, <1>4
<1>10. Slot(b) = Q * h + j
  BY <1>7, <1>8, <1>9
<1>11. e = 2 * (h * Q) + 2 * j
  BY <1>2, <1>8, <1>9
<1>12. QED
  BY <1>2, <1>10, <1>11 DEF e

(* Every second step is a channel's *)
LEMMA EvenLeft ==
  ASSUME NEW h \in Int, NEW q \in Int, NEW u \in Int, NEW r \in Int, NEW v \in Int,
         r % 2 = 0, (2 * h) * q + r + 2 = (2 * h) * u + v
  PROVE  v % 2 = 0
<1>1. r = 2 * (r \div 2) /\ r \div 2 \in Int
  OBVIOUS
<1>2. PICK j \in Int : r = 2 * j
  BY <1>1
<1>3. h * q \in Int /\ h * u \in Int
  OBVIOUS
<1>4. PICK m \in Int, n \in Int : m = h * q /\ n = h * u
  BY <1>3
<1>5. v = 2 * (m + j + 1 - n)
  BY <1>2, <1>4
<1>6. QED
  BY <1>2, <1>4, <1>5

LEMMA EverySecond ==
  ASSUME Wrapped, NEW b \in Int, HasChannel(StepAt(b)), NEW c \in Int, c = b + 2
  PROVE  HasChannel(StepAt(c))
<1> DEFINE e == b - DspPhase + 2 * Early
           f == c - DspPhase + 2 * Early
<1>1. Steps \in Nat \ {0} /\ Steps % 2 = 0 /\ e \in Int /\ f \in Int /\ f = e + 2
  BY StepsAssumption, PhaseAssumption
<1>2. SgcIndex(StepAt(b)) = e % Steps
  BY FromChannel0
<1>3. SgcIndex(StepAt(c)) = f % Steps
  BY FromChannel0
<1> HIDE DEF e, f
<1>4. PICK q \in Int, r \in 0 .. Steps - 1 : e = Steps * q + r /\ e % Steps = r
  BY <1>1, Division
<1>5. PICK u \in Int, v \in 0 .. Steps - 1 : f = Steps * u + v /\ f % Steps = v
  BY <1>1, Division
<1>6. PICK h \in Int : Steps = 2 * h
  BY <1>1
<1>7. r % 2 = 0
  BY <1>2, <1>4 DEF HasChannel
<1>8. (2 * h) * q + r + 2 = (2 * h) * u + v
  BY <1>1, <1>4, <1>5, <1>6
<1>9. v % 2 = 0
  BY <1>7, <1>8, EvenLeft
<1>10. QED
  BY <1>3, <1>5, <1>9 DEF HasChannel

LEMMA Ordered ==
  ASSUME Wrapped, g \in Int
  PROVE  InOrder
<1>1. ASSUME NEW b \in Int, HasChannel(StepAt(b)), NEW c \in Int, c = b + 2
      PROVE  Slot(c) = Slot(b) + 1
  <2>1. Slot(b) \in Int /\ 2 * Slot(b) = b - DspPhase + 2 * Early
    BY <1>1, SlotIs
  <2>2. Slot(c) \in Int /\ 2 * Slot(c) = c - DspPhase + 2 * Early
    BY <1>1, EverySecond, SlotIs
  <2>3. PICK i \in Int, j \in Int : i = Slot(b) /\ j = Slot(c)
    BY <2>1, <2>2, Zenon
  <2>4. DspPhase \in Int /\ Early \in Int /\ c = b + 2
    BY <1>1, PhaseAssumption
  <2>5. 2 * i = b - DspPhase + 2 * Early /\ 2 * j = c - DspPhase + 2 * Early
    BY <2>1, <2>2, <2>3, Zenon
  <2>6. j = i + 1
    BY <2>4, <2>5
  <2>7. QED
    BY <2>3, <2>6, Zenon
<1>2. \A b \in g .. g + Steps : b \in Int /\ b + 2 \in Int
  BY StepsAssumption
<1>3. QED
  BY <1>1, <1>2, Zenon DEF InOrder

-----------------------------------------------------------------------------
(* The play position and its word never go back *)

LEMMA Powers == \A n \in 0 .. 6 : 2^n \in Nat \ {0}
<1>1. /\ 2^0 = 1 /\ 2^1 = 2 /\ 2^2 = 4 /\ 2^3 = 8 /\ 2^4 = 16 /\ 2^5 = 32
      /\ 2^6 = 64
  OBVIOUS
<1>2. SUFFICES ASSUME NEW n \in 0 .. 6 PROVE 2^n \in Nat \ {0}
  OBVIOUS
<1>3. n \in {0, 1, 2, 3, 4, 5, 6}
  BY <1>2
<1>4. 2^n \in {2^0, 2^1, 2^2, 2^3, 2^4, 2^5, 2^6}
  BY <1>3, Zenon
<1>5. 2^n \in {1, 2, 4, 8, 16, 32, 64}
  BY <1>1, <1>4, Zenon
<1>6. QED
  BY <1>5

LEMMA IncrementType ==
  ASSUME NEW oct \in 0 .. 15, oct \notin 3 .. 7, NEW fns \in 0 .. 1023
  PROVE  Increment(oct, fns) \in Nat
<1>1. SignedOct(oct) + 4 \in -4 .. 6
  BY DEF SignedOct
<1>2. PICK n \in -4 .. 6 : n = SignedOct(oct) + 4
  BY <1>1, Zenon
<1>3. CASE n >= 0
  <2>1. n \in 0 .. 6
    BY <1>3
  <2>2. PICK w \in Nat \ {0} : w = 2^n
    BY <2>1, Powers, Zenon
  <2>3. Increment(oct, fns) = (1024 + fns) * w
    BY <1>2, <1>3, <2>2 DEF Increment, Shifted
  <2>4. QED
    BY <2>2, <2>3
<1>4. CASE n < 0
  <2>1. -n \in 0 .. 6
    BY <1>4
  <2>2. PICK w \in Nat \ {0} : w = 2^(-n)
    BY <2>1, Powers, Zenon
  <2>3. Increment(oct, fns) = (1024 + fns) \div w
    BY <1>2, <1>4, <2>2 DEF Increment, Shifted
  <2>4. QED
    BY <2>2, <2>3
<1>5. QED
  BY <1>2, <1>3, <1>4

LEMMA PositionRuns ==
  ASSUME NEW oct \in 0 .. 15, oct \notin 3 .. 7, NEW fns \in 0 .. 1023, NEW n \in Nat
  PROVE  /\ Position(n, oct, fns) \in Nat /\ Position(n + 1, oct, fns) \in Nat
         /\ Position(n, oct, fns) <= Position(n + 1, oct, fns)
<1>1. PICK i \in Nat : i = Increment(oct, fns)
  BY IncrementType, Zenon
<1>2. n * i \in Nat /\ (n + 1) * i \in Nat /\ n * i <= (n + 1) * i
  <2>1. PICK m \in Nat : m = n * i
    BY <1>1
  <2>2. (n + 1) * i = m + i
    BY <2>1
  <2>3. QED
    BY <2>1, <2>2
<1>3. PICK m \in Nat, k \in Nat : m = n * i /\ k = (n + 1) * i /\ m <= k
  BY <1>2, Zenon
<1>4. m \div 16384 \in Nat /\ k \div 16384 \in Nat /\ m \div 16384 <= k \div 16384
  BY <1>3
<1>5. Position(n + 1, oct, fns) = k \div 16384
  BY <1>1, <1>3 DEF Position
<1>6. n > 0 => Position(n, oct, fns) = m \div 16384
  BY <1>1, <1>3 DEF Position
<1>7. n = 0 => Position(n, oct, fns) = 0
  BY DEF Position
<1>8. QED
  BY <1>4, <1>5, <1>6, <1>7

LEMMA WordRuns ==
  ASSUME NEW sa \in Nat, NEW p \in Nat, NEW q \in Nat, p <= q
  PROVE  WordAt(sa, p) \in Nat /\ WordAt(sa, q) \in Nat
         /\ WordAt(sa, p) <= WordAt(sa, q)
BY DEF WordAt

(* Without a fetch the word of the look-ahead nibble is the one held.        *)
Fetched(n, oct, fns, sa) == AdpcmFetch(n + 1, oct, fns, sa)
Kept(n, oct, fns, sa) ==
  WordAt(sa, Position(n + 1, oct, fns) + 1) = WordAt(sa, Position(n, oct, fns) + 1)

LEMMA NoFetch ==
  ASSUME NEW oct \in 0 .. 15, oct \notin 3 .. 7, NEW fns \in 0 .. 1023,
         NEW sa \in Nat, NEW n \in Nat
  PROVE  Fetched(n, oct, fns, sa) \/ Kept(n, oct, fns, sa)
<1> SUFFICES ASSUME ~AdpcmFetch(n + 1, oct, fns, sa)
             PROVE  WordAt(sa, Position(n + 1, oct, fns) + 1)
                      = WordAt(sa, Position(n, oct, fns) + 1)
  BY Zenon DEF Fetched, Kept
<1>1. PICK p0 \in Nat, p1 \in Nat :
        /\ p0 = Position(n, oct, fns) /\ p1 = Position(n + 1, oct, fns)
        /\ p0 <= p1
  <2>1. /\ Position(n, oct, fns) \in Nat /\ Position(n + 1, oct, fns) \in Nat
        /\ Position(n, oct, fns) <= Position(n + 1, oct, fns)
    BY PositionRuns
  <2>2. QED
    BY <2>1, Zenon
<1>2. n + 1 - 1 = n
  OBVIOUS
<1>3. WordAt(sa, p1) = WordAt(sa, p0) /\ WordAt(sa, p1 + 1) = WordAt(sa, p1)
  BY <1>1, <1>2 DEF AdpcmFetch
<1>4. p0 + 1 \in Nat /\ p1 + 1 \in Nat /\ p0 <= p0 + 1 /\ p0 + 1 <= p1 + 1
  BY <1>1
<1>5. /\ WordAt(sa, p0) \in Nat /\ WordAt(sa, p0 + 1) \in Nat
      /\ WordAt(sa, p1 + 1) \in Nat
      /\ WordAt(sa, p0) <= WordAt(sa, p0 + 1)
      /\ WordAt(sa, p0 + 1) <= WordAt(sa, p1 + 1)
  BY <1>4, WordRuns
<1>6. WordAt(sa, p1 + 1) = WordAt(sa, p0 + 1)
  BY <1>3, <1>5
<1>7. QED
  BY <1>1, <1>6

-----------------------------------------------------------------------------
(* Playing *)

LEMMA ChanRegisters ==
  ASSUME NEW c \in Chan
  PROVE  c.oct \in 0 .. 15 /\ c.fns \in 0 .. 1023 /\ c.sa \in Nat
<1>1. c.oct \in Octs /\ c.fns \in Fnss /\ c.sa \in Starts
  BY DEF Chan
<1>2. /\ \A o \in Octs : o \in 0 .. 15
      /\ \A f \in Fnss : f \in 0 .. 1023
      /\ \A a \in Starts : a \in Nat
  BY RegisterAssumption
<1>3. QED
  BY <1>1, <1>2

PlayInv == g \in Int /\ Number \in Nat /\ chan \in Chan /\ Supplied

LEMMA FirstNumber ==
  ASSUME g = DspPhase PROVE Number = 0
<1>1. Steps \in Nat \ {0} /\ g - DspPhase = 0 /\ g - DspPhase = Steps * 0 + 0
  BY StepsAssumption, PhaseAssumption
<1>2. QED
  BY <1>1, Quotient DEF Number, SampleAt

(* The first word is read with the start address.                            *)
LEMMA FirstWord ==
  ASSUME g = DspPhase, chan \in Chan, held = WordAt(chan.sa, 0)
  PROVE  PlayInv
<1>1. Number = 0
  BY FirstNumber
<1>2. chan.sa \in Nat /\ Position(0, chan.oct, chan.fns) = 0
  <2>1. Position(0, chan.oct, chan.fns) = 0
    BY DEF Position
  <2>2. QED
    BY <2>1, ChanRegisters
<1>3. WordAt(chan.sa, 1) = WordAt(chan.sa, 0)
  BY <1>2 DEF WordAt
<1>4. QED
  BY <1>1, <1>2, <1>3, PhaseAssumption DEF PlayInv, Supplied

LEMMA NextSample ==
  ASSUME g \in Int, Number \in Nat
  PROVE  g + Steps \in Int /\ SampleAt(g + Steps) = Number + 1
<1>1. Steps \in Nat \ {0} /\ DspPhase \in Int /\ g - DspPhase \in Int
  BY StepsAssumption, PhaseAssumption
<1>2. PICK q \in Int, r \in 0 .. Steps - 1 :
        q = (g - DspPhase) \div Steps /\ r = (g - DspPhase) % Steps
  BY <1>1, Divided, Zenon
<1>3. g - DspPhase = Steps * q + r
  BY <1>1, <1>2, Divided, Zenon
<1>4. g + Steps - DspPhase = Steps * (q + 1) + r /\ g + Steps - DspPhase \in Int
  BY <1>1, <1>3
<1>5. (g + Steps - DspPhase) \div Steps = q + 1
  <2>1. PICK a \in Int : a = g + Steps - DspPhase
    BY <1>4, Zenon
  <2>2. PICK u \in Int : u = q + 1
    BY <1>2
  <2>3. a = Steps * u + r
    BY <1>4, <2>1, <2>2
  <2>4. a \div Steps = u
    BY <1>1, <1>2, <2>3, Quotient
  <2>5. QED
    BY <2>1, <2>2, <2>4, Zenon
<1>6. QED
  BY <1>1, <1>2, <1>5 DEF SampleAt, Number

LEMMA PlayStep ==
  ASSUME PlayInv, [PlaySample \/ KeyOn]_svars
  PROVE  PlayInv'
<1>1. CASE PlaySample
  <2>1. /\ g' = g + Steps /\ chan' = chan /\ g' \in Int
        /\ SampleAt(g') = Number + 1 /\ Number \in Nat /\ Number' = Number + 1
    BY <1>1, NextSample DEF PlaySample, PlayInv, Number, SampleAt
  <2>2. /\ chan.oct \in 0 .. 15 /\ chan.fns \in 0 .. 1023 /\ chan.sa \in Nat
        /\ chan \in Chan
    BY ChanRegisters DEF PlayInv
  <2> DEFINE p(n) == WordAt(chan.sa, Position(n, chan.oct, chan.fns) + 1)
  <2>3. SUFFICES ASSUME chan.oct \notin 3 .. 7 PROVE held' = p(Number + 1)
    BY <2>1, <2>2 DEF PlayInv, Supplied
  <2>4. held = p(Number)
    BY <2>3 DEF PlayInv, Supplied
  <2>5. CASE AdpcmFetch(Number + 1, chan.oct, chan.fns, chan.sa)
    BY <1>1, <2>1, <2>5 DEF PlaySample
  <2>6. CASE ~AdpcmFetch(Number + 1, chan.oct, chan.fns, chan.sa)
    <3>1. held' = held
      BY <1>1, <2>1, <2>6 DEF PlaySample
    <3>2. PICK n \in Nat : n = Number
      BY <2>1
    <3>3. PICK oct \in 0 .. 15, fns \in 0 .. 1023, sa \in Nat :
            oct = chan.oct /\ fns = chan.fns /\ sa = chan.sa
      BY <2>2, Zenon
    <3>4. oct \notin 3 .. 7
      BY <2>3, <3>3, Zenon
    <3>5. Fetched(n, oct, fns, sa) \/ Kept(n, oct, fns, sa)
      BY <3>4, NoFetch
    <3>6. ~AdpcmFetch(n + 1, oct, fns, sa)
      BY <2>6, <3>2, <3>3, Zenon
    <3>7. p(n + 1) = p(n)
      BY <3>3, <3>5, <3>6, Zenon DEF Fetched, Kept
    <3>8. QED
      BY <2>4, <3>1, <3>2, <3>7
  <2>7. QED
    BY <2>5, <2>6
<1>2. CASE KeyOn
  <2>1. g' = DspPhase /\ chan' \in Chan /\ held' = WordAt(chan'.sa, 0)
    BY <1>2 DEF KeyOn
  <2>2. (g = DspPhase /\ chan \in Chan /\ held = WordAt(chan.sa, 0) => PlayInv)'
    BY FirstWord, PTL
  <2>3. QED
    BY <2>1, <2>2 DEF Chan
<1>3. CASE UNCHANGED svars
  BY <1>3 DEF svars, PlayInv, Supplied, Number, SampleAt, Chan
<1>4. QED
  BY <1>1, <1>2, <1>3

(* In every sample the word of the look-ahead nibble is held, with at most   *)
(* one fetch in a sample.                                                    *)
THEOREM SuppliedCorrect == PlaySpec => []Supplied
<1>1. Play => PlayInv
  BY FirstWord DEF Play
<1>2. PlayInv => Supplied
  BY DEF PlayInv
<1>3. QED
  BY <1>1, <1>2, PlayStep, PTL DEF PlaySpec

(* No channel misses a sample or has one twice, provided that as many        *)
(* channels belong to the next sample as have their slot before step 0.      *)
THEOREM OrderCorrect ==
  ASSUME Wrapped
  PROVE  PlaySpec => []InOrder
<1>1. Play => PlayInv
  BY FirstWord DEF Play
<1>2. PlayInv => InOrder
  BY Ordered DEF PlayInv
<1>3. QED
  BY <1>1, <1>2, PlayStep, PTL DEF PlaySpec

-----------------------------------------------------------------------------
(* The shares: of the Span samples of a word Takes have a fetch, those up to *)
(* its boundary.  They are counted from half a word before an odd start, so  *)
(* that the boundaries are at the multiples of Span.                         *)

Pitch == {0, 1, 2, 14, 15}
Span == [oct \in Pitch |->
           CASE oct = 14 -> 16 [] oct = 15 -> 8 [] oct = 0 -> 4
             [] oct = 1 -> 2 [] oct = 2 -> 1]
Takes == [oct \in Pitch |->
            CASE oct = 14 -> 5 [] oct = 15 -> 3 [] oct = 0 -> 2
              [] oct \in {1, 2} -> 1]

Aligned(oct, sa, n) == n + (Span[oct] \div 2) * (sa % 2)
Counted(oct, m) ==
  Takes[oct] * (m \div Span[oct])
    + (IF m % Span[oct] > Span[oct] - Takes[oct]
         THEN (m % Span[oct]) - (Span[oct] - Takes[oct]) ELSE 0)
Near(oct, m) == m % Span[oct] = 0 \/ m % Span[oct] > Span[oct] - Takes[oct]

LEMMA PositionAt ==
  ASSUME NEW n \in Nat
  PROVE  /\ Position(n, 14, 0) = n \div 4
         /\ Position(n, 15, 0) = n \div 2
         /\ Position(n, 0, 0) = n
         /\ Position(n, 1, 0) = 2 * n
         /\ Position(n, 2, 0) = 4 * n
<1>1. /\ Increment(14, 0) = 4096 /\ Increment(15, 0) = 8192
      /\ Increment(0, 0) = 16384 /\ Increment(1, 0) = 32768
      /\ Increment(2, 0) = 65536
  <2>1. /\ 2^2 = 4 /\ 2^3 = 8 /\ 2^4 = 16 /\ 2^5 = 32 /\ 2^6 = 64
    OBVIOUS
  <2>2. /\ Shifted(1024, 2) = 4096 /\ Shifted(1024, 3) = 8192
        /\ Shifted(1024, 4) = 16384 /\ Shifted(1024, 5) = 32768
        /\ Shifted(1024, 6) = 65536
    BY <2>1 DEF Shifted
  <2>3. /\ Increment(14, 0) = Shifted(1024, 2)
        /\ Increment(15, 0) = Shifted(1024, 3)
        /\ Increment(0, 0) = Shifted(1024, 4)
        /\ Increment(1, 0) = Shifted(1024, 5)
        /\ Increment(2, 0) = Shifted(1024, 6)
    BY DEF Increment, SignedOct
  <2>4. QED
    BY <2>2, <2>3
<1>2. CASE n = 0
  BY <1>2 DEF Position
<1>3. CASE n > 0
  BY <1>1, <1>3 DEF Position
<1>4. QED
  BY <1>2, <1>3

LEMMA FetchesNear ==
  ASSUME NEW oct \in Pitch, NEW sa \in Nat, NEW n \in Nat
  PROVE  AdpcmFetch(n + 1, oct, 0, sa) <=> Near(oct, Aligned(oct, sa, n + 1))
<1>1. n + 1 - 1 = n
  OBVIOUS
<1>2. PICK h \in 0 .. 1, k \in Nat : sa = 2 * k + h /\ sa % 2 = h
  OBVIOUS
<1>3. CASE oct = 14
  <2>1. /\ Position(n + 1, oct, 0) = (n + 1) \div 4
        /\ Position(n, oct, 0) = n \div 4
    BY <1>3, PositionAt
  <2>2. Span[oct] = 16 /\ Takes[oct] = 5
    BY <1>3 DEF Span, Takes, Pitch
  <2>3. QED
    BY <1>1, <1>2, <1>3, <2>1, <2>2 DEF AdpcmFetch, Near, Aligned, WordAt
<1>4. CASE oct = 15
  <2>1. /\ Position(n + 1, oct, 0) = (n + 1) \div 2
        /\ Position(n, oct, 0) = n \div 2
    BY <1>4, PositionAt
  <2>2. Span[oct] = 8 /\ Takes[oct] = 3
    BY <1>4 DEF Span, Takes, Pitch
  <2>3. QED
    BY <1>1, <1>2, <1>4, <2>1, <2>2 DEF AdpcmFetch, Near, Aligned, WordAt
<1>5. CASE oct = 0
  <2>1. Position(n + 1, oct, 0) = n + 1 /\ Position(n, oct, 0) = n
    BY <1>5, PositionAt
  <2>2. Span[oct] = 4 /\ Takes[oct] = 2
    BY <1>5 DEF Span, Takes, Pitch
  <2>3. QED
    BY <1>1, <1>2, <1>5, <2>1, <2>2 DEF AdpcmFetch, Near, Aligned, WordAt
<1>6. CASE oct = 1
  <2>1. Position(n + 1, oct, 0) = 2 * (n + 1) /\ Position(n, oct, 0) = 2 * n
    BY <1>6, PositionAt
  <2>2. Span[oct] = 2 /\ Takes[oct] = 1
    BY <1>6 DEF Span, Takes, Pitch
  <2>3. QED
    BY <1>1, <1>2, <1>6, <2>1, <2>2 DEF AdpcmFetch, Near, Aligned, WordAt
<1>7. CASE oct = 2
  <2>1. Position(n + 1, oct, 0) = 4 * (n + 1) /\ Position(n, oct, 0) = 4 * n
    BY <1>7, PositionAt
  <2>2. Span[oct] = 1 /\ Takes[oct] = 1
    BY <1>7 DEF Span, Takes, Pitch
  <2>3. QED
    BY <1>1, <1>2, <1>7, <2>1, <2>2 DEF AdpcmFetch, Near, Aligned, WordAt
<1>8. QED
  BY <1>3, <1>4, <1>5, <1>6, <1>7 DEF Pitch

Sizes == {<<16, 5>>, <<8, 3>>, <<4, 2>>, <<2, 1>>, <<1, 1>>}

LEMMA PitchSizes ==
  ASSUME NEW oct \in Pitch
  PROVE  <<Span[oct], Takes[oct]>> \in Sizes
BY DEF Pitch, Span, Takes, Sizes

LEMMA CountedStep ==
  ASSUME NEW oct \in Pitch, NEW sa \in Nat, NEW n \in Nat
  PROVE  /\ Counted(oct, Aligned(oct, sa, n + 1))
              = Counted(oct, Aligned(oct, sa, n))
                  + (IF Near(oct, Aligned(oct, sa, n + 1)) THEN 1 ELSE 0)
         /\ Counted(oct, Aligned(oct, sa, 0)) = 0
         /\ Counted(oct, Aligned(oct, sa, n)) \in Nat
<1>1. PICK h \in 0 .. 1 : sa % 2 = h
  OBVIOUS
<1>2. <<Span[oct], Takes[oct]>> \in Sizes
  BY PitchSizes
<1>3. CASE Span[oct] = 16 /\ Takes[oct] = 5
  BY <1>1, <1>3 DEF Counted, Near, Aligned
<1>4. CASE Span[oct] = 8 /\ Takes[oct] = 3
  BY <1>1, <1>4 DEF Counted, Near, Aligned
<1>5. CASE Span[oct] = 4 /\ Takes[oct] = 2
  BY <1>1, <1>5 DEF Counted, Near, Aligned
<1>6. CASE Span[oct] = 2 /\ Takes[oct] = 1
  BY <1>1, <1>6 DEF Counted, Near, Aligned
<1>7. CASE Span[oct] = 1 /\ Takes[oct] = 1
  BY <1>1, <1>7 DEF Counted, Near, Aligned
<1>8. QED
  BY <1>2, <1>3, <1>4, <1>5, <1>6, <1>7 DEF Sizes

LEMMA CountedShare ==
  ASSUME NEW oct \in Pitch, NEW sa \in Nat, NEW n \in Nat, n % 32 = 0
  PROVE  Counted(oct, Aligned(oct, sa, n)) * 32 = Share[oct] * n
<1>1. PICK h \in 0 .. 1 : sa % 2 = h
  OBVIOUS
<1>2. PICK k \in Nat : n = 32 * k
  OBVIOUS
<1>3. CASE oct = 14
  <2>1. Span[oct] = 16 /\ Takes[oct] = 5 /\ Share[oct] = 10
    BY <1>3 DEF Span, Takes, Pitch, Share
  <2>2. QED
    BY <1>1, <1>2, <2>1 DEF Counted, Aligned
<1>4. CASE oct = 15
  <2>1. Span[oct] = 8 /\ Takes[oct] = 3 /\ Share[oct] = 12
    BY <1>4 DEF Span, Takes, Pitch, Share
  <2>2. QED
    BY <1>1, <1>2, <2>1 DEF Counted, Aligned
<1>5. CASE oct = 0
  <2>1. Span[oct] = 4 /\ Takes[oct] = 2 /\ Share[oct] = 16
    BY <1>5 DEF Span, Takes, Pitch, Share
  <2>2. QED
    BY <1>1, <1>2, <2>1 DEF Counted, Aligned
<1>6. CASE oct = 1
  <2>1. Span[oct] = 2 /\ Takes[oct] = 1 /\ Share[oct] = 16
    BY <1>6 DEF Span, Takes, Pitch, Share
  <2>2. QED
    BY <1>1, <1>2, <2>1 DEF Counted, Aligned
<1>7. CASE oct = 2
  <2>1. Span[oct] = 1 /\ Takes[oct] = 1 /\ Share[oct] = 32
    BY <1>7 DEF Span, Takes, Pitch, Share
  <2>2. QED
    BY <1>1, <1>2, <2>1 DEF Counted, Aligned
<1>8. QED
  BY <1>3, <1>4, <1>5, <1>6, <1>7 DEF Pitch

SharesInv ==
  chan.fns = 0 /\ chan.oct \in Pitch =>
    fetches = Counted(chan.oct, Aligned(chan.oct, chan.sa, Number))

LEMMA SharesStart ==
  ASSUME g = DspPhase, chan \in Chan, fetches = 0
  PROVE  SharesInv
<1>1. Number = 0
  BY FirstNumber
<1>2. QED
  BY <1>1, ChanRegisters, CountedStep DEF SharesInv

LEMMA SharesStep ==
  ASSUME PlayInv, SharesInv, [PlaySample \/ KeyOn]_svars
  PROVE  SharesInv'
<1>1. CASE PlaySample
  <2>1. /\ chan' = chan /\ Number \in Nat /\ SampleAt(g') = Number + 1
        /\ Number' = Number + 1
    BY <1>1, NextSample DEF PlaySample, PlayInv, Number, SampleAt
  <2>2. fetches' = fetches
          + (IF AdpcmFetch(Number + 1, chan.oct, chan.fns, chan.sa) THEN 1 ELSE 0)
    BY <1>1, <2>1 DEF PlaySample
  <2>3. SUFFICES ASSUME chan.fns = 0, chan.oct \in Pitch
                 PROVE  fetches' = Counted(chan.oct,
                                     Aligned(chan.oct, chan.sa, Number + 1))
    BY <2>1 DEF SharesInv
  <2>4. PICK n \in Nat, oct \in Pitch, sa \in Nat :
          n = Number /\ oct = chan.oct /\ sa = chan.sa
    BY <2>1, <2>3, ChanRegisters, Zenon DEF PlayInv
  <2>5. fetches = Counted(oct, Aligned(oct, sa, n))
    BY <2>3, <2>4 DEF SharesInv
  <2>6. fetches' = fetches
          + (IF Near(oct, Aligned(oct, sa, n + 1)) THEN 1 ELSE 0)
    <3>1. AdpcmFetch(n + 1, oct, 0, sa) <=> Near(oct, Aligned(oct, sa, n + 1))
      BY FetchesNear, Zenon
    <3>2. QED
      BY <2>2, <2>3, <2>4, <3>1, Zenon
  <2>7. Counted(oct, Aligned(oct, sa, n + 1))
          = Counted(oct, Aligned(oct, sa, n))
              + (IF Near(oct, Aligned(oct, sa, n + 1)) THEN 1 ELSE 0)
    BY CountedStep, Zenon
  <2>8. QED
    BY <2>4, <2>5, <2>6, <2>7, Zenon
<1>2. CASE KeyOn
  <2>1. g' = DspPhase /\ chan' \in Chan /\ fetches' = 0
    BY <1>2 DEF KeyOn
  <2>2. (g = DspPhase /\ chan \in Chan /\ fetches = 0 => SharesInv)'
    BY SharesStart, PTL
  <2>3. QED
    BY <2>1, <2>2 DEF Chan
<1>3. CASE UNCHANGED svars
  BY <1>3 DEF svars, SharesInv, Number, SampleAt
<1>4. QED
  BY <1>1, <1>2, <1>3

(* Over every 32 samples the channel fetches in exactly the measured share   *)
(* of them, whatever the alignment of its start.                             *)
THEOREM SharesCorrect == PlaySpec => []SharesExact
<1>1. Play => PlayInv /\ SharesInv
  BY FirstWord, SharesStart DEF Play
<1>2. PlayInv /\ SharesInv => SharesExact
  <2>1. SUFFICES ASSUME PlayInv, SharesInv, Number % 32 = 0, chan.fns = 0,
                        chan.oct \in DOMAIN Share
                 PROVE  fetches * 32 = Share[chan.oct] * Number
    BY DEF SharesExact
  <2>2. chan.oct \in Pitch
    BY <2>1 DEF Share, Pitch
  <2>3. PICK n \in Nat, oct \in Pitch, sa \in Nat :
          n = Number /\ oct = chan.oct /\ sa = chan.sa
    BY <2>1, <2>2, ChanRegisters, Zenon DEF PlayInv
  <2>4. n % 32 = 0
    BY <2>1, <2>3, Zenon
  <2>5. Counted(oct, Aligned(oct, sa, n)) * 32 = Share[oct] * n
    BY <2>4, CountedShare
  <2>6. fetches = Counted(oct, Aligned(oct, sa, n))
    BY <2>1, <2>2, <2>3, Zenon DEF SharesInv
  <2>7. QED
    BY <2>3, <2>5, <2>6, Zenon
<1>3. QED
  BY <1>1, <1>2, PlayStep, SharesStep, PTL DEF PlaySpec

=============================================================================
