---------------------------- MODULE DcSlotsProofs ----------------------------
(***************************************************************************)
(* Theorems about the wave RAM slots, for every program, channel, stream and *)
(* grid.                                                                    *)
(***************************************************************************)
EXTENDS DcSlots, WellFoundedInduction, TLAPS

-----------------------------------------------------------------------------
(* Least elements *)

LEMMA Least ==
  ASSUME NEW T, T \subseteq Nat, T # {}
  PROVE  \E m \in T : \A l \in T : m <= l
<1>1. \E m \in T : \A l \in T : <<l, m>> \notin OpToRel(<, Nat)
  BY NatLessThanWellFounded, WFMin, Zenon
<1>2. PICK m \in T : \A l \in T : <<l, m>> \notin OpToRel(<, Nat)
  BY <1>1
<1>3. \A l \in T : ~(l < m)
  BY <1>2 DEF OpToRel
<1>4. QED
  BY <1>3

LEMMA MinIs ==
  ASSUME NEW T, T \subseteq Nat, T # {}
  PROVE  Min(T) \in T /\ \A l \in T : Min(T) <= l
<1>1. PICK m \in T : \A l \in T : m <= l
  BY Least
<1>2. QED
  BY <1>1, Zenon DEF Min

-----------------------------------------------------------------------------
(* Recursive functions *)

(* A function on the naturals given by its first value and its next ones *)
Recurs(it, x, F) == it = [n \in Nat |-> IF n = 0 THEN x ELSE F[n][it[n - 1]]]

LEMMA Recursion ==
  ASSUME NEW x, NEW F
  PROVE  \E it : Recurs(it, x, F)
<1> DEFINE Upto(n, h) ==
             h = [i \in 0 .. n |-> IF i = 0 THEN x ELSE F[i][h[i - 1]]]
           Stuck == {n \in Nat : ~\E h : Upto(n, h)}
<1>1. Stuck = {}
  <2>1. SUFFICES ASSUME Stuck # {}
                 PROVE  FALSE
    OBVIOUS
  <2>2. PICK n \in Stuck : \A l \in Stuck : n <= l
    <3>1. Stuck \subseteq Nat
      OBVIOUS
    <3>2. QED
      BY <2>1, <3>1, Least
  <2>3. n # 0
    <3>1. Upto(0, [i \in 0 .. 0 |-> x])
      OBVIOUS
    <3>2. QED
      BY <3>1, <2>2
  <2>4. n - 1 \in Nat /\ n - 1 \notin Stuck
    BY <2>2, <2>3
  <2>5. PICK h : Upto(n - 1, h)
    BY <2>4
  <2>6. PICK y : y = F[n][h[n - 1]]
    OBVIOUS
  <2>7. PICK k : k = [i \in 0 .. n |-> IF i = n THEN y ELSE h[i]]
    OBVIOUS
  <2>8. \A i \in 0 .. n - 1 : k[i] = h[i]
    BY <2>2, <2>7
  <2>9. \A i \in 0 .. n : k[i] = IF i = 0 THEN x ELSE F[i][k[i - 1]]
    <3>1. TAKE i \in 0 .. n
    <3>2. CASE i = n
      <4>1. k[i] = y /\ k[n - 1] = h[n - 1]
        BY <3>2, <2>2, <2>3, <2>7, <2>8
      <4>2. QED
        BY <4>1, <3>2, <2>3, <2>6
    <3>3. CASE i # n
      <4>1. i \in 0 .. n - 1 /\ (i # 0 => i - 1 \in 0 .. n - 1)
        BY <3>3, <2>2
      <4>2. h[i] = IF i = 0 THEN x ELSE F[i][h[i - 1]]
        BY <4>1, <2>5
      <4>3. k[i] = h[i] /\ (i # 0 => k[i - 1] = h[i - 1])
        BY <4>1, <2>8
      <4>4. QED
        BY <4>2, <4>3
    <3>4. QED
      BY <3>2, <3>3
  <2>10. Upto(n, k)
    BY <2>7, <2>9
  <2>11. QED
    BY <2>2, <2>10
<1>2. \A n \in Nat : \E h : Upto(n, h)
  BY <1>1
<1>3. ASSUME NEW n \in Nat, NEW m \in Nat, NEW h, NEW k, Upto(n, h), Upto(m, k)
      PROVE  \A i \in Nat : i <= n /\ i <= m => h[i] = k[i]
  <2> DEFINE Differ == {i \in Nat : i <= n /\ i <= m /\ h[i] # k[i]}
  <2>1. SUFFICES ASSUME Differ # {}
                 PROVE  FALSE
    OBVIOUS
  <2>2. PICK i \in Differ : \A l \in Differ : i <= l
    <3>1. Differ \subseteq Nat
      OBVIOUS
    <3>2. QED
      BY <2>1, <3>1, Least
  <2>3. i \in 0 .. n /\ i \in 0 .. m /\ h[i] # k[i]
    BY <2>2
  <2>4. /\ h[i] = IF i = 0 THEN x ELSE F[i][h[i - 1]]
        /\ k[i] = IF i = 0 THEN x ELSE F[i][k[i - 1]]
    BY <1>3, <2>3
  <2>5. i # 0 /\ h[i - 1] # k[i - 1]
    BY <2>3, <2>4
  <2>6. i - 1 \in Differ
    BY <2>3, <2>5
  <2>7. QED
    BY <2>2, <2>3, <2>6
<1> DEFINE part == [n \in Nat |-> CHOOSE h : Upto(n, h)]
           it == [n \in Nat |-> part[n][n]]
<1>4. \A n \in Nat : Upto(n, part[n])
  BY <1>2
<1> HIDE DEF part
<1>5. \A n \in Nat : it[n] = IF n = 0 THEN x ELSE F[n][it[n - 1]]
  <2>1. TAKE n \in Nat
  <2>2. it[n] = part[n][n] /\ Upto(n, part[n])
    BY <1>4
  <2>3. part[n][n] = IF n = 0 THEN x ELSE F[n][part[n][n - 1]]
    BY <2>2
  <2>4. ASSUME n # 0 PROVE part[n][n - 1] = it[n - 1]
    <3>1. n - 1 \in Nat /\ n - 1 <= n /\ n - 1 <= n - 1
      BY <2>4
    <3>2. it[n - 1] = part[n - 1][n - 1]
      BY <3>1
    <3>3. PICK m \in Nat : m = n - 1
      BY <3>1
    <3>4. Upto(m, part[m])
      BY <1>4
    <3>5. part[n][m] = part[m][m]
      BY <2>2, <3>1, <3>3, <3>4, <1>3
    <3>6. QED
      BY <3>2, <3>3, <3>5
  <2>5. QED
    BY <2>2, <2>3, <2>4
<1>6. Recurs(it, x, F)
  BY <1>5 DEF Recurs
<1>7. QED
  BY <1>6

(* A loop of at most n turns of N from a on, that ends in Stop *)
Loop(it, S, N, Stop) ==
  it = [n \in Nat |->
          [a \in S |-> IF n = 0 \/ a \in Stop THEN a ELSE it[n - 1][N[a]]]]

LEMMA LoopIs ==
  ASSUME NEW S, NEW N \in [S -> S], NEW Stop
  PROVE  \E it : Loop(it, S, N, Stop)
<1> DEFINE G(h) == [a \in S |-> IF a \in Stop THEN a ELSE h[N[a]]]
           F == [n \in Nat |-> [h \in [S -> S] |-> G(h)]]
           x == [a \in S |-> a]
<1>1. PICK it : Recurs(it, x, F)
  BY Recursion
<1>2. x \in [S -> S]
  OBVIOUS
<1>3. \A h \in [S -> S] : G(h) \in [S -> S]
  OBVIOUS
<1>4. \A n \in Nat, h \in [S -> S] : F[n][h] = G(h)
  OBVIOUS
<1> HIDE DEF F, x, G
<1>5. /\ it = [n \in Nat |-> IF n = 0 THEN x ELSE F[n][it[n - 1]]]
      /\ \A n \in Nat : it[n] = IF n = 0 THEN x ELSE F[n][it[n - 1]]
  BY <1>1 DEF Recurs
<1> DEFINE Wrong == {n \in Nat : it[n] \notin [S -> S]}
<1>6. Wrong = {}
  <2>1. SUFFICES ASSUME Wrong # {}
                 PROVE  FALSE
    OBVIOUS
  <2>2. PICK n \in Wrong : \A l \in Wrong : n <= l
    <3>1. Wrong \subseteq Nat
      OBVIOUS
    <3>2. QED
      BY <2>1, <3>1, Least
  <2>3. n # 0
    BY <1>2, <1>5, <2>2
  <2>4. n - 1 \in Nat /\ it[n - 1] \in [S -> S]
    BY <2>2, <2>3
  <2>5. it[n] \in [S -> S]
    BY <1>3, <1>4, <1>5, <2>2, <2>3, <2>4
  <2>6. QED
    BY <2>2, <2>5
<1>7. \A n \in Nat : it[n] \in [S -> S]
  BY <1>6
<1>8. \A n \in Nat :
        it[n] = [a \in S |-> IF n = 0 \/ a \in Stop THEN a
                             ELSE it[n - 1][N[a]]]
  <2>1. TAKE n \in Nat
  <2>2. CASE n = 0
    BY <2>2, <1>5 DEF x
  <2>3. CASE n # 0
    <3>1. n - 1 \in Nat
      BY <2>3
    <3>2. it[n] = G(it[n - 1])
      BY <1>4, <1>5, <1>7, <2>3, <3>1
    <3>3. QED
      BY <3>2, <2>3 DEF G
  <2>4. QED
    BY <2>2, <2>3
<1>9. Loop(it, S, N, Stop)
  <2>1. it = [n \in Nat |-> it[n]]
    BY <1>5
  <2>2. QED
    BY <1>8, <2>1 DEF Loop
<1>10. QED
  BY <1>9

LEMMA LoopTurn ==
  ASSUME NEW S, NEW N, NEW Stop, NEW it, Loop(it, S, N, Stop),
         NEW n \in Nat, NEW a \in S
  PROVE  it[n][a] = IF n = 0 \/ a \in Stop THEN a ELSE it[n - 1][N[a]]
BY DEF Loop

(* What every turn keeps the loop keeps *)
LEMMA LoopKeeps ==
  ASSUME NEW S, NEW N, NEW Stop, NEW it, Loop(it, S, N, Stop),
         NEW P, P \subseteq S, \A a \in P : a \notin Stop => N[a] \in P
  PROVE  \A n \in Nat : \A a \in P : it[n][a] \in P
<1> DEFINE Lost == {n \in Nat : \E a \in P : it[n][a] \notin P}
<1>1. SUFFICES ASSUME Lost # {}
               PROVE  FALSE
  OBVIOUS
<1>2. PICK n \in Lost : \A l \in Lost : n <= l
  <2>1. Lost \subseteq Nat
    OBVIOUS
  <2>2. QED
    BY <1>1, <2>1, Least
<1>3. PICK a \in P : it[n][a] \notin P
  BY <1>2
<1>4. it[n][a] = IF n = 0 \/ a \in Stop THEN a ELSE it[n - 1][N[a]]
  BY <1>2, <1>3, LoopTurn
<1>5. n # 0 /\ a \notin Stop /\ it[n - 1][N[a]] \notin P
  BY <1>3, <1>4
<1>6. n - 1 \in Lost
  BY <1>2, <1>3, <1>5
<1>7. QED
  BY <1>2, <1>6

(* A loop ends in Stop, or has taken all its turns *)
LEMMA LoopEnds ==
  ASSUME NEW S, NEW N, NEW Stop, NEW it, Loop(it, S, N, Stop),
         NEW P, P \subseteq S, \A a \in P : a \notin Stop => N[a] \in P,
         NEW M, \A a \in P : M[a] \in Int,
         \A a \in P : a \notin Stop => M[N[a]] >= M[a] + 1
  PROVE  \A n \in Nat : \A a \in P :
           it[n][a] \in Stop \/ M[it[n][a]] >= M[a] + n
<1> DEFINE Late(n, a) == it[n][a] \in Stop \/ M[it[n][a]] >= M[a] + n
           Short == {n \in Nat : \E a \in P : ~Late(n, a)}
<1>1. SUFFICES ASSUME Short # {}
               PROVE  FALSE
  OBVIOUS
<1>2. PICK n \in Short : \A l \in Short : n <= l
  <2>1. Short \subseteq Nat
    OBVIOUS
  <2>2. QED
    BY <1>1, <2>1, Least
<1>3. PICK a \in P : it[n][a] \notin Stop /\ ~(M[it[n][a]] >= M[a] + n)
  BY <1>2
<1>4. it[n][a] = IF n = 0 \/ a \in Stop THEN a ELSE it[n - 1][N[a]]
  BY <1>2, <1>3, LoopTurn
<1>5. n # 0 /\ a \notin Stop /\ it[n][a] = it[n - 1][N[a]]
  BY <1>2, <1>3, <1>4
<1>6. PICK b \in P, m \in Nat : b = N[a] /\ m = n - 1
  BY <1>2, <1>3, <1>5
<1>7. it[m][b] \in Stop \/ M[it[m][b]] >= M[b] + m
  <2>1. m \notin Short
    BY <1>2, <1>5, <1>6
  <2>2. QED
    BY <1>6, <2>1
<1>8. it[m][b] = it[n][a]
  BY <1>5, <1>6, Zenon
<1>9. M[it[n][a]] \in Int
  <2>1. \A k \in Nat : \A c \in P : it[k][c] \in P
    BY LoopKeeps
  <2>2. QED
    BY <1>2, <1>3, <2>1
<1>10. PICK u \in Int, v \in Int, w \in Int :
         u = M[it[n][a]] /\ v = M[a] /\ w = M[b]
  BY <1>3, <1>6, <1>9
<1>11. w >= v + 1
  BY <1>3, <1>5, <1>6, <1>10
<1>12. u >= w + m /\ ~(u >= v + n)
  BY <1>3, <1>7, <1>8, <1>10
<1>13. QED
  BY <1>2, <1>5, <1>6, <1>11, <1>12

-----------------------------------------------------------------------------
(* The three loops *)

LEMMA StreamType ==
  ASSUME NEW s \in Sh4
  PROVE  /\ s.stream.period \in Nat /\ s.stream.slots \in Nat
         /\ s.stream.spacing \in Nat /\ s.stream.latency \in Nat
         /\ s.next \in Nat /\ s.booked \subseteq Nat /\ s.given \in Seq(Nat)
BY StreamAssumption DEF Sh4

LEMMA FirstFreeType ==
  ASSUME NEW cur, NEW booked, NEW g \in Nat
  PROVE  FirstFree(cur, booked, g) \in Nat /\ FirstFree(cur, booked, g) >= g
<1> DEFINE free == {i \in 0 .. Guard - 1 : FreeFor(cur, booked, g + i)}
<1>1. Guard \in Nat
  BY BoundAssumption
<1>2. free # {} => Min(free) \in Nat
  <2>1. free \subseteq Nat
    BY <1>1
  <2>2. QED
    BY <2>1, MinIs
<1>3. PICK n : n = Min(free)
  OBVIOUS
<1>4. FirstFree(cur, booked, g) = g + (IF free = {} THEN Guard ELSE n)
  BY <1>3, Zenon DEF FirstFree
<1> HIDE DEF free
<1>5. QED
  BY <1>1, <1>2, <1>3, <1>4

(* From a to b the SH4 is given one slot, at a.from or later *)
Booked(a, b) ==
  \E f \in Nat :
    /\ a.from <= f /\ f <= b.from
    /\ b.sh4 = [a.sh4 EXCEPT !.booked = @ \cup {f}, !.given = Append(@, f)]

LEMMA TakeSlotIs ==
  ASSUME NEW cur, NEW a \in Taking
  PROVE  TakeSlot(cur, a) \in Taking /\ Booked(a, TakeSlot(cur, a))
<1>1. a.sh4 \in Sh4 /\ a.from \in Nat
  BY DEF Taking
<1>2. PICK f \in Nat : f = FirstFree(cur, a.sh4.booked, a.from) /\ a.from <= f
  BY <1>1, FirstFreeType
<1>3. PICK u : u = [a.sh4 EXCEPT !.booked = @ \cup {f}, !.given = Append(@, f)]
  OBVIOUS
<1>4. u \in Sh4
  <2>1. a.sh4.booked \cup {f} \in SUBSET Nat /\ Append(a.sh4.given, f) \in Seq(Nat)
    BY <1>1, StreamType
  <2>2. QED
    BY <1>1, <1>3, <2>1 DEF Sh4
<1>5. TakeSlot(cur, a) = [sh4 |-> u, from |-> f + a.sh4.stream.spacing, last |-> f]
  BY <1>2, <1>3, Zenon DEF TakeSlot
<1>6. f + a.sh4.stream.spacing \in Nat /\ f <= f + a.sh4.stream.spacing
  BY <1>1, StreamType
<1>7. TakeSlot(cur, a) \in Taking
  BY <1>4, <1>5, <1>6 DEF Taking
<1>8. TakeSlot(cur, a).sh4 = u /\ f <= TakeSlot(cur, a).from
  BY <1>5, <1>6
<1>9. Booked(a, TakeSlot(cur, a))
  BY <1>2, <1>3, <1>8, Zenon DEF Booked
<1>10. QED
  BY <1>7, <1>9

LEMMA AccessIs ==
  ASSUME NEW cur
  PROVE  Loop(Access(cur), Taking, [a \in Taking |-> TakeSlot(cur, a)], {})
<1> DEFINE N == [a \in Taking |-> TakeSlot(cur, a)]
           Eq(it) == it = [n \in Nat |->
                       [a \in Taking |-> IF n = 0 THEN a
                                         ELSE it[n - 1][TakeSlot(cur, a)]]]
<1>1. N \in [Taking -> Taking]
  BY TakeSlotIs
<1>2. \A it : Loop(it, Taking, N, {}) <=> Eq(it)
  BY DEF Loop
<1>3. \E it : Loop(it, Taking, N, {})
  BY <1>1, LoopIs
<1>4. \E it : Eq(it)
  BY <1>2, <1>3
<1>5. Access(cur) = CHOOSE it : Eq(it)
  BY Zenon DEF Access
<1>6. Eq(Access(cur))
  BY <1>4, <1>5
<1>7. QED
  BY <1>2, <1>6

LEMMA AccessType ==
  ASSUME NEW cur, NEW n \in Nat, NEW a \in Taking
  PROVE  Access(cur)[n][a] \in Taking
<1> DEFINE N == [b \in Taking |-> TakeSlot(cur, b)]
<1>1. \A b \in Taking : N[b] \in Taking
  BY TakeSlotIs
<1>2. Loop(Access(cur), Taking, N, {})
  BY AccessIs
<1> HIDE DEF N
<1>3. QED
  BY <1>1, <1>2, LoopKeeps

LEMMA MaxType ==
  ASSUME NEW a \in Nat, NEW b \in Nat
  PROVE  Max({a, b}) \in Nat /\ b <= Max({a, b})
<1>1. \E x \in {a, b} : \A y \in {a, b} : x >= y
  OBVIOUS
<1>2. Max({a, b}) \in {a, b} /\ \A y \in {a, b} : Max({a, b}) >= y
  BY <1>1, Zenon DEF Max
<1>3. QED
  BY <1>2

(* An arrival of s that took the slots of t leaves u *)
Arrived(s, t, u) ==
  /\ u.given = t.given /\ u.booked = t.booked /\ u.stream = t.stream
  /\ u.next >= s.next + s.stream.period

LEMMA ArrivalIs ==
  ASSUME NEW cur, NEW s \in Sh4
  PROVE  /\ Arrival(cur, s) \in Sh4
         /\ \E a \in Taking :
              /\ a.sh4 = s /\ a.from = s.next
              /\ LET taken == Access(cur)[s.stream.slots][a]
                 IN  Arrived(s, taken.sh4, Arrival(cur, s))
<1>1. PICK n \in Nat : n = s.stream.slots
  BY StreamType
<1>2. PICK a \in Taking :
        a = [sh4 |-> s, from |-> s.next, last |-> 0] /\ a.sh4 = s /\ a.from = s.next
  <2>1. [sh4 |-> s, from |-> s.next, last |-> 0] \in Taking
    <3>1. s.next \in Nat
      BY StreamType
    <3>2. QED
      BY <3>1 DEF Taking
  <2>2. PICK a : a = [sh4 |-> s, from |-> s.next, last |-> 0]
    OBVIOUS
  <2>3. a \in Taking /\ a.sh4 = s /\ a.from = s.next
    BY <2>1, <2>2
  <2>4. QED
    BY <2>2, <2>3, Zenon
<1>3. PICK b \in Taking : b = Access(cur)[n][a]
  BY <1>1, <1>2, AccessType
<1>4. b.sh4 \in Sh4 /\ b.last \in Nat
  BY <1>3 DEF Taking
<1>5. PICK m \in Nat : m = NextIssue(s, b.last) /\ m >= s.next + s.stream.period
  <2>1. /\ s.stream.latency \in Nat /\ s.next + s.stream.period \in Nat
        /\ b.last + 2 + s.stream.latency \in Nat
    BY <1>4, StreamType
  <2>2. PICK u \in Nat, v \in Nat :
          u = b.last + 2 + s.stream.latency /\ v = s.next + s.stream.period
    BY <2>1
  <2>3. Max({u, v}) \in Nat /\ v <= Max({u, v})
    BY MaxType
  <2>4. NextIssue(s, b.last) = IF s.stream.latency > 0 THEN Max({u, v}) ELSE v
    BY <2>2, Zenon DEF NextIssue
  <2>5. QED
    BY <2>2, <2>3, <2>4
<1>6. Arrival(cur, s) = [b.sh4 EXCEPT !.next = m]
  BY <1>1, <1>2, <1>3, <1>5, Zenon DEF Arrival
<1>7. Arrival(cur, s) \in Sh4
  BY <1>4, <1>5, <1>6 DEF Sh4
<1>8. Arrived(s, b.sh4, Arrival(cur, s))
  BY <1>4, <1>5, <1>6 DEF Sh4, Arrived
<1>9. QED
  BY <1>1, <1>2, <1>3, <1>7, <1>8, Zenon

LEMMA ArrivingIs ==
  ASSUME NEW cur, NEW t
  PROVE  Loop(Arriving(cur, t), Sh4, [s \in Sh4 |-> Arrival(cur, s)],
              {s \in Sh4 : s.next > t})
<1> DEFINE N == [s \in Sh4 |-> Arrival(cur, s)]
           Stop == {s \in Sh4 : s.next > t}
           Eq(it) == it = [n \in Nat |->
                       [s \in Sh4 |-> IF n = 0 \/ s.next > t THEN s
                                      ELSE it[n - 1][Arrival(cur, s)]]]
<1>1. N \in [Sh4 -> Sh4]
  BY ArrivalIs
<1>2. \A it : Loop(it, Sh4, N, Stop) <=> Eq(it)
  BY DEF Loop
<1>3. \E it : Loop(it, Sh4, N, Stop)
  BY <1>1, LoopIs
<1>4. \E it : Eq(it)
  BY <1>2, <1>3
<1>5. Arriving(cur, t) = CHOOSE it : Eq(it)
  BY Zenon DEF Arriving
<1>6. Eq(Arriving(cur, t))
  BY <1>4, <1>5
<1>7. QED
  BY <1>2, <1>6

LEMMA AdvancedIs ==
  ASSUME NEW cur, NEW s \in Sh4, NEW t \in Nat
  PROVE  Arrivals(cur, s, t) \in Sh4 /\ Advanced(cur, s, t) \in Sh4
<1>1. Arrivals(cur, s, t) \in Sh4
  <2> DEFINE N == [a \in Sh4 |-> Arrival(cur, a)]
             Stop == {a \in Sh4 : a.next > t}
  <2>1. \A a \in Sh4 : N[a] \in Sh4
    BY ArrivalIs
  <2>2. Loop(Arriving(cur, t), Sh4, N, Stop)
    BY ArrivingIs
  <2> HIDE DEF N, Stop
  <2>3. Arriving(cur, t)[t + 1][s] \in Sh4
    <3>1. t + 1 \in Nat
      OBVIOUS
    <3>2. QED
      BY <2>1, <2>2, <3>1, LoopKeeps
  <2>4. QED
    BY <2>3 DEF Arrivals
<1>2. PICK a \in Sh4 : a = Arrivals(cur, s, t)
  BY <1>1
<1>3. Advanced(cur, s, t) = [a EXCEPT !.booked = Dropped(a.booked, t)]
  BY <1>2 DEF Advanced
<1>4. Dropped(a.booked, t) \subseteq Nat
  BY StreamType DEF Dropped
<1>5. Advanced(cur, s, t) \in Sh4
  BY <1>3, <1>4 DEF Sh4
<1>6. QED
  BY <1>1, <1>5

LEMMA TriedType ==
  ASSUME NEW cur, NEW s \in Sh4, NEW start \in Nat
  PROVE  Tried(cur, s, start) \in Try
<1>1. start + Ahead \in Nat
  BY BoundAssumption
<1>2. QED
  BY <1>1, AdvancedIs DEF Tried, Try

LEMMA TryingIs ==
  ASSUME NEW cur
  PROVE  Loop(Trying(cur), Try,
              [a \in Try |-> Tried(cur, a.sh4, NextSlot(a.start))],
              {a \in Try : FreeFor(cur, a.sh4.booked, a.start)})
<1> DEFINE N == [a \in Try |-> Tried(cur, a.sh4, NextSlot(a.start))]
           Stop == {a \in Try : FreeFor(cur, a.sh4.booked, a.start)}
           Eq(it) == it = [n \in Nat |->
                       [a \in Try |->
                          IF n = 0 \/ FreeFor(cur, a.sh4.booked, a.start) THEN a
                          ELSE it[n - 1][Tried(cur, a.sh4, NextSlot(a.start))]]]
<1>1. N \in [Try -> Try]
  <2>1. \A a \in Try : a.sh4 \in Sh4 /\ NextSlot(a.start) \in Nat
    BY DEF Try, NextSlot
  <2>2. QED
    BY <2>1, TriedType
<1>2. \A it : Loop(it, Try, N, Stop) <=> Eq(it)
  BY DEF Loop
<1>3. \E it : Loop(it, Try, N, Stop)
  BY <1>1, LoopIs
<1>4. \E it : Eq(it)
  BY <1>2, <1>3
<1>5. Trying(cur) = CHOOSE it : Eq(it)
  BY Zenon DEF Trying
<1>6. Eq(Trying(cur))
  BY <1>4, <1>5
<1>7. QED
  BY <1>2, <1>6

-----------------------------------------------------------------------------
(* What is given to the SH4 stays booked as long as it matters *)

(* Of the slots given so far those from low on are still booked *)
Kept(before, low) ==
  {s \in Sh4 : \A b \in before \cup Range(s.given) : b \in s.booked \/ b < low}

LEMMA RangeOfAppend ==
  ASSUME NEW q \in Seq(Nat), NEW f \in Nat
  PROVE  \A b \in Range(Append(q, f)) : b \in Range(q) \/ b = f
<1> SUFFICES ASSUME NEW i \in 1 .. Len(q) + 1
             PROVE  Append(q, f)[i] \in Range(q) \/ Append(q, f)[i] = f
  BY DEF Range
<1>1. CASE i = Len(q) + 1
  BY <1>1
<1>2. CASE i # Len(q) + 1
  BY <1>2 DEF Range
<1>3. QED
  BY <1>1, <1>2

LEMMA AccessKeeps ==
  ASSUME NEW cur, NEW before, NEW low, NEW n \in Nat,
         NEW a \in Taking, a.sh4 \in Kept(before, low)
  PROVE  Access(cur)[n][a].sh4 \in Kept(before, low)
<1> DEFINE N == [b \in Taking |-> TakeSlot(cur, b)]
           P == {b \in Taking : b.sh4 \in Kept(before, low)}
<1>1. ASSUME NEW b \in P
      PROVE  TakeSlot(cur, b) \in P
  <2>1. b \in Taking /\ b.sh4 \in Sh4 /\ b.sh4 \in Kept(before, low)
    BY DEF Taking
  <2>2. PICK f \in Nat :
          TakeSlot(cur, b).sh4 =
            [b.sh4 EXCEPT !.booked = @ \cup {f}, !.given = Append(@, f)]
    <3>1. Booked(b, TakeSlot(cur, b))
      BY <2>1, TakeSlotIs
    <3>2. QED
      BY <3>1 DEF Booked
  <2> DEFINE u == TakeSlot(cur, b).sh4
  <2>3. TakeSlot(cur, b) \in Taking
    BY <2>1, TakeSlotIs
  <2>8. /\ u \in Sh4 /\ u.booked = b.sh4.booked \cup {f}
        /\ u.given = Append(b.sh4.given, f)
    BY <2>1, <2>2, <2>3 DEF Sh4, Taking
  <2> HIDE DEF u
  <2>4. b.sh4.given \in Seq(Nat)
    BY <2>1, StreamType
  <2>5. \A c \in Range(u.given) : c \in Range(b.sh4.given) \/ c = f
    BY <2>8, <2>4, RangeOfAppend
  <2>6. u \in Kept(before, low)
    BY <2>1, <2>8, <2>5 DEF Kept
  <2>7. QED
    BY <2>3, <2>6 DEF u
<1>2. \A b \in P : N[b] \in P
  BY <1>1
<1>3. Loop(Access(cur), Taking, N, {})
  BY AccessIs
<1>4. P \subseteq Taking /\ a \in P
  OBVIOUS
<1> HIDE DEF N
<1>5. Access(cur)[n][a] \in P
  <2> HIDE DEF P
  <2>1. QED
    BY <1>2, <1>3, <1>4, LoopKeeps
<1>6. QED
  BY <1>5

LEMMA ArrivalKeeps ==
  ASSUME NEW cur, NEW before, NEW low, NEW s \in Kept(before, low)
  PROVE  Arrival(cur, s) \in Kept(before, low)
<1>1. s \in Sh4
  BY DEF Kept
<1>2. PICK n \in Nat : n = s.stream.slots
  BY <1>1, StreamType
<1>3. PICK a \in Taking :
        a.sh4 = s /\ Arrived(s, Access(cur)[n][a].sh4, Arrival(cur, s))
  BY <1>1, <1>2, ArrivalIs
<1>4. Access(cur)[n][a].sh4 \in Kept(before, low)
  BY <1>3, AccessKeeps
<1>5. Arrival(cur, s) \in Sh4
  BY <1>1, ArrivalIs
<1>6. QED
  BY <1>3, <1>4, <1>5 DEF Arrived, Kept

LEMMA AdvancedKeeps ==
  ASSUME NEW cur, NEW before, NEW low \in Nat, NEW s \in Kept(before, low),
         NEW t \in Nat, t <= low + KeepBack
  PROVE  Advanced(cur, s, t) \in Kept(before, low)
<1>1. s \in Sh4
  BY DEF Kept
<1>2. PICK a : a = Arrivals(cur, s, t)
  OBVIOUS
<1>3. a \in Kept(before, low)
  <2> DEFINE N == [b \in Sh4 |-> Arrival(cur, b)]
             Stop == {b \in Sh4 : b.next > t}
             P == Kept(before, low)
  <2>1. \A b \in P : N[b] \in P
    <3>1. TAKE b \in P
    <3>2. b \in Sh4 /\ N[b] = Arrival(cur, b)
      BY DEF Kept
    <3>3. Arrival(cur, b) \in P
      BY ArrivalKeeps
    <3>4. QED
      BY <3>2, <3>3
  <2>2. Loop(Arriving(cur, t), Sh4, N, Stop)
    BY ArrivingIs
  <2>3. P \subseteq Sh4 /\ s \in P
    BY DEF Kept
  <2>4. t + 1 \in Nat
    OBVIOUS
  <2> HIDE DEF N, Stop, P
  <2>5. Arriving(cur, t)[t + 1][s] \in P
    BY <2>1, <2>2, <2>3, <2>4, LoopKeeps
  <2>6. QED
    BY <1>2, <2>3, <2>5 DEF Arrivals, P
<1>4. a \in Sh4 /\ a.booked \subseteq Nat
  BY <1>3, StreamType DEF Kept
<1>5. PICK d : d = Dropped(a.booked, t)
  OBVIOUS
<1>6. Advanced(cur, s, t) = [a EXCEPT !.booked = d]
  BY <1>2, <1>5 DEF Advanced
<1>7. d \subseteq Nat /\ \A b \in a.booked : b \in d \/ b < low
  BY <1>4, <1>5, BoundAssumption DEF Dropped
<1>8. QED
  BY <1>3, <1>4, <1>6, <1>7 DEF Kept, Sh4

LEMMA TriedKeeps ==
  ASSUME NEW cur, NEW before, NEW low \in Nat, NEW s \in Kept(before, low),
         NEW start \in Nat, low <= start, before \subseteq Nat
  PROVE  Tried(cur, s, start).sh4 \in Kept(before, start)
<1>1. s \in Kept(before, start)
  <2>1. Range(s.given) \subseteq Nat
    <3>1. s.given \in Seq(Nat)
      BY StreamType DEF Kept
    <3>2. QED
      BY <3>1 DEF Range
  <2>2. QED
    BY <2>1 DEF Kept
<1>2. start + Ahead \in Nat /\ start + Ahead <= start + KeepBack
  BY BoundAssumption, KeptAssumption
<1>3. QED
  BY <1>1, <1>2, AdvancedKeeps DEF Tried

-----------------------------------------------------------------------------
(* The placement search *)

(* One turn of the search: user n's place after those of placed *)
Turn(dsp, i, h, placed) ==
  LET good == {c \in Options(dsp, i) :
                 Allowed(placed, c) /\ h[Append(placed, c)] # <<>>}
  IN  IF good = {} THEN <<>> ELSE h[Append(placed, Min(good))]

LEMMA OptionsType ==
  ASSUME NEW dsp, NEW i \in 1 .. Len(FixedSteps)
  PROVE  /\ Options(dsp, i) \subseteq Int
         /\ \A T \in SUBSET Options(dsp, i) :
              T # {} => Min(T) \in T /\ \A l \in T : Min(T) <= l
<1>1. FixedSteps[i] \in Int
  BY FixedAssumption, StepsAssumption DEF Step
<1>2. PICK a \in Int, b \in Int : Options(dsp, i) \subseteq {a, b}
  BY <1>1 DEF Options
<1>3. ASSUME NEW T \in SUBSET Options(dsp, i), T # {}
      PROVE  Min(T) \in T /\ \A l \in T : Min(T) <= l
  <2>1. T \subseteq {a, b}
    BY <1>2
  <2>2. \E m \in T : \A l \in T : m <= l
    <3>1. CASE a \in T /\ (b \notin T \/ a <= b)
      BY <2>1, <3>1
    <3>2. CASE b \in T /\ (a \notin T \/ b <= a)
      BY <2>1, <3>2
    <3>3. a \in T \/ b \in T
      BY <1>3, <2>1
    <3>4. QED
      BY <3>1, <3>2, <3>3
  <2>3. QED
    BY <2>2, Zenon DEF Min
<1>4. QED
  BY <1>2, <1>3

LEMMA TurnType ==
  ASSUME NEW dsp, NEW i \in 1 .. Len(FixedSteps),
         NEW h \in [Seq(Int) -> Seq(Int)], NEW placed \in Seq(Int)
  PROVE  Turn(dsp, i, h, placed) \in Seq(Int)
<1> DEFINE good == {c \in Options(dsp, i) :
                      Allowed(placed, c) /\ h[Append(placed, c)] # <<>>}
<1>1. good \in SUBSET Options(dsp, i) /\ good \subseteq Int
  BY OptionsType
<1>2. Turn(dsp, i, h, placed) = IF good = {} THEN <<>> ELSE h[Append(placed, Min(good))]
  BY DEF Turn
<1> HIDE DEF good
<1>3. ASSUME good # {}
      PROVE  Append(placed, Min(good)) \in Seq(Int)
  <2>1. Min(good) \in Int
    BY <1>1, <1>3, OptionsType
  <2>2. QED
    BY <2>1
<1>4. CASE good = {}
  BY <1>2, <1>4
<1>5. CASE good # {}
  BY <1>2, <1>3, <1>5
<1>6. QED
  BY <1>4, <1>5

LEMMA PlacesIs ==
  ASSUME NEW dsp
  PROVE  \A m \in 0 .. Len(FixedSteps), placed \in Seq(Int) :
           /\ Places(dsp)[m][placed] \in Seq(Int)
           /\ Places(dsp)[m][placed] =
                IF m = 0 THEN placed
                ELSE Turn(dsp, Len(FixedSteps) + 1 - m, Places(dsp)[m - 1], placed)
<1> DEFINE N == Len(FixedSteps)
           S == [Seq(Int) -> Seq(Int)]
           Eq(it) == it = [m \in 0 .. N |->
                       [placed \in Seq(Int) |->
                          IF m = 0 THEN placed
                          ELSE LET i == N + 1 - m
                                   good == {c \in Options(dsp, i) :
                                     /\ Allowed(placed, c)
                                     /\ it[m - 1][Append(placed, c)] # <<>>}
                               IN  IF good = {} THEN <<>>
                                   ELSE it[m - 1][Append(placed, Min(good))]]]
           G(m, h) == [placed \in Seq(Int) |-> Turn(dsp, N + 1 - m, h, placed)]
           F == [m \in Nat |-> [h \in S |-> G(m, h)]]
           x == [placed \in Seq(Int) |-> placed]
<1>1. N \in Nat
  BY FixedAssumption
<1>2. PICK it : Recurs(it, x, F)
  BY Recursion
<1>3. x \in S
  OBVIOUS
<1>4. \A m \in 1 .. N, h \in S : G(m, h) \in S
  <2>1. TAKE m \in 1 .. N, h \in S
  <2>2. PICK i \in 1 .. N : i = N + 1 - m
    BY <1>1
  <2>3. \A placed \in Seq(Int) : Turn(dsp, i, h, placed) \in Seq(Int)
    BY TurnType
  <2>4. QED
    BY <2>2, <2>3
<1>5. \A m \in Nat, h \in S : F[m][h] = G(m, h)
  OBVIOUS
<1> HIDE DEF F, x, G, N
<1>6. \A m \in Nat : it[m] = IF m = 0 THEN x ELSE F[m][it[m - 1]]
  BY <1>2 DEF Recurs
<1> DEFINE Wrong == {m \in Nat : m <= N /\ it[m] \notin S}
<1>7. Wrong = {}
  <2>1. SUFFICES ASSUME Wrong # {}
                 PROVE  FALSE
    OBVIOUS
  <2>2. PICK m \in Wrong : \A l \in Wrong : m <= l
    <3>1. Wrong \subseteq Nat
      OBVIOUS
    <3>2. QED
      BY <2>1, <3>1, Least
  <2>3. m # 0
    BY <1>3, <1>6, <2>2
  <2>4. m - 1 \in Nat /\ it[m - 1] \in S /\ m \in 1 .. N
    BY <1>1, <2>2, <2>3
  <2>5. it[m] = G(m, it[m - 1])
    BY <1>5, <1>6, <2>2, <2>3, <2>4
  <2>6. G(m, it[m - 1]) \in S
    BY <1>4, <2>4
  <2>7. QED
    BY <2>2, <2>5, <2>6
<1>8. \A m \in 0 .. N : it[m] \in S
  BY <1>1, <1>7
<1> DEFINE first == [m \in 0 .. N |-> it[m]]
<1>9. \A m \in 0 .. N : first[m] = [placed \in Seq(Int) |->
                                      IF m = 0 THEN placed
                                      ELSE Turn(dsp, N + 1 - m, first[m - 1], placed)]
  <2>1. TAKE m \in 0 .. N
  <2>2. CASE m = 0
    BY <1>1, <1>6, <2>2 DEF x
  <2>3. CASE m # 0
    <3>1. m - 1 \in 0 .. N /\ m \in Nat
      BY <1>1, <2>3
    <3>2. first[m] = it[m] /\ first[m - 1] = it[m - 1] /\ it[m - 1] \in S
      BY <1>8, <3>1
    <3>3. it[m] = F[m][it[m - 1]]
      BY <1>6, <2>3, <3>1
    <3>4. F[m][it[m - 1]] = G(m, it[m - 1])
      BY <1>5, <3>1, <3>2
    <3>5. QED
      BY <2>3, <3>2, <3>3, <3>4 DEF G
  <2>4. QED
    BY <2>2, <2>3
<1>10. Eq(first)
  <2> DEFINE Q(k) == [m \in 0 .. N |-> [placed \in Seq(Int) |->
                        IF m = 0 THEN placed
                        ELSE Turn(dsp, N + 1 - m, k[m - 1], placed)]]
  <2>1. first = Q(first)
    <3>1. \A m \in 0 .. N : Q(first)[m] = [placed \in Seq(Int) |->
                                      IF m = 0 THEN placed
                                      ELSE Turn(dsp, N + 1 - m, first[m - 1], placed)]
      OBVIOUS
    <3>2. \A m \in 0 .. N : first[m] = Q(first)[m]
      BY <1>9, <3>1, Zenon
    <3> DEFINE k == Q(first)
    <3>3. k = [m \in 0 .. N |-> k[m]]
      OBVIOUS
    <3> HIDE DEF k
    <3>4. first = k
      BY <3>2, <3>3 DEF k
    <3>5. QED
      BY <3>4 DEF k
  <2>2. ASSUME NEW k
        PROVE  Eq(k) <=> k = Q(k)
    BY Zenon DEF Turn, N
  <2> HIDE DEF first, Eq, Q
  <2>3. QED
    BY <2>1, <2>2
<1> HIDE DEF first
<1>11. Places(dsp) = CHOOSE k : Eq(k)
  BY Zenon DEF Places, N
<1>12. PICK k : k = Places(dsp)
  OBVIOUS
<1>13. Eq(k)
  <2> HIDE DEF Eq
  <2>1. QED
    BY <1>10, <1>11, <1>12, Zenon
<1>14. \A m \in 0 .. N : k[m] = [placed \in Seq(Int) |->
                                  IF m = 0 THEN placed
                                  ELSE Turn(dsp, N + 1 - m, k[m - 1], placed)]
  BY <1>13 DEF Turn
<1> HIDE DEF Eq
<1> DEFINE Off == {m \in Nat : m <= N /\ k[m] \notin S}
<1>15. Off = {}
  <2>1. SUFFICES ASSUME Off # {}
                 PROVE  FALSE
    OBVIOUS
  <2>2. PICK m \in Off : \A l \in Off : m <= l
    <3>1. Off \subseteq Nat
      OBVIOUS
    <3>2. QED
      BY <2>1, <3>1, Least
  <2>3. m \in 0 .. N /\ m \in Nat
    BY <1>1, <2>2
  <2>4. m # 0
    BY <1>14, <2>2, <2>3
  <2>5. k[m - 1] \in S /\ m \in 1 .. N
    BY <1>1, <2>2, <2>3, <2>4
  <2>6. k[m] = G(m, k[m - 1])
    BY <1>14, <2>3, <2>4 DEF G
  <2>7. QED
    BY <1>4, <2>2, <2>5, <2>6
<1>16. \A m \in 0 .. N : k[m] \in S
  BY <1>1, <1>15
<1>17. \A m \in 0 .. N, placed \in Seq(Int) :
         /\ k[m][placed] \in Seq(Int)
         /\ k[m][placed] = IF m = 0 THEN placed
                           ELSE Turn(dsp, N + 1 - m, k[m - 1], placed)
  BY <1>14, <1>16
<1>18. QED
  BY <1>12, <1>17 DEF N

(* Legal places for the first n users, and for all of them from placed on *)
Legal(dsp, n) ==
  {p \in [1 .. n -> Int] :
     /\ \A i \in 1 .. n : p[i] \in Options(dsp, i)
     /\ \A i \in 2 .. n : p[i] - p[i - 1] >= 2}
Whole(dsp, placed) ==
  {p \in Legal(dsp, Len(FixedSteps)) :
     \A i \in 1 .. Len(placed) : p[i] = placed[i]}

(* r is the earliest of them, <<>> that there is none *)
Best(dsp, placed, r) ==
  IF r = <<>> THEN Whole(dsp, placed) = {}
  ELSE /\ r \in Whole(dsp, placed)
       /\ \A q \in Whole(dsp, placed) \ {r} : Earlier(r, q)

LEMMA LegalIs ==
  ASSUME NEW dsp, NEW n \in Nat, NEW p \in Legal(dsp, n)
  PROVE  p \in Seq(Int) /\ Len(p) = n
<1>1. p \in [1 .. n -> Int]
  BY DEF Legal
<1>2. QED
  BY <1>1

(* q is placed with c after it *)
Longer(placed, c, q) ==
  /\ q \in Seq(Int) /\ Len(q) = Len(placed) + 1
  /\ q[Len(placed) + 1] = c
  /\ \A i \in 1 .. Len(placed) : q[i] = placed[i]

LEMMA AppendIs ==
  ASSUME NEW placed \in Seq(Int), NEW c \in Int
  PROVE  Longer(placed, c, Append(placed, c))
BY DEF Longer

(* One more user in a legal place *)
LEMMA LegalAppend ==
  ASSUME NEW dsp, NEW n \in Nat, n < Len(FixedSteps),
         NEW placed \in Legal(dsp, n), NEW c \in Options(dsp, n + 1),
         Allowed(placed, c), NEW q, Longer(placed, c, q)
  PROVE  q \in Legal(dsp, n + 1) /\ q # <<>>
<1>1. placed \in Seq(Int) /\ Len(placed) = n
  BY LegalIs
<1>2. /\ q \in Seq(Int) /\ Len(q) = n + 1 /\ q[n + 1] = c
      /\ \A i \in 1 .. n : q[i] = placed[i]
  BY <1>1 DEF Longer
<1>3. q \in [1 .. n + 1 -> Int] /\ q # <<>>
  BY <1>2
<1>4. \A i \in 1 .. n + 1 : q[i] \in Options(dsp, i)
  <2>1. TAKE i \in 1 .. n + 1
  <2>2. i = n + 1 \/ i \in 1 .. n
    OBVIOUS
  <2>3. QED
    BY <1>2, <2>2 DEF Legal
<1>5. \A i \in 2 .. n + 1 : q[i] - q[i - 1] >= 2
  <2>1. TAKE i \in 2 .. n + 1
  <2>2. CASE i = n + 1
    <3>1. n # 0 /\ placed # <<>> /\ n \in 1 .. n /\ i - 1 = n
      BY <1>1, <2>2
    <3>2. c - placed[n] >= 2
      BY <1>1, <3>1 DEF Allowed
    <3>3. QED
      BY <1>2, <2>2, <3>1, <3>2
  <2>3. CASE i # n + 1
    <3>1. i \in 2 .. n /\ i \in 1 .. n /\ i - 1 \in 1 .. n
      BY <2>3
    <3>2. placed[i] - placed[i - 1] >= 2
      BY <3>1 DEF Legal
    <3>3. QED
      BY <1>2, <3>1, <3>2
  <2>4. QED
    BY <2>2, <2>3
<1>6. QED
  BY <1>3, <1>4, <1>5 DEF Legal

(* Those that continue placed continue it by a legal place for the next *)
LEMMA WholeNext ==
  ASSUME NEW dsp, NEW n \in Nat, n < Len(FixedSteps),
         NEW placed \in Legal(dsp, n), NEW p \in Whole(dsp, placed),
         NEW c, c = p[n + 1]
  PROVE  /\ c \in Options(dsp, n + 1) /\ Allowed(placed, c)
         /\ \A q : Longer(placed, c, q) => p \in Whole(dsp, q)
<1>1. /\ Len(FixedSteps) \in Nat
      /\ n + 1 \in 1 .. Len(FixedSteps) /\ p \in Legal(dsp, Len(FixedSteps))
  BY FixedAssumption DEF Whole
<1>2. c \in Options(dsp, n + 1)
  BY <1>1 DEF Legal
<1>3. placed \in Seq(Int) /\ Len(placed) = n
  BY LegalIs
<1>4. Allowed(placed, c)
  <2>1. CASE n = 0
    <3>1. placed = <<>>
      BY <1>3, <2>1
    <3>2. QED
      BY <3>1 DEF Allowed
  <2>2. CASE n # 0
    <3>1. n + 1 \in 2 .. Len(FixedSteps) /\ n \in 1 .. n /\ (n + 1) - 1 = n
      BY <1>1, <2>2
    <3>2. p[n + 1] - p[n] >= 2
      BY <1>1, <3>1 DEF Legal
    <3>3. p[n] = placed[n]
      BY <1>3, <3>1 DEF Whole
    <3>4. QED
      BY <1>3, <3>2, <3>3 DEF Allowed
  <2>3. QED
    BY <2>1, <2>2
<1>5. ASSUME NEW q, Longer(placed, c, q)
      PROVE  p \in Whole(dsp, q)
  <2>1. /\ Len(q) = n + 1 /\ q[n + 1] = c
        /\ \A i \in 1 .. n : q[i] = placed[i]
    BY <1>3, <1>5 DEF Longer
  <2>2. \A i \in 1 .. n : p[i] = placed[i]
    BY <1>3 DEF Whole
  <2>3. \A i \in 1 .. Len(q) : p[i] = q[i]
    <3>1. TAKE i \in 1 .. Len(q)
    <3>2. i = n + 1 \/ i \in 1 .. n
      BY <2>1
    <3>3. QED
      BY <2>1, <2>2, <3>2
  <2>4. QED
    BY <1>1, <2>3 DEF Whole
<1>6. QED
  BY <1>2, <1>4, <1>5

LEMMA WholeLess ==
  ASSUME NEW dsp, NEW n \in Nat, n < Len(FixedSteps),
         NEW placed \in Legal(dsp, n), NEW c,
         NEW q, Longer(placed, c, q), NEW p \in Whole(dsp, q)
  PROVE  p \in Whole(dsp, placed) /\ p[n + 1] = c
<1>1. Len(placed) = n
  BY LegalIs
<1>2. /\ Len(q) = n + 1 /\ q[n + 1] = c
      /\ \A i \in 1 .. n : q[i] = placed[i]
  BY <1>1 DEF Longer
<1>3. \A i \in 1 .. n + 1 : p[i] = q[i]
  BY <1>2 DEF Whole
<1>4. (\A i \in 1 .. n : p[i] = placed[i]) /\ p[n + 1] = c
  BY <1>2, <1>3
<1>5. QED
  BY <1>1, <1>4 DEF Whole

(* The search for the last m users finds the best places *)
LEMMA SearchBest ==
  ASSUME NEW dsp, Len(FixedSteps) # 0
  PROVE  \A m \in 0 .. Len(FixedSteps) :
           \A placed \in Legal(dsp, Len(FixedSteps) - m) :
             Best(dsp, placed, Places(dsp)[m][placed])
<1>1. PICK N \in Nat : N = Len(FixedSteps)
  BY FixedAssumption
<1> DEFINE Bad == {m \in Nat : /\ m <= N
                               /\ \E placed \in Legal(dsp, N - m) :
                                    ~Best(dsp, placed, Places(dsp)[m][placed])}
<1>2. SUFFICES ASSUME Bad # {}
               PROVE  FALSE
  BY <1>1
<1>3. PICK m \in Bad : \A l \in Bad : m <= l
  <2>1. Bad \subseteq Nat
    OBVIOUS
  <2>2. QED
    BY <1>2, <2>1, Least
<1>4. PICK placed \in Legal(dsp, N - m) : ~Best(dsp, placed, Places(dsp)[m][placed])
  BY <1>3
<1>5. PICK n \in Nat : n = N - m /\ n <= N /\ m \in 0 .. N
  BY <1>1, <1>3
<1>6. placed \in [1 .. n -> Int]
  BY <1>4, <1>5 DEF Legal
<1>7. placed \in Seq(Int) /\ Len(placed) = n
  BY <1>6
<1>8. CASE m = 0
  <2>1. Places(dsp)[m][placed] = placed
    BY <1>1, <1>5, <1>7, <1>8, PlacesIs
  <2>2. n = N /\ placed # <<>> /\ placed \in Legal(dsp, N)
    BY <1>1, <1>4, <1>5, <1>7, <1>8
  <2>3. placed \in Whole(dsp, placed)
    BY <1>1, <2>2 DEF Whole
  <2>4. ASSUME NEW q \in Whole(dsp, placed)
        PROVE  q = placed
    <3>1. q \in [1 .. N -> Int] /\ \A i \in 1 .. N : q[i] = placed[i]
      BY <1>1, <1>7, <2>2 DEF Whole, Legal
    <3>2. QED
      BY <1>6, <2>2, <3>1
  <2>5. Best(dsp, placed, placed)
    BY <2>2, <2>3, <2>4 DEF Best
  <2>6. QED
    BY <1>4, <2>1, <2>5
<1>9. CASE m # 0
  <2>1. PICK i \in 1 .. N : i = n + 1 /\ i = N + 1 - m
    BY <1>3, <1>5, <1>9
  <2>2. n < N /\ n + 1 = N - (m - 1) /\ m - 1 \in Nat /\ m - 1 <= N
    BY <1>3, <1>5, <1>9
  <2>3. PICK h : h = Places(dsp)[m - 1]
    OBVIOUS
  <2>4. \A p \in Legal(dsp, n + 1) : Best(dsp, p, h[p])
    <3>1. m - 1 \notin Bad
      BY <1>3, <2>2
    <3>2. QED
      BY <2>2, <2>3, <3>1
  <2>5. Places(dsp)[m][placed] = Turn(dsp, n + 1, h, placed)
    BY <1>1, <1>5, <1>7, <1>9, <2>1, <2>3, PlacesIs
  <2> DEFINE good == {c \in Options(dsp, n + 1) :
                        Allowed(placed, c) /\ h[Append(placed, c)] # <<>>}
  <2>6. Turn(dsp, n + 1, h, placed) =
          IF good = {} THEN <<>> ELSE h[Append(placed, Min(good))]
    BY DEF Turn
  <2>7. placed \in Legal(dsp, n) /\ n < Len(FixedSteps)
    BY <1>1, <1>4, <1>5, <2>2
  <2>8. \A c \in Options(dsp, n + 1) : Longer(placed, c, Append(placed, c))
    <3>1. Options(dsp, n + 1) \subseteq Int
      BY <1>1, <2>1, OptionsType
    <3>2. QED
      BY <1>7, <3>1, AppendIs
  <2>9. ASSUME NEW p \in Whole(dsp, placed)
        PROVE  p[n + 1] \in good /\ p \in Whole(dsp, Append(placed, p[n + 1]))
    <3>1. PICK c : c = p[n + 1]
      OBVIOUS
    <3>2. PICK q : q = Append(placed, c)
      OBVIOUS
    <3>3. /\ c \in Options(dsp, n + 1) /\ Allowed(placed, c)
          /\ \A s : Longer(placed, c, s) => p \in Whole(dsp, s)
      BY <2>7, <3>1, WholeNext
    <3>4. Longer(placed, c, q)
      BY <2>8, <3>2, <3>3
    <3>5. q \in Legal(dsp, n + 1) /\ p \in Whole(dsp, q)
      BY <2>7, <3>3, <3>4, LegalAppend
    <3>6. h[q] # <<>>
      BY <2>4, <3>5 DEF Best
    <3>7. QED
      BY <3>1, <3>2, <3>3, <3>5, <3>6
  <2>10. good \in SUBSET Options(dsp, n + 1)
    OBVIOUS
  <2>11. ASSUME NEW c \in good
         PROVE  /\ c \in Options(dsp, n + 1) /\ Allowed(placed, c)
                /\ h[Append(placed, c)] # <<>>
    OBVIOUS
  <2> HIDE DEF good
  <2>12. CASE good = {}
    <3>1. Whole(dsp, placed) = {}
      BY <2>9, <2>12
    <3>2. Best(dsp, placed, <<>>)
      BY <3>1 DEF Best
    <3>3. QED
      BY <1>4, <2>5, <2>6, <2>12, <3>2
  <2>13. CASE good # {}
    <3>1. PICK c \in good : c = Min(good) /\ \A l \in good : c <= l
      BY <1>1, <2>1, <2>10, <2>13, OptionsType
    <3>2. PICK r : r = h[Append(placed, c)]
      OBVIOUS
    <3>3. PICK s : s = Append(placed, c) /\ Longer(placed, c, s)
      BY <2>11, <2>8, <3>1
    <3>4. s \in Legal(dsp, n + 1)
      BY <2>7, <2>11, <3>1, <3>3, LegalAppend
    <3>5. /\ r # <<>> /\ r \in Whole(dsp, s)
          /\ \A q \in Whole(dsp, s) \ {r} : Earlier(r, q)
      BY <2>4, <2>11, <3>1, <3>2, <3>4, <3>3 DEF Best
    <3>6. r \in Whole(dsp, placed) /\ r[n + 1] = c
      BY <2>7, <3>5, <3>3, WholeLess
    <3>7. ASSUME NEW q \in Whole(dsp, placed), q # r
          PROVE  Earlier(r, q)
      <4>1. q[n + 1] \in good /\ q \in Whole(dsp, Append(placed, q[n + 1]))
        BY <2>9
      <4>2. CASE q[n + 1] = c
        BY <3>5, <3>7, <3>3, <4>1, <4>2
      <4>3. CASE q[n + 1] # c
        <5>1. q[n + 1] \in Int /\ c \in Int /\ r[n + 1] < q[n + 1]
          <6>1. good \subseteq Int
            BY <1>1, <2>1, <2>10, OptionsType
          <6>2. PICK u \in Int, v \in Int : u = c /\ v = q[n + 1]
            BY <3>1, <4>1, <6>1
          <6>3. u <= v /\ u # v
            BY <3>1, <4>1, <4>3, <6>2
          <6>4. QED
            BY <3>6, <6>2, <6>3
        <5>2. \A j \in 1 .. n : r[j] = q[j]
          BY <1>7, <3>6 DEF Whole
        <5>3. DOMAIN r = 1 .. N
          BY <1>1, <3>6 DEF Whole, Legal
        <5>4. n + 1 \in DOMAIN r /\ (n + 1) - 1 = n
          BY <2>1, <5>3
        <5>5. QED
          BY <5>1, <5>2, <5>4 DEF Earlier
      <4>4. QED
        BY <4>2, <4>3
    <3>8. Best(dsp, placed, r)
      BY <3>5, <3>6, <3>7 DEF Best
    <3>9. QED
      BY <1>4, <2>5, <2>6, <2>13, <3>1, <3>2, <3>8
  <2>14. QED
    BY <2>12, <2>13
<1>10. QED
  BY <1>8, <1>9

(* What Options allows is what Placements asks of a user *)
LEMMA LegalPlacements ==
  ASSUME NEW dsp
  PROVE  Legal(dsp, Len(FixedSteps)) = Placements(dsp)
<1>1. PICK N \in Nat : N = Len(FixedSteps) /\ DOMAIN FixedSteps = 1 .. N
  BY FixedAssumption
<1>2. \A i \in 1 .. N : FixedSteps[i] \in Int /\ FixedSteps[i] \in Range(FixedSteps)
  BY <1>1, FixedAssumption, StepsAssumption DEF Step, Range
<1>3. \A i \in 1 .. N, c \in Int :
        c \in Options(dsp, i) <=>
          /\ ~Taken(dsp, c)
          /\ IF Taken(dsp, FixedSteps[i]) THEN c - FixedSteps[i] \in {-1, 1}
                                          ELSE c = FixedSteps[i]
  <2>1. TAKE i \in 1 .. N, c \in Int
  <2>2. PICK n \in Int : n = FixedSteps[i]
    BY <1>2
  <2>3. c \in {n - 1, n + 1} <=> c - n \in {-1, 1}
    OBVIOUS
  <2>4. QED
    BY <2>2, <2>3 DEF Options
<1>4. ASSUME NEW p \in Legal(dsp, N)
      PROVE  p \in Placements(dsp)
  <2>1. p \in [1 .. N -> Int] /\ \A i \in 1 .. N : p[i] \in Options(dsp, i)
    BY DEF Legal
  <2>2. \A i \in 1 .. N : p[i] \in UNION {{f - 1, f, f + 1} : f \in Range(FixedSteps)}
    <3>1. TAKE i \in 1 .. N
    <3>2. PICK f \in Range(FixedSteps) : f = FixedSteps[i] /\ f \in Int
      BY <1>2
    <3>3. p[i] \in {f - 1, f, f + 1}
      BY <2>1, <3>2 DEF Options
    <3>4. QED
      BY <3>3
  <2>3. p \in [1 .. N -> UNION {{f - 1, f, f + 1} : f \in Range(FixedSteps)}]
    BY <2>1, <2>2
  <2>4. \A i \in 1 .. N \ {1} : p[i] - p[i - 1] >= 2
    <3>1. \A i \in 1 .. N \ {1} : i \in 2 .. N
      OBVIOUS
    <3>2. QED
      BY <3>1 DEF Legal
  <2>5. \A i \in 1 .. N :
          /\ ~Taken(dsp, p[i])
          /\ IF Taken(dsp, FixedSteps[i]) THEN p[i] - FixedSteps[i] \in {-1, 1}
                                          ELSE p[i] = FixedSteps[i]
    BY <1>3, <2>1
  <2>6. DOMAIN p = 1 .. N
    BY <2>1
  <2>7. QED
    BY <1>1, <2>3, <2>4, <2>5, <2>6, Zenon DEF Placements
<1>5. ASSUME NEW p \in Placements(dsp)
      PROVE  p \in Legal(dsp, N)
  <2>1. p \in [1 .. N -> UNION {{f - 1, f, f + 1} : f \in Range(FixedSteps)}]
    BY <1>1 DEF Placements
  <2>2. Range(FixedSteps) \subseteq Int
    BY <1>1, <1>2 DEF Range
  <2>3. \A i \in 1 .. N : p[i] \in Int
    BY <2>1, <2>2
  <2>4. DOMAIN p = 1 .. N
    BY <2>1
  <2>5. \A i \in 1 .. N : p[i] \in Options(dsp, i)
    BY <1>3, <2>3, <2>4 DEF Placements
  <2>6. \A i \in 2 .. N : p[i] - p[i - 1] >= 2
    <3>1. \A i \in 2 .. N : i \in 1 .. N \ {1}
      OBVIOUS
    <3>2. QED
      BY <2>4, <3>1 DEF Placements
  <2>7. p \in [1 .. N -> Int]
    BY <2>1, <2>3
  <2>8. QED
    BY <2>5, <2>6, <2>7 DEF Legal
<1>6. QED
  BY <1>1, <1>4, <1>5

LEMMA PlacementIs ==
  ASSUME NEW dsp
  PROVE  /\ Placements(dsp) = {} => Placement(dsp) = FixedSteps
         /\ Placements(dsp) # {} =>
              /\ Placement(dsp) \in Placements(dsp)
              /\ \A q \in Placements(dsp) \ {Placement(dsp)} :
                   Earlier(Placement(dsp), q)
<1>1. PICK N \in Nat : N = Len(FixedSteps) /\ FixedSteps \in Seq(Step)
  BY FixedAssumption
<1>2. PICK r : r = Place(dsp)
  OBVIOUS
<1>3. <<>> \in Seq(Int) /\ 0 \in 0 .. N /\ N \in 0 .. N
  BY <1>1
<1>4. Placement(dsp) = IF r = <<>> THEN FixedSteps ELSE r
  BY <1>2 DEF Placement
<1>5. CASE N = 0
  <2>1. FixedSteps = <<>>
    <3>1. PICK s : s = FixedSteps /\ s \in Seq(Step) /\ Len(s) = 0
      BY <1>1, <1>5
    <3>2. s = <<>>
      BY <3>1
    <3>3. QED
      BY <3>1, <3>2
  <2>2. r = <<>>
    BY <1>1, <1>2, <1>3, <1>5, PlacesIs DEF Place
  <2>3. Legal(dsp, N) = {<<>>}
    <3>1. \A p \in Legal(dsp, N) : p = <<>>
      <4>1. TAKE p \in Legal(dsp, N)
      <4>2. p \in Seq(Int) /\ Len(p) = 0
        BY <1>5, LegalIs
      <4>3. QED
        BY <4>2
    <3>2. <<>> \in [1 .. N -> Int]
      BY <1>5
    <3>3. <<>> \in Legal(dsp, N)
      BY <1>5, <3>2 DEF Legal
    <3>4. QED
      BY <3>1, <3>3
  <2>4. Placements(dsp) = {<<>>}
    BY <1>1, <2>3, LegalPlacements
  <2>5. QED
    BY <1>4, <2>1, <2>2, <2>4
<1>6. CASE N # 0
  <2>1. <<>> \in Legal(dsp, 0)
    <3>1. <<>> \in [1 .. 0 -> Int]
      OBVIOUS
    <3>2. QED
      BY <3>1 DEF Legal
  <2>2. <<>> \in Legal(dsp, N - N)
    BY <2>1
  <2>3. Best(dsp, <<>>, Places(dsp)[N][<<>>])
    BY <1>1, <1>3, <1>6, <2>2, SearchBest
  <2>4. Best(dsp, <<>>, r)
    BY <1>1, <1>2, <2>3 DEF Place
  <2>5. Whole(dsp, <<>>) = Placements(dsp)
    <3>1. Len(<<>>) = 0
      OBVIOUS
    <3>2. Whole(dsp, <<>>) = Legal(dsp, N)
      BY <1>1, <3>1 DEF Whole
    <3>3. QED
      BY <1>1, <3>2, LegalPlacements
  <2>6. QED
    BY <1>4, <2>4, <2>5 DEF Best
<1>7. QED
  BY <1>5, <1>6

LEMMA ScheduleType ==
  ASSUME NEW dsp \in Programs
  PROVE  Schedule(dsp) \subseteq Step
<1>1. dsp \subseteq Step
  BY ProgramAssumption
<1>2. \A i \in DOMAIN FixedSteps : Placement(dsp)[i] \in Int
  <2>1. PICK N \in Nat : N = Len(FixedSteps) /\ DOMAIN FixedSteps = 1 .. N
    BY FixedAssumption
  <2>2. \A i \in 1 .. N : FixedSteps[i] \in Int
    BY <2>1, FixedAssumption, StepsAssumption DEF Step
  <2>3. \A p \in Placements(dsp) : p \in [1 .. N -> Int]
    BY <2>1, LegalPlacements DEF Legal
  <2>4. CASE Placements(dsp) = {}
    BY <2>1, <2>2, <2>4, PlacementIs
  <2>5. CASE Placements(dsp) # {}
    BY <2>1, <2>3, <2>5, PlacementIs
  <2>6. QED
    BY <2>4, <2>5
<1>3. \A n \in Int : n % Steps \in Step
  BY StepsAssumption DEF Step
<1>4. QED
  BY <1>1, <1>2, <1>3 DEF Schedule

(* The schedule MPRO asks for *)
LEMMA ScheduleIs ==
  ASSUME NEW dsp
  PROVE  \/ Placements(dsp) = {} /\ Schedule(dsp) = dsp \cup Range(FixedSteps)
         \/ \E p \in Placements(dsp) :
              /\ Schedule(dsp) = dsp \cup {p[i] % Steps : i \in DOMAIN p}
              /\ \A q \in Placements(dsp) \ {p} : Earlier(p, q)
<1>1. CASE Placements(dsp) = {}
  <2>1. Schedule(dsp) = dsp \cup {FixedSteps[i] % Steps : i \in DOMAIN FixedSteps}
    BY <1>1, PlacementIs DEF Schedule
  <2>2. \A i \in DOMAIN FixedSteps : FixedSteps[i] % Steps = FixedSteps[i]
    <3>1. \A i \in DOMAIN FixedSteps : FixedSteps[i] \in 0 .. Steps - 1
      <4>1. PICK s : s = FixedSteps /\ s \in Seq(Step)
        BY FixedAssumption
      <4>2. \A i \in DOMAIN s : s[i] \in Step
        BY <4>1
      <4>3. QED
        BY <4>1, <4>2 DEF Step
    <3>2. \A n \in 0 .. Steps - 1 : n % Steps = n
      BY StepsAssumption
    <3>3. QED
      BY <3>1, <3>2
  <2>3. {FixedSteps[i] % Steps : i \in DOMAIN FixedSteps} = Range(FixedSteps)
    BY <2>2 DEF Range
  <2>4. QED
    BY <1>1, <2>1, <2>3
<1>2. CASE Placements(dsp) # {}
  <2>1. PICK p \in Placements(dsp) :
          p = Placement(dsp) /\ \A q \in Placements(dsp) \ {p} : Earlier(p, q)
    BY <1>2, PlacementIs
  <2>2. DOMAIN p = DOMAIN FixedSteps
    BY <2>1 DEF Placements
  <2>3. Schedule(dsp) = dsp \cup {p[i] % Steps : i \in DOMAIN p}
    BY <2>1, <2>2 DEF Schedule
  <2>4. QED
    BY <2>1, <2>3
<1>3. QED
  BY <1>1, <1>2

-----------------------------------------------------------------------------
(* The ARM's search *)

(* The search ends in a slot that is free, or has taken all its tries *)
LEMMA SearchIs ==
  ASSUME NEW cur, NEW before \in SUBSET Nat, NEW from \in Nat,
         NEW s \in Kept(before, from), NEW r, r = Search(cur, s, from)
  PROVE  /\ r \in Try /\ r.start >= from /\ r.sh4 \in Kept(before, r.start)
         /\ FreeFor(cur, r.sh4.booked, r.start) \/ r.start >= from + Guard
<1> DEFINE N == [a \in Try |-> Tried(cur, a.sh4, NextSlot(a.start))]
           Stop == {a \in Try : FreeFor(cur, a.sh4.booked, a.start)}
           M == [a \in Try |-> a.start]
           P == {a \in Try : a.start >= from /\ a.sh4 \in Kept(before, a.start)}
<1>1. Guard \in Nat
  BY BoundAssumption
<1>2. PICK a \in Try : a = Tried(cur, s, from) /\ a.start = from
  <2>1. s \in Sh4
    BY DEF Kept
  <2>2. Tried(cur, s, from) \in Try
    BY <2>1, TriedType
  <2>3. Tried(cur, s, from).start = from
    BY DEF Tried
  <2>4. QED
    BY <2>2, <2>3
<1>3. a \in P
  <2>1. before \subseteq Nat /\ from <= from
    OBVIOUS
  <2>2. Tried(cur, s, from).sh4 \in Kept(before, from)
    BY <2>1, TriedKeeps
  <2>3. a.start >= from
    BY <1>2, <2>1
  <2>4. QED
    BY <1>2, <2>2, <2>3
<1>4. Loop(Trying(cur), Try, N, Stop)
  BY TryingIs
<1>5. ASSUME NEW b \in Try
      PROVE  /\ N[b] \in Try /\ N[b] = Tried(cur, b.sh4, b.start + 1)
             /\ N[b].start = b.start + 1
  <2>1. b.start \in Nat /\ b.sh4 \in Sh4 /\ NextSlot(b.start) = b.start + 1
    BY DEF Try, NextSlot
  <2>2. N[b] = Tried(cur, b.sh4, b.start + 1)
    BY <2>1
  <2>3. Tried(cur, b.sh4, b.start + 1) \in Try
    BY <2>1, TriedType
  <2>4. Tried(cur, b.sh4, b.start + 1).start = b.start + 1
    BY DEF Tried
  <2>5. QED
    BY <2>2, <2>3, <2>4
<1>6. \A b \in P : N[b] \in P
  <2>1. TAKE b \in P
  <2>2. PICK u \in Nat, v \in Nat : u = b.start /\ v = u + 1 /\ u <= v
    BY DEF Try
  <2>3. b.sh4 \in Kept(before, u) /\ before \subseteq Nat
    BY <2>2
  <2>4. Tried(cur, b.sh4, v).sh4 \in Kept(before, v)
    BY <2>2, <2>3, TriedKeeps
  <2>5. N[b] \in Try /\ N[b] = Tried(cur, b.sh4, v) /\ N[b].start = v
    BY <1>5, <2>2
  <2>6. u >= from
    BY <2>2
  <2>7. N[b].start >= from
    BY <2>2, <2>5, <2>6
  <2>8. QED
    BY <2>4, <2>5, <2>7
<1>7. N \in [Try -> Try]
  BY <1>5
<1>8. \A b \in Try : M[b] \in Int /\ M[N[b]] >= M[b] + 1
  BY <1>5 DEF Try
<1>9. r = Trying(cur)[Guard][a]
  BY <1>2 DEF Search
<1>10. r \in P
  <2>1. P \subseteq Try
    OBVIOUS
  <2> HIDE DEF N, Stop, M, P
  <2>2. QED
    BY <1>1, <1>3, <1>4, <1>6, <1>9, <2>1, LoopKeeps
<1>11. r \in Stop \/ M[r] >= M[a] + Guard
  <2> HIDE DEF N, Stop, M, P
  <2>1. QED
    BY <1>1, <1>2, <1>4, <1>7, <1>8, <1>9, LoopEnds
<1>12. QED
  BY <1>2, <1>10, <1>11

-----------------------------------------------------------------------------
(* The invariant *)

SlotTypes ==
  /\ mpro \in Programs /\ voice \in Voices /\ dirty \in BOOLEAN
  /\ writes \in 0 .. MaxWrites /\ now \in Nat /\ last \in Nat \cup {-1}
  /\ ever \subseteq Nat /\ slots \subseteq Step
  /\ sh4 \in Sh4 /\ sh4.stream \in Streams

(* slots_ is what MPRO asks for, unless it is to be built again; and every   *)
(* slot the SH4 was given that the ARM has not passed is still booked        *)
SlotsInv ==
  /\ SlotTypes
  /\ ~dirty => slots = Schedule(mpro)
  /\ \A b \in ever : b \in sh4.booked \/ b < now

LEMMA SlotsInit == Init => SlotsInv
<1> SUFFICES ASSUME Init
             PROVE  SlotsInv
  OBVIOUS
<1>1. PICK stream \in Streams, first \in Firsts :
        sh4 = [stream |-> stream, next |-> Begin + first,
                booked |-> {}, given |-> <<>>]
  BY DEF Init
<1>2. Begin \in Nat /\ first \in Nat /\ MaxWrites \in Nat
  BY BoundAssumption, StreamAssumption
<1>3. Begin + first \in Nat
  BY <1>2
<1>4. sh4 \in Sh4 /\ sh4.stream \in Streams
  BY <1>1, <1>3 DEF Sh4
<1>5. QED
  BY <1>2, <1>4 DEF Init, SlotsInv, SlotTypes

LEMMA ArmRamKeeps ==
  ASSUME SlotsInv, NEW idle \in Idle, NEW len \in {1, 2}, ArmRam(idle, len)
  PROVE  /\ SlotsInv'
         /\ \/ ~Owned(last') /\ last' \notin ever'
            \/ last' >= now + Guard
<1>1. SlotTypes /\ now \in Nat /\ idle \in Nat /\ ever \in SUBSET Nat /\ Guard \in Nat
  BY BoundAssumption DEF SlotsInv, SlotTypes, Idle
<1>2. PICK s : s = [sh4 EXCEPT !.given = <<>>]
  OBVIOUS
<1>3. PICK cur : cur = Current
  OBVIOUS
<1>4. PICK from \in Nat : from = now + idle
  BY <1>1
<1>5. PICK r : r = Search(cur, s, from)
  OBVIOUS
<1>6. /\ now' = r.start + len /\ last' = r.start /\ sh4' = r.sh4
      /\ slots' = cur /\ dirty' = FALSE /\ ever' = ever \cup Range(r.sh4.given)
      /\ mpro' = mpro /\ voice' = voice /\ writes' = writes
  BY <1>2, <1>3, <1>4, <1>5 DEF ArmRam
<1>7. cur = Schedule(mpro)
  BY <1>3 DEF SlotsInv, Current
<1>8. s \in Kept(ever, from)
  <2>1. s \in Sh4 /\ s.booked = sh4.booked /\ s.given = <<>>
    <3>1. <<>> \in Seq(Nat) /\ sh4 \in Sh4
      BY <1>1 DEF SlotTypes
    <3>2. QED
      BY <1>2, <3>1 DEF Sh4
  <2>2. Range(s.given) = {}
    BY <2>1 DEF Range
  <2>3. \A b \in ever : b \in s.booked \/ b < from
    BY <1>1, <1>4, <2>1 DEF SlotsInv
  <2>4. QED
    BY <2>1, <2>2, <2>3 DEF Kept
<1>9. /\ r \in Try /\ r.start >= from /\ r.sh4 \in Kept(ever, r.start)
      /\ FreeFor(cur, r.sh4.booked, r.start) \/ r.start >= from + Guard
  BY <1>1, <1>4, <1>5, <1>8, SearchIs
<1>10. PICK u \in Nat : u = r.start
  BY <1>9 DEF Try
<1>11. /\ r.sh4 \in Sh4
       /\ \A b \in ever' : b \in r.sh4.booked \/ b < u
  BY <1>6, <1>9, <1>10 DEF Kept
<1>12. ever' \subseteq Nat
  <2>1. r.sh4.given \in Seq(Nat)
    BY <1>11, StreamType
  <2>2. Range(r.sh4.given) \subseteq Nat
    BY <2>1 DEF Range
  <2>3. QED
    BY <1>1, <1>6, <2>2
<1>13. SlotsInv'
  <2>1. now' \in Nat /\ u < now' /\ last' \in Nat
    BY <1>6, <1>10
  <2>2. slots' \subseteq Step /\ slots' = Schedule(mpro)'
    BY <1>1, <1>6, <1>7, ScheduleType DEF SlotTypes
  <2>3. sh4' \in Sh4 /\ sh4'.stream \in Streams
    BY <1>6, <1>11 DEF Sh4
  <2>4. SlotTypes'
    BY <1>1, <1>6, <1>12, <2>1, <2>2, <2>3 DEF SlotTypes
  <2>5. \A b \in ever' : b \in sh4'.booked \/ b < now'
    BY <1>6, <1>10, <1>11, <1>12, <2>1
  <2>6. QED
    BY <2>2, <2>4, <2>5 DEF SlotsInv
<1>14. CASE FreeFor(cur, r.sh4.booked, r.start)
  <2>1. ~Used(cur, u) /\ u \notin r.sh4.booked
    BY <1>10, <1>14 DEF FreeFor
  <2>2. ~Owned(last')
    BY <1>6, <1>7, <1>10, <2>1 DEF Owned
  <2>3. u \notin ever'
    BY <1>11, <2>1
  <2>4. QED
    BY <1>6, <1>10, <1>13, <2>2, <2>3
<1>15. CASE r.start >= from + Guard
  BY <1>1, <1>4, <1>6, <1>10, <1>13, <1>15
<1>16. QED
  BY <1>9, <1>14, <1>15

LEMMA RegisterKeeps ==
  ASSUME SlotsInv, ArmRegister, dirty' \in BOOLEAN,
         mpro' \in Programs, voice' \in Voices,
         ~dirty' => ~dirty /\ mpro' = mpro
  PROVE  SlotsInv' /\ last' = last
<1>1. /\ now \in Nat /\ writes \in 0 .. MaxWrites /\ ever \subseteq Nat
      /\ MaxWrites \in Nat
  BY BoundAssumption DEF SlotsInv, SlotTypes
<1>2. /\ now' = now + 2 /\ writes' \in 0 .. MaxWrites
      /\ last' = last /\ sh4' = sh4 /\ slots' = slots /\ ever' = ever
  BY <1>1 DEF ArmRegister
<1>3. SlotTypes'
  BY <1>1, <1>2 DEF SlotTypes, SlotsInv
<1>4. ~dirty' => slots' = Schedule(mpro')
  BY <1>2 DEF SlotsInv
<1>5. \A b \in ever' : b \in sh4'.booked \/ b < now'
  BY <1>1, <1>2 DEF SlotsInv
<1>6. QED
  BY <1>2, <1>3, <1>4, <1>5 DEF SlotsInv

LEMMA SlotsStep ==
  ASSUME SlotsInv, [Next]_vars
  PROVE  /\ SlotsInv'
         /\ last' # last => \/ ~Owned(last') /\ last' \notin ever'
                            \/ last' >= now + Guard
<1>1. ASSUME NEW idle \in Idle, NEW len \in {1, 2}, ArmRam(idle, len)
      PROVE  /\ SlotsInv'
             /\ last' # last => \/ ~Owned(last') /\ last' \notin ever'
                                \/ last' >= now + Guard
  BY <1>1, ArmRamKeeps
<1>2. ASSUME NEW step \in Step, WriteMpro(step)
      PROVE  SlotsInv' /\ last' = last
  <2>1. /\ ArmRegister /\ dirty' = TRUE /\ mpro' \in Programs
        /\ voice' \in Voices
    BY <1>2 DEF WriteMpro, SlotsInv, SlotTypes
  <2>2. QED
    BY <2>1, RegisterKeeps
<1>3. ASSUME NEW v \in Voices, WriteVoice(v)
      PROVE  SlotsInv' /\ last' = last
  <2>1. /\ ArmRegister /\ dirty' = dirty /\ mpro' = mpro /\ mpro \in Programs
        /\ voice' \in Voices /\ dirty \in BOOLEAN
    BY <1>3 DEF WriteVoice, SlotsInv, SlotTypes
  <2>2. QED
    BY <2>1, RegisterKeeps
<1>4. ASSUME UNCHANGED vars
      PROVE  SlotsInv' /\ last' = last
  BY <1>4 DEF vars, SlotsInv, SlotTypes
<1>5. QED
  BY <1>1, <1>2, <1>3, <1>4 DEF Next, Accesses, Over

(* An ARM access starts only in a slot no one else holds, as long as it     *)
(* waits for fewer steps than the search tries (cycle, free_at): whatever   *)
(* the DSP program, the channels, the other user and the SH4's stream.      *)
THEOREM SlotFreeCorrect ==
  ASSUME MaxIdle + Patience < Guard, Patience \in Nat
  PROVE  Spec /\ ArmInTime => ArmSlotFree
<1> DEFINE InTime == last' # last => last' <= now + MaxIdle + Patience
           SlotFree == last' # last => ~Owned(last') /\ last' \notin ever'
<1>1. SlotsInv /\ [Next]_vars => SlotsInv'
  BY SlotsStep
<1>2. SlotsInv /\ [Next]_vars /\ [InTime]_vars => [SlotFree]_vars
  <2> SUFFICES ASSUME SlotsInv, [Next]_vars, InTime, last' # last
               PROVE  ~Owned(last') /\ last' \notin ever'
    BY DEF vars
  <2>1. /\ MaxIdle \in Nat /\ Guard \in Nat /\ now \in Nat /\ last' \in Nat \cup {-1}
    BY SlotsStep, BoundAssumption DEF SlotsInv, SlotTypes
  <2>2. ~(last' >= now + Guard)
    BY <2>1
  <2>3. QED
    BY <2>2, SlotsStep
<1>3. QED
  BY <1>1, <1>2, SlotsInit, PTL DEF Spec, ArmInTime, ArmSlotFree

LEMMA SlotsAreOK == SlotsInv => SlotsOK
BY ScheduleIs DEF SlotsInv, SlotTypes, SlotsOK

(* The schedule in use is the one the registers ask for: whatever the DSP    *)
(* program and the grid, the other user has the earliest of its legal places *)
(* (slot_used, slots_dirty_).                                                *)
THEOREM SlotsOKCorrect == Spec => []SlotsOK
<1>1. SlotsInv /\ [Next]_vars => SlotsInv'
  BY SlotsStep
<1>2. QED
  BY <1>1, SlotsInit, SlotsAreOK, PTL DEF Spec

-----------------------------------------------------------------------------
(* The SH4 ahead of the ARM *)

(* What the SH4 has been given since it was advanced last lies from low on,  *)
(* and so does its next arrival                                              *)
Later(low) ==
  {s \in Sh4 : s.next >= low /\ \A b \in Range(s.given) : b >= low}

LEMMA AccessLater ==
  ASSUME NEW cur, NEW low \in Nat, NEW n \in Nat,
         NEW a \in Taking, a.sh4 \in Later(low), a.from >= low
  PROVE  /\ Access(cur)[n][a].sh4 \in Later(low)
         /\ Access(cur)[n][a].sh4.stream = a.sh4.stream
<1> DEFINE N == [b \in Taking |-> TakeSlot(cur, b)]
           P == {b \in Taking : /\ b.sh4 \in Later(low) /\ b.from >= low
                                /\ b.sh4.stream = a.sh4.stream}
<1>1. ASSUME NEW b \in P
      PROVE  TakeSlot(cur, b) \in P
  <2>1. b \in Taking /\ b.sh4 \in Sh4 /\ b.from \in Nat /\ b.from >= low
    BY DEF Taking
  <2>2. TakeSlot(cur, b) \in Taking /\ Booked(b, TakeSlot(cur, b))
    BY <2>1, TakeSlotIs
  <2>3. PICK u, g : u = TakeSlot(cur, b).sh4 /\ g = TakeSlot(cur, b).from
    OBVIOUS
  <2>4. PICK f \in Nat :
          /\ b.from <= f /\ f <= g
          /\ u = [b.sh4 EXCEPT !.booked = @ \cup {f}, !.given = Append(@, f)]
    BY <2>2, <2>3 DEF Booked
  <2>5. u \in Sh4 /\ g \in Nat
    BY <2>2, <2>3 DEF Taking
  <2>6. /\ u.next = b.sh4.next /\ u.stream = b.sh4.stream
        /\ u.given = Append(b.sh4.given, f)
    BY <2>1, <2>4 DEF Sh4
  <2>7. b.sh4.given \in Seq(Nat)
    BY <2>1, StreamType
  <2>8. \A c \in Range(u.given) : c \in Range(b.sh4.given) \/ c = f
    BY <2>6, <2>7, RangeOfAppend
  <2>9. f >= low /\ g >= low
    BY <2>1, <2>4, <2>5
  <2>10. u \in Later(low) /\ u.stream = a.sh4.stream
    BY <2>5, <2>6, <2>8, <2>9 DEF Later
  <2>11. QED
    BY <2>2, <2>3, <2>9, <2>10
<1>2. \A b \in P : N[b] \in P
  BY <1>1
<1>3. Loop(Access(cur), Taking, N, {})
  BY AccessIs
<1>4. P \subseteq Taking /\ a \in P
  OBVIOUS
<1> HIDE DEF N
<1>5. Access(cur)[n][a] \in P
  <2> HIDE DEF P
  <2>1. QED
    BY <1>2, <1>3, <1>4, LoopKeeps
<1>6. QED
  BY <1>5

LEMMA ArrivalLater ==
  ASSUME NEW cur, NEW low \in Nat, NEW s \in Later(low)
  PROVE  /\ Arrival(cur, s) \in Later(low) /\ Arrival(cur, s).stream = s.stream
         /\ Arrival(cur, s).next >= s.next + s.stream.period
<1>1. s \in Sh4
  BY DEF Later
<1>2. PICK n \in Nat : n = s.stream.slots
  BY <1>1, StreamType
<1>3. PICK a \in Taking :
        /\ a.sh4 = s /\ a.from = s.next
        /\ Arrived(s, Access(cur)[n][a].sh4, Arrival(cur, s))
  BY <1>1, <1>2, ArrivalIs
<1>4. a.from >= low
  BY <1>3 DEF Later
<1>5. /\ Access(cur)[n][a].sh4 \in Later(low)
      /\ Access(cur)[n][a].sh4.stream = s.stream
  BY <1>3, <1>4, AccessLater
<1>6. Arrival(cur, s) \in Sh4
  BY <1>1, ArrivalIs
<1>7. PICK u \in Nat, v \in Nat, p \in Nat :
        u = Arrival(cur, s).next /\ v = s.next /\ p = s.stream.period
  BY <1>1, <1>6, StreamType
<1>8. u >= v + p /\ v >= low
  BY <1>3, <1>7 DEF Arrived, Later
<1>9. u >= low
  BY <1>8
<1>10. /\ Arrival(cur, s).given = Access(cur)[n][a].sh4.given
       /\ Arrival(cur, s).stream = s.stream
  BY <1>3, <1>5 DEF Arrived
<1>11. Arrival(cur, s) \in Later(low)
  BY <1>5, <1>6, <1>7, <1>9, <1>10 DEF Later
<1>12. QED
  BY <1>7, <1>8, <1>10, <1>11

(* Up to t has arrived what arrives up to t *)
LEMMA AdvancedLater ==
  ASSUME NEW cur, NEW low \in Nat, NEW s \in Later(low), NEW t \in Nat,
         s.stream.period # 0
  PROVE  /\ Advanced(cur, s, t) \in Later(low) /\ Advanced(cur, s, t).next > t
         /\ Advanced(cur, s, t).stream = s.stream
<1> DEFINE N == [b \in Sh4 |-> Arrival(cur, b)]
           Stop == {b \in Sh4 : b.next > t}
           P == {b \in Later(low) : b.stream = s.stream}
           M == [b \in Sh4 |-> b.next]
<1>1. ASSUME NEW b \in P
      PROVE  N[b] \in P /\ M[b] \in Int /\ M[N[b]] >= M[b] + 1
  <2>1. b \in Sh4 /\ b \in Later(low) /\ N[b] = Arrival(cur, b)
    BY DEF Later
  <2>2. /\ N[b] \in Later(low) /\ N[b].stream = b.stream
        /\ N[b].next >= b.next + b.stream.period
    BY <2>1, ArrivalLater
  <2>3. N[b] \in Sh4
    BY <2>2 DEF Later
  <2>4. PICK u \in Nat, v \in Nat, p \in Nat :
          u = N[b].next /\ v = b.next /\ p = b.stream.period
    BY <2>1, <2>3, StreamType
  <2>5. p # 0 /\ u >= v + p
    BY <2>2, <2>4
  <2>6. u >= v + 1
    BY <2>5
  <2>7. M[N[b]] = u /\ M[b] = v
    BY <2>1, <2>3, <2>4
  <2>8. QED
    BY <2>2, <2>6, <2>7
<1>2. Loop(Arriving(cur, t), Sh4, N, Stop)
  BY ArrivingIs
<1>3. P \subseteq Sh4 /\ s \in P
  BY DEF Later
<1>4. t + 1 \in Nat /\ M[s] \in Nat
  BY <1>3, StreamType
<1>5. PICK a : a = Arriving(cur, t)[t + 1][s]
  OBVIOUS
<1>6. a \in P
  <2> HIDE DEF N, Stop, P, M
  <2>1. QED
    BY <1>1, <1>2, <1>3, <1>4, <1>5, LoopKeeps
<1>7. a \in Stop \/ M[a] >= M[s] + (t + 1)
  <2>1. \A b \in P : N[b] \in P /\ M[b] \in Int /\ M[N[b]] >= M[b] + 1
    BY <1>1
  <2>2. PICK k \in Nat : k = t + 1
    BY <1>4
  <2> HIDE DEF N, Stop, P, M
  <2>3. a \in Stop \/ M[a] >= M[s] + k
    BY <1>2, <1>3, <1>5, <2>1, <2>2, LoopEnds
  <2>4. QED
    BY <2>2, <2>3
<1>8. a \in Sh4 /\ a.next \in Nat
  BY <1>3, <1>6, StreamType
<1>9. a.next > t
  <2>1. PICK u \in Nat, v \in Nat : u = M[a] /\ v = M[s] /\ u = a.next
    BY <1>4, <1>8
  <2>2. u > t
    BY <1>7, <1>8, <2>1
  <2>3. QED
    BY <2>1, <2>2
<1>10. a = Arrivals(cur, s, t)
  BY <1>5 DEF Arrivals
<1>11. PICK d : d = Dropped(a.booked, t)
  OBVIOUS
<1>12. Advanced(cur, s, t) = [a EXCEPT !.booked = d]
  BY <1>10, <1>11 DEF Advanced
<1>13. Advanced(cur, s, t) \in Sh4
  BY <1>3, AdvancedIs
<1>14. /\ Advanced(cur, s, t).next = a.next /\ Advanced(cur, s, t).given = a.given
       /\ Advanced(cur, s, t).stream = a.stream
  BY <1>8, <1>12 DEF Sh4
<1>15. QED
  BY <1>6, <1>9, <1>13, <1>14 DEF Later

(* Ahead of the ARM: nothing given before low, and where slots are given at  *)
(* all the next arrival lies after the ARM's slot                            *)
AheadOf(low, start) ==
  {s \in Sh4 : /\ \A b \in Range(s.given) : b >= low
               /\ s.stream.period # 0 => s.next >= low /\ s.next > start}

LEMMA TriedAhead ==
  ASSUME NEW cur, NEW low \in Nat, NEW before, NEW s \in AheadOf(low, before),
         NEW start \in Nat
  PROVE  Tried(cur, s, start).sh4 \in AheadOf(low, start)
<1>1. PICK t \in Nat : t = start + Ahead /\ t >= start
  BY BoundAssumption
<1>2. PICK u : u = Advanced(cur, s, t)
  OBVIOUS
<1>3. s \in Sh4 /\ u = Tried(cur, s, start).sh4
  BY <1>1, <1>2 DEF AheadOf, Tried
<1>4. CASE s.stream.period = 0
  <2>1. PICK d : d = Dropped(s.booked, t)
    OBVIOUS
  <2>2. u = [s EXCEPT !.booked = d]
    BY <1>2, <1>4, <2>1 DEF Advanced, Arrivals
  <2>3. d \subseteq Nat
    BY <1>3, <2>1, StreamType DEF Dropped
  <2>4. u \in Sh4 /\ u.given = s.given /\ u.stream = s.stream
    BY <1>3, <2>2, <2>3 DEF Sh4
  <2>5. QED
    BY <1>3, <1>4, <2>4 DEF AheadOf
<1>5. CASE s.stream.period # 0
  <2>1. s \in Later(low)
    BY <1>3, <1>5 DEF AheadOf, Later
  <2>2. u \in Later(low) /\ u.next > t
    BY <1>2, <1>5, <2>1, AdvancedLater
  <2>3. u.next \in Nat
    BY <2>2, StreamType DEF Later
  <2>4. u.next > start
    BY <1>1, <2>2, <2>3
  <2>5. QED
    BY <1>3, <2>2, <2>4 DEF AheadOf, Later
<1>6. QED
  BY <1>4, <1>5

LEMMA SearchAhead ==
  ASSUME NEW cur, NEW low \in Nat, NEW before, NEW s \in AheadOf(low, before),
         NEW from \in Nat, NEW r, r = Search(cur, s, from)
  PROVE  r.sh4 \in AheadOf(low, r.start)
<1> DEFINE N == [a \in Try |-> Tried(cur, a.sh4, NextSlot(a.start))]
           Stop == {a \in Try : FreeFor(cur, a.sh4.booked, a.start)}
           P == {a \in Try : a.sh4 \in AheadOf(low, a.start)}
<1>1. Guard \in Nat /\ s \in Sh4
  BY BoundAssumption DEF AheadOf
<1>2. ASSUME NEW u, NEW b, u \in AheadOf(low, b), NEW v \in Nat
      PROVE  Tried(cur, u, v) \in P
  <2>1. u \in Sh4
    BY <1>2 DEF AheadOf
  <2>2. Tried(cur, u, v) \in Try /\ Tried(cur, u, v).start = v
    BY <2>1, TriedType DEF Tried
  <2>3. Tried(cur, u, v).sh4 \in AheadOf(low, v)
    BY <1>2, TriedAhead
  <2>4. QED
    BY <2>2, <2>3
<1>3. Tried(cur, s, from) \in P
  BY <1>2
<1>4. Loop(Trying(cur), Try, N, Stop)
  BY TryingIs
<1>5. \A a \in P : N[a] \in P
  <2>1. TAKE a \in P
  <2>2. NextSlot(a.start) \in Nat /\ a.sh4 \in AheadOf(low, a.start) /\ a \in Try
    BY DEF Try, NextSlot
  <2>3. Tried(cur, a.sh4, NextSlot(a.start)) \in P
    BY <1>2, <2>2
  <2>4. QED
    BY <2>2, <2>3
<1>6. r = Trying(cur)[Guard][Tried(cur, s, from)]
  BY DEF Search
<1>7. r \in P
  <2>1. P \subseteq Try
    OBVIOUS
  <2> HIDE DEF N, Stop, P
  <2>2. QED
    BY <1>1, <1>3, <1>4, <1>5, <1>6, <2>1, LoopKeeps
<1>8. QED
  BY <1>7

AheadInv == SlotsInv /\ (sh4.stream.period # 0 => sh4.next > last)

LEMMA AheadInit == Init => AheadInv
<1> SUFFICES ASSUME Init
             PROVE  AheadInv
  OBVIOUS
<1>1. SlotsInv
  BY SlotsInit
<1>2. sh4.next \in Nat
  BY <1>1, StreamType DEF SlotsInv, SlotTypes
<1>3. last = -1
  BY DEF Init
<1>4. QED
  BY <1>1, <1>2, <1>3 DEF AheadInv

LEMMA AheadStep ==
  ASSUME AheadInv, [Next]_vars
  PROVE  AheadInv' /\ \A b \in ever' \ ever : b > last
<1>1. SlotsInv /\ SlotsInv'
  BY SlotsStep DEF AheadInv
<1>2. ASSUME NEW idle \in Idle, NEW len \in {1, 2}, ArmRam(idle, len)
      PROVE  AheadInv' /\ \A b \in ever' \ ever : b > last
  <2>1. PICK s : s = [sh4 EXCEPT !.given = <<>>]
    OBVIOUS
  <2>2. PICK from \in Nat : from = now + idle
    BY <1>1, BoundAssumption DEF SlotsInv, SlotTypes, Idle
  <2>3. PICK cur, r : cur = Current /\ r = Search(cur, s, from)
    OBVIOUS
  <2>4. last' = r.start /\ sh4' = r.sh4 /\ ever' = ever \cup Range(r.sh4.given)
    BY <1>2, <2>1, <2>2, <2>3 DEF ArmRam
  <2>5. PICK low \in Nat : low = last + 1
    BY <1>1 DEF SlotsInv, SlotTypes
  <2>6. s \in AheadOf(low, last)
    <3>1. <<>> \in Seq(Nat) /\ sh4 \in Sh4 /\ sh4.next \in Nat
      BY <1>1, StreamType DEF SlotsInv, SlotTypes
    <3>2. /\ s \in Sh4 /\ s.next = sh4.next /\ s.stream = sh4.stream
          /\ s.given = <<>>
      BY <2>1, <3>1 DEF Sh4
    <3>3. Range(s.given) = {}
      BY <3>2 DEF Range
    <3>4. last \in Int
      BY <1>1 DEF SlotsInv, SlotTypes
    <3>5. QED
      BY <2>5, <3>1, <3>2, <3>3, <3>4 DEF AheadOf, AheadInv
  <2>7. r.sh4 \in AheadOf(low, r.start)
    BY <2>2, <2>3, <2>6, SearchAhead
  <2>8. AheadInv'
    BY <1>1, <2>4, <2>7 DEF AheadInv, AheadOf
  <2>9. \A b \in Range(r.sh4.given) : b \in Nat /\ b >= low
    <3>1. r.sh4.given \in Seq(Nat)
      BY <2>7, StreamType DEF AheadOf
    <3>2. Range(r.sh4.given) \subseteq Nat
      BY <3>1 DEF Range
    <3>3. QED
      BY <2>7, <3>2 DEF AheadOf
  <2>10. last \in Int
    BY <1>1 DEF SlotsInv, SlotTypes
  <2>11. \A b \in ever' \ ever : b > last
    BY <2>4, <2>5, <2>9, <2>10
  <2>12. QED
    BY <2>8, <2>11
<1>3. ASSUME UNCHANGED <<last, sh4, ever>>
      PROVE  AheadInv' /\ \A b \in ever' \ ever : b > last
  BY <1>1, <1>3 DEF AheadInv
<1>4. QED
  BY <1>2, <1>3 DEF Next, Accesses, Over, WriteMpro, WriteVoice, ArmRegister, vars

(* The SH4, booked ahead of the ARM, is never given a slot the ARM has had   *)
(* or passed (sh4_advance, cycle).                                           *)
THEOREM GivenLater ==
  Spec => [][\A b \in ever' \ ever : b > last]_vars
<1> DEFINE After == \A b \in ever' \ ever : b > last
<1>1. AheadInv /\ [Next]_vars => AheadInv'
  BY AheadStep
<1>2. AheadInv /\ [Next]_vars => [After]_vars
  BY AheadStep
<1>3. QED
  BY <1>1, <1>2, AheadInit, PTL DEF Spec

=============================================================================
