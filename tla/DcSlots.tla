------------------------------- MODULE DcSlots -------------------------------
(***************************************************************************)
(* The wave RAM slots of the sound system's bus (DcArmBus in slot-grid mode, *)
(* model/src/dc_arm_map.cpp).  A slot is a DSP step.  The DSP owns the slots *)
(* of its memory steps, the sound generator those of its fetches, another    *)
(* user two per sample that give way to the DSP; the SH4 takes the first     *)
(* free slot after each arrival, and the ARM what is left.                   *)
(*                                                                           *)
(* Time is in steps: the start of an ARM cycle is rounded up to a step, so   *)
(* what happens between two boundaries does not count.                       *)
(***************************************************************************)
EXTENDS SgcSlots, Sequences, FiniteSetsExt

CONSTANTS
  FixedSteps,   \* nominal steps of the other user (fixed_steps)
  Programs,     \* the DSP programs: which steps access wave RAM
  Voices,       \* the channels that may be keyed on: sets [pcm, adpcm]
  Guard,        \* after so many busy steps a search gives up (256)
  Ahead,        \* how far the SH4's arrivals run ahead of the ARM (64 MCLK)
  KeepBack,     \* how long a slot taken by the SH4 is remembered (1024 MCLK)
  Firsts,       \* when its first access may arrive (sh4_phase)
  Streams,      \* the SH4's access patterns (sh4_setup)
  Begin,        \* bound: the step a run starts in
  MaxTime,      \* bound: the steps it covers
  MaxWrites,    \* bound: the register writes of a run that move slots
  Patience,     \* what ArmInTime allows the ARM to wait
  MaxIdle       \* bound: the ARM's cycles off the grid between two accesses

ASSUME FixedAssumption == FixedSteps \in Seq(Step)
ASSUME ProgramAssumption == Programs \subseteq SUBSET Step
ASSUME VoiceAssumption ==
  Voices \subseteq [pcm : SUBSET Channel, adpcm : SUBSET Channel]
ASSUME StreamAssumption ==
  /\ Streams \subseteq [period : Nat, slots : Nat, spacing : Nat, latency : Nat]
  /\ Firsts \subseteq Nat
ASSUME KeptAssumption == Ahead <= KeepBack
ASSUME BoundAssumption ==
  /\ Guard \in Nat \ {0} /\ Ahead \in Nat /\ KeepBack \in Nat
  /\ Begin \in Nat /\ MaxTime \in Nat /\ MaxWrites \in Nat /\ MaxIdle \in Nat

VARIABLES
  mpro,     \* the steps whose MPRO has MRD or MWT set
  voice,    \* the channels with KYONB set
  slots,    \* slots_, with the other user placed
  dirty,    \* slots_dirty_
  sh4,      \* the SH4: its stream, next arrival, slots taken
  now,      \* end of the ARM's last access
  last,     \* the slot of the ARM's last wave RAM access, -1 before the first
  writes,   \* register writes so far
  ever      \* added: every slot the SH4 has been given

vars == <<mpro, voice, slots, dirty, sh4, now, last, writes, ever>>

-----------------------------------------------------------------------------
(* The schedule of a sample: slot_used *)

Taken(dsp, step) == step % Steps \in dsp

(* Where user i may go: its nominal step when the DSP leaves it free, else   *)
(* one step either side.                                                     *)
Options(dsp, i) ==
  LET n == FixedSteps[i]
  IN  {c \in IF Taken(dsp, n) THEN {n - 1, n + 1} ELSE {n} : ~Taken(dsp, c)}

AllowedAnywhere(placed, c) == TRUE   \* mutant
Allowed(placed, c) == placed = <<>> \/ c - placed[Len(placed)] >= 2

(* The search for the last m users, after the ones placed so far: the        *)
(* earliest option that leaves the others a place.                           *)
Places(dsp) ==
  LET place[m \in 0 .. Len(FixedSteps)] ==
        [placed \in Seq(Int) |->
           IF m = 0 THEN placed
           ELSE LET i == Len(FixedSteps) + 1 - m
                    good == {c \in Options(dsp, i) :
                               /\ Allowed(placed, c)
                               /\ place[m - 1][Append(placed, c)] # <<>>}
                IN  IF good = {} THEN <<>>
                    ELSE place[m - 1][Append(placed, Min(good))]]
  IN  place

Place(dsp) == Places(dsp)[Len(FixedSteps)][<<>>]

Placement(dsp) ==
  LET found == Place(dsp) IN IF found = <<>> THEN FixedSteps ELSE found

Schedule(dsp) == dsp \cup {Placement(dsp)[i] % Steps : i \in DOMAIN FixedSteps}

(* slots_ is built again when a step is asked for after MPRO was written     *)
Current == IF dirty THEN Schedule(mpro) ELSE slots

(* PCM channels fetch in every sample; ADPCM ones, here played at OCT 0 from *)
(* sample 0, when the position enters another word.                          *)
Fetching(g) ==
  LET ch == ChannelAt(StepAt(g))
  IN  /\ HasChannel(StepAt(g))
      /\ \/ ch \in voice.pcm
         \/ /\ ch \in voice.adpcm
            /\ AdpcmFetch(SgcSample(ch, SampleAt(g)), 0, 0, 0)

Used(cur, g) == Fetching(g) \/ StepAt(g) \in cur

-----------------------------------------------------------------------------
(* The SH4 *)

FreeFor(cur, booked, g) == ~Used(cur, g) /\ g \notin booked

(* The first free slot from g on; after Guard busy ones the next, whoever    *)
(* holds it.                                                                 *)
FirstFreeUnbooked(cur, booked, g) ==   \* mutant
  LET free == {i \in 0 .. Guard - 1 : ~Used(cur, g + i)}
  IN  g + (IF free = {} THEN Guard ELSE Min(free))
FirstFree(cur, booked, g) ==
  LET free == {i \in 0 .. Guard - 1 : FreeFor(cur, booked, g + i)}
  IN  g + (IF free = {} THEN Guard ELSE Min(free))

Sh4 == [stream : Streams, next : Nat, booked : SUBSET Nat, given : Seq(Nat)]

Taking == [sh4 : Sh4, from : Nat, last : Nat]

TakeSlot(cur, a) ==
  LET f == FirstFree(cur, a.sh4.booked, a.from)
  IN  [sh4 |-> [a.sh4 EXCEPT !.booked = @ \cup {f}, !.given = Append(@, f)],
       from |-> f + a.sh4.stream.spacing, last |-> f]

(* sh4_access: n slots are left, the next from a.from on *)
Access(cur) ==
  LET take[n \in Nat] ==
        [a \in Taking |-> IF n = 0 THEN a ELSE take[n - 1][TakeSlot(cur, a)]]
  IN  take

(* The next arrival: a read waits for its data, a write does not *)
NextIssue(s, taken) ==
  IF s.stream.latency > 0
    THEN Max({taken + 2 + s.stream.latency, s.next + s.stream.period})
    ELSE s.next + s.stream.period

Arrival(cur, s) ==
  LET taken == Access(cur)[s.stream.slots][[sh4 |-> s, from |-> s.next, last |-> 0]]
  IN  [taken.sh4 EXCEPT !.next = NextIssue(s, taken.last)]

(* sh4_advance: every arrival up to t (each a step later than the one before *)
(* at least, so that t + 1 of them are enough); then what lies far back is   *)
(* dropped.                                                                  *)
Arriving(cur, t) ==
  LET arrive[n \in Nat] ==
        [s \in Sh4 |-> IF n = 0 \/ s.next > t THEN s
                       ELSE arrive[n - 1][Arrival(cur, s)]]
  IN  arrive

Arrivals(cur, s, t) ==
  IF s.stream.period = 0 THEN s ELSE Arriving(cur, t)[t + 1][s]

DroppedAll(booked, t) == {b \in booked : b >= t}   \* mutant
Dropped(booked, t) == {b \in booked : b + KeepBack >= t}

Advanced(cur, s, t) ==
  LET a == Arrivals(cur, s, t) IN [a EXCEPT !.booked = Dropped(@, t)]

-----------------------------------------------------------------------------
(* The ARM *)

NextSlotEven(start) == start + 2   \* mutant
NextSlot(start) == start + 1

Try == [start : Nat, sh4 : Sh4]

Tried(cur, s, start) == [start |-> start, sh4 |-> Advanced(cur, s, start + Ahead)]

(* The search for the ARM's slot, the SH4 ahead of it all the way: n tries    *)
(* are left.                                                                 *)
Trying(cur) ==
  LET try[n \in Nat] ==
        [a \in Try |->
           IF n = 0 \/ FreeFor(cur, a.sh4.booked, a.start) THEN a
           ELSE try[n - 1][Tried(cur, a.sh4, NextSlot(a.start))]]
  IN  try

Search(cur, s, start) == Trying(cur)[Guard][Tried(cur, s, start)]

Idle == 0 .. MaxIdle

(* A wave RAM access: N or S cycle of two steps, or a SWP's locked write of  *)
(* one.                                                                      *)
ArmRam(idle, len) ==
  LET s == [sh4 EXCEPT !.given = <<>>]
      cur == Current
      found == Search(cur, s, now + idle)
  IN  /\ now' = found.start + len
      /\ last' = found.start
      /\ sh4' = found.sh4
      /\ slots' = cur
      /\ dirty' = FALSE
      /\ ever' = ever \cup Range(found.sh4.given)
      /\ UNCHANGED <<mpro, voice, writes>>

(* A register access is not held up by the slots *)
ArmRegister ==
  /\ writes < MaxWrites
  /\ writes' = writes + 1
  /\ now' = now + 2
  /\ UNCHANGED <<last, sh4, slots, ever>>

(* MPRO: one step's word, and the schedule is to be built again *)
WriteMproQuiet(step) ==   \* mutant
  /\ ArmRegister
  /\ mpro' = IF step \in mpro THEN mpro \ {step} ELSE mpro \cup {step}
  /\ mpro' \in Programs
  /\ UNCHANGED <<voice, dirty>>
WriteMpro(step) ==
  /\ ArmRegister
  /\ mpro' = IF step \in mpro THEN mpro \ {step} ELSE mpro \cup {step}
  /\ mpro' \in Programs
  /\ dirty' = TRUE
  /\ UNCHANGED voice

WriteVoice(v) ==
  /\ ArmRegister
  /\ voice' = v
  /\ UNCHANGED <<mpro, dirty>>

-----------------------------------------------------------------------------

Init ==
  /\ mpro \in Programs /\ voice \in Voices
  /\ slots = {} /\ dirty = TRUE
  /\ \E stream \in Streams, first \in Firsts :
       sh4 = [stream |-> stream, next |-> Begin + first,
                booked |-> {}, given |-> <<>>]
  /\ now = Begin /\ last = -1 /\ writes = 0 /\ ever = {}

Accesses ==
  /\ now < Begin + MaxTime
  /\ \/ \E idle \in Idle, len \in {1, 2} : ArmRam(idle, len)
     \/ \E step \in Step : WriteMpro(step)
     \/ \E v \in Voices \ {voice} : WriteVoice(v)

(* The end of the run *)
Over == now >= Begin + MaxTime /\ UNCHANGED vars

Next == Accesses \/ Over

Spec == Init /\ [][Next]_vars

-----------------------------------------------------------------------------
(* Properties *)

(* The owners a slot has by the registers, whatever slots_ says *)
Owned(g) == Used(Schedule(mpro), g)

(* Types, and the schedule in use is the one the registers ask for: the      *)
(* other user gives way to the DSP by one step, its two accesses stay two    *)
(* apart, and of all such placements the search finds the earliest; only     *)
(* when there is none does it share a slot (slot_used, slots_dirty_).        *)
Placements(dsp) ==
  {p \in [DOMAIN FixedSteps ->
          UNION {{f - 1, f, f + 1} : f \in Range(FixedSteps)}] :
     /\ \A i \in DOMAIN p :
          /\ ~Taken(dsp, p[i])
          /\ IF Taken(dsp, FixedSteps[i]) THEN p[i] - FixedSteps[i] \in {-1, 1}
                                          ELSE p[i] = FixedSteps[i]
     /\ \A i \in DOMAIN p \ {1} : p[i] - p[i - 1] >= 2}
Earlier(p, q) ==
  \E i \in DOMAIN p : p[i] < q[i] /\ \A j \in 1 .. i - 1 : p[j] = q[j]
SlotsOK ==
  /\ mpro \in Programs /\ voice \in Voices /\ slots \subseteq Step
  /\ dirty \in BOOLEAN /\ writes \in 0 .. MaxWrites
  /\ sh4.stream \in Streams /\ now \in Nat /\ last \in Nat \cup {-1}
  /\ ~dirty =>
       \/ Placements(mpro) = {} /\ slots = mpro \cup Range(FixedSteps)
       \/ \E p \in Placements(mpro) :
            /\ slots = mpro \cup {p[i] % Steps : i \in DOMAIN p}
            /\ \A q \in Placements(mpro) \ {p} : Earlier(p, q)

(* The placements fitted to the console's measurements (dc_arm_map.h, lines  *)
(* 110 to 112): the DSP at 109, at 111, and in every odd step.               *)
Moved(dsp) == slots \ dsp
MeasuredFits ==
  ~dirty =>
    /\ mpro = {109} => Moved(mpro) = {108, 111}
    /\ mpro = {111} => Moved(mpro) = {109, 112}
    /\ mpro = {s \in Step : s % 2 = 1} => Moved(mpro) = {108, 110}

(* An ARM access starts only in a slot no one else holds: neither the DSP,   *)
(* the sound generator and the other user, by the registers as they are now, *)
(* nor the SH4, whatever it was given and when (dc_arm_map.h, lines 112 to   *)
(* 113 and 132 to 133).                                                      *)
ArmSlotFree ==
  [][last' # last => ~Owned(last') /\ last' \notin ever']_vars

(* What the SH4 is given lies after every slot the ARM has had, although it   *)
(* is booked ahead of the ARM; it is free of every other user when it is     *)
(* given, and no slot is given twice.                                        *)
GivenFree ==
  [][/\ \A b \in ever' \ ever : b > last
     /\ ever' # ever => LET given == sh4'.given
                        IN  \A i \in DOMAIN given :
                              /\ ~Owned(given[i])
                              /\ given[i] \notin ever
                              /\ \A j \in DOMAIN given :
                                   i # j => given[i] # given[j]]_vars

(* Under the streams that were measured and a program with an access in      *)
(* every second step the ARM, last in every queue, waits for its slot no     *)
(* longer than Patience: arrivals booked while it waits delay it, but do not *)
(* keep it waiting (cycle, lines 235 to 240).                                *)
ArmInTime ==
  [][last' # last => last' <= now + MaxIdle + Patience]_vars

=============================================================================
