------------------------------- MODULE SgcPlay -------------------------------
(***************************************************************************)
(* An ADPCM channel played from its start, sample by sample, and the order   *)
(* in which the sound generator comes to its channels.                       *)
(***************************************************************************)
EXTENDS SgcSlots

CONSTANTS
  Octs, Fnss, Starts,   \* register values tried
  Samples               \* how many samples are played

ASSUME RegisterAssumption ==
  Octs \subseteq 0 .. 15 /\ Fnss \subseteq 0 .. 1023 /\ Starts \subseteq Nat

VARIABLES
  g,        \* the step boundary
  chan,     \* the channel's registers
  held,     \* the last word fetched
  fetches   \* how many fetches so far

svars == <<g, chan, held, fetches>>

Chan == [oct : Octs, fns : Fnss, sa : Starts]

Play ==
  /\ g = DspPhase
  /\ chan \in Chan
  /\ held = WordAt(chan.sa, 0)
  /\ fetches = 0

Number == SampleAt(g)
Fetches == AdpcmFetch(Number, chan.oct, chan.fns, chan.sa)

(* A sample: a fetch brings the last word the sample needs *)
PlaySample ==
  /\ Number < Samples
  /\ g' = g + Steps
  /\ UNCHANGED chan
  /\ LET n == SampleAt(g')
         fetch == AdpcmFetch(n, chan.oct, chan.fns, chan.sa)
     IN  /\ held' = IF fetch
                      THEN WordAt(chan.sa, Position(n, chan.oct, chan.fns) + 1)
                      ELSE held
         /\ fetches' = fetches + (IF fetch THEN 1 ELSE 0)

(* Keyed on again *)
KeyOn ==
  /\ Number = Samples
  /\ g' = DspPhase
  /\ chan' \in Chan
  /\ held' = WordAt(chan'.sa, 0)
  /\ fetches' = 0

PlaySpec == Play /\ [][PlaySample \/ KeyOn]_svars

-----------------------------------------------------------------------------
(* Properties *)

(* With at most one fetch per sample the word of the look-ahead nibble is    *)
(* held in every sample, at every pitch and alignment of the start: no       *)
(* sample interpolates towards a word it has not fetched (dc_arm_map.h,      *)
(* lines 119 to 121).                                                        *)
Supplied ==
  chan.oct \notin 3 .. 7 =>
    held = WordAt(chan.sa, Position(Number, chan.oct, chan.fns) + 1)

(* Over whole words the shares of the samples with a fetch are those the     *)
(* header claims to be the console's, exactly: 5/16, 3/8, 1/2, 1/2 and 1     *)
(* for OCT -2 to +2.                                                         *)
Share == [oct \in {14, 15, 0, 1, 2} |->
            CASE oct = 14 -> 10 [] oct = 15 -> 12 [] oct = 2 -> 32 [] OTHER -> 16]
SharesExact ==
  Number % 32 = 0 /\ chan.fns = 0 /\ chan.oct \in DOMAIN Share
    => fetches * 32 = Share[chan.oct] * Number

(* The sound generator serves its channels in order: from one channel's slot *)
(* to the next the pair of sample and channel steps on by one, so no channel *)
(* misses a sample or fetches one twice at the end of the DSP's sample.      *)
Slot(b) == IF HasChannel(StepAt(b))
             THEN LET ch == ChannelAt(StepAt(b))
                  IN  SgcSample(ch, SampleAt(b)) * Cardinality(Channel) + ch
             ELSE -1
InOrder ==
  \A b \in g .. g + Steps : HasChannel(StepAt(b)) => Slot(b + 2) = Slot(b) + 1

=============================================================================
