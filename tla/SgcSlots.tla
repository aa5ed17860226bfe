------------------------------ MODULE SgcSlots ------------------------------
(***************************************************************************)
(* The wave RAM slots of the sound generator, as the bus model sees them     *)
(* (slot_used and adpcm_fetch of model/src/dc_arm_map.cpp): which channel    *)
(* may fetch in a DSP step, for which sample, and in which samples an ADPCM  *)
(* channel fetches at all.  Time is counted in DSP steps of 4 MCLK.          *)
(***************************************************************************)
EXTENDS Integers, FiniteSets

CONSTANTS
  Steps,       \* DSP steps in a sample (128)
  DspPhase,    \* step 0 of the DSP's sample, in steps (dsp_phase / 4 = 10)
  SgcStep0,    \* step of channel 0 (sgc_step0 = -14, modulo Steps)
  Early        \* channels that belong to the next sample already (7)

ASSUME StepsAssumption == Steps \in Nat \ {0} /\ Steps % 2 = 0
ASSUME PhaseAssumption == DspPhase \in Int /\ SgcStep0 \in Int /\ Early \in Nat

Step == 0 .. Steps - 1
Channel == 0 .. (Steps \div 2) - 1

(* The step, and the DSP sample, of a step boundary g *)
StepAt(g) == (g - DspPhase) % Steps
SampleAt(g) == (g - DspPhase) \div Steps

(* A channel has every second step *)
SgcIndex(step) == (step - SgcStep0) % Steps
HasChannel(step) == SgcIndex(step) % 2 = 0
ChannelAt(step) == SgcIndex(step) \div 2

SgcSampleSame(ch, sample) == sample   \* mutant
SgcSample(ch, sample) == sample + (IF ch < Early THEN 1 ELSE 0)

-----------------------------------------------------------------------------
(* ADPCM: the position in nibbles, the 16 bit word it is in *)

SignedOct(oct) == IF oct >= 8 THEN oct - 16 ELSE oct
Shifted(m, n) == IF n >= 0 THEN m * 2^n ELSE m \div 2^(-n)

Increment(oct, fns) == Shifted(1024 + fns, SignedOct(oct) + 4)
Position(n, oct, fns) == IF n > 0 THEN (n * Increment(oct, fns)) \div 16384 ELSE 0
WordAt(sa, p) == (sa + p \div 2) \div 2

AdpcmFetchNow(n, oct, fns, sa) ==   \* mutant
  LET p1 == Position(n, oct, fns)
      p0 == Position(n - 1, oct, fns)
  IN  WordAt(sa, p1) # WordAt(sa, p0)
AdpcmFetch(n, oct, fns, sa) ==
  LET p1 == Position(n, oct, fns)
      p0 == Position(n - 1, oct, fns)
  IN  /\ oct \notin 3 .. 7
      /\ \/ WordAt(sa, p1) # WordAt(sa, p0)
         \/ WordAt(sa, p1 + 1) # WordAt(sa, p1)

=============================================================================
