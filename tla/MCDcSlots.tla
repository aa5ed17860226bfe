----------------------------- MODULE MCDcSlots -----------------------------
(***************************************************************************)
(* DcSlots with the constants of the code, in the steps around the other     *)
(* user's.                                                                   *)
(***************************************************************************)
EXTENDS DcSlots

MCFixed == <<109, 111>>

(* Single steps, neighbours, and every odd step *)
Odd == {s \in Step : s % 2 = 1}
MCPrograms ==
  {{}, {109}, {111}, {109, 110}, {109, 111}, {108, 109, 111}, {111, 112},
   {109, 110, 111, 112}, Odd, Odd \ {109}}

(* Channels 62 and 60 have steps 110 and 106 *)
MCVoices == {[pcm |-> {}, adpcm |-> {}], [pcm |-> {62}, adpcm |-> {60}]}

(* sh4_setup: writes at the rate of 42.5 per sample, a read loop, and none   *)
MCStreams ==
  {[period |-> 0, slots |-> 1, spacing |-> 1, latency |-> 0],
   [period |-> 3, slots |-> 1, spacing |-> 1, latency |-> 0],
   [period |-> 1, slots |-> 2, spacing |-> 2, latency |-> 6]}

=============================================================================
