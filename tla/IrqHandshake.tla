---------------------------- MODULE IrqHandshake ----------------------------
(***************************************************************************)
(* What the ARM interrupt controller of the AICA promises (the head of       *)
(* model/src/dc_arm_map.h): a handshake in the style of the 68000.  One      *)
(* request at a time is in service; it asserts nFIQ until the ARM reads L,   *)
(* and the write of M ends the service and lets the next request in.         *)
(***************************************************************************)
CONSTANTS
  Levels,   \* the levels a request may have
  NoLevel   \* level 0, which never interrupts

VARIABLE latch   \* what the controller holds, and the last access it saw

Latch == [request : BOOLEAN, line : BOOLEAN, level : Levels,
          port : {"L", "M", "other"}]

Init == latch = [request |-> FALSE, line |-> FALSE, level |-> NoLevel,
                 port |-> "other"]

(* A request may come in when none is in service *)
Raise(s) ==
  {s} \cup {[s EXCEPT !.request = TRUE, !.line = TRUE, !.level = l] :
              l \in IF s.request THEN {} ELSE Levels \ {NoLevel}}

Acknowledge(s) == [s EXCEPT !.line = FALSE, !.port = "L"]
End(s) == [s EXCEPT !.request = FALSE, !.port = "M"]
Other(s) == [s EXCEPT !.port = "other"]

(* A request that comes in with the read of L is acknowledged by it; one     *)
(* that comes in with the write of M ends with it.                           *)
ReadL == \E s \in Raise(latch) : latch' = Acknowledge(s)
WriteM == \E s \in Raise(latch) : latch' \in Raise(End(s))
Access == \E s \in Raise(Other(latch)) : latch' = s

Next == ReadL \/ WriteM \/ Access

Spec == Init /\ [][Next]_latch

=============================================================================
