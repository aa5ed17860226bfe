-------------------------------- MODULE DcIrq --------------------------------
(***************************************************************************)
(* The interrupt half of the sound system's bus (DcArmBus, model/src/        *)
(* dc_arm_map.cpp): the registers it works on, the request latch, the sample *)
(* clock, and the accesses of the ARM (cycle, tick) and of the SH4           *)
(* (reg_read, reg_write).                                                    *)
(*                                                                           *)
(* A register is the set of its bits that are 1.  Of the bits the latch      *)
(* never looks at none is kept (Kept).  Time is left out but for the sample  *)
(* edges that are due and that no access has met yet.                        *)
(***************************************************************************)
EXTENDS Integers, FiniteSets

CONSTANTS
  Planes,    \* the level registers SCILV0 .. SCILV2
  MaxDue,    \* how many sample edges a long cycle may cover
  Hooked     \* is an AicaRegs attached (regs)?

ASSUME PlanesAssumption == Planes \subseteq {"SCILV0", "SCILV1", "SCILV2"}
ASSUME DueAssumption == MaxDue \in Nat
ASSUME HookAssumption == Hooked \in BOOLEAN

VARIABLES
  store,   \* the register block (store_)
  latch,   \* e68k_out_, fiq_, e68k_L_, and the last access
  due,     \* sample edges that are due (t >= next_sample_ + edge_latency)
  hook     \* the registers of the hook, when there is one

vars == <<store, latch, due, hook>>

Scpu == 5       \* the SH4's request to the ARM
Sample == 10    \* the one-sample interval
Sources == {Scpu, Sample}

Stored == {"SCIEB", "SCIPD", "MCIPD"} \cup Planes

(* Bits 7 to 10 share the level bit 7 *)
LevelBit(b) == IF b > 7 THEN 7 ELSE b

Kept(r) == IF r \in Planes THEN {LevelBit(b) : b \in Sources}
           ELSE Sources

Levels == SUBSET Planes
Bits == Sources \cup {LevelBit(b) : b \in Sources}
Store == [Stored -> SUBSET Bits]

-----------------------------------------------------------------------------
(* The request latch *)

Pending(st) == st["SCIEB"] \cap st["SCIPD"]

Lowest(bits) == CHOOSE b \in bits : \A c \in bits : b <= c

(* The lowest pending bit picks the level; a bit above it has no say, even   *)
(* when the level is 0.                                                      *)
Level(st) ==
  {i \in Planes : Pending(st) # {}
                    /\ LevelBit(Lowest(Pending(st))) \in st[i]}

(* update_interrupts: the latch s after a look at the store st *)
UpdateZero(st, s) ==   \* mutant
  IF Pending(st) # {} /\ ~s.request
    THEN [s EXCEPT !.request = TRUE, !.line = TRUE, !.level = Level(st)] ELSE s
Update(st, s) ==
  IF Level(st) # {} /\ ~s.request
    THEN [s EXCEPT !.request = TRUE, !.line = TRUE, !.level = Level(st)]
    ELSE s

-----------------------------------------------------------------------------
(* The sample clock, run by every cycle and every boundary of the ARM before *)
(* anything else: however many edges are due, one pending bit.               *)

Clocked(st) ==
  IF due = 0 THEN st
  ELSE [st EXCEPT !["SCIPD"] = @ \cup {Sample}, !["MCIPD"] = @ \cup {Sample}]

ClockedLatchSilent(s) == s   \* mutant
ClockedLatch(s) == IF due = 0 THEN s ELSE Update(Clocked(store), s)

-----------------------------------------------------------------------------
(* Register accesses *)

AckRead(s) == [s EXCEPT !.line = FALSE]

(* rreg *)
AfterRead(r, s) == IF r = "L" THEN AckRead(s) ELSE s

Merged(old, v, mask) == (old \ mask) \cup (v \cap mask)

(* wreg, the register block without a hook *)
Written(st, r, v, mask) ==
  IF r = "SCIPD" THEN [st EXCEPT !["SCIPD"] = @ \cup (v \cap mask \cap {Scpu})]
  ELSE IF r = "SCIRE" THEN [st EXCEPT !["SCIPD"] = @ \ (v \cap mask)]
  ELSE IF r \in Stored THEN [st EXCEPT ![r] = Merged(@, v \cap Kept(r), mask)]
  ELSE st

(* wreg: M ends the service when its bit 0 is written as 1; a write to any   *)
(* other register but L looks at the pending bits again.                     *)
Ends(r, v, mask) == r = "M" /\ 0 \in v \cap mask
Ended(s) == [s EXCEPT !.request = FALSE]

AfterWriteKeep(st, r, v, mask, s) ==   \* mutant
  IF Ends(r, v, mask) THEN Ended(s)
  ELSE IF r \in {"L", "M"} THEN s ELSE Update(st, s)
AfterWrite(st, r, v, mask, s) ==
  IF Ends(r, v, mask) THEN Update(st, Ended(s))
  ELSE IF r \in {"L", "M"} THEN s ELSE Update(st, s)

Through(port, s) == [s EXCEPT !.port = port]
ReadPort(r) == IF r = "L" THEN "L" ELSE "other"
WritePort(r, v, mask) == IF Ends(r, v, mask) THEN "M" ELSE "other"

(* A hook takes every register but L and M; what it does with a write is its *)
(* own business, here what the plain store does.                             *)
HookWritten(r, v, mask) ==
  IF Hooked /\ r \notin {"L", "M"} THEN Written(hook, r, v, mask) ELSE hook

StoreWritten(st, r, v, mask) ==
  IF Hooked THEN st ELSE Written(st, r, v, mask)

-----------------------------------------------------------------------------
(* Steps *)

Registers == Stored \cup {"SCIRE", "L", "M"}
Operand(r) ==
  SUBSET (IF r = "M" THEN {0} ELSE IF r \in Stored THEN Kept(r) ELSE Sources)

(* The byte lanes of a 16 bit register: a byte write reaches one of them,    *)
(* and none in the upper half of the slot.                                   *)
Lanes == {0 .. 7, 8 .. 15, 0 .. 15}

Init ==
  /\ store = [r \in Stored |-> {}]
  /\ hook = [r \in Stored |-> {}]
  /\ latch = [request |-> FALSE, line |-> FALSE, level |-> {},
              port |-> "other"]
  /\ due = 0

(* Time goes on: the next sample edge is due *)
SampleEdge ==
  /\ due < MaxDue
  /\ due' = due + 1
  /\ UNCHANGED <<store, latch, hook>>

(* tick, or a cycle that is not on a register: only the clock runs *)
TickCounts ==   \* mutant
  /\ store' = Clocked(store)
  /\ latch' = Through("other", ClockedLatch(latch))
  /\ due' = due - 1
  /\ UNCHANGED hook
Tick ==
  /\ store' = Clocked(store)
  /\ latch' = Through("other", ClockedLatch(latch))
  /\ due' = 0
  /\ UNCHANGED hook

ArmRead(r) ==
  /\ store' = Clocked(store)
  /\ latch' = Through(ReadPort(r), AfterRead(r, ClockedLatch(latch)))
  /\ due' = 0
  /\ UNCHANGED hook

ArmWrite(r, v, mask) ==
  /\ store' = StoreWritten(Clocked(store), r, v, mask)
  /\ latch' = Through(WritePort(r, v, mask),
                     AfterWrite(store', r, v, mask, ClockedLatch(latch)))
  /\ hook' = HookWritten(r, v, mask)
  /\ due' = 0

(* The SH4 does not run the clock *)
Sh4Read(r) ==
  /\ latch' = Through(ReadPort(r), AfterRead(r, latch))
  /\ UNCHANGED <<store, due, hook>>

Sh4Write(r, v) ==
  /\ store' = StoreWritten(store, r, v, 0 .. 15)
  /\ latch' = Through(WritePort(r, v, 0 .. 15),
                     AfterWrite(store', r, v, 0 .. 15, latch))
  /\ hook' = HookWritten(r, v, 0 .. 15)
  /\ UNCHANGED due

Next ==
  \/ SampleEdge
  \/ Tick
  \/ \E r \in Registers :
       \/ ArmRead(r)
       \/ Sh4Read(r)
       \/ \E v \in Operand(r) :
            Sh4Write(r, v) \/ \E mask \in Lanes : ArmWrite(r, v, mask)

Spec == Init /\ [][Next]_vars

-----------------------------------------------------------------------------
(* Properties.  Any program, on both sides, in any order.                    *)

(* Every register, and the latch, keeps to its range.                        *)
IrqTypeOK ==
  /\ store \in Store
  /\ hook \in Store
  /\ latch \in [request : BOOLEAN, line : BOOLEAN, level : Levels,
                port : {"L", "M", "other"}]
  /\ due \in 0 .. MaxDue

(* No request is left waiting: when the lowest enabled pending bit has its   *)
(* bit, 7 for those above, in a level register, the latch holds a request,   *)
(* whichever register write, sample edge or end of service came last         *)
(* (update_interrupts is called by each).                                    *)
NoneWaiting ==
  \A b \in Bits :
    /\ b \in store["SCIEB"] /\ b \in store["SCIPD"]
    /\ \A c \in Bits : c < b => c \notin store["SCIEB"] \/ c \notin store["SCIPD"]
    /\ \E i \in Planes : (IF b < 8 THEN b ELSE 7) \in store[i]
    => latch.request

(* The interrupt controller is the handshake of IrqHandshake: nFIQ rises     *)
(* only with a new request, falls only with a read of L, the level stays for *)
(* the whole service, and only M ends it.                                    *)
H == INSTANCE IrqHandshake WITH NoLevel <- {}
Handshake == H!Spec

=============================================================================
