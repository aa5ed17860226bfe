------------------------------ MODULE FiqKernel ------------------------------
(***************************************************************************)
(* The core, the interrupt controller and the FIQ programs of the console    *)
(* tests composed (model/hw/arm/k_fiqcost_ldrl.s, k_blkphase.s): the sample  *)
(* interval interrupts a sled, the handler acknowledges and restarts it, and *)
(* after Iterations samples it ends in the done stub.  Of the core only its  *)
(* contract is kept (Arm7DI!FiqTaken): at a boundary with nFIQ asserted and  *)
(* F clear it enters the handler, which runs with F set.  The kernel "free"  *)
(* is no program in particular: any accesses of both processors.             *)
(***************************************************************************)
EXTENDS DcIrq, Sequences

CONSTANT Iterations

ASSUME IterationAssumption == Iterations \in Nat \ {0}
ASSUME LevelAssumption == "SCILV0" \in Planes   \* the programs set it

VARIABLES
  kernel,   \* which program was loaded
  phase,    \* "held" in reset, "prologue", "sled", "handler" or "done"; or "free"
  at,       \* the next access of the prologue or of the handler
  left      \* samples left (r0)

kvars == <<kernel, phase, at, left>>

(* "ldrl" is k_fiqcost_ldrl.s with copies of the timed load of L, "fiqcost"  *)
(* the same program with P1 = 4, none of them.                               *)
Kernels == {"fiqcost", "ldrl", "blkphase"}

-----------------------------------------------------------------------------
(* The programs: the accesses to the controller, in their order *)

Load(r) == [reg |-> r, write |-> FALSE, value |-> {}]
Save(r, v) == [reg |-> r, write |-> TRUE, value |-> v]

SetLevels == Save("SCILV0", {7})
Reset == Save("SCIRE", Sources)
Accept == Save("M", {0})
Enable == Save("SCIEB", {Sample})

Prologue ==
  IF kernel = "blkphase"
    THEN <<Load("L"), SetLevels, Reset, Accept, Enable>>
    ELSE <<SetLevels, Reset, Load("L"), Accept, Enable>>

Clear == Save("SCIRE", {Sample})

HandlerAcceptFirst ==   \* mutant
  <<Clear, Accept, Load("L")>>
Handler ==
  IF kernel = "fiqcost" THEN <<Load("L"), Clear, Accept>>
  ELSE IF kernel = "ldrl"
    THEN <<Load("L"), Clear, Accept, Load("L"), Load("L")>>
  ELSE <<Clear, Load("L"), Accept, Accept>>

Does(access) ==
  IF access.write THEN ArmWrite(access.reg, access.value, 0 .. 15)
                  ELSE ArmRead(access.reg)

-----------------------------------------------------------------------------
(* Steps *)

KInit ==
  /\ Init
  /\ \/ kernel \in Kernels /\ phase = "held"
     \/ kernel = "free" /\ phase = "free"
  /\ at = 1 /\ left = Iterations

(* The job's register writes, before the ARM is released *)
Prepare ==
  /\ phase = "held"
  /\ \E r \in Stored \cup {"SCIRE"} : \E v \in Operand(r) : Sh4Write(r, v)
  /\ UNCHANGED kvars

Release ==
  /\ phase = "held"
  /\ phase' = "prologue"
  /\ UNCHANGED <<vars, kernel, at, left>>

(* The prologue ends by clearing F *)
PrologueStep ==
  /\ phase = "prologue"
  /\ Does(Prologue[at])
  /\ IF at = Len(Prologue) THEN phase' = "sled" /\ at' = 1
                           ELSE at' = at + 1 /\ UNCHANGED phase
  /\ UNCHANGED <<kernel, left>>

(* A boundary of the sled: the clock runs, then the core looks at nFIQ.      *)
Sled ==
  /\ phase = "sled"
  /\ Tick
  /\ phase' = IF latch'.line THEN "handler" ELSE "sled"
  /\ UNCHANGED <<kernel, at, left>>

(* blkphase counts the sample before it acknowledges it: the last one goes   *)
(* to the stub as it is.                                                     *)
LastSample == kernel = "blkphase" /\ at = 1 /\ left = 1

LeaveAtOnce ==
  /\ phase = "handler"
  /\ LastSample
  /\ Tick
  /\ phase' = "done" /\ left' = 0
  /\ UNCHANGED <<kernel, at>>

(* The handler's accesses, and the sample counted *)
HandlerStep ==
  /\ phase = "handler"
  /\ ~LastSample
  /\ Does(Handler[at])
  /\ IF at < Len(Handler)
       THEN at' = at + 1 /\ UNCHANGED <<phase, left>>
       ELSE /\ at' = 1
            /\ left' = left - 1
            /\ phase' = IF left = 1 THEN "done" ELSE "sled"
  /\ UNCHANGED kernel

(* In the done stub only the clock goes on *)
Spin ==
  /\ phase = "done"
  /\ Tick
  /\ UNCHANGED kvars

(* Edges come at any time while the ARM runs, but for the handler that reads *)
(* L again: it relies on a sample being longer than the handler, about 200   *)
(* of 512 MCLK, and would hang the job if it were not.                       *)
Edge ==
  /\ phase \notin {"held", "free"}
  /\ kernel = "ldrl" => phase # "handler"
  /\ SampleEdge
  /\ UNCHANGED kvars

(* Any program on either side *)
Free ==
  /\ phase = "free"
  /\ Next
  /\ UNCHANGED kvars

Step == Release \/ PrologueStep \/ Sled \/ LeaveAtOnce \/ HandlerStep \/ Spin

KNext == Prepare \/ Edge \/ Step \/ Free

(* The ARM runs, and time goes on *)
KFairness == WF_<<vars, kvars>>(Step) /\ WF_<<vars, kvars>>(Edge)

KSpec == KInit /\ [][KNext]_<<vars, kvars>> /\ KFairness

-----------------------------------------------------------------------------
(* Properties *)

(* A request whose nFIQ was released is always in the hands of a handler (or *)
(* of the prologue) that is still to write M: none is acknowledged by a read *)
(* that was meant for the request before, which would leave the controller   *)
(* in service for ever (rreg, wreg).                                         *)
ServiceOwned ==
  phase # "free" /\ latch.request /\ ~latch.line
    => \/ phase = "prologue"
       \/ /\ phase = "handler"
          /\ \E i \in at .. Len(Handler) : Handler[i].reg = "M"

(* In the sled a pending sample is on nFIQ: update_interrupts was called     *)
(* after the last M, whatever came in while the handler ran.                 *)
SledArmed ==
  phase = "sled" /\ Sample \in Pending(store) => latch.request /\ latch.line

(* The program ends after its samples, from whatever registers it was        *)
(* started with.                                                             *)
JobEnds == (phase = "prologue") ~> (phase = "done")

=============================================================================
