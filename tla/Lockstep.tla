------------------------------ MODULE Lockstep ------------------------------
(***************************************************************************)
(* The RTL core implements the core model cycle by cycle (tb/core_tb.cpp     *)
(* runs the two side by side).  Three history variables say what the model   *)
(* is told and has seen: the inputs it was given before a boundary, the last *)
(* bus cycle and where the last executed instruction was.  The rest of the   *)
(* model's state is a function of the RTL's registers.                       *)
(***************************************************************************)
EXTENDS Wren7Core

VARIABLES
  told,   \* the inputs as the model was last told
  bus,    \* the last bus cycle that ended
  at      \* where the last executed instruction was fetched

hist == <<told, bus, at>>

LockInit ==
  /\ RtlInit
  /\ told = [i \in {"hold", "fiq", "irq"} |-> FALSE]
  /\ bus = [addr |-> 0, type |-> "N", flags |-> {}]
  /\ at = 0

(* The model is told of an input in the first clock of a boundary cycle.     *)
FirstClock == st = "BOUND" /\ fc

Tell(i) ==
  /\ FirstClock
  /\ told[i] # pins[i]
  /\ told' = [told EXCEPT ![i] = pins[i]]
  /\ UNCHANGED <<rvars, bus, at>>

Running == {"DP2", "MUL", "SWP1", "SWP2", "SWP3", "SDT2", "SDT3", "BDTX",
            "BDTF", "UND2"}

(* An instruction has its first cycle, or ends *)
Executing ==
  \/ st' \in Running
  \/ st' = "BOUND" /\ st # "REF1" /\ ~(st = "BOUND" /\ d_hold)

Edge ==
  /\ FirstClock => told = pins
  /\ \/ /\ Done
        /\ bus' = [addr |-> bus_addr, type |-> ctype, flags |-> bus_flags]
        /\ at' = IF Executing THEN ex.addr ELSE at
     \/ Wait /\ UNCHANGED <<bus, at>>
  /\ UNCHANGED told

LockNext == Edge \/ \E i \in DOMAIN told : Tell(i)

LockSpec == LockInit /\ [][LockNext]_<<rvars, hist>>

-----------------------------------------------------------------------------
(* The model's state *)

SeqOf ==
  CASE st = "BOUND" -> "IDLE"
    [] st = "DP2"   -> "DP"
    [] st = "MUL"   -> "MUL"
    [] st \in {"SWP1", "SWP2", "SWP3"} -> "SWP"
    [] st \in {"SDT2", "SDT3"} -> "SDT"
    [] st \in {"BDTX", "BDTF"} -> "BDT"
    [] st = "UND2"  -> "UNDEF"
    [] st \in {"REF0", "REF1"} -> "REFILL"

KOf ==
  CASE st \in {"BOUND", "REF0"} -> 0
    [] st = "MUL" -> mk + 1
    [] st \in {"SWP2", "SDT3"} -> 2
    [] st = "SWP3" -> 3
    [] OTHER -> 1

(* The base of a single transfer, from the address computed *)
Undone == Plus(x.calc, IF "U" \in op.bits THEN -op.n ELSE op.n)

(* The latches that are live in each state *)
XOf ==
  [op |-> IF st \in Running THEN op ELSE NoInsn,
   at |-> at,
   addr |-> IF st \in {"SWP1", "SWP2", "SWP3", "SDT2", "SDT3", "BDTX", "BDTF"}
            THEN x.addr ELSE IF st = "UND2" THEN pc ELSE 0,
   base |-> CASE st \in {"BDTX", "BDTF"} -> x.base
              [] st \in {"SDT2", "SDT3"} -> Undone
              [] OTHER -> 0,
   wbv |-> IF st \in {"SDT2", "SDT3", "BDTX", "BDTF"} THEN x.calc ELSE 0,
   ab |-> st \in {"SWP2", "SWP3", "SDT3", "BDTX", "BDTF"} /\ x.ab,
   rest |-> IF st = "BDTX" THEN x.list ELSE {},
   target |-> CASE st = "REF0" -> x.addr [] st = "REF1" -> Dec(x.addr)
                [] OTHER -> 0,
   fa |-> IF st = "REF1" THEN [addr |-> x.data, abort |-> x.fab] ELSE ZeroSlot]

(* The register file with the register that waits for the write port *)
GprOf == IF x.pw_v THEN PendingWritten ELSE rf

M == INSTANCE Arm7DI WITH
       Pins <- {"reset", "fiq", "irq"},
       seq <- SeqOf, k <- KOf, x <- XOf, gpr <- GprOf,
       next_type <- ctype, dabort_pending <- dab,
       in_reset <- told.hold,
       reset_exit <- rst_exit \/ (in_rst /\ ~told.hold),
       fiq_in <- told.fiq, irq_in <- told.irq

(* Every bus cycle of the RTL has the model's address, type and flags, and   *)
(* its registers are the model's, however the bus stretches the cycles and   *)
(* the inputs move in them.                                                  *)
CycleExact == M!Spec

=============================================================================
