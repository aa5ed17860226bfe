------------------------------ MODULE DataSheet ------------------------------
(***************************************************************************)
(* The data sheet's tables of bus cycles (chapter 9), as the rows           *)
(* timing_check compares the core model with (model/tools/timing_check.cpp):*)
(* a monitor beside Arm7DI that collects the cycles of the instruction or   *)
(* entry under way and compares them with its table when it ends.           *)
(***************************************************************************)
EXTENDS Arm7DIProperties, Sequences

VARIABLE trace   \* the instruction under way, and the cycles it has driven

Row(type, addr, flags) == [type |-> type, addr |-> addr, flags |-> flags]

(* Cycle 1, and the internal cycle that closes an instruction *)
Fetch(at) == Row("S", Plus(at, 2), {"OPC"})
Internal(at) == Row("I", Plus(at, 3), {})

Repeated(row, n) == [i \in 1 .. n |-> row]
Burst(first, n, flags) ==
  [i \in 1 .. n |-> Row(IF i = 1 THEN "N" ELSE "S", Plus(first, i - 1), flags)]

(* The lowest address of a block: with P the base itself is left out *)
Lowest(op, base) ==
  LET far == Plus(base, IF "U" \in op.bits THEN 0 ELSE 1 - Words(op))
  IN  CASE "P" \notin op.bits -> far
        [] {"P", "U"} \subseteq op.bits -> Inc(far)
        [] OTHER -> Dec(far)

Single(op, base) ==
  IF "P" \notin op.bits THEN base
  ELSE Plus(base, IF "U" \in op.bits THEN op.n ELSE -op.n)

Stores(op) == op.cls \in {"SDT", "BDT"} /\ "L" \notin op.bits

(* Entries and instructions that fail their condition stand in the tables    *)
(* like instructions.                                                        *)
Special(cls, vector) == [NoInsn EXCEPT !.cls = cls, !.n = vector]

(* Tables 15 to 21 and 28: the rows between cycle 1 and the refill.  Those   *)
(* of Tables 14, 22 and 29 and of 9.9 have none.                             *)
SwapRows(at, base) ==
  <<Row("N", base, {"LOCK"}), Row("N", base, {"LOCK", "WRITE"}), Internal(at)>>

TransferRows(op, base, flags) ==
  IF op.cls = "SDT" THEN <<Row("N", Single(op, base), flags)>>
  ELSE Burst(Lowest(op, base), Cardinality(List(op)), flags)

Inner(op, at, base) ==
  CASE op.cls = "DP" /\ "R" \in op.bits -> <<Internal(at)>>
    [] op.cls = "MUL"   -> Repeated(Internal(at), op.n)
    [] op.cls = "SWP"   -> SwapRows(at, base)
    [] op.cls = "UNDEF" -> <<[Fetch(at) EXCEPT !.type = "I"]>>
    [] Stores(op)       -> TransferRows(op, base, {"WRITE"})
    [] op.cls \in {"SDT", "BDT"} /\ ~Stores(op) ->
         Append(TransferRows(op, base, {}), Internal(at))
    [] OTHER -> <<>>

Rows(op, at, base) == <<Fetch(at)>> \o Inner(op, at, base)

(* Where it goes on when it goes on elsewhere *)
Refills(op) ==
  \/ op.cls \in {"BRANCH", "SWI", "UNDEF", "ENTRY"}
  \/ op.cls = "DP" /\ WritesPC(op)
  \/ op.cls = "PSR" /\ "M" \notin op.bits /\ op.rd = "pc"
  \/ op.cls = "SDT" /\ "L" \in op.bits /\ op.rd = "pc"
  \/ op.cls = "BDT" /\ "L" \in op.bits /\ "pc" \in List(op)

FixedTarget(op, at) ==
  CASE op.cls = "BRANCH" -> {Plus(Plus(at, 2), op.n)}
    [] op.cls = "SWI"    -> {2}
    [] op.cls = "UNDEF"  -> {1}
    [] op.cls = "ENTRY"  -> {op.n}
    [] OTHER -> Word

(* The cycles driven are the rows of the table, with the refill unless it    *)
(* was aborted, and the next cycle is announced as N after a store and as S  *)
(* otherwise.  The type of cycle 1 is what the instruction before announced. *)
Conforms(t, driven, aborted, next) ==
  LET rows == Rows(t.op, t.at, t.base)
      n == Len(rows)
      refilled == Refills(t.op) /\ ~aborted
  IN  /\ Len(driven) = n + (IF refilled THEN 2 ELSE 0)
      /\ driven[1].addr = rows[1].addr /\ driven[1].flags = rows[1].flags
      /\ \A i \in 2 .. n : driven[i] = rows[i]
      /\ refilled => \E target \in FixedTarget(t.op, t.at) :
                       /\ driven[n + 1] = Row("N", target, {"OPC"})
                       /\ driven[n + 2] = Row("S", Inc(target), {"OPC"})
      /\ next = IF Stores(t.op) THEN "N" ELSE "S"

-----------------------------------------------------------------------------

Idle == [op |-> NoInsn, at |-> 0, base |-> 0, rows |-> <<>>, ok |-> TRUE]

(* The cycle of this step, without nTRANS; only the last cycle of an         *)
(* instruction asks for a data abort.                                        *)
Traced(t) ==
  LET rows == Append(t.rows, Row(bus'.type, bus'.addr, bus'.flags \ {"USER"}))
      aborted == dabort_pending' /\ ~dabort_pending
  IN  trace' = IF seq' # "IDLE" THEN [t EXCEPT !.rows = rows]
               ELSE [Idle EXCEPT !.ok = Conforms(t, rows, aborted, next_type')]

Follow(op, at) ==
  Traced([Idle EXCEPT !.op = op, !.at = at, !.base = Val(op.rn)])

Executes(op) ==
  \/ DataProc(op) \/ DataProcShift(op) \/ Mrs(op) \/ Msr(op)
  \/ Multiply(op) \/ Swap(op) \/ Transfer(op) \/ BlockTransfer(op)
  \/ Branch(op) \/ Undefined(op) \/ Swi(op)

SheetInit == Init /\ trace = Idle

(* A reset takes the place of no instruction: its cycle 1 goes wherever R15  *)
(* is.                                                                       *)
SheetBegin ==
  \/ Exception("reset") /\ Follow(Special("ENTRY", 0), Plus(pc, -2))
  \/ \E e \in {"dabt", "fiq", "irq", "pabt"} :
       /\ Exception(e)
       /\ Follow(Special("ENTRY", Entry[e].vector), ex.addr)
  \/ Skip /\ Follow(Special("SKIP", 0), ex.addr)
  \/ \E op \in Insns : Executes(op) /\ Follow(op, ex.addr)

SheetGoOn == GoOn /\ Traced(trace)

(* The dummy fetches of a held reset belong to no table *)
Untraced == (ResetCycle \/ SetReset \/ SetFiq \/ SetIrq) /\ UNCHANGED trace

SheetNext == SheetBegin \/ SheetGoOn \/ Untraced

SheetSpec == SheetInit /\ [][SheetNext]_<<vars, trace>>

-----------------------------------------------------------------------------

(* Every instruction and entry drives the cycles of its data sheet table,    *)
(* whatever ran before it, wherever its base points and whichever of its     *)
(* transfers abort, and announces the type of the next cycle as the table    *)
(* does (timing_check.cpp runs each once, from one address, without aborts). *)
InTables == trace.ok

=============================================================================
