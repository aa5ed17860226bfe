------------------------------- MODULE RegFile -------------------------------
(***************************************************************************)
(* The register file of the RTL (rtl/v1/wren7_regfile.sv), clock by clock:  *)
(* an array of MLABs that takes a write during the clock after the edge,    *)
(* and a bypass register that holds the write for that one clock.  Both     *)
(* copies take every write and are one array here.                          *)
(***************************************************************************)
CONSTANTS
  Regs,     \* the physical registers
  Values    \* what they may hold

VARIABLES
  file,     \* what the core takes the registers to hold: its writes, at once
  mem,      \* the array (mem_a, mem_b)
  late,     \* the write the array is taking in this clock
  lw        \* the last write (lw_v, lw_a, lw_d)

fvars == <<file, mem, late, lw>>

Write == [v : BOOLEAN, a : Regs, d : Values]

Taken(f, w) == IF w.v THEN [f EXCEPT ![w.a] = w.d] ELSE f

(* The array keeps what it holds; a simulation starts it with zeros *)
FileInit ==
  /\ file \in [Regs -> Values] /\ mem = file
  /\ late \in Write /\ ~late.v /\ lw = late

(* A clock edge with the write port w (we, wa, wd) *)
Latched(w, rst) == [w EXCEPT !.v = w.v /\ ~rst]

FileClock(w, rst) ==
  /\ file' = Taken(file, w)
  /\ mem' = Taken(mem, late) /\ late' = w
  /\ lw' = Latched(w, rst)

FileNext == \E w \in Write, rst \in BOOLEAN : FileClock(w, rst)

FileSpec == FileInit /\ [][FileNext]_fvars

-----------------------------------------------------------------------------
(* What a read may give: a register the array is taking reads as either      *)
(* value (no_rw_check), unless the bypass answers for it.                    *)

Stored(r) == {mem[r]} \cup {w \in {late.d} : late.v /\ late.a = r}

PortUnbypassed(r) == Stored(r)   \* mutant
Port(r) == IF lw.v /\ lw.a = r THEN {lw.d} ELSE Stored(r)

(* Every read gives the last value written, in the clock after the write     *)
(* (from the bypass), in the next one and in any later one; but for a write  *)
(* in a clock of rst, which the bypass does not take.                        *)
ReadsCurrent ==
  (late.v => lw.v) => \A r \in Regs : Port(r) = {file[r]}

=============================================================================
