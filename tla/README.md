# wren7: TLA+ specifications

wren7 is an ARM7DI core, the sound CPU of the Dreamcast's AICA, written twice: as
a C++ model that executes one bus cycle per call (`model/src/arm7di.*`) and as
RTL that claims to be cycle-exact to it (`rtl/v1/*.sv`). Around the two are a model
of the sound system's bus (`model/src/dc_arm_map.*`), a lockstep testbench
(`tb/`), test tools (`model/tools/`) and a runner that executes the same jobs on
a real console (`model/hw/`).

The specifications are translated from the code. Line numbers of what each
definition stands for are in `PROJECT.json`, under `map`.

## Inventory

| component | source | state | operations | status |
|---|---|---|---|---|
| core model | `model/src/arm7di.{h,cpp}` | sequencer (`seq_`, `k_`, latches `x_`), 31 registers, CPSR/SPSRs, R15 incrementer, execute/decode stages, announced cycle type, reset/abort/interrupt requests | `bus_cycle()` (13 sequences), `set_reset`, `set_fiq`, `set_irq`, `power_on` | modelled: `Arm7DI` |
| RTL core | `rtl/v1/wren7_core.sv` | state register, operand/address/multiplier latches, delayed LDM write, register file port, boundary latches | one clock edge with `ce`/`ack` | modelled: `Wren7Core` |
| register file | `rtl/v1/wren7_regfile.sv` | MLAB array, one-clock bypass | two asynchronous reads, one write port | modelled: `RegFile`, `Wren7OnFile` |
| shifter, ALU, Booth | `rtl/v1/wren7_shifter.sv`, `arm7di.cpp:20-82`, `c_mul` | none / partial product | combinational, one Booth step a cycle | partly: `Shifter`, `Datapath` |
| lockstep testbench | `tb/core_tb.cpp` | memory image, chaos inputs | drives model and RTL together, compares every cycle and register | partly: `Lockstep` |
| data sheet check | `model/tools/timing_check.cpp` | rows per instruction | compares the model's cycles with chapter 9 | modelled: `DataSheet` |
| sound-system bus | `model/src/dc_arm_map.{h,cpp}` | slot table, SGC/DSP step, interrupt latch (SCIEB, SCIPD, L, M), sample clock, SH4 queue | `cycle`, `tick`, `rreg`/`wreg`, `sh4_access` | partly: `DcIrq`, `FiqKernel`, `SgcSlots`, `SgcPlay`, `DcSlots` |
| console runner | `model/hw/runner.c`, `hw/arm/stub.s`, `tools/hwjob.h`, `tools/hw_suite.cpp` | ARM reset, result block, MCIPD/MCIEB, job and results files | start, poll with timeout, stop, collect, calibrate | partly: `JobFile`, `HwRunner` |
| AICA wrapper | `rtl/v1/wren7_aica.sv` | none | ties `hold`, `irq`, `abort` to 0, splits lanes | not modelled: wiring, and one choice of `Inputs` and `Aborts` of `Wren7Core` |
| test tools | `model/tools/*.cpp` | none of their own | run the model against tables, qemu, console logs | not modelled, but for the data sheet check and `check_vendor`'s verdict |
| build, synthesis, vendor data | makefiles, `rtl/quartus*`, `model/tests/vendor` | - | - | not modelled |

How they interact. The core model calls `Arm7Bus::cycle()` once per bus cycle and
`tick()` at each instruction boundary, before it looks at its inputs; the bus
answers with data, wait states and ABORT. The RTL drives the same cycle on pins
(`req`, `addr`, `cyc`...) and holds it until `ack`, on clocks where `ce` is high. The
testbench runs both on one memory and compares every cycle and the registers at every
boundary. The sound-system bus grants a wave RAM cycle in a step that the DSP, the sound
generator, another user and the SH4 leave free, and raises nFIQ from the interrupt
latch. The runner, on the SH4, holds the ARM in reset, loads a job, releases it and
polls for the interrupt of the stub or a timeout; the tools read the results it leaves
and run the same job file on the model.

### What is hard

* The core announces the type of a cycle one cycle early, before it knows whether
  the next boundary takes an instruction, an exception or a reset.
* Exceptions, aborts and resets arrive in any order at a boundary; R14 and SPSR of
  every mode must survive handlers of the other modes.
* An abort in the middle of a block transfer must leave a restartable state.
* The RTL writes an LDM's registers one cycle late through the only write port it
  has, which other writes need in the same clock; the array behind the port takes a
  write one clock later still.
* The RTL samples its inputs in the first clock of a boundary and holds them while
  the cycle waits; the model looks at them once.
* On the bus: an interrupt latch whose handshake a handler can take in the wrong order,
  edges that coalesce in a long cycle, slots that move when MPRO is written, an SH4 that
  is booked ahead of the ARM, a sound generator whose channels straddle two samples.
* On the console: posted writes the poll can overtake, a result that arrives
  while the timeout fires, leftovers of the run, the repetition or the session before.

### Correctness, per component

* core model: coherent pipeline and R15; S cycles sequential; the data sheet's cycles;
  return addresses; bank isolation; user mode sealed; restartable aborts; interrupts
  taken.
* RTL core: every accepted cycle and every boundary state is one of the model
  (refinement), whatever the inputs do while a cycle waits; the write port is never
  needed twice in a clock; a read gives what was last written.
* data path: both cores have the same result, flags and number of steps, and the right
  ones.
* interrupt controller: the 68000 handshake; no enabled request left waiting; under the
  console's handlers every acknowledged request is ended and the program ends.
* slots: the schedule the registers ask for; no two owners of a slot; the ARM gets one
  in time; an ADPCM sample has its word.
* runner: a job passes only if it ran and ended normally; a timeout is one; both readers
  of the file agree, as long as its words are short enough; the runner always ends.

## Modules

`Arm7Arch` holds what both cores share: word addresses modulo `Size`, the register
names and their banks, the instruction fields the sequencers look at, the cycle
types. Registers are represented by one of each kind: `r0` (never banked), `r8`
(banked for FIQ), `r14` (banked for every mode), `pc`. `Insns` is the set of
instructions memory may hold: a fetched word is its address, and which instruction
it is is chosen when a boundary decodes it, so that one run covers every program
over that set, self-modifying ones included. Data that comes from memory, the
multiplier or a PSR read is any member of `Data`.

### The core model

`Arm7DI` has one step per call of `bus_cycle()`; the caller may move nRESET, nFIQ
and nIRQ (`SetReset`, `SetFiq`, `SetIrq`) between any two.

| variable | code |
|---|---|
| `seq`, `k`, `x` | `seq_`, `k_`, `x_` (`x.rest`: the registers of the list from `x_.r` on; `x.at`: added, where the last executed instruction was fetched) |
| `gpr`, `cpsr`, `spsr` | `gpr_` (indexed by physical register), `cpsr_` (mode, I, F), `spsr_` |
| `pc`, `ex`, `de`, `f1` | `pc_`, `ex_`, `de_`, `f1_` (address instead of word, and abort) |
| `next_type`, `bus` | `next_type_`; `bus` is the last `BusCycle` driven |
| `dabort_pending`, `in_reset`, `reset_exit`, `fiq_in`, `irq_in` | the members of the same names |

`Begin` is `begin()` together with the first cycle of the sequence it picks, `GoOn`
any other cycle; each `c_*()` function is as many actions as it has cycles, with
`cyc()`, `advance()` and `done()` inside (`Cycle`, `Finish`). Latches the code leaves
stale at the end of a sequence are cleared: every sequence writes them before it
reads them, and clearing keeps the state space small. Not kept: condition flags (an
instruction may always fail its condition), byte lanes, cycle counts, statistics,
and the synchroniser of `irq_sync_stages`, which no program of the repository sets
(0: the inputs count at once).

`Arm7DIProperties` states what the model promises, `MCArm7DI` gives instruction
sets and bounds a run to `MaxSeq` boundaries, `Arm7DIProofs` holds the proofs.

`DataSheet` is a monitor beside `Arm7DI`: `trace` collects the cycles of the instruction
or entry under way (`Traced`) and at its end compares them with its table of chapter 9
of the data sheet (`Rows`, `Conforms`), the rows `model/tools/timing_check.cpp` compares
the model with. The tool runs each instruction once from one address with no abort;
the monitor is there after every other instruction, for every base and abort.
`aborted` is a data abort of the step itself, which ends a transfer's table early; the
dummy fetches of a held reset belong to no table (`Untraced`). `Arm7DIProofs` proves
that every sequence stays in its table.

### The RTL core

`Wren7Core` has one step per clock edge with `ce` = 1. `Done` is an edge with
`cdone`: one action for each branch of the `case (st)`. `Wait` is an edge in which a
memory cycle is not acknowledged. The pins `hold`, `fiq`, `irq` may change in every
clock; `fc`, `hold_l`, `fiq_l`, `irq_l` (`taken`) are kept as in the code, so that
the decision of a boundary that waits is taken from what its first clock saw. Clocks
with `ce` = 0 change nothing and are left out. `x` keeps the shared latches under
their names, stale values included: `x.addr`, `x.data`, `x.calc` and `x.base` are
what one sequence leaves and the next may read. `rf` is written through `WREG` or
from `pw_idx`; where the code assigns the write request twice in one cycle
(`S_BDTX`, `S_BDTF`), the later assignment wins in the model too (`BlockPort`,
`BlockEnd`). The words `op` is decoded from stay in `ex` until the pipeline advances,
so `op` is chosen at the boundary and kept.

`Lockstep` is the refinement that `tb/core_tb.cpp` tests. Three history variables:
`told` (what the model has been told of the inputs; the testbench tells it at a
boundary and the RTL takes them in the first clock of that cycle), `bus` and `at`.
The mapping computes the model's state from the RTL's registers: `SeqOf` and `KOf`
from `st` and `mk`, `XOf` from the latches live in each state, `GprOf` with the
register that waits for the write port already written. `CycleExact` is
`Arm7DI!Spec` under that mapping: every RTL cycle is one `bus_cycle()` with the same
address, type and flags and the same registers after it; wait clocks are stutters.
The model's `x_.base` of a single transfer has no register in the RTL; `Undone`
recomputes it from `x_calc`, the base written back. `Wren7Proofs` proves the
refinement.

`MCWren7Core` gives the instruction sets and bounds a run to `MaxSeq` boundary
cycles. `Wren7Proofs` holds the proofs; `Arm7ArchProofs` the lemmas about types
and address arithmetic that the proof modules of both cores use.

### The register file and the data path

`Wren7Core` takes `rf` to hold what is written to it at once. `RegFile` is the file as
`wren7_regfile.sv` builds it: `mem` is the MLAB array (both copies take every write, so
one stands for both), `late` the write it is taking during this clock, `lw` the bypass
(`lw_v`, `lw_a`, `lw_d`). With `no_rw_check` a word that is being written reads as either
value: `Port(r)` is the set of what a read may give, and `ReadsCurrent` says that it is
the one value last written. `Wren7OnFile` puts the RTL core on it: every step of the core
is a clock of the file with the write the step made (`Driven`), and between any two there
may be a clock with `ce` = 0 (`Disabled`). `MCRegFile` runs that with the core model in
lockstep. `Wren7Proofs` proves `ReadsCurrent` for any writes and for the core's own.

`Shifter` writes the barrel shifter down twice, as the C++ does (`shift_imm`,
`shift_reg`) and as the RTL does (`wren7_shifter`: one right rotator of five levels, and masks).
`Datapath` runs one operation on both cores' data paths side by side, a step per internal
cycle: `cpp` is `x_.acc`, the multiplier left, the borrow and the flags of `c_mul` and
`dp_finish`, `rtl` is `x_calc`, `x_base`, `x_borrow` and the flags of `S_MUL` and the
three-input adder. The logical operations are the same expression on both sides and N
and Z follow from the result; neither is kept. The width is a constant, 4 to 32 bits
(`WidthAssumption`); `DatapathProofs` holds the proofs.

### The sound-system bus

`DcArmBus` does two things that share no state but time: it runs the interrupt
controller, and it decides in which slot an access may start. They are modelled apart.

`DcIrq` is the interrupt half. A register is the set of its bits that are 1.

| variable | code |
|---|---|
| `store` | `store_`: SCIEB, SCIPD, MCIPD, SCILV0 to 2 |
| `latch` | `e68k_out_` (`request`), `fiq_` (`line`), `e68k_L_` (`level`); `port`, added, is the last access |
| `due` | sample edges with `t >= next_sample_ + edge_latency` that no access has met |
| `hook` | the registers of an attached `AicaRegs` |

`Update` is `update_interrupts`, `Clocked` and `ClockedLatch` the sample clock that every
cycle and tick of the ARM runs first, `Written` and `AfterWrite` are `wreg`, `AfterRead`
is `rreg`. `ArmRead`, `ArmWrite` (with byte lanes) and `Tick` run the clock, `Sh4Read` and
`Sh4Write` do not. `IrqHandshake` is the abstract specification: one request in service,
nFIQ up until L is read, M ends it. `Handshake` is `IrqHandshake!Spec` with `latch` as it
is; a request that comes in with an access is part of the same abstract step. `InterruptProofs`
holds the proofs.

`FiqKernel` composes the controller, the core's contract (at a boundary with nFIQ
asserted and F clear it enters the handler, `FiqTaken`) and the console's FIQ programs
`k_fiqcost_ldrl.s` (with and without its timed loads) and `k_blkphase.s`, access by access, started
from whatever the job left in the registers. The kernel "free" is any program on either
side: `DcIrq!Next`. `InterruptProofs` holds the proofs.

`SgcSlots` holds what a slot is for: the step and sample of a boundary, the sound
generator's channel there, and when an ADPCM channel fetches (`adpcm_fetch`). `SgcPlay`
plays a channel sample by sample and keeps the word it holds and the fetches so far;
`SgcPlayProofs` holds the proofs.

`DcSlots` is the slot grid. Its unit of time is a DSP step of 4 MCLK: `cycle` and
`sh4_access` round up to it.

| variable | code |
|---|---|
| `mpro`, `voice` | the registers `slot_used` reads: MRD/MWT of each step, the channels' KYONB |
| `slots`, `dirty` | `slots_` with the other user placed, `slots_dirty_` |
| `sh4` | the `sh4_*` settings, `sh4_next_`, `sh4_slots_` (`booked`), and what the last advance gave it |
| `now`, `last` | end of the ARM's last access, its last slot |
| `ever` | added: every slot the SH4 has been given |

`ArmRam` is `cycle` on a wave RAM address: `Search` is the loop that calls `sh4_advance`
before each look, `FirstFree` and `Access` are `sh4_access`, `Place` the backtracking
search of `slot_used` for the other user. `WriteMpro` and `WriteVoice` are register
writes, which no slot holds up. `MCDcSlots` gives the constants their values in the code.
The loops of the code are recursive functions of the turns left: `Places` of users,
`Access` of slots, `Arriving` of arrivals, `Trying` of tries. `DcSlotsProofs` holds the proofs.

### The console runner

`JobFile` is the file's format and its two readers: the runner's `main` with arrays
of fixed size (`RunnerLine`, `Taken`, `Applied`) and `parse_jobs` of `tools/hwjob.h` with
vectors (`HwLine`, `HwRead`). `HwRunner` is the runner reading it, line by line.

A word is a slice of a text, and `Scanned` is `sscanf`: a word longer than its
conversion's width is cut, and its rest becomes the next word. The widths (`RunnerWidth`
159, 159, 31; `HwWidth` 255, 255, 63) and the room for a name (63, `strncpy`) are
parameters; a path's array holds what its conversion lets through. So the two readers
really differ on long words, and `FileLines` gives for each line what either makes of
it. `strtoul` is the external operator `Number`. A line has at most 511 characters: the
runner splits the file at newlines, `parse_jobs` by `fgets` with 512 bytes, and a longer line
would be two lines to the latter, which is not modelled. The longest line of the repository's
job files has 113 characters, the longest word 50, the longest name 24.

| variable | code |
|---|---|
| `pc` | where the SH4 is in `main`, `run_job`, `samples` |
| `file` | the lines read, `job`, `err`, `njobs`, and `parse_jobs` at the same line (`hw`); added: `whole`, whether every line so far was short enough for the runner |
| `rep` | `rep`, `status`, `mcipd` of `run_job`; `k`, `ok` and the interrupt mask of `samples` |
| `posted` | G2 writes that have not reached the AICA (external) |
| `aica`, `arm`, `block` | MCIEB/MCIPD, the ARM and its place in `stub.s`, the result block |
| `clk`, `t1` | the cycle counter since `t0` and the reading the timeout test uses |
| `disk` | results.txt by job, the .bin files, whether `out` was seen |
| `ghost` | added: how the run that is judged really went |

`Prepare`, `Ready`, `Clock`, `Look`, `Test`, `Stop`, `Collect`, `Save` are the parts of
`run_job` between two points where something else can happen. External, and modelled as
the code uses them: the G2 bus delivers posted writes in order and `g2_fifo_wait` waits
for them (`Drained`); `SB_ISTEXT` is not behind G2, so the poll may see it before they
arrive; the ARM's program runs as long as it likes, for ever too. `Pass` is
`check_vendor`'s verdict (`tools/hw_suite.cpp`). `HwRunnerProofs` holds the proofs.

## Runs

| run | module | shows |
|---|---|---|
| `core_flow` | `MCArm7DI` | every way into and out of a handler, resets, FIQs and aborts in any order of five sequences (nIRQ moves in `core_interrupts` and the RTL's runs): pipeline, cycle types, return addresses, banks, and user mode left only through an entry |
| `core_transfers` | `MCDataSheet` | transfers of every shape, branches and traps, aborting in any cycle, base in the list or as destination: the cycles of the data sheet, and a state to restart from |
| `core_interrupts` | `MCArm7DI` | an unmasked interrupt that stays requested is entered within two boundaries (liveness) |
| `core_reset_abort` | `MCArm7DI` | a violation: a data abort pending when a reset takes over is raised after the reset entry (see the findings in `PROJECT.json`) |
| `rtl_flow` | `MCWren7Core` | the RTL implements the model through resets, interrupts, aborts, handlers and PSR moves, `hold` and `irq` moving in every clock |
| `rtl_latches` | `MCWren7Core` | the same for the instructions that share `x_addr`, `x_data`, `x_calc` |
| `rtl_blocks` | `MCRegFile` | the same for block transfers on the real register file; the write port is booked once and every read is current |
| `datapath` | `Datapath` | shifter, adder and multiplier of both cores agree, and are right, for every pair of 8 bit operands |
| `fiq_kernel` | `FiqKernel` | the controller is the handshake and leaves no request waiting under any accesses; under the console's handlers none is acknowledged without being ended, and the job ends |
| `sgc_play` | `SgcPlay` | every sample of an ADPCM channel has its word, the shares of samples with a fetch are the measured ones, and channels come in order over the end of the sample |
| `dcslots` | `MCDcSlots` | the schedule is the earliest placement and the measured one, no slot has two owners while MPRO and channels change, and the ARM gets a slot in time |
| `runner` | `MCHwRunner` | jobs that end, fail or hang, files missing or unwritable, leftovers of a session before: verdicts, statuses, timeouts and calibrations are true, and the runner ends |

Bounds.

* *Cores.* `Size` is 8 or 16 words: at least the eight vectors; the address space wraps
  within a few sequences, so that the boundary cases of address arithmetic happen.
  `MaxSeq` 3 to 5 boundaries: the state that survives a boundary is the pipeline, the
  PSRs, the banked registers, a pending abort and the request flags, and two sequences
  (one that leaves it, one that meets it) plus the entries they force are what any of the
  hazards needs; the mutants in `PROJECT.json` are each found within them. The
  instruction sets of the runs together hold every class and every bit the sequencers
  test. `Data` and `Psrs` hold one or two values; the values only flow, no guard compares
  them, except as addresses.
* *Data path.* Words of `W` = 8 bits, all operand pairs, two addends, every shift amount
  that the rules tell apart (0, below, equal to, above and multiples of `W`). The rules
  depend on an amount's relation to `W` and on a multiplier's top bit; a multiplication
  takes 1 to 4 Booth steps, the cap included, instead of 1 to 16.
* *Interrupts.* Two of the three level registers, which the code treats alike; `MaxDue` 2
  edges in a cycle, one more than the pending bit can hold; three samples per program,
  a first, a middle and a last one. The registers a program starts from are any.
* *Slots.* The code's constants (128 steps, phases, 7 early channels, 256 tries, 64 and
  1024 MCLK); `MaxTime` 14 steps around those of the other user, steps 96 to 110 of the DSP's
  sample and the searches beyond, where users meet; two register writes; three SH4 streams, one of
  each kind `sh4_setup` makes. `Patience` 23 is tight: with 22 the run fails. `sgc_play`
  plays two whole periods of 32 samples at octaves -4 to 2 (3 to 7 never fetch) and at the
  ends and the middle of FNS.
* *Runner.* Files of five lines and two jobs: before a job `out`, `samples 1`, a
  `chstate`, a stray `run` and a `load` that only the runner takes, in a job one line of each
  kind the runner tells apart and a line with too few words; widths of three characters (four
  for `parse_jobs`) and names of two, so that a name and a path are cut; arrays of one
  entry, so that one line too
  many is reached; two repetitions, so that a later one follows one that timed out;
  `Timeout` of one tick and a counter that goes two beyond; one normal and one abnormal
  entry of the stub.

Fairness.

* `core_interrupts`: weak fairness of the bus cycle (`MCFairSpec`). The core does not run
  by itself: whoever owns it calls `bus_cycle()` in a loop (`power_on`, the tools, the
  testbench), so the assumption is that the caller goes on.
* `fiq_kernel`: the ARM runs and time goes on (`KFairness`). Edges come at any time, also in
  a handler, but for `ldrl`, whose handler reads L again after M: a sample edge there
  would be acknowledged by that read and never ended. It relies on a sample (512 MCLK)
  being longer than the handler (about 200), and `Edge` says so. The first edge may come at any
  moment, as the sample clock's phase is not the program's.
* `runner`: the SH4 runs, posted writes arrive, the cycle counter counts. Nothing is
  asked of the ARM's program or of the sample clock, which may stand still.
* The safety runs and the refinements assume none; the RTL may wait for `bus_ack` for
  ever.

Deadlock is checked in every run but two: `runner` ends when the program exits, and
`datapath` when the operation does. In the core runs the inputs still move at the bound
`MaxSeq` and a cycle may still wait, so a state without a step would be the sequencer's
own; `Disabled` of `Wren7OnFile` needs a write under way, so that clocks of `ce` = 0 do not
hide one. `dcslots` stutters at its bound (`Over`) and nowhere else.

## Proofs

| theorem | statement |
|---|---|
| `Arm7DIProofs!TypeCorrect` | `Spec => []TypeOK` |
| `Arm7DIProofs!PipelineCorrect` | `Spec => []PipelineCoherent` |
| `Arm7DIProofs!SequentialCorrect` | `Spec => SequentialCycles` |
| `Arm7DIProofs!ReturnCorrect` | `Spec => ReturnAddress` |
| `Arm7DIProofs!AbortReturnCorrect` | `Spec /\ []Released => AbortReturn`: as long as nRESET is not asserted |
| `Arm7DIProofs!SealedCorrect` | `Spec => UserSealed` |
| `Arm7DIProofs!BanksCorrect` | `Spec => BankIsolation` |
| `Arm7DIProofs!AbortedBaseCorrect` | `Spec => AbortedBase` |
| `Arm7DIProofs!InTablesCorrect` | `SheetSpec => []InTables` |
| `DatapathProofs!AgreeCorrect` | `DataSpec => []DatapathsAgree` |
| `DatapathProofs!ResultCorrect` | `DataSpec => []ResultRight` |
| `Wren7Proofs!RtlTypeCorrect` | `RtlSpec => []RtlTypeOK` |
| `Wren7Proofs!PortCorrect` | `RtlSpec => []PortFree` |
| `Wren7Proofs!ReadsCorrect` | `FileSpec => []ReadsCurrent`: any writes and resets |
| `Wren7Proofs!OnFileCorrect` | `OnFileSpec => [](ReadsCurrent /\ (late.v => lw.v))`: the core's own writes |
| `Wren7Proofs!LockstepCorrect` | `LockSpec => CycleExact`, the refinement: the RTL implements the core model |
| `InterruptProofs!IrqTypeCorrect` | `Spec => []IrqTypeOK` |
| `InterruptProofs!NoneWaitingCorrect` | `Spec => []NoneWaiting` |
| `InterruptProofs!HandshakeCorrect` | `Spec => Handshake`, the refinement: the controller implements the handshake |
| `InterruptProofs!KernelOnController` | `KSpec => Spec`: the programs drive the controller through its own accesses |
| `InterruptProofs!OwnedCorrect` | `KSpec => []ServiceOwned` |
| `InterruptProofs!ArmedCorrect` | `KSpec => []SledArmed` |
| `SgcPlayProofs!SuppliedCorrect` | `PlaySpec => []Supplied` |
| `SgcPlayProofs!SharesCorrect` | `PlaySpec => []SharesExact` |
| `SgcPlayProofs!OrderCorrect` | `PlaySpec => []InOrder`, if `Wrapped` |
| `DcSlotsProofs!SlotsOKCorrect` | `Spec => []SlotsOK` |
| `DcSlotsProofs!SlotFreeCorrect` | `Spec /\ ArmInTime => ArmSlotFree`, if `MaxIdle + Patience < Guard` |
| `DcSlotsProofs!GivenLater` | `Spec => [][\A b \in ever' \ ever : b > last]_vars` |
| `HwRunnerProofs!RunnerTypeCorrect` | `Spec => []RunnerTypeOK` |
| `HwRunnerProofs!StatusCorrect` | `Spec => []StatusTrue` |
| `HwRunnerProofs!VerdictCorrect` | `Spec => []VerdictTrue` |
| `HwRunnerProofs!SameJobCorrect` | `Spec => []SameJob` |
| `HwRunnerProofs!TimeoutCorrect` | `Spec => TimeoutTrue` |
| `HwRunnerProofs!SamplesCorrect` | `Spec => SamplesExact` |

Those about the cores hold for every `Size` of at least eight words (the vectors must be
addresses), every set of instructions, data, PSR images and abort values; those about the
data path for words of 4, 8, 16 and 32 bits, every operand and every shift amount; those about
the controller for any level registers, any number of due edges, with a hook or without;
`ReadsCorrect` for any writes and resets of the register file, and `OnFileCorrect` for every
clock of the core, every wait clock and every clock of `ce` = 0. Those about the sound
generator hold for every register value (`RegisterAssumption` gives the registers' widths), every
start address and every even length of the DSP's sample at any phase; `OrderCorrect` further
needs `Wrapped`, that as many channels belong to the next sample as have their slot before its
step 0: the code's `sgc_step0` = -14 goes with `ch < 7`.
Those about the slots hold for every DSP program, set of channels, stream of the SH4 and
length of the sample and any number of accesses of the other user; `KeptAssumption` says
that a booked slot is remembered for at least as long as the SH4 is booked ahead of the ARM
(1024 and 64 MCLK in the code).
Those about the programs hold for any number of iterations and any moment an edge comes,
with the level register `SCILV0` there, which both programs write (`LevelAssumption`).
Those about the runner hold for every file, every size of its arrays, every timeout and
number of repetitions; `LinesAssumption` says of a line only that `strtoul` gives a
natural number, that words are slices of `Texts` and that a job line has one of the `Names`.
`SameJobCorrect` holds for all widths, each of the runner's at most that of `parse_jobs`
(`WidthAssumption`), and for the part of a file up to the first line with a word too long for
the runner: the theorem rests on `WholeSame`, that such a line means the same to both. Beyond
it the claim is false of the code. A name of 70 characters is cut to 63 in the runner and
kept by `parse_jobs`; a path of 170 is cut to 159; a repetition count of 40 characters is
cut to 31; a `load` whose only word has 170 characters is a bad line to `parse_jobs` and
none to the runner. The runner reports none of these. Before the first `job` line a fresh
`HwJob` has one repetition and the runner's zeroed job none, which it takes as one;
`SameJob` compares the repetitions that are run.
The refinement holds for every movement of the pins and every number of wait clocks.
Each needs the ASSUMEs of its modules and no other assumption.

*Pipeline.* `PipelineCoherent` speaks of boundaries and of the middle of a data
sequence, where the word fetched in cycle 1 waits to enter the stages. It becomes
inductive with `RefillCoherent`: in the second cycle of a refill the first word held
is the target's. Every first cycle establishes the middle form and every last one
brings the boundary form back, by `Dec(Inc(a)) = a` modulo `Size`.

*Cycle types.* `SequentialCycles` needs `AnnouncedInv`: while the next cycle is
announced as S, the address the sequencer will drive is known, whatever the boundary
turns out to take: `pc` at a boundary, the transfer address in a block transfer, the
word after the target in a refill.

*Return addresses.* They follow from the pipeline invariant at the boundary and
`UndefinedCoherent`, that the undefined trap keeps the address two words past the
instruction.

*Aborted transfers.* `AbortInv`: a data abort waits only at the boundary after the transfer,
where the execute stage holds the word after the aborted instruction, or for the power-on
entry that comes first. The hypothesis `[]Released` is needed: a reset that begins after
the transfer gives another boundary, and `core_reset_abort` finds the run. Every other request
ranks below the abort, so that boundary is its own.

*Modes and banks.* `UserSealed` and `BankIsolation` are action properties that follow from
the types, one lemma for each kind of step: which registers and which part of the PSRs it
writes, and in which mode.

*Aborted bases.* `AbortedBase` needs `BaseInv`: from the latch of the base to the cycle
that writes it back (the data cycle of a single transfer, the first transfer of a block
store) the base register is untouched, and after it holds what its mode prescribes. A
block load needs no clause: its last cycle restores the base itself.

*Write port.* `PortFree` is not inductive. `Waiting` says when a register may wait
(`pw_v`): in a block load, after the first transfer, with no abort so far. A transfer
that books the port for the base is the first, and a final cycle that restores the base
follows an abort, so neither meets a waiting register. `Listed` (a running transfer
has a register left) is needed for the type of `pw_idx`.

*Data sheet tables.* `InTables` says of a finished instruction that it drove its table.
`SheetInv` says of one under way which rows it has driven, and that they are the table's:
`Running(k)` in a multiplication, a swap or a single transfer, `Moving(m)` in a block transfer
(as many data rows as registers have left the list), `Refilling` in the cycles after a branch
or trap, which come on top of the table's. Each sequence also knows the address
and the type its next row will have, from the latches (`x.addr`, `next_type`), and the lowest
address of a block is the one the table starts from. It rests on the pipeline invariant, for
the addresses of the fetches, and on `~dabort_pending` inside an instruction: an abort is
noted at the end of a transfer and taken at the boundary.

*Data path.* `DataInv` says that both latches are equal, and of a multiplication what is
`Owed`: the sum so far plus the multiplicand times what is left of the multiplier, the last
borrow included, at its weight. A Booth step leaves that unchanged modulo the word
(`ProductKept`); at the end nothing is left, or it weighs a multiple of 2^W (`NothingOwed`).
The core model counts the steps ahead and the RTL looks at what is left: `Unseen`, that no
step so far was the last, makes the two ends one (`EndSeen`) and gives the data sheet's
count (`SheetSteps`). The shifter's two forms agree because a word is a high and a low
part: a rotation exchanges them (`RotatedIs`), the rotator's levels add up to one
(`RotatedTwice`, `RotatorIs`), and a mask clears or fills one of them (`LeftShift`,
`RightShift`). Carry and overflow follow from the signed range (`AddedIs`, `Complement`). Powers
of two have no theory in the provers: `Powers` lists 2^0 to 2^32, and `PowerSum` is proved
from a least counterexample.

*Register file.* `OneBehind`: the array differs from what was written by the last write
alone, and the bypass holds that write or none. A read is then current as long as the last write
is still in the bypass when the array takes it (`late.v => lw.v`). Nothing resets the bypass
while the core runs, and a clock of it changes at most one register (`ClockOne`, one case for each
state), so that `Driven` is all the core wrote.

*Interrupt controller.* Every access ends with `Update` or leaves the pending bits as they
were, and after `Update` no request waits. For the refinement each access is mapped to the
abstract step of its port, with the request that `ClockedLatch` or `Update` let in.

*The programs.* `KernelInv` says what each place of a program implies (`SetUp`: after the
prologue the sample interrupt is enabled with a level; `Quiet`: no edge falls due while `ldrl`'s
handler reads L again; `Deaf`: with a hook the controller's own SCIEB stays 0 and nothing is
ever requested). `Owned` follows a request from the read of L to the write of M that ends
it, whoever makes them: the handler, or the prologue that cleans up what the job left.
`NoneWaiting` of the controller gives `SledArmed`. It is written bit by bit, without the
controller's `Level`; `WaitsSays` connects the two.

*Sound generator.* `Supplied` is inductive with the types. Neither the position in the sample
data nor the word of a position goes back (`PositionRuns`, `WordRuns`), so without a
fetch the word of the next look-ahead nibble is the one held. `SharesExact` speaks of every 32nd
sample; `SharesInv` gives the count in each: of the `Span` samples of a word the `Takes` up to its
boundary fetch, and an odd start is half a word further (`Aligned`). `InOrder` is a fact about the grid:
counted from channel 0's step instead of the DSP's step 0 the slots number themselves,
`2 * Slot(b) = b - DspPhase + 2 * Early` (`SlotIs`), from Euclidean division alone.

*Slots.* Each loop of the code is a recursive function (`Loop`) that exists (`Recursion`,
from a least counterexample), keeps what each turn keeps (`LoopKeeps`) and either stops or
takes all its turns (`LoopEnds`). `SearchBest`: the backtracking search for the last users
returns the earliest legal places that continue the ones placed, or finds that there are none;
what `Options` and `Allowed` admit is what `Placements` asks (`LegalPlacements`).
`ArmSlotFree` needs the history of the SH4: `SlotsInv` says that every slot it was ever
given is still booked or lies before the ARM (`Kept`), which the pruning of `sh4_advance`
respects by `KeptAssumption` and because no search starts before `now`. The search
(`SearchIs`) then ends in a slot free of everyone or has made its `Guard` tries, and the
hypothesis `ArmInTime`, which `dcslots` checks, excludes the second: without it
the code does book over an owner. `GivenLater` needs no such hypothesis: in `AheadInv`
the SH4's next arrival lies after the ARM's slot, because each advance runs past it.

*Runner.* `VerdictTrue` and `StatusTrue` are about the end of a run and need its history.
`Still`: while the ARM is held nothing but the SH4 writes the block. `Withdrawn`: once a
repetition is prepared and its writes have drained, MCIPD.SCPU can only be set by this run.
`Ran`, `Seen`, `Done`: the ARM's place in the stub, the interrupt and the block agree,
and what the poll saw was raised by the run. `Blind`: before the writes have drained the poll
has not looked. `JobFits`: a job fits its arrays and none of its register writes releases
the ARM. `Counted` relates `k` of a calibration to the edges since it began. An earlier form of
`SamplesExact` over the edges before its last step was false for N = 0, which the proof
found: the count must include the edge of the step itself.

*Refinement.* `LockInv` strengthens the RTL's `RtlInv` with what the mapping needs:

* `Heard`: at a boundary that waits, the latched inputs are what the model was told.
* `HoldSeen`: `in_rst` is remembered at boundaries only and agrees with the model's nRESET.
* `Attached`: the instruction in flight is the one in the execute stage, from which the model's
  R14 of a trap and of an abort is computed.
* `Computed`: where the shared latches come from in each state: a multiplication has steps
  left, `x_data` holds a loaded word in the states that write it, a block transfer's list is
  what is left of the instruction's and `x_first` and `x_pcl` say so.

Each initial state maps to one of the model; a clock in which an input moves before the
boundary has latched it maps to `SetReset`, `SetFiq` or `SetIrq`; a wait clock to a stutter;
and there is one lemma for every cycle of the RTL that names the model's action it maps to.
That a base plus an offset minus the offset is the base modulo `Size` (`Undone`), and
that both cores take the lowest register of a list, are lemmas of `Arm7ArchProofs` and
`Wren7Proofs`.

Only model-checked: of the slots `MeasuredFits`, a fact about the measured constants;
`ArmInTime`, a bound under the measured streams; and of `GivenFree` that the SH4's slots are
free and distinct, which needs a bound on the busy slots in a row. Liveness under fairness (`FiqTaken`, `IrqTaken`,
`JobEnds`, `RunnerEnds`) is out of the prover's reach.

## What the two cores do not share

The RTL takes `hold` in the first clock of a boundary cycle; a pulse that rises and
falls between two of those is not seen. `set_reset(true)` followed by
`set_reset(false)` leaves `reset_exit_` set whenever it happens, and the model then
runs a reset entry. The testbench only moves `hold` at boundaries and holds it for
one at least, where both agree, and `Lockstep` tells the model of the level at the
first clock of a boundary in the same way: the refinement is about that contract.

## Not modelled

* *A register hook.* With an `AicaRegs` attached SCIEB and SCIPD are written to the hook
  (`dc_arm_map.cpp:157`) while `update_interrupts` reads the internal store, so an enabled request
  the program reads back never asserts nFIQ. No program of the repository attaches
  one. `DcIrq` keeps the hook as a constant and its theorems hold with one, about the
  store.
* *A DSP program with an access in all of its 128 steps.* No slot is free, the search gives
  up after 256 steps (`dc_arm_map.cpp:112`) and books the slot over its owner;
  `ArmSlotFree` fails then. The programs of `dcslots` leave slots free.
* *`same` of `check_vendor`* (`hw_suite.cpp:171`) compares r1 and the exit entry alone: a
  console run that timed out leaves a cleared block, which equals a model run that ended
  with r1 = 0. The model's run is not composed with the console's; `VerdictTrue` is about
  the PASS printed beside it.
* Of the bus: data in wave RAM, the fixed-wait and `block_set` modes, the TEMP/EFREG port
  of the DSP, `sh4_even_only`: they add waits and no state. Of the runner: the data of
  images and readbacks, the SH4's traffic under `sh4load`, the values of `chstate`, lines of
  more than 511 characters.
* Of the data path: the logical operations, and N and Z. Of the testbench: program
  loading, seeds, reports.
* The AICA wrapper keeps no state. The test tools are sequential comparisons of the model
  with tables, qemu and console logs.

## Plan

Done, in this order: the core model with its runs and theorems; the RTL with its
refinement and the write-port proof; the interrupt controller, its handshake and the
console's handlers; the slot grid and the ADPCM fetches; register file, shifter, adder
and multiplier; runner and job file; the data sheet's tables; the theorems of each.

Left: `AicaSystem`, the whole core, instead of its contract, composed with `DcIrq` through
nFIQ, with the pins the wrapper ties off.
