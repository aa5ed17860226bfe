------------------------------ MODULE HwRunner ------------------------------
(***************************************************************************)
(* The console's job runner (model/hw/runner.c): the SH4 reads the job file, *)
(* prepares wave RAM and registers with the ARM in reset, releases it and    *)
(* polls for the interrupt of the done stub (model/hw/arm/stub.s), and the   *)
(* test tools judge a job by its results line and the block it left          *)
(* (model/tools/hw_suite.cpp).                                               *)
(*                                                                           *)
(* External are the G2 bus, which posts the SH4's writes in order, Holly's   *)
(* SB_ISTEXT, which shows MCIEB and MCIPD and is not behind G2, and the ARM's *)
(* program, which runs as long as it likes and ends in an entry of the stub. *)
(* Wave RAM is the result block.  The SH4 accesses of sh4load and the reads  *)
(* of chstate change nothing here.                                           *)
(***************************************************************************)
EXTENDS JobFile, Integers, FiniteSets

CONSTANTS
  Lines(_),   \* the lines that may come after so many jobs
  Names,      \* the names of the jobs, for either reader; no two jobs of a file
              \* have the same, in as much of it as the runner keeps
  Files,      \* the paths of the images that can be read
  Entries,    \* entries of the stub; 0 is the normal end
  Timeout,    \* the job's timeout in ticks
  MaxLines,   \* bound: the lines of a file
  MaxEdges    \* bound: the sample edges of one wait too many

ASSUME BoundsAssumption ==
  /\ Entries \subseteq Nat /\ 0 \in Entries
  /\ Timeout \in Nat /\ MaxLines \in Nat /\ MaxEdges \in Nat

(* The lines of the files after so many jobs, as the readers have them       *)
FileLines ==
  [seen \in 0 .. MaxLines |->
     {[runner |-> RunnerLine(raw), hw |-> HwLine(raw), whole |-> Whole(raw)] :
        raw \in Lines(seen)}]

(* What an areg line writes: MCIPD.SCPU, or a register of the sound.  None   *)
(* touches the ARM's reset, and MCIEB and MCIRE are written after them all.  *)
Aregs == {"MCIPD", "other"}

(* The lines of the job files: jobs are named, counts unsigned (strtoul)     *)
ASSUME LinesAssumption ==
  \A seen \in 0 .. MaxLines :
    /\ \A raw \in Lines(seen) : raw.words \in Seq(Word)
    /\ \A both \in FileLines[seen] : \A line \in {both.runner, both.hw} :
         /\ line.cmd \in {"rreg", "samples"} => line.arg \in Nat
         /\ line.cmd = "job" => line.arg.name \in Names /\ line.arg.repeat \in Nat

VARIABLES
  pc,       \* where the runner is
  file,     \* the lines read, the jobs seen, job, err, njobs, hw (parse_jobs);
            \* added: whole, whether every line so far was read whole
  rep,      \* run_job: rep, status, mcipd; samples: N, k, ok, interrupts off
  posted,   \* G2 writes that have not reached the AICA
  aica,     \* MCIEB and MCIPD bits 5 and 10
  arm,      \* the ARM: "held" in reset, "run", a step of the stub, or "spin"
  block,    \* the result block: tag 'DONE' and k
  clk, t1,  \* the SH4's cycle counter since t0, and its last reading
  disk,     \* results.txt by name, the .bin files, and whether out was seen
  ghost     \* added: the entry and time of this run, whether each run raised

vars == <<pc, file, rep, posted, aica, arm, block, clk, t1, disk, ghost>>

Job == file.job
Keys == Names \cup {NoWord}   \* a run may come before any job line

None == -1
Late == Timeout + 2    \* bound: the counter stops there

NoBlock == [tag |-> FALSE, k |-> 0]
NoFile == [have |-> FALSE, tag |-> FALSE, k |-> 0, entry |-> None]

-----------------------------------------------------------------------------
(* The AICA and Holly *)

(* SB_ISTEXT bit 1 *)
Istext == aica.eb /\ aica.scpu

(* A posted write arrives.  The prepared image is of no interest here.       *)
Arrived(w) ==
  /\ aica' = [eb |-> aica.eb \/ w = "MCIEB 0x20",
              scpu |-> (aica.scpu /\ w # "MCIRE 0x7FF") \/ w = "MCIPD",
              sample |-> aica.sample /\ w # "MCIRE 0x7FF"]
  /\ block' = IF w \in {"RES", "RAM"} THEN NoBlock ELSE block
  /\ arm' = IF w = "release" THEN "run" ELSE arm

Drain ==
  /\ posted # <<>>
  /\ Arrived(Head(posted))
  /\ posted' = Tail(posted)
  /\ UNCHANGED <<pc, file, rep, clk, t1, disk, ghost>>

Drained == posted = <<>>   \* g2_fifo_wait, and any G2 read

(* The sample interval.  It is 23 us: with interrupts off the SH4 sees and   *)
(* clears an edge before the next one, but for those of the time before.     *)
SampleEdge ==
  /\ pc \in {"samples wait", "samples clear"}
  /\ rep.irqoff /\ rep.n > 0 => ~aica.sample
  /\ ghost.edges <= MaxEdges
  /\ aica' = [aica EXCEPT !.sample = TRUE]
  /\ ghost' = [ghost EXCEPT !.edges = @ + 1]
  /\ UNCHANGED <<pc, file, rep, posted, arm, block, clk, t1, disk>>

(* Time goes on *)
Tick ==
  /\ clk < Late
  /\ pc \in {"clock", "look", "test", "stop", "samples wait"}
  /\ clk' = clk + 1
  /\ UNCHANGED <<pc, file, rep, posted, aica, arm, block, t1, disk, ghost>>

-----------------------------------------------------------------------------
(* The ARM *)

(* The stub: registers and k, then the tag, then MCIPD.SCPU *)
StubOrderTagFirst == <<"tag", "raise", "registers", "spin">>   \* mutant
StubOrder == <<"registers", "tag", "raise", "spin">>

(* The program ends in an entry of the stub, if it ends *)
ProgramEnds ==
  /\ arm = "run"
  /\ \E k \in Entries : ghost' = [ghost EXCEPT !.entry = k]
  /\ arm' = StubOrder[1]
  /\ UNCHANGED <<pc, file, rep, posted, aica, block, clk, t1, disk>>

StubStep ==
  /\ \E i \in 1 .. 3 : arm = StubOrder[i] /\ arm' = StubOrder[i + 1]
  /\ block' = [tag |-> block.tag \/ arm = "tag",
               k |-> IF arm = "registers" THEN ghost.entry ELSE block.k]
  /\ aica' = [aica EXCEPT !.scpu = @ \/ arm = "raise"]
  /\ ghost' = IF arm = "raise" THEN [ghost EXCEPT !.raised = clk] ELSE ghost
  /\ UNCHANGED <<pc, file, rep, posted, clk, t1, disk>>

-----------------------------------------------------------------------------
(* main: one line *)

Exit(code) ==
  /\ pc' = "exit"
  /\ file' = [file EXCEPT !.err = @ \/ code # 0]
  /\ UNCHANGED <<rep, posted, aica, arm, block, clk, t1, disk, ghost>>

(* The job file is there or not; the ARM, whatever it ran, is stopped *)
Start ==
  /\ pc = "start" /\ Drained
  /\ \/ Exit(1)
     \/ /\ pc' = "line"
        /\ arm' = "held"
        /\ block' = NoBlock
        /\ UNCHANGED <<file, rep, posted, aica, clk, t1, disk, ghost>>

EndOfFile == pc = "line" /\ Exit(0)

Read(both, line, bad) ==
  file' = [lines |-> file.lines + 1,
           seen |-> file.seen + (IF line.cmd = "job" THEN 1 ELSE 0),
           job |-> IF bad THEN Job ELSE Applied(Job, line),
           err |-> file.err \/ bad,
           njobs |-> file.njobs + (IF line.cmd = "run" THEN 1 ELSE 0),
           hw |-> HwRead(file.hw, both.hw),
           whole |-> file.whole /\ both.whole]

BadLine(both, line) ==
  /\ ~Taken(Job, line)
  /\ Read(both, line, TRUE)
  /\ UNCHANGED <<pc, rep, posted, aica, arm, block, clk, t1, disk, ghost>>

JobLine(both, line) ==
  /\ Taken(Job, line)
  /\ line.cmd \notin {"out", "run", "samples", "chstate"}
  /\ Read(both, line, FALSE)
  /\ UNCHANGED <<pc, rep, posted, aica, arm, block, clk, t1, disk, ghost>>

(* out: results.txt is truncated; the .bin files of an earlier session stay  *)
Opened == [name \in Keys |-> "none"]

Out(both, line) ==
  /\ line.cmd = "out" /\ Taken(Job, line)
  /\ \/ Exit(1)
     \/ /\ Read(both, line, FALSE)
        /\ disk' = [disk EXCEPT !.results = Opened, !.open = TRUE]
        /\ UNCHANGED <<pc, rep, posted, aica, arm, block, clk, t1, ghost>>

(* A line that writes to results.txt needs an out before it *)
NoOut(line) ==
  /\ line.cmd \in {"run", "samples", "chstate"} /\ Taken(Job, line)
  /\ ~disk.open
  /\ Exit(1)

Chstate(both, line) ==
  /\ line.cmd = "chstate" /\ Taken(Job, line) /\ disk.open
  /\ Read(both, line, FALSE)
  /\ UNCHANGED <<pc, rep, posted, aica, arm, block, clk, t1, disk, ghost>>

Reads == Job.list["read"] # <<>> \/ Job.list["rreg"] # <<>>

Run(both, line) ==
  /\ line.cmd = "run" /\ Taken(Job, line) /\ disk.open
  /\ Read(both, line, FALSE)
  /\ pc' = "prepare"
  /\ rep' = [rep EXCEPT !.n = 1, !.status = "done"]
  /\ ghost' = [ghost EXCEPT !.all = TRUE,
                 !.blind = IF Reads THEN @ ELSE @ \cup {Job.name}]
  /\ UNCHANGED <<posted, aica, arm, block, clk, t1, disk>>

-----------------------------------------------------------------------------
(* samples N: the ARM stopped, interrupts off, every wait bounded *)

SamplesIrqOn(line) ==   \* mutant
  rep' = [rep EXCEPT !.want = line.arg, !.n = 0, !.ok = TRUE, !.irqoff = FALSE]
SamplesBegin(line) ==
  rep' = [rep EXCEPT !.want = line.arg, !.n = 0, !.ok = TRUE, !.irqoff = TRUE]

Samples(both, line) ==
  /\ line.cmd = "samples" /\ Taken(Job, line) /\ disk.open
  /\ Drained
  /\ Read(both, line, FALSE)
  /\ SamplesBegin(line)
  /\ pc' = "samples wait" /\ arm' = "held" /\ clk' = 0
  /\ \E b \in BOOLEAN : aica' = [aica EXCEPT !.sample = b]
  /\ ghost' = [ghost EXCEPT !.edges = 0]
  /\ UNCHANGED <<posted, block, t1, disk>>

(* wait_bit *)
WaitForEver == FALSE   \* mutant
WaitOver == clk > Timeout

WaitBit ==
  /\ pc = "samples wait"
  /\ \/ aica.sample /\ UNCHANGED rep
     \/ ~aica.sample /\ WaitOver /\ rep' = [rep EXCEPT !.ok = FALSE]
  /\ pc' = "samples clear"
  /\ UNCHANGED <<file, posted, aica, arm, block, clk, t1, disk, ghost>>

(* After the first wait t0 is taken *)
ClearBit ==
  /\ pc = "samples clear"
  /\ aica' = [aica EXCEPT !.sample = FALSE]
  /\ ghost' = IF rep.n = 0 THEN [ghost EXCEPT !.edges = 0] ELSE ghost
  /\ IF rep.ok /\ rep.n < rep.want
       THEN pc' = "samples wait" /\ clk' = 0 /\ rep' = [rep EXCEPT !.n = @ + 1]
       ELSE pc' = "line" /\ UNCHANGED clk /\ rep' = [rep EXCEPT !.irqoff = FALSE]
  /\ UNCHANGED <<file, posted, arm, block, t1, disk>>

ReadLine ==
  /\ pc = "line" /\ file.lines < MaxLines
  /\ \E both \in FileLines[file.seen] :
       LET line == both.runner
       IN  \/ BadLine(both, line) \/ JobLine(both, line) \/ Out(both, line)
           \/ NoOut(line) \/ Chstate(both, line) \/ Samples(both, line)
           \/ Run(both, line)

-----------------------------------------------------------------------------
(* run_job *)

Loads == Job.list["load"]

(* slurp: a file once read is kept, and a full cache reads it again *)
Readable(path) == path \in Files

(* aica_quiet, and the RAM zeroed, all of it or the result block *)
Quiet == IF "quiet" \in Job.flags THEN <<"quiet">> ELSE <<>>
Cleared == IF "clear" \in Job.flags THEN <<"RAM">> ELSE <<"RES">>

(* The ARM stopped, the RAM and the registers written, all of it posted *)
Prepare ==
  /\ pc = "prepare" /\ Drained
  /\ arm' = "held"
  /\ IF \A i \in DOMAIN Loads : Readable(Loads[i])
       THEN /\ posted' = Quiet \o Cleared \o Job.list["areg"]
                           \o <<"MCIEB 0x20", "MCIRE 0x7FF">>
            /\ pc' = "ready"
            /\ UNCHANGED file
       ELSE /\ posted' = Quiet \o Cleared
            /\ pc' = "line"
            /\ file' = [file EXCEPT !.err = TRUE]
  /\ UNCHANGED <<rep, aica, block, clk, t1, disk, ghost>>

(* An interrupt that is there before the ARM runs; then t0 and the release *)
StatusFresh(stuck) == IF stuck THEN "stuck" ELSE "done"   \* mutant
Status(stuck) == IF stuck THEN "stuck" ELSE rep.status

Ready ==
  /\ pc = "ready" /\ Drained
  /\ rep' = [rep EXCEPT !.status = Status(Istext)]
  /\ posted' = Append(posted, "release")
  /\ clk' = 0
  /\ ghost' = [ghost EXCEPT !.entry = None, !.raised = None]
  /\ pc' = "clock"
  /\ UNCHANGED <<file, aica, arm, block, t1, disk>>

(* The poll: the clock, then the interrupt, then the timeout *)
ClockTestFirst == IF clk > Timeout THEN "test" ELSE "look"   \* mutant
ClockNext == "look"

Clock ==
  /\ pc = "clock"
  /\ t1' = clk
  /\ pc' = ClockNext
  /\ UNCHANGED <<file, rep, posted, aica, arm, block, clk, disk, ghost>>

Look ==
  /\ pc = "look"
  /\ pc' = IF Istext THEN "stop" ELSE "test"
  /\ UNCHANGED <<file, rep, posted, aica, arm, block, clk, t1, disk, ghost>>

Test ==
  /\ pc = "test"
  /\ IF t1 > Timeout
       THEN pc' = "stop" /\ rep' = [rep EXCEPT !.status = "timeout"]
       ELSE pc' = "clock" /\ UNCHANGED rep
  /\ UNCHANGED <<file, posted, aica, arm, block, clk, t1, disk, ghost>>

Stop ==
  /\ pc = "stop" /\ Drained
  /\ arm' = "held"
  /\ pc' = "collect"
  /\ UNCHANGED <<file, rep, posted, aica, block, clk, t1, disk, ghost>>

(* MCIPD is logged, then the interrupt withdrawn; the next repetition or the *)
(* results.                                                                  *)
Collect ==
  /\ pc = "collect"
  /\ aica' = [aica EXCEPT !.scpu = FALSE, !.eb = FALSE]
  /\ ghost' = [ghost EXCEPT !.all = @ /\ ghost.raised # None]
  /\ IF rep.n < Reps(Job)
       THEN pc' = "prepare" /\ rep' = [rep EXCEPT !.n = @ + 1, !.mcipd = aica.scpu]
       ELSE pc' = "save" /\ rep' = [rep EXCEPT !.mcipd = aica.scpu]
  /\ UNCHANGED <<file, posted, arm, block, clk, t1, disk>>

Saved == [have |-> TRUE, tag |-> block.tag, k |-> block.k, entry |-> ghost.entry]

(* The line, and the .bin file before it, if the job reads anything *)
Logged(d) == [d EXCEPT !.results[Job.name] = rep.status]

Save ==
  /\ pc = "save"
  /\ pc' = "line"
  /\ \/ /\ Reads
        /\ disk' = Logged([disk EXCEPT !.bin[Job.name] = Saved])
        /\ UNCHANGED file
     \/ /\ Reads   \* the file cannot be written
        /\ UNCHANGED disk
        /\ file' = [file EXCEPT !.err = TRUE]
     \/ /\ ~Reads
        /\ disk' = Logged(disk)
        /\ UNCHANGED file
  /\ UNCHANGED <<rep, posted, aica, arm, block, clk, t1, ghost>>

-----------------------------------------------------------------------------

(* The console may have run anything before: interrupts pending, the ARM     *)
(* running, a block in RAM, files of an earlier session whose jobs passed.   *)
Old == [have |-> TRUE, tag |-> TRUE, k |-> 0, entry |-> None]

Init ==
  /\ pc = "start"
  /\ file = [lines |-> 0, seen |-> 0, job |-> EmptyJob, err |-> FALSE,
             njobs |-> 0, hw |-> HwEmpty, whole |-> TRUE]
  /\ rep = [n |-> 0, status |-> "done", mcipd |-> FALSE, want |-> 0,
            ok |-> TRUE, irqoff |-> FALSE]
  /\ posted = <<>>
  /\ \E on \in BOOLEAN :
       /\ aica = [eb |-> on, scpu |-> on, sample |-> FALSE]
       /\ arm = IF on THEN "spin" ELSE "held"
  /\ block = [tag |-> TRUE, k |-> 0]
  /\ clk = 0 /\ t1 = 0
  /\ \E old \in {NoFile, Old} :
       disk = [results |-> [name \in Keys |->
                             IF old.have THEN "done" ELSE "none"],
               bin |-> [name \in Keys |-> old], open |-> FALSE]
  /\ ghost = [entry |-> None, raised |-> None, all |-> TRUE,
            edges |-> 0, blind |-> {}]

Sh4 ==
  \/ Start \/ ReadLine \/ EndOfFile \/ WaitBit \/ ClearBit
  \/ Prepare \/ Ready \/ Clock \/ Look \/ Test \/ Stop \/ Collect \/ Save

Next == Sh4 \/ Drain \/ SampleEdge \/ Tick \/ ProgramEnds \/ StubStep

(* The SH4 runs, writes arrive, time goes on.  Nothing is asked of the ARM's *)
(* program or of the sample clock.                                           *)
Fairness == WF_vars(Sh4) /\ WF_vars(Drain) /\ WF_vars(Tick)

Spec == Init /\ [][Next]_vars /\ Fairness

-----------------------------------------------------------------------------
(* Properties *)

(* Types, and the arrays of job_t never hold more than they have room for,   *)
(* whatever lines the file has (main, lines 276 to 292).                     *)
RunnerTypeOK ==
  /\ pc \in {"start", "line", "exit", "prepare", "ready", "clock", "look", "test",
             "stop", "collect", "save", "samples wait", "samples clear"}
  /\ \A l \in Lists : Len(Job.list[l]) <= Limit[l]
  /\ \A i \in DOMAIN Job.list["rreg"] : Job.list["rreg"][i] <= MaxCount
  /\ rep.status \in {"done", "timeout", "stuck"} /\ clk \in 0 .. Late
  /\ block \in [tag : BOOLEAN, k : Entries]
  /\ disk.results \in [Keys -> {"none", "done", "timeout", "stuck"}]

(* check_vendor's verdict on a console run *)
Pass(name) ==
  LET bin == disk.bin[name]
  IN  disk.results[name] = "done" /\ bin.have /\ bin.tag /\ bin.k = 0

(* A job passes only if its program really ended normally in this session:   *)
(* no block of an earlier run, of an earlier session or half written by the  *)
(* stub is taken for it (hw_suite.cpp, line 170).  The jobs judged are those *)
(* that read their block, as every job of the suites does.                   *)
VerdictTrue ==
  disk.open => \A name \in Names \ ghost.blind :
                 Pass(name) => disk.bin[name].entry = 0

(* A job is logged as done only if every one of its repetitions raised the   *)
(* interrupt itself, and then the block and MCIPD are those of the last one. *)
(* No job is ever stuck: the interrupt of the run before, one that came      *)
(* after its timeout, or one the job's own register writes raised, is        *)
(* withdrawn before the poll (run_job).                                      *)
StatusTrue ==
  /\ rep.status # "stuck"
  /\ pc = "save" /\ rep.status = "done"
       => ghost.all /\ rep.mcipd /\ block = [tag |-> TRUE, k |-> ghost.entry]

(* The runner gives up only on a run that had not raised its interrupt by    *)
(* the timeout, however its steps and the poll's interleave.                 *)
TimeoutTrue ==
  [][pc = "test" /\ pc' = "stop" => ghost.raised \notin 0 .. Timeout]_vars

(* As long as every line was short enough for the runner to read it whole,   *)
(* what parse_jobs refuses the runner has reported, and while the runner has *)
(* reported nothing both readers hold the same job and have run as many,     *)
(* whatever the file orders, repeats or leaves out.  A longer word parts     *)
(* them without a report (runner.c, lines 254 to 282; hwjob.h, lines 50 to   *)
(* 57).                                                                      *)
Same(a, b) ==
  a.name = b.name /\ a.flags = b.flags /\ a.list = b.list /\ Reps(a) = Reps(b)

SameJob ==
  file.whole =>
    /\ file.hw.failed => file.err
    /\ ~file.err => Same(file.hw.cur, Job) /\ file.hw.jobs = file.njobs

(* A calibration without " timeout" has counted exactly its N edges, from    *)
(* the time t0 on, whatever N is.                                            *)
SamplesExact ==
  [][pc = "samples clear" /\ pc' = "line" /\ rep.ok
       => ghost'.edges = rep.want]_vars

(* Every file comes to its end, whatever programs hang and whether the       *)
(* sample clock runs or not (runner.c, lines 297 to 298).                    *)
RunnerEnds == <>(pc = "exit")

=============================================================================
