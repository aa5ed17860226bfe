------------------------------- MODULE JobFile -------------------------------
(***************************************************************************)
(* The console's job file and its two readers: the runner's main loop        *)
(* (model/hw/runner.c), which keeps a job in arrays of fixed size, and       *)
(* parse_jobs (model/tools/hwjob.h), by which the tools run the same file on *)
(* the model.                                                                *)
(***************************************************************************)
EXTENDS Naturals, Sequences

CONSTANTS
  Limit,         \* entries of each array of job_t (8, 64, 1536, 8, 8)
  MaxCount,      \* the reads of one rreg line (64)
  MaxReps,       \* the repetitions of a job (16)
  RunnerWidth,   \* the words after the command, in the runner (159, 159, 31)
  HwWidth,       \* and in parse_jobs (255, 255, 63)
  NameRoom,      \* a job's name in the runner (63)
  Texts,         \* what the words of a file are parts of
  Number(_)      \* strtoul of a word, external

Lists == {"load", "word", "areg", "read", "rreg"}

ASSUME LimitAssumption == Limit \in [Lists -> Nat]
ASSUME CountAssumption == MaxCount \in Nat /\ MaxReps \in Nat \ {0}
ASSUME WidthAssumption ==
  /\ RunnerWidth \in [1 .. 3 -> Nat \ {0}] /\ HwWidth \in [1 .. 3 -> Nat \ {0}]
  /\ NameRoom \in Nat
  /\ \A i \in 1 .. 3 : RunnerWidth[i] <= HwWidth[i]

-----------------------------------------------------------------------------
(* sscanf.  A line of the file is its command and the words after it, and a  *)
(* word is len characters of a text from the from-th on.  A word longer than *)
(* its conversion's width is not refused: its rest is the next word.  Lines  *)
(* have at most 511 characters, so that fgets reads them whole; comments are *)
(* left out.                                                                 *)

Word == [text : Texts, from : Nat, len : Nat]
NoWord == [text |-> "", from |-> 0, len |-> 0]

Prefix(w, n) == IF w.len <= n THEN w ELSE [w EXCEPT !.len = n]
Suffix(w, n) == [text |-> w.text, from |-> w.from + n, len |-> w.len - n]

(* One conversion: the words it and those before it got, and what is left    *)
Scan(s, width) ==
  IF s.left = <<>> THEN s
  ELSE LET w == Head(s.left)
       IN  [got |-> Append(s.got, Prefix(w, width)),
            left |-> IF w.len <= width THEN Tail(s.left)
                     ELSE <<Suffix(w, width)>> \o Tail(s.left)]

Scanned(words, width) ==
  Scan(Scan(Scan([got |-> <<>>, left |-> words], width[1]), width[2]), width[3]).got

(* An areg line raises MCIPD.SCPU, or writes another register.               *)
Areg(offset, value) ==
  IF offset = 10424 /\ (value \div 32) % 2 = 1 THEN "MCIPD" ELSE "other"   \* 0x28B8

(* The line as a reader has it: the command, the number of words n, and what *)
(* of its arguments matters.                                                 *)
Line(cmd, got, room) ==
  LET W(i) == IF i <= Len(got) THEN got[i] ELSE NoWord
  IN  [cmd |-> cmd, n |-> Len(got) + 1,
       arg |-> IF cmd = "job"
                 THEN [name |-> Prefix(W(1), room), repeat |-> Number(W(3))]
               ELSE IF cmd = "rreg" THEN Number(W(2))
               ELSE IF cmd = "samples" THEN Number(W(1))
               ELSE IF cmd = "areg" THEN Areg(Number(W(1)), Number(W(2)))
               ELSE W(2)]

RunnerLine(raw) == Line(raw.cmd, Scanned(raw.words, RunnerWidth), NameRoom)
HwLine(raw) == Line(raw.cmd, Scanned(raw.words, HwWidth), HwWidth[1])

(* Nothing of the line is cut: it means the same to both readers.            *)
Whole(raw) ==
  /\ \A i \in DOMAIN raw.words : i <= 3 => raw.words[i].len <= RunnerWidth[i]
  /\ raw.cmd = "job" /\ raw.words # <<>> => raw.words[1].len <= NameRoom

-----------------------------------------------------------------------------
(* The job.  A job line starts over.                                         *)

EmptyJob ==
  [name |-> NoWord, repeat |-> 0, flags |-> {}, list |-> [l \in Lists |-> <<>>]]

StartedKeep(job, line) ==   \* mutant
  [job EXCEPT !.name = line.arg.name, !.repeat = line.arg.repeat]
Started(job, line) ==
  [name |-> line.arg.name, repeat |-> line.arg.repeat, flags |-> {},
   list |-> [l \in Lists |-> <<>>]]

Clamped(line) ==
  IF line.cmd = "rreg" /\ line.arg > MaxCount THEN MaxCount ELSE line.arg

-----------------------------------------------------------------------------
(* The runner *)

Words(cmd) ==
  IF cmd \in {"clear", "quiet", "chstate", "run"} THEN 1
  ELSE IF cmd \in {"out", "samples"} THEN 2
  ELSE IF cmd \in Lists THEN 3
  ELSE 4

Commands == Lists \cup {"clear", "quiet", "chstate", "run", "out", "samples",
                        "job", "sh4load"}

RoomOneMore(job, cmd) == Len(job.list[cmd]) <= Limit[cmd]   \* mutant
Room(job, cmd) == Len(job.list[cmd]) < Limit[cmd]

Taken(job, line) ==
  /\ line.cmd \in Commands
  /\ line.n >= Words(line.cmd)
  /\ line.cmd \in Lists => Room(job, line.cmd)

(* What a line that is taken does to the job *)
Applied(job, line) ==
  IF line.cmd = "job" THEN Started(job, line)
  ELSE IF line.cmd \in {"clear", "quiet", "sh4load"}
    THEN [job EXCEPT !.flags = @ \cup {line.cmd}]
  ELSE IF line.cmd \in Lists
    THEN [job EXCEPT !.list[line.cmd] = Append(@, Clamped(line))]
  ELSE job

Reps(job) ==
  IF job.repeat < 1 THEN 1 ELSE IF job.repeat > MaxReps THEN MaxReps ELSE job.repeat

-----------------------------------------------------------------------------
(* parse_jobs: the same commands without the limits, and a line it does not  *)
(* know ends it; samples and chstate are skipped.                            *)

HwWords(cmd) == IF cmd \in {"out", "samples"} THEN 1 ELSE Words(cmd)

HwApplied(cur, line) ==
  IF line.cmd = "job"
    THEN [name |-> line.arg.name, repeat |-> line.arg.repeat, flags |-> {},
          list |-> [l \in Lists |-> <<>>]]
  ELSE IF line.cmd \in {"clear", "quiet", "sh4load"}
    THEN [cur EXCEPT !.flags = @ \cup {line.cmd}]
  ELSE IF line.cmd = "rreg"
    THEN [cur EXCEPT !.list["rreg"] =
                       Append(@, IF line.arg < MaxCount THEN line.arg ELSE MaxCount)]
  ELSE IF line.cmd \in Lists
    THEN [cur EXCEPT !.list[line.cmd] = Append(@, line.arg)]
  ELSE cur

(* A fresh HwJob has one repetition.                                         *)
HwEmpty ==
  [cur |-> [EmptyJob EXCEPT !.repeat = 1], jobs |-> 0, failed |-> FALSE]

HwRead(hw, line) ==
  IF hw.failed THEN hw
  ELSE IF line.cmd \notin Commands \/ line.n < HwWords(line.cmd)
    THEN [hw EXCEPT !.failed = TRUE]
  ELSE [cur |-> HwApplied(hw.cur, line), failed |-> FALSE,
        jobs |-> hw.jobs + (IF line.cmd = "run" THEN 1 ELSE 0)]

=============================================================================
