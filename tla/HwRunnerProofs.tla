---------------------------- MODULE HwRunnerProofs ----------------------------
(***************************************************************************)
(* Proofs about HwRunner: what a job's results line and the block it left    *)
(* say is true, for every job file, array size, program and timeout.         *)
(***************************************************************************)
EXTENDS HwRunner, SequenceTheorems, TLAPS

-----------------------------------------------------------------------------
(* Types *)

(* What the lines of a file have for arguments                               *)
Given ==
  UNION {{both.runner.arg : both \in FileLines[seen]}
           \cup {both.hw.arg : both \in FileLines[seen]} : seen \in 0 .. MaxLines}
Args == Given \cup Nat

JobType ==
  [name : Keys, repeat : Nat, flags : SUBSET {"clear", "quiet", "sh4load"},
   list : [Lists -> Seq(Args)]]
HwType == [cur : JobType, jobs : Nat, failed : BOOLEAN]
FileType ==
  [lines : Nat, seen : Nat, job : JobType, err : BOOLEAN, njobs : Nat,
   hw : HwType, whole : BOOLEAN]

Statuses == {"done", "timeout", "stuck"}
RepType ==
  [n : Nat, status : Statuses, mcipd : BOOLEAN, want : Nat, ok : BOOLEAN,
   irqoff : BOOLEAN]
AicaType == [eb : BOOLEAN, scpu : BOOLEAN, sample : BOOLEAN]
Writes == Aregs \cup {"quiet", "RAM", "RES", "MCIEB 0x20", "MCIRE 0x7FF", "release"}
BlockType == [tag : BOOLEAN, k : Entries]
BinType == [have : BOOLEAN, tag : BOOLEAN, k : Nat, entry : Nat \cup {None}]
DiskType ==
  [results : [Keys -> Statuses \cup {"none"}], bin : [Keys -> BinType],
   open : BOOLEAN]
GhostType ==
  [entry : Entries \cup {None}, raised : Nat \cup {None}, all : BOOLEAN,
   edges : Nat, blind : SUBSET Keys]

TypeInv ==
  /\ pc \in {"start", "line", "exit", "prepare", "ready", "clock", "look", "test",
             "stop", "collect", "save", "samples wait", "samples clear"}
  /\ arm \in {"held", "run", "registers", "tag", "raise", "spin"}
  /\ file \in FileType /\ file.lines <= MaxLines /\ file.seen <= file.lines
  /\ rep \in RepType /\ aica \in AicaType /\ posted \in Seq(Writes)
  /\ block \in BlockType /\ clk \in 0 .. Late /\ t1 \in Nat
  /\ disk \in DiskType /\ ghost \in GhostType

-----------------------------------------------------------------------------
(* The invariant *)

(* The job fits its arrays, and its register writes release no ARM.          *)
Fits(job) ==
  /\ \A l \in Lists : Len(job.list[l]) <= Limit[l]
  /\ \A i \in DOMAIN job.list["rreg"] : job.list["rreg"][i] <= MaxCount
  /\ \A i \in DOMAIN job.list["areg"] : job.list["areg"][i] \in Aregs
JobFits == Fits(Job)

(* The ARM is still but from the release to the stop.                        *)
NoRelease == \A i \in DOMAIN posted : posted[i] # "release"
Still ==
  /\ pc = "start" => arm \in {"held", "spin"} /\ posted = <<>>
  /\ pc = "exit" => arm \in {"held", "spin"} /\ NoRelease
  /\ pc \in {"line", "prepare", "ready", "collect", "save"} => arm = "held" /\ NoRelease
  /\ pc \in {"samples wait", "samples clear", "collect", "save"} =>
       arm = "held" /\ posted = <<>>

(* However much is still on its way, the interrupt is withdrawn last.        *)
Withdrawn ==
  pc = "ready" =>
    \/ posted = <<>> /\ aica.eb /\ ~aica.scpu
    \/ Len(posted) = 1 /\ posted[1] = "MCIRE 0x7FF" /\ aica.eb
    \/ /\ Len(posted) >= 2
       /\ posted[Len(posted) - 1] = "MCIEB 0x20"
       /\ posted[Len(posted)] = "MCIRE 0x7FF"

(* From the release on the interrupt is the stub's, and its block before it. *)
Ran ==
  pc \in {"clock", "look", "test", "stop"} =>
    /\ aica.eb
    /\ posted \in {<<>>, <<"release">>}
    /\ posted # <<>> => arm = "held"
    /\ arm # "spin" => ghost.raised = None /\ ~aica.scpu
    /\ arm \notin {"held", "run"} => ghost.entry \in Entries
    /\ arm \in {"tag", "raise", "spin"} => block.k = ghost.entry
    /\ arm \in {"raise", "spin"} => block.tag
    /\ arm = "spin" => ghost.raised \in Nat /\ aica.scpu

(* The poll has seen everything that was raised before its clock.            *)
Seen ==
  /\ pc \in {"look", "test"} => t1 <= clk
  /\ pc = "test" /\ ghost.raised # None => t1 <= ghost.raised

(* What "done" stands for so far                                             *)
Ended == block.tag /\ block.k = ghost.entry /\ ghost.entry \in Entries
Done ==
  /\ rep.status # "stuck"
  /\ rep.status = "done" =>
       /\ pc \in {"prepare", "ready", "clock", "look", "test", "stop", "collect",
                  "save"} => ghost.all
       /\ pc = "stop" => arm = "spin" /\ aica.scpu
       /\ pc = "collect" => Ended /\ aica.scpu /\ ghost.raised # None
       /\ pc = "save" => Ended /\ rep.mcipd

(* A job that reads nothing is not judged.                                   *)
Blind ==
  pc \in {"prepare", "ready", "clock", "look", "test", "stop", "collect", "save"}
    /\ ~Reads => Job.name \in ghost.blind

(* The edges counted are those since the first wait.                         *)
Counted ==
  /\ pc \in {"samples wait", "samples clear"} =>
       /\ rep.irqoff /\ rep.n <= rep.want
       /\ rep.ok /\ rep.n > 0 =>
            ghost.edges = rep.n - 1 + (IF aica.sample THEN 1 ELSE 0)
  /\ pc = "samples wait" => rep.ok
  /\ pc = "samples clear" /\ rep.ok => aica.sample

RunnerInv ==
  /\ TypeInv /\ JobFits /\ SameJob
  /\ Still /\ Withdrawn /\ Ran /\ Seen /\ Done
  /\ Blind /\ VerdictTrue /\ Counted

-----------------------------------------------------------------------------
(* The lines, and what they do to a job *)

LineOK(line) ==
  /\ line.arg \in Args /\ line.n \in Nat
  /\ line.cmd \in {"rreg", "samples"} => line.arg \in Nat
  /\ line.cmd = "areg" => line.arg \in Aregs
  /\ line.cmd = "job" => line.arg.name \in Keys /\ line.arg.repeat \in Nat

LEMMA SuffixType ==
  ASSUME NEW w \in Word, NEW width \in Nat, w.len > width
  PROVE  Suffix(w, width) \in Word
<1>1. w.text \in Texts /\ w.from \in Nat /\ w.len \in Nat
  BY DEF Word
<1>2. w.from + width \in Nat /\ w.len - width \in Nat
  BY <1>1
<1>3. QED
  BY <1>1, <1>2 DEF Suffix, Word

ScanStates == [got : Seq(Word), left : Seq(Word)]

LEMMA ScanType ==
  ASSUME NEW s \in ScanStates, NEW width \in Nat
  PROVE  Scan(s, width) \in ScanStates
<1>1. CASE s.left = <<>>
  BY <1>1 DEF Scan
<1>2. CASE s.left # <<>>
  <2> DEFINE w == Head(s.left)
  <2>1. s.got \in Seq(Word) /\ s.left \in Seq(Word)
    BY DEF ScanStates
  <2>2. w \in Word /\ Tail(s.left) \in Seq(Word)
    BY <1>2, <2>1
  <2>3. Prefix(w, width) \in Word
    BY <2>2 DEF Prefix, Word
  <2>4. w.len > width => Suffix(w, width) \in Word
    BY <2>2, SuffixType
  <2>5. w.len > width => <<Suffix(w, width)>> \o Tail(s.left) \in Seq(Word)
    <3>1. w.len > width => <<Suffix(w, width)>> \in Seq(Word)
      BY <2>4
    <3>2. QED
      BY <2>2, <3>1
  <2>6. Append(s.got, Prefix(w, width)) \in Seq(Word)
    BY <2>1, <2>3
  <2>7. w.len \in Nat
    BY <2>2 DEF Word
  <2> DEFINE left == IF w.len <= width THEN Tail(s.left)
                     ELSE <<Suffix(w, width)>> \o Tail(s.left)
  <2>8. left \in Seq(Word)
    BY <2>2, <2>5, <2>7
  <2>9. Scan(s, width) = [got |-> Append(s.got, Prefix(w, width)), left |-> left]
    BY <1>2 DEF Scan
  <2> HIDE DEF w, left
  <2>10. QED
    BY <2>6, <2>8, <2>9 DEF ScanStates
<1>3. QED
  BY <1>1, <1>2

LEMMA ScannedType ==
  ASSUME NEW words \in Seq(Word), NEW width \in [1 .. 3 -> Nat \ {0}]
  PROVE  Scanned(words, width) \in Seq(Word)
<1> DEFINE s == [got |-> <<>>, left |-> words]
<1>1. s \in ScanStates
  <2>1. <<>> \in Seq(Word)
    OBVIOUS
  <2>2. QED
    BY <2>1 DEF ScanStates
<1>2. width[1] \in Nat /\ width[2] \in Nat /\ width[3] \in Nat
  OBVIOUS
<1> HIDE DEF s
<1>3. Scan(s, width[1]) \in ScanStates
  BY <1>1, <1>2, ScanType
<1>4. Scan(Scan(s, width[1]), width[2]) \in ScanStates
  BY <1>2, <1>3, ScanType
<1>5. Scan(Scan(Scan(s, width[1]), width[2]), width[3]) \in ScanStates
  BY <1>2, <1>4, ScanType
<1>6. QED
  BY <1>5 DEF Scanned, ScanStates, s

LEMMA LineIs ==
  ASSUME NEW cmd, NEW got, NEW room
  PROVE  /\ Line(cmd, got, room).cmd = cmd
         /\ Line(cmd, got, room).n = Len(got) + 1
         /\ cmd = "areg" => Line(cmd, got, room).arg \in Aregs
BY DEF Line, Areg, Aregs

LEMMA LinesOK ==
  ASSUME TypeInv, file.lines < MaxLines, NEW both \in FileLines[file.seen]
  PROVE  /\ LineOK(both.runner) /\ LineOK(both.hw) /\ both.whole \in BOOLEAN
         /\ \E raw : /\ raw.words \in Seq(Word)
                    /\ both.runner = RunnerLine(raw) /\ both.hw = HwLine(raw)
                    /\ both.whole = Whole(raw)
<1>1. file.seen \in 0 .. MaxLines
  <2>1. file.seen \in Nat /\ file.lines \in Nat
    BY DEF TypeInv, FileType
  <2>2. file.lines <= MaxLines /\ file.seen <= file.lines
    BY DEF TypeInv
  <2>3. QED
    BY <2>1, <2>2, BoundsAssumption
<1>2. PICK raw \in Lines(file.seen) :
        both = [runner |-> RunnerLine(raw), hw |-> HwLine(raw), whole |-> Whole(raw)]
  BY <1>1 DEF FileLines
<1>3. both.runner = RunnerLine(raw) /\ both.hw = HwLine(raw) /\ both.whole = Whole(raw)
  BY <1>2
<1>4. raw.words \in Seq(Word)
  BY <1>1, <1>2, LinesAssumption
<1>5. ASSUME NEW line \in {both.runner, both.hw}
      PROVE  LineOK(line)
  <2>1. line.arg \in Args
    <3>1. line.arg \in {b.runner.arg : b \in FileLines[file.seen]}
                         \cup {b.hw.arg : b \in FileLines[file.seen]}
      BY <1>5
    <3>2. QED
      BY <1>1, <3>1 DEF Args, Given
  <2>2. line.n \in Nat /\ (line.cmd = "areg" => line.arg \in Aregs)
    <3>1. /\ Scanned(raw.words, RunnerWidth) \in Seq(Word)
          /\ Scanned(raw.words, HwWidth) \in Seq(Word)
      BY <1>4, ScannedType, WidthAssumption
    <3>2. CASE line = both.runner
      BY <1>3, <3>1, <3>2, LineIs DEF RunnerLine
    <3>3. CASE line = both.hw
      BY <1>3, <3>1, <3>3, LineIs DEF HwLine
    <3>4. QED
      BY <1>5, <3>2, <3>3
  <2>3. /\ line.cmd \in {"rreg", "samples"} => line.arg \in Nat
        /\ line.cmd = "job" => line.arg.name \in Names /\ line.arg.repeat \in Nat
    BY <1>1, <1>5, LinesAssumption
  <2>4. QED
    BY <2>1, <2>2, <2>3 DEF LineOK, Keys
<1>6. Whole(raw) \in BOOLEAN
  BY DEF Whole
<1>7. QED
  BY <1>3, <1>4, <1>5, <1>6

(* A word that is short enough is read whole, whatever the width.            *)
Took(s, t) ==
  /\ t.got = IF s.left = <<>> THEN s.got ELSE Append(s.got, Head(s.left))
  /\ t.left = IF s.left = <<>> THEN <<>> ELSE Tail(s.left)

LEMMA ScanShort ==
  ASSUME NEW s \in ScanStates, NEW width \in Nat,
         s.left # <<>> => s.left[1].len <= width
  PROVE  Scan(s, width) \in ScanStates /\ Took(s, Scan(s, width))
<1>1. Scan(s, width) \in ScanStates
  BY ScanType
<1>2. CASE s.left = <<>>
  BY <1>1, <1>2 DEF Scan, Took
<1>3. CASE s.left # <<>>
  <2>1. s.left \in Seq(Word)
    BY DEF ScanStates
  <2>2. Head(s.left) = s.left[1]
    BY <1>3, <2>1
  <2>3. Head(s.left).len <= width
    BY <1>3, <2>2
  <2>4. Scan(s, width) = [got |-> Append(s.got, Head(s.left)), left |-> Tail(s.left)]
    BY <1>3, <2>3 DEF Scan, Prefix
  <2>5. QED
    BY <1>1, <1>3, <2>4 DEF Took
<1>4. QED
  BY <1>2, <1>3

LEMMA TookOnce ==
  ASSUME NEW s \in ScanStates, NEW t \in ScanStates, NEW u \in ScanStates,
         Took(s, t), Took(s, u)
  PROVE  t = u
<1>1. t.got = u.got /\ t.left = u.left
  BY DEF Took
<1>2. QED
  BY <1>1 DEF ScanStates

(* Three words that are short enough, whatever the widths                    *)
Short(words, width) ==
  \A i \in DOMAIN words : i <= 3 => words[i].len <= width[i]

LEMMA ScannedShort ==
  ASSUME NEW words \in Seq(Word),
         NEW v \in [1 .. 3 -> Nat \ {0}], NEW w \in [1 .. 3 -> Nat \ {0}],
         Short(words, v), Short(words, w)
  PROVE  /\ Scanned(words, v) = Scanned(words, w)
         /\ words = <<>> => Scanned(words, v) = <<>>
         /\ words # <<>> => Scanned(words, v)[1] = words[1]
<1> DEFINE s == [got |-> <<>>, left |-> words]
           a(x) == Scan(s, x[1])
           b(x) == Scan(a(x), x[2])
           c(x) == Scan(b(x), x[3])
<1>1. s \in ScanStates /\ s.got = <<>> /\ s.left = words
  <2>1. <<>> \in Seq(Word)
    OBVIOUS
  <2>2. QED
    BY <2>1 DEF ScanStates
<1>2. Len(words) \in Nat /\ DOMAIN words = 1 .. Len(words)
  OBVIOUS
<1>3. ASSUME NEW x \in {v, w}
      PROVE  /\ a(x) \in ScanStates /\ b(x) \in ScanStates /\ c(x) \in ScanStates
             /\ Took(s, a(x)) /\ Took(a(x), b(x)) /\ Took(b(x), c(x))
  <2>0. x[1] \in Nat /\ x[2] \in Nat /\ x[3] \in Nat /\ Short(words, x)
    BY <1>3
  <2>1. words # <<>> => words[1].len <= x[1]
    BY <1>2, <2>0 DEF Short
  <2>2. Len(words) >= 2 => words[2].len <= x[2]
    BY <1>2, <2>0 DEF Short
  <2>3. Len(words) >= 3 => words[3].len <= x[3]
    BY <1>2, <2>0 DEF Short
  <2> HIDE DEF s
  <2>4. a(x) \in ScanStates /\ Took(s, a(x))
    BY <1>1, <2>0, <2>1, ScanShort
  <2>5. /\ a(x).left = IF words = <<>> THEN <<>> ELSE Tail(words)
        /\ a(x).left # <<>> => Len(words) >= 2 /\ a(x).left[1] = words[2]
        /\ a(x).left # <<>> /\ Tail(a(x).left) # <<>>
             => Len(words) >= 3 /\ Tail(a(x).left)[1] = words[3]
    <3>1. a(x).left = IF words = <<>> THEN <<>> ELSE Tail(words)
      BY <1>1, <2>4 DEF Took
    <3>2. words # <<>> =>
            /\ Len(Tail(words)) = Len(words) - 1
            /\ \A i \in 1 .. Len(words) - 1 : Tail(words)[i] = words[i + 1]
      OBVIOUS
    <3>3. words # <<>> /\ Tail(words) # <<>> =>
            /\ Len(words) >= 2
            /\ Len(Tail(Tail(words))) = Len(words) - 2
            /\ \A i \in 1 .. Len(words) - 2 : Tail(Tail(words))[i] = words[i + 2]
      OBVIOUS
    <3>4. words # <<>> /\ Tail(words) # <<>> /\ Tail(Tail(words)) # <<>> => Len(words) >= 3
      BY <3>3
    <3>5. QED
      BY <1>2, <3>1, <3>2, <3>3, <3>4
  <2> HIDE DEF a
  <2>6. b(x) \in ScanStates /\ Took(a(x), b(x))
    BY <2>0, <2>2, <2>4, <2>5, ScanShort
  <2>7. b(x).left # <<>> => Len(words) >= 3 /\ b(x).left[1] = words[3]
    BY <2>5, <2>6 DEF Took
  <2> HIDE DEF b
  <2>8. c(x) \in ScanStates /\ Took(b(x), c(x))
    BY <2>0, <2>3, <2>6, <2>7, ScanShort
  <2>9. QED
    BY <2>4, <2>6, <2>8
<1>4. \A x \in {v, w} : Scanned(words, x) = c(x).got
  BY DEF Scanned
<1> HIDE DEF s, a, b, c
<1>5. a(v) = a(w)
  BY <1>1, <1>3, TookOnce
<1>6. b(v) = b(w)
  BY <1>3, <1>5, TookOnce
<1>7. c(v) = c(w)
  BY <1>3, <1>6, TookOnce
<1>8. CASE words = <<>>
  <2>1. a(v).got = <<>> /\ a(v).left = <<>>
    BY <1>1, <1>3, <1>8 DEF Took
  <2>2. b(v).got = <<>> /\ b(v).left = <<>>
    BY <1>3, <2>1 DEF Took
  <2>3. c(v).got = <<>>
    BY <1>3, <2>2 DEF Took
  <2>4. QED
    BY <1>4, <1>7, <1>8, <2>3
<1>9. CASE words # <<>>
  <2>1. /\ a(v).got \in Seq(Word) /\ a(v).got # <<>> /\ a(v).got[1] = words[1]
    <3>1. words[1] \in Word /\ Head(words) = words[1]
      BY <1>9
    <3>2. a(v).got = Append(<<>>, words[1])
      BY <1>1, <1>3, <1>9, <3>1 DEF Took
    <3>3. Append(<<>>, words[1]) \in Seq(Word) /\ Append(<<>>, words[1])[1] = words[1]
          /\ Append(<<>>, words[1]) # <<>>
      BY <3>1
    <3>4. QED
      BY <3>2, <3>3
  <2>2. ASSUME NEW q, NEW t, q \in ScanStates, t \in ScanStates, Took(q, t),
               q.got # <<>>, q.got[1] = words[1]
        PROVE  t.got # <<>> /\ t.got[1] = words[1]
    <3>1. q.got \in Seq(Word) /\ q.left \in Seq(Word)
      BY <2>2 DEF ScanStates
    <3>2. CASE q.left = <<>>
      BY <2>2, <3>2 DEF Took
    <3>3. CASE q.left # <<>>
      <4>1. t.got = Append(q.got, Head(q.left)) /\ Head(q.left) \in Word
        BY <2>2, <3>1, <3>3 DEF Took
      <4>2. /\ Append(q.got, Head(q.left)) # <<>>
            /\ Append(q.got, Head(q.left))[1] = q.got[1]
        <5>1. Len(q.got) \in Nat /\ 1 <= Len(q.got)
          BY <2>2, <3>1
        <5>2. QED
          BY <3>1, <4>1, <5>1
      <4>3. QED
        BY <2>2, <4>1, <4>2
    <3>4. QED
      BY <3>2, <3>3
  <2>3. b(v).got # <<>> /\ b(v).got[1] = words[1]
    BY <1>3, <2>1, <2>2
  <2>4. c(v).got # <<>> /\ c(v).got[1] = words[1]
    BY <1>3, <2>2, <2>3
  <2>5. QED
    BY <1>4, <1>7, <1>9, <2>4
<1>10. QED
  BY <1>8, <1>9

(* A line that is read whole means the same to both readers.                 *)
LEMMA WholeSame ==
  ASSUME NEW raw, raw.words \in Seq(Word), Whole(raw)
  PROVE  RunnerLine(raw) = HwLine(raw)
<1> DEFINE words == raw.words
           got == Scanned(words, RunnerWidth)
           first == IF 1 <= Len(got) THEN got[1] ELSE NoWord
<1>1. words \in Seq(Word) /\ Short(words, RunnerWidth)
  BY DEF Whole, Short
<1>2. Short(words, HwWidth)
  <2>1. ASSUME NEW i \in DOMAIN words, i <= 3 PROVE words[i].len <= HwWidth[i]
    <3>1. i \in 1 .. 3 /\ words[i] \in Word
      BY <1>1, <2>1
    <3>2. words[i].len <= RunnerWidth[i]
      BY <1>1, <2>1 DEF Short
    <3>3. words[i].len \in Nat
      BY <3>1 DEF Word
    <3>4. RunnerWidth[i] \in Nat /\ HwWidth[i] \in Nat /\ RunnerWidth[i] <= HwWidth[i]
      BY <3>1, WidthAssumption
    <3>5. QED
      BY <3>2, <3>3, <3>4
  <2>2. QED
    BY <2>1 DEF Short
<1>3. /\ Scanned(words, HwWidth) = got
      /\ words = <<>> => got = <<>>
      /\ words # <<>> => got[1] = words[1]
  BY <1>1, <1>2, ScannedShort, WidthAssumption
<1>4. raw.cmd = "job" => Prefix(first, NameRoom) = first
  <2>1. CASE words = <<>>
    <3>1. first = NoWord /\ NoWord.len = 0
      <4>1. got = <<>> /\ Len(<<>>) = 0
        BY <1>3, <2>1
      <4>2. ~(1 <= Len(got))
        BY <4>1
      <4>3. QED
        BY <4>2 DEF NoWord
    <3>2. first.len <= NameRoom
      BY <3>1, WidthAssumption
    <3>3. QED
      BY <3>2 DEF Prefix
  <2>2. CASE words # <<>> /\ raw.cmd = "job"
    <3>1. words[1].len <= NameRoom /\ NoWord.len <= NameRoom
      BY <2>2, WidthAssumption DEF Whole, NoWord
    <3>2. first = words[1] \/ first = NoWord
      BY <1>3, <2>2
    <3>3. first.len <= NameRoom
      BY <3>1, <3>2
    <3>4. QED
      BY <3>3 DEF Prefix
  <2>3. QED
    BY <2>1, <2>2
<1>5. Prefix(first, HwWidth[1]) = first
  <2>1. first.len <= HwWidth[1]
    <3>1. CASE words = <<>>
      BY <1>3, <3>1, WidthAssumption DEF NoWord
    <3>2. CASE words # <<>>
      <4>1. words[1].len <= HwWidth[1] /\ NoWord.len <= HwWidth[1]
        BY <1>1, <1>2, <3>2, WidthAssumption DEF Short, NoWord
      <4>2. first = words[1] \/ first = NoWord
        BY <1>3, <3>2
      <4>3. QED
        BY <4>1, <4>2
    <3>3. QED
      BY <3>1, <3>2
  <2>2. QED
    BY <2>1 DEF Prefix
<1> HIDE DEF got
<1>6. Line(raw.cmd, got, NameRoom) = Line(raw.cmd, got, HwWidth[1])
  BY <1>4, <1>5 DEF Line
<1>7. QED
  BY <1>3, <1>6 DEF RunnerLine, HwLine, got

LEMMA EmptyType == EmptyJob \in JobType
<1>1. \A l \in Lists : <<>> \in Seq(Args)
  OBVIOUS
<1>2. QED
  BY <1>1 DEF EmptyJob, JobType, Keys

LEMMA NatArgs == Nat \subseteq Args
BY DEF Args

LEMMA ClampedType ==
  ASSUME NEW line, LineOK(line)
  PROVE  /\ Clamped(line) \in Args
         /\ line.cmd = "rreg" => Clamped(line) <= MaxCount
         /\ line.cmd = "areg" => Clamped(line) \in Aregs
         /\ line.cmd = "rreg" =>
              Clamped(line) = IF line.arg < MaxCount THEN line.arg ELSE MaxCount
         /\ line.cmd # "rreg" => Clamped(line) = line.arg
BY CountAssumption, NatArgs DEF Clamped, LineOK

LEMMA GrownType ==
  ASSUME NEW job \in JobType, NEW l \in Lists, NEW e \in Args
  PROVE  /\ [job EXCEPT !.list[l] = Append(@, e)] \in JobType
         /\ [job EXCEPT !.list[l] = Append(@, e)].list
              = [job.list EXCEPT ![l] = Append(job.list[l], e)]
<1>1. job.list[l] \in Seq(Args)
  BY DEF JobType
<1>2. Append(job.list[l], e) \in Seq(Args)
  BY <1>1
<1>3. [job.list EXCEPT ![l] = Append(job.list[l], e)] \in [Lists -> Seq(Args)]
  BY <1>2 DEF JobType
<1>4. [job EXCEPT !.list[l] = Append(@, e)]
        = [job EXCEPT !.list = [job.list EXCEPT ![l] = Append(job.list[l], e)]]
  OBVIOUS
<1>5. QED
  BY <1>3, <1>4 DEF JobType

LEMMA StartedIs ==
  ASSUME NEW job, NEW line, LineOK(line), line.cmd = "job"
  PROVE  /\ Started(job, line) \in JobType
         /\ Started(job, line).list = [l \in Lists |-> <<>>]
<1>1. [l \in Lists |-> <<>>] \in [Lists -> Seq(Args)]
  OBVIOUS
<1>2. QED
  BY <1>1 DEF Started, JobType, LineOK

LEMMA AppliedType ==
  ASSUME NEW job \in JobType, NEW line, LineOK(line)
  PROVE  Applied(job, line) \in JobType
<1>1. CASE line.cmd = "job"
  BY <1>1, StartedIs DEF Applied
<1>2. CASE line.cmd \in {"clear", "quiet", "sh4load"}
  BY <1>2 DEF Applied, JobType
<1>3. CASE line.cmd \in Lists
  BY <1>3, GrownType, ClampedType DEF Applied, Lists
<1>4. CASE line.cmd \notin {"job", "clear", "quiet", "sh4load"} \cup Lists
  BY <1>4 DEF Applied
<1>5. QED
  BY <1>1, <1>2, <1>3, <1>4

LEMMA AppliedFits ==
  ASSUME NEW job \in JobType, NEW line, LineOK(line), Fits(job), Taken(job, line)
  PROVE  Fits(Applied(job, line))
<1>1. CASE line.cmd = "job"
  BY <1>1, StartedIs, LimitAssumption DEF Applied, Fits, Lists
<1>2. CASE line.cmd \in {"clear", "quiet", "sh4load"}
  <2>1. Applied(job, line).list = job.list
    BY <1>2 DEF Applied, JobType
  <2>2. QED
    BY <2>1 DEF Fits
<1>3. CASE line.cmd \in Lists
  <2> DEFINE l == line.cmd
             e == Clamped(line)
             s == job.list[l]
  <2>1. s \in Seq(Args) /\ e \in Args /\ Len(s) < Limit[l]
    BY <1>3, ClampedType DEF JobType, Taken, Room
  <2>2. /\ Applied(job, line) = [job EXCEPT !.list[l] = Append(@, e)]
        /\ Applied(job, line).list = [job.list EXCEPT ![l] = Append(s, e)]
    BY <1>3, <2>1, GrownType DEF Applied, Lists
  <2>3. \A k \in Lists : Applied(job, line).list[k]
                           = IF k = l THEN Append(s, e) ELSE job.list[k]
    BY <1>3, <2>2 DEF JobType
  <2>4. /\ Len(Append(s, e)) = Len(s) + 1
        /\ DOMAIN Append(s, e) = 1 .. Len(s) + 1 /\ DOMAIN s = 1 .. Len(s)
        /\ \A i \in 1 .. Len(s) : Append(s, e)[i] = s[i]
        /\ Append(s, e)[Len(s) + 1] = e
    BY <2>1
  <2>5. \A k \in Lists : Len(Applied(job, line).list[k]) <= Limit[k]
    <3>1. \A k \in Lists : Limit[k] \in Nat /\ Len(job.list[k]) <= Limit[k]
      BY LimitAssumption DEF Fits
    <3>2. Len(s) \in Nat /\ Len(Append(s, e)) <= Limit[l]
      BY <1>3, <2>1, <2>4, <3>1
    <3>3. QED
      BY <2>3, <3>1, <3>2
  <2>6. ASSUME NEW i \in DOMAIN Applied(job, line).list["rreg"]
        PROVE  Applied(job, line).list["rreg"][i] <= MaxCount
    <3>1. CASE l = "rreg"
      <4>1. i \in 1 .. Len(s) + 1
        BY <2>3, <2>4, <2>6, <3>1 DEF Lists
      <4>2. CASE i \in 1 .. Len(s)
        BY <2>3, <2>4, <3>1, <4>2 DEF Fits, Lists
      <4>3. CASE i = Len(s) + 1
        BY <2>3, <2>4, <3>1, <4>3, ClampedType DEF Lists
      <4>4. QED
        BY <2>1, <4>1, <4>2, <4>3
    <3>2. CASE l # "rreg"
      BY <2>3, <2>6, <3>2 DEF Fits, Lists
    <3>3. QED
      BY <3>1, <3>2
  <2>7. ASSUME NEW i \in DOMAIN Applied(job, line).list["areg"]
        PROVE  Applied(job, line).list["areg"][i] \in Aregs
    <3>1. CASE l = "areg"
      <4>1. i \in 1 .. Len(s) + 1
        BY <2>3, <2>4, <2>7, <3>1 DEF Lists
      <4>2. CASE i \in 1 .. Len(s)
        BY <2>3, <2>4, <3>1, <4>2 DEF Fits, Lists
      <4>3. CASE i = Len(s) + 1
        BY <2>3, <2>4, <3>1, <4>3, ClampedType DEF Lists
      <4>4. QED
        BY <2>1, <4>1, <4>2, <4>3
    <3>2. CASE l # "areg"
      BY <2>3, <2>7, <3>2 DEF Fits, Lists
    <3>3. QED
      BY <3>1, <3>2
  <2>8. QED
    BY <2>5, <2>6, <2>7 DEF Fits
<1>4. CASE line.cmd \notin {"job", "clear", "quiet", "sh4load"} \cup Lists
  BY <1>4 DEF Applied
<1>5. QED
  BY <1>1, <1>2, <1>3, <1>4

(* Both readers of the file do the same with a line.                         *)
LEMMA ReadersAgree ==
  ASSUME NEW job \in JobType, NEW line, LineOK(line)
  PROVE  HwApplied(job, line) = Applied(job, line)
<1>1. CASE line.cmd = "job"
  BY <1>1 DEF Applied, HwApplied, Started, Lists
<1>2. CASE line.cmd \in Lists
  BY <1>2, ClampedType DEF Applied, HwApplied, Lists
<1>3. CASE line.cmd \notin {"job"} \cup Lists
  BY <1>3 DEF Applied, HwApplied, Lists
<1>4. QED
  BY <1>1, <1>2, <1>3

LEMMA HwReadIs ==
  ASSUME NEW hw \in HwType, NEW line, LineOK(line)
  PROVE  LET skip == line.cmd \notin Commands \/ line.n < HwWords(line.cmd)
         IN  /\ HwRead(hw, line) \in HwType
             /\ hw.failed => HwRead(hw, line) = hw
             /\ ~hw.failed /\ skip => HwRead(hw, line).failed
             /\ ~hw.failed /\ ~skip =>
                  /\ ~HwRead(hw, line).failed
                  /\ HwRead(hw, line).cur = Applied(hw.cur, line)
                  /\ HwRead(hw, line).jobs
                       = hw.jobs + (IF line.cmd = "run" THEN 1 ELSE 0)
<1> DEFINE skip == line.cmd \notin Commands \/ line.n < HwWords(line.cmd)
           one == IF line.cmd = "run" THEN 1 ELSE 0
           cur == Applied(hw.cur, line)
<1>1. cur \in JobType /\ HwApplied(hw.cur, line) = cur /\ one \in Nat
  BY AppliedType, ReadersAgree DEF HwType
<1>2. HwRead(hw, line)
        = IF hw.failed THEN hw
          ELSE IF skip THEN [hw EXCEPT !.failed = TRUE]
          ELSE [cur |-> cur, failed |-> FALSE, jobs |-> hw.jobs + one]
  BY <1>1 DEF HwRead
<1> HIDE DEF skip, one, cur
<1>3. /\ HwRead(hw, line) \in HwType
      /\ hw.failed => HwRead(hw, line) = hw
      /\ ~hw.failed /\ skip => HwRead(hw, line).failed
      /\ ~hw.failed /\ ~skip =>
           /\ ~HwRead(hw, line).failed
           /\ HwRead(hw, line).cur = cur
           /\ HwRead(hw, line).jobs = hw.jobs + one
  <2>1. CASE hw.failed
    BY <1>2, <2>1
  <2>2. CASE ~hw.failed /\ skip
    BY <1>2, <2>2 DEF HwType
  <2>3. CASE ~hw.failed /\ ~skip
    BY <1>1, <1>2, <2>3 DEF HwType
  <2>4. QED
    BY <2>1, <2>2, <2>3 DEF HwType
<1>4. QED
  BY <1>3 DEF skip, one, cur

LEMMA SameApplied ==
  ASSUME NEW a \in JobType, NEW b \in JobType, NEW line, LineOK(line), Same(a, b)
  PROVE  Same(Applied(a, line), Applied(b, line))
<1>1. CASE line.cmd = "job"
  BY <1>1 DEF Applied, Started, Same
<1>2. CASE line.cmd \in {"clear", "quiet", "sh4load"}
  BY <1>2 DEF Applied, Same, Reps, JobType
<1>3. CASE line.cmd \in Lists
  <2> DEFINE l == line.cmd
             e == Clamped(line)
  <2>1. e \in Args /\ a.list = b.list
    BY ClampedType DEF Same
  <2>2. /\ Applied(a, line) = [a EXCEPT !.list[l] = Append(@, e)]
        /\ Applied(b, line) = [b EXCEPT !.list[l] = Append(@, e)]
    BY <1>3 DEF Applied, Lists
  <2> HIDE DEF e
  <2>3. /\ Applied(a, line).list = [a.list EXCEPT ![l] = Append(a.list[l], e)]
        /\ Applied(b, line).list = [b.list EXCEPT ![l] = Append(b.list[l], e)]
    BY <1>3, <2>1, <2>2, GrownType
  <2>4. /\ Applied(a, line).name = a.name /\ Applied(a, line).flags = a.flags
        /\ Applied(a, line).repeat = a.repeat
        /\ Applied(b, line).name = b.name /\ Applied(b, line).flags = b.flags
        /\ Applied(b, line).repeat = b.repeat
    BY <2>2 DEF JobType
  <2>5. QED
    BY <2>1, <2>3, <2>4 DEF Same, Reps
<1>4. CASE line.cmd \notin {"job", "clear", "quiet", "sh4load"} \cup Lists
  BY <1>4 DEF Applied
<1>5. QED
  BY <1>1, <1>2, <1>3, <1>4

(* One line of the file, for both of its readers                             *)
LEMMA ReadDoes ==
  ASSUME TypeInv, JobFits, SameJob, file.lines < MaxLines,
         NEW both \in FileLines[file.seen], NEW line, line = both.runner,
         NEW bad \in BOOLEAN, bad \/ Taken(Job, line), Read(both, line, bad)
  PROVE  /\ file' \in FileType /\ file'.lines <= MaxLines
         /\ file'.seen <= file'.lines
         /\ JobFits' /\ SameJob'
         /\ Job' = IF bad THEN Job ELSE Applied(Job, line)
<1> DEFINE one == IF line.cmd = "job" THEN 1 ELSE 0
           ran == IF line.cmd = "run" THEN 1 ELSE 0
           job == IF bad THEN file.job ELSE Applied(file.job, line)
           hw == HwRead(file.hw, both.hw)
           whole == file.whole /\ both.whole
<1>1. LineOK(line) /\ LineOK(both.hw) /\ both.whole \in BOOLEAN
  BY LinesOK
<1>0. both.whole => line = both.hw
  <2>1. PICK raw : /\ raw.words \in Seq(Word)
                   /\ both.runner = RunnerLine(raw) /\ both.hw = HwLine(raw)
                   /\ both.whole = Whole(raw)
    BY LinesOK
  <2>2. QED
    BY <2>1, WholeSame
<1>2. file \in FileType /\ file.lines <= MaxLines /\ file.seen <= file.lines
  BY DEF TypeInv
<1>3. file.job \in JobType /\ file.hw \in HwType /\ file.whole \in BOOLEAN
  BY <1>2 DEF FileType
<1>4. /\ job \in JobType /\ hw \in HwType /\ one \in 0 .. 1 /\ ran \in Nat
      /\ whole \in BOOLEAN
  BY <1>1, <1>3, AppliedType, HwReadIs
<1>5. file' = [lines |-> file.lines + 1, seen |-> file.seen + one, job |-> job,
               err |-> file.err \/ bad, njobs |-> file.njobs + ran, hw |-> hw,
               whole |-> whole]
  BY DEF Read, Job
<1>6. Fits(job)
  BY <1>1, <1>3, AppliedFits DEF JobFits, Job
<1>7. whole /\ ~bad /\ ~file.err
        => ~hw.failed /\ Same(hw.cur, job) /\ hw.jobs = file.njobs + ran
  <2>1. SUFFICES ASSUME whole, ~bad, ~file.err
                 PROVE  ~hw.failed /\ Same(hw.cur, job) /\ hw.jobs = file.njobs + ran
    OBVIOUS
  <2>2. /\ ~file.hw.failed /\ Same(file.hw.cur, file.job)
        /\ file.hw.jobs = file.njobs
    BY <2>1, <1>3 DEF SameJob, Job, HwType
  <2>3. line.cmd \in Commands /\ line.n >= Words(line.cmd) /\ both.hw = line
    BY <1>0, <2>1 DEF Taken
  <2>4. ~(line.n < HwWords(line.cmd))
    BY <1>1, <2>3 DEF HwWords, Words, LineOK
  <2>5. ~hw.failed /\ hw.cur = Applied(file.hw.cur, line) /\ hw.jobs = file.hw.jobs + ran
    BY <1>1, <1>3, <2>2, <2>3, <2>4, HwReadIs
  <2>6. job = Applied(file.job, line)
    BY <2>1
  <2>7. file.hw.cur \in JobType
    BY <1>3 DEF HwType
  <2> HIDE DEF hw, job, ran
  <2>8. Same(hw.cur, job)
    BY <1>1, <1>3, <2>2, <2>5, <2>6, <2>7, SameApplied
  <2>9. QED
    BY <2>2, <2>5, <2>8
<1> HIDE DEF one, ran, job, hw, whole
<1>8. /\ file' \in FileType /\ file'.lines = file.lines + 1
      /\ file'.seen = file.seen + one
      /\ file'.job = job /\ file'.hw = hw /\ file'.err = (file.err \/ bad)
      /\ file'.njobs = file.njobs + ran /\ file'.whole = whole
  BY <1>2, <1>4, <1>5 DEF FileType
<1>9. file'.lines <= MaxLines /\ file'.seen <= file'.lines
  <2>1. file.lines \in Nat /\ file.seen \in Nat
    BY <1>2 DEF FileType
  <2>2. QED
    BY <1>2, <1>4, <1>8, <2>1, BoundsAssumption
<1>10. JobFits'
  BY <1>6, <1>8 DEF JobFits, Job, Fits
<1>11. SameJob'
  <2>1. hw.failed \in BOOLEAN /\ file.err \in BOOLEAN
    BY <1>2, <1>4 DEF HwType, FileType
  <2>2. hw.failed /\ whole => file.err \/ bad
    BY <1>7, <2>1
  <2>3. file'.err = (file.err \/ bad) /\ file'.job = job /\ file'.hw = hw
        /\ file'.njobs = file.njobs + ran /\ file'.whole = whole
    BY <1>8
  <2>4. QED
    BY <1>7, <2>1, <2>2, <2>3 DEF SameJob, Job, Same, Reps
<1>12. QED
  BY <1>8, <1>9, <1>10, <1>11 DEF Job, job

-----------------------------------------------------------------------------
(* Types, and the job and its two readers *)

JobsOK == JobFits /\ SameJob

LEMMA JobsKeep ==
  ASSUME JobsOK, Job' = Job, file'.hw = file.hw, file'.njobs = file.njobs,
         file'.whole = file.whole, file.err => file'.err
  PROVE  JobsOK'
BY DEF JobsOK, JobFits, Fits, SameJob, Same, Reps, Job

LEMMA ExitKeeps ==
  ASSUME TypeInv, JobsOK, NEW code, Exit(code)
  PROVE  TypeInv' /\ JobsOK'
<1>1. /\ file' \in FileType /\ Job' = Job /\ file'.hw = file.hw
      /\ file'.njobs = file.njobs /\ (file.err => file'.err)
      /\ file'.whole = file.whole
      /\ file'.lines = file.lines /\ file'.seen = file.seen
  BY DEF TypeInv, FileType, Exit, Job
<1>2. TypeInv'
  BY <1>1 DEF Exit, TypeInv
<1>3. QED
  BY <1>1, <1>2, JobsKeep

LEMMA LineKeeps ==
  ASSUME TypeInv, JobsOK, ReadLine
  PROVE  TypeInv' /\ JobsOK'
<1>1. PICK both \in FileLines[file.seen] :
        LET line == both.runner
        IN  \/ BadLine(both, line) \/ JobLine(both, line) \/ Out(both, line)
            \/ NoOut(line) \/ Chstate(both, line) \/ Samples(both, line)
            \/ Run(both, line)
  BY DEF ReadLine
<1> DEFINE line == both.runner
<1>2. file.lines < MaxLines
  <2>1. file.lines \in Nat
    BY DEF TypeInv, FileType
  <2>2. QED
    BY <2>1 DEF ReadLine
<1>3. ASSUME Read(both, line, TRUE)
      PROVE  /\ file' \in FileType /\ file'.lines <= MaxLines
             /\ file'.seen <= file'.lines /\ JobsOK'
  BY <1>2, <1>3, ReadDoes DEF JobsOK
<1>4. ASSUME Read(both, line, FALSE), Taken(Job, line)
      PROVE  /\ file' \in FileType /\ file'.lines <= MaxLines
             /\ file'.seen <= file'.lines /\ JobsOK'
  BY <1>2, <1>4, ReadDoes DEF JobsOK
<1>5. CASE BadLine(both, line)
  BY <1>3, <1>5 DEF BadLine, TypeInv
<1>6. CASE JobLine(both, line)
  BY <1>4, <1>6 DEF JobLine, TypeInv
<1>7. CASE Out(both, line)
  <2>1. CASE Exit(1)
    BY <2>1, ExitKeeps
  <2>2. CASE ~Exit(1)
    <3>1. disk' = [disk EXCEPT !.results = Opened, !.open = TRUE]
      BY <1>7, <2>2 DEF Out
    <3>2. Opened \in [Keys -> Statuses \cup {"none"}]
      BY DEF Opened
    <3>3. disk' \in DiskType
      BY <3>1, <3>2 DEF TypeInv, DiskType
    <3>4. QED
      BY <1>4, <1>7, <2>2, <3>3 DEF Out, TypeInv
  <2>3. QED
    BY <2>1, <2>2
<1>8. CASE NoOut(line)
  BY <1>8, ExitKeeps DEF NoOut
<1>9. CASE Chstate(both, line)
  BY <1>4, <1>9 DEF Chstate, TypeInv
<1>10. CASE Samples(both, line)
  <2>1. line.arg \in Nat
    BY <1>2, <1>10, LinesOK DEF LineOK, Samples
  <2>2. rep' \in RepType
    BY <1>10, <2>1 DEF Samples, SamplesBegin, TypeInv, RepType
  <2>3. aica' \in AicaType
    BY <1>10 DEF Samples, TypeInv, AicaType
  <2>4. ghost' \in GhostType
    BY <1>10 DEF Samples, TypeInv, GhostType
  <2>5. 0 \in 0 .. Late
    BY BoundsAssumption DEF Late
  <2>6. QED
    BY <1>4, <1>10, <2>2, <2>3, <2>4, <2>5 DEF Samples, TypeInv
<1>11. CASE Run(both, line)
  <2>1. rep' \in RepType
    BY <1>11 DEF Run, TypeInv, RepType, Statuses
  <2>2. Job.name \in Keys
    BY DEF TypeInv, FileType, JobType, Job
  <2>3. ghost' \in GhostType
    <3>1. ghost.blind \cup {Job.name} \in SUBSET Keys /\ ghost.blind \in SUBSET Keys
      BY <2>2 DEF TypeInv, GhostType
    <3>2. PICK b \in SUBSET Keys :
            ghost' = [ghost EXCEPT !.all = TRUE, !.blind = b]
      BY <1>11, <3>1 DEF Run
    <3>3. QED
      BY <3>2 DEF TypeInv, GhostType
  <2>4. QED
    BY <1>4, <1>11, <2>1, <2>3 DEF Run, TypeInv
<1>12. QED
  BY <1>1, <1>5, <1>6, <1>7, <1>8, <1>9, <1>10, <1>11

LEMMA ArrivedType ==
  ASSUME TypeInv, NEW w \in Writes, Arrived(w)
  PROVE  /\ aica' \in AicaType /\ block' \in BlockType
         /\ arm' \in {"held", "run", "registers", "tag", "raise", "spin"}
<1>1. aica' \in AicaType
  BY DEF Arrived, TypeInv, AicaType
<1>2. NoBlock \in BlockType
  BY BoundsAssumption DEF NoBlock, BlockType
<1>3. QED
  BY <1>1, <1>2 DEF Arrived, TypeInv

LEMMA StubSteps ==
  ASSUME StubStep
  PROVE  \/ arm = "registers" /\ arm' = "tag"
         \/ arm = "tag" /\ arm' = "raise"
         \/ arm = "raise" /\ arm' = "spin"
<1>1. PICK i \in 1 .. 3 : arm = StubOrder[i] /\ arm' = StubOrder[i + 1]
  BY DEF StubStep
<1>2. /\ StubOrder[1] = "registers" /\ StubOrder[2] = "tag"
      /\ StubOrder[3] = "raise" /\ StubOrder[4] = "spin"
  BY DEF StubOrder
<1>3. CASE i = 1
  BY <1>1, <1>2, <1>3
<1>4. CASE i = 2
  BY <1>1, <1>2, <1>4
<1>5. CASE i = 3
  BY <1>1, <1>2, <1>5
<1>6. QED
  BY <1>3, <1>4, <1>5

LEMMA AicaKeeps ==
  ASSUME TypeInv, arm = "registers" => ghost.entry \in Entries,
         Drain \/ SampleEdge \/ Tick \/ ProgramEnds \/ StubStep
  PROVE  TypeInv' /\ UNCHANGED file
<1>1. CASE Drain
  <2>0. posted \in Seq(Writes) /\ posted # <<>>
    BY <1>1 DEF Drain, TypeInv
  <2>1. Head(posted) \in Writes /\ Tail(posted) \in Seq(Writes)
    BY <2>0
  <2>2. QED
    BY <1>1, <2>1, ArrivedType DEF Drain, TypeInv
<1>2. CASE SampleEdge
  <2>1. aica' \in AicaType
    BY <1>2 DEF SampleEdge, TypeInv, AicaType
  <2>2. ghost' \in GhostType
    <3>1. ghost \in GhostType /\ ghost' = [ghost EXCEPT !.edges = @ + 1]
      BY <1>2 DEF SampleEdge, TypeInv
    <3>2. QED
      BY <3>1 DEF GhostType
  <2>3. QED
    BY <1>2, <2>1, <2>2 DEF SampleEdge, TypeInv
<1>3. CASE Tick
  <2>0. clk \in 0 .. Late /\ clk < Late
    BY <1>3 DEF Tick, TypeInv
  <2>1. clk + 1 \in 0 .. Late
    BY <2>0, BoundsAssumption DEF Late
  <2>2. QED
    BY <1>3, <2>1 DEF Tick, TypeInv
<1>4. CASE ProgramEnds
  BY <1>4 DEF ProgramEnds, TypeInv, GhostType, StubOrder
<1>5. CASE StubStep
  <2>1. arm \in {"registers", "tag", "raise"} /\ arm' \in {"tag", "raise", "spin"}
    BY <1>5, StubSteps
  <2>0. clk \in 0 .. Late
    BY DEF TypeInv
  <2>2. clk \in Nat
    BY <2>0, BoundsAssumption DEF Late
  <2>3. ghost' \in GhostType
    BY <1>5, <2>2 DEF StubStep, TypeInv, GhostType
  <2>4. aica' \in AicaType
    BY <1>5 DEF StubStep, TypeInv, AicaType
  <2>5. block' \in BlockType
    BY <1>5 DEF StubStep, TypeInv, BlockType, GhostType
  <2>6. QED
    BY <1>5, <2>1, <2>3, <2>4, <2>5 DEF StubStep, TypeInv
<1>6. QED
  BY <1>1, <1>2, <1>3, <1>4, <1>5 DEF Drain, SampleEdge, Tick, ProgramEnds, StubStep

LEMMA WaitKeeps ==
  ASSUME TypeInv, Start \/ WaitBit \/ ClearBit
  PROVE  TypeInv' /\ (file' = file \/ Exit(1))
<1>1. CASE Start
  <2>1. CASE Exit(1)
    <3>1. file' \in FileType /\ file'.lines = file.lines /\ file'.seen = file.seen
      BY <2>1 DEF Exit, TypeInv, FileType
    <3>2. QED
      BY <2>1, <3>1 DEF Exit, TypeInv
  <2>2. CASE ~Exit(1)
    <3>1. NoBlock \in BlockType
      BY BoundsAssumption DEF NoBlock, BlockType
    <3>2. QED
      BY <1>1, <2>2, <3>1 DEF Start, TypeInv
  <2>3. QED
    BY <2>1, <2>2
<1>2. CASE WaitBit
  <2>1. rep' \in RepType
    BY <1>2 DEF WaitBit, TypeInv, RepType
  <2>2. QED
    BY <1>2, <2>1 DEF WaitBit, TypeInv
<1>3. CASE ClearBit
  <2>1. aica' \in AicaType
    BY <1>3 DEF ClearBit, TypeInv, AicaType
  <2>2. ghost' \in GhostType
    BY <1>3 DEF ClearBit, TypeInv, GhostType
  <2>3. rep' \in RepType
    <3>1. /\ rep \in RepType
          /\ \/ rep' = [rep EXCEPT !.n = @ + 1]
             \/ rep' = [rep EXCEPT !.irqoff = FALSE]
      BY <1>3 DEF ClearBit, TypeInv
    <3>2. CASE rep' = [rep EXCEPT !.n = @ + 1]
      BY <3>1, <3>2 DEF RepType
    <3>3. CASE rep' = [rep EXCEPT !.irqoff = FALSE]
      BY <3>1, <3>3 DEF RepType
    <3>4. QED
      BY <3>1, <3>2, <3>3
  <2>4. 0 \in 0 .. Late
    BY BoundsAssumption DEF Late
  <2>5. clk' \in 0 .. Late /\ pc' \in {"samples wait", "line"}
    BY <1>3, <2>4 DEF ClearBit, TypeInv
  <2>6. QED
    BY <1>3, <2>1, <2>2, <2>3, <2>5 DEF ClearBit, TypeInv
<1>4. QED
  BY <1>1, <1>2, <1>3

(* What a run posts: the RAM and the job's own registers, then the two of    *)
(* the interrupt                                                             *)
Image == Quiet \o Cleared
Withdraw == <<"MCIEB 0x20", "MCIRE 0x7FF">>

LEMMA LastTwo ==
  ASSUME NEW S, NEW q \in Seq(S), NEW w \in Seq(S), Len(w) = 2
  PROVE  /\ q \o w \in Seq(S) /\ Len(q \o w) = Len(q) + 2
         /\ (q \o w)[Len(q) + 1] = w[1] /\ (q \o w)[Len(q) + 2] = w[2]
<1> DEFINE n == Len(q)
           p == q \o w
<1>1. /\ p \in Seq(S) /\ Len(p) = n + 2 /\ n \in Nat
      /\ \A i \in 1 .. n + 2 : p[i] = IF i <= n THEN q[i] ELSE w[i - n]
  <2>1. /\ p \in Seq(S) /\ Len(p) = n + Len(w)
        /\ \A i \in 1 .. n + Len(w) : p[i] = IF i <= n THEN q[i] ELSE w[i - n]
    BY ConcatProperties
  <2>2. n \in Nat
    OBVIOUS
  <2> HIDE DEF n, p
  <2>3. QED
    BY <2>1, <2>2
<1> HIDE DEF n, p
<1>2. n + 1 \in 1 .. n + 2 /\ n + 2 \in 1 .. n + 2
  BY <1>1
<1>3. p[n + 1] = IF n + 1 <= n THEN q[n + 1] ELSE w[n + 1 - n]
  BY <1>1, <1>2
<1>4. p[n + 2] = IF n + 2 <= n THEN q[n + 2] ELSE w[n + 2 - n]
  BY <1>1, <1>2
<1>5. p[n + 1] = w[1] /\ p[n + 2] = w[2]
  BY <1>1, <1>3, <1>4
<1>6. QED
  BY <1>1, <1>5 DEF n, p

LEMMA PreparedIs ==
  ASSUME TypeInv, JobFits
  PROVE  LET p == Quiet \o Cleared \o Job.list["areg"] \o Withdraw
         IN  /\ p \in Seq(Writes) /\ Len(p) >= 2
             /\ p[Len(p) - 1] = "MCIEB 0x20" /\ p[Len(p)] = "MCIRE 0x7FF"
             /\ \A i \in DOMAIN p : p[i] # "release"
             /\ Image \in Seq(Writes)
             /\ \A i \in DOMAIN Image : Image[i] # "release"
<1> DEFINE S == Writes \ {"release"}
           a == Job.list["areg"]
           q == Image \o a
           p == q \o Withdraw
<1>1. Quiet \in Seq(S) /\ Cleared \in Seq(S) /\ Withdraw \in Seq(S)
  <2>1. {"quiet", "RAM", "RES", "MCIEB 0x20", "MCIRE 0x7FF"} \subseteq S
    BY DEF Writes, Aregs
  <2> HIDE DEF S
  <2>2. /\ \A e \in S : <<e>> \in Seq(S)
        /\ \A e, f \in S : <<e, f>> \in Seq(S)
        /\ <<>> \in Seq(S)
    OBVIOUS
  <2>3. <<"quiet">> \in Seq(S) /\ <<"RAM">> \in Seq(S) /\ <<"RES">> \in Seq(S)
    BY <2>1, <2>2
  <2>4. <<"MCIEB 0x20", "MCIRE 0x7FF">> \in Seq(S)
    BY <2>1, <2>2
  <2>5. QED
    BY <2>2, <2>3, <2>4, Zenon DEF Quiet, Cleared, Withdraw
<1>2. Image \in Seq(S)
  BY <1>1, ConcatProperties DEF Image
<1>3. a \in Seq(S)
  <2>1. a \in Seq(Args)
    BY DEF TypeInv, FileType, JobType, Job, Lists
  <2>a. \A i \in DOMAIN a : a[i] \in Aregs
    BY DEF JobFits, Fits
  <2>b. Aregs \subseteq S
    BY DEF Writes, Aregs
  <2> HIDE DEF a, S
  <2>2. \A i \in 1 .. Len(a) : a[i] \in S
    BY <2>1, <2>a, <2>b
  <2>3. Len(a) \in Nat /\ DOMAIN a = 1 .. Len(a) /\ a = [i \in 1 .. Len(a) |-> a[i]]
    BY <2>1
  <2>4. QED
    BY <2>2, <2>3
<1> HIDE DEF S, a
<1>4. q \in Seq(S)
  BY <1>2, <1>3, ConcatProperties
<1>5. /\ Len(Withdraw) = 2
      /\ Withdraw[1] = "MCIEB 0x20" /\ Withdraw[2] = "MCIRE 0x7FF"
  BY DEF Withdraw
<1> HIDE DEF q
<1>6. /\ p \in Seq(S) /\ Len(p) = Len(q) + 2
      /\ p[Len(q) + 1] = Withdraw[1] /\ p[Len(q) + 2] = Withdraw[2]
  BY <1>1, <1>4, <1>5, LastTwo
<1>7. Len(q) \in Nat
  BY <1>4
<1> HIDE DEF p
<1>8. Len(p) >= 2 /\ p[Len(p) - 1] = "MCIEB 0x20" /\ p[Len(p)] = "MCIRE 0x7FF"
  <2>1. Len(p) - 1 = Len(q) + 1 /\ Len(p) >= 2
    BY <1>6, <1>7
  <2>2. QED
    BY <1>5, <1>6, <2>1
<1>9. ASSUME NEW s \in Seq(S)
      PROVE  s \in Seq(Writes) /\ \A i \in DOMAIN s : s[i] # "release"
  <2>1. \A i \in 1 .. Len(s) : s[i] \in S
    BY <1>9
  <2>2. DOMAIN s = 1 .. Len(s)
    BY <1>9
  <2>3. s \in Seq(Writes)
    BY <1>9 DEF S
  <2>4. QED
    BY <2>1, <2>2, <2>3 DEF S
<1>10. p = Quiet \o Cleared \o Job.list["areg"] \o Withdraw
  BY DEF p, q, a, Image
<1>11. QED
  BY <1>2, <1>6, <1>8, <1>9, <1>10

LEMMA PrepareKeeps ==
  ASSUME TypeInv, JobsOK, Prepare
  PROVE  TypeInv' /\ JobsOK'
<1>1. CASE \A i \in DOMAIN Loads : Readable(Loads[i])
  <2>1. posted' = Quiet \o Cleared \o Job.list["areg"] \o Withdraw
    BY <1>1 DEF Prepare, Withdraw
  <2>2. posted' \in Seq(Writes) /\ file' = file /\ pc' = "ready" /\ arm' = "held"
    BY <1>1, <2>1, PreparedIs DEF Prepare, JobsOK
  <2>3. TypeInv'
    BY <2>2 DEF Prepare, TypeInv
  <2>4. QED
    BY <2>2, <2>3, JobsKeep DEF Job
<1>2. CASE ~\A i \in DOMAIN Loads : Readable(Loads[i])
  <2>1. /\ posted' = Image /\ pc' = "line" /\ arm' = "held"
        /\ file' = [file EXCEPT !.err = TRUE]
    BY <1>2 DEF Prepare, Image
  <2>2. posted' \in Seq(Writes)
    BY <2>1, PreparedIs DEF JobsOK
  <2>3. /\ file' \in FileType /\ Job' = Job /\ file'.hw = file.hw /\ file'.err
        /\ file'.njobs = file.njobs /\ file'.lines = file.lines
        /\ file'.seen = file.seen /\ file'.whole = file.whole
    BY <2>1 DEF TypeInv, FileType, Job
  <2>4. TypeInv'
    BY <2>1, <2>2, <2>3 DEF Prepare, TypeInv
  <2>5. QED
    BY <2>3, <2>4, JobsKeep
<1>3. QED
  BY <1>1, <1>2

LEMMA PollKeeps ==
  ASSUME TypeInv, Ready \/ Clock \/ Look \/ Test \/ Stop \/ Collect
  PROVE  TypeInv' /\ file' = file
<1>0. clk \in Nat /\ 0 \in 0 .. Late
  <2>1. clk \in 0 .. Late
    BY DEF TypeInv
  <2>2. QED
    BY <2>1, BoundsAssumption DEF Late
<1>1. CASE Ready
  <2>1. rep' \in RepType
    <3>1. rep \in RepType /\ rep.status \in Statuses
      BY DEF TypeInv, RepType
    <3>2. PICK st \in Statuses : rep' = [rep EXCEPT !.status = st]
      BY <1>1, <3>1 DEF Ready, Status, Statuses
    <3>3. QED
      BY <3>1, <3>2 DEF RepType
  <2>2. posted' \in Seq(Writes)
    <3>1. posted \in Seq(Writes) /\ posted' = Append(posted, "release")
      BY <1>1 DEF Ready, TypeInv
    <3>2. "release" \in Writes
      BY DEF Writes
    <3>3. QED
      BY <3>1, <3>2
  <2>3. ghost' \in GhostType
    BY <1>1 DEF Ready, TypeInv, GhostType
  <2>4. QED
    BY <1>0, <1>1, <2>1, <2>2, <2>3 DEF Ready, TypeInv
<1>2. CASE Clock
  BY <1>0, <1>2 DEF Clock, ClockNext, TypeInv
<1>3. CASE Look
  BY <1>3 DEF Look, TypeInv
<1>4. CASE Test
  <2>1. rep' \in RepType
    BY <1>4 DEF Test, TypeInv, RepType, Statuses
  <2>2. QED
    BY <1>4, <2>1 DEF Test, TypeInv
<1>5. CASE Stop
  BY <1>5 DEF Stop, TypeInv
<1>6. CASE Collect
  <2>1. aica' \in AicaType
    BY <1>6 DEF Collect, TypeInv, AicaType
  <2>2. ghost' \in GhostType
    BY <1>6 DEF Collect, TypeInv, GhostType
  <2>3. rep' \in RepType
    <3>1. /\ rep \in RepType /\ aica.scpu \in BOOLEAN
          /\ \/ rep' = [rep EXCEPT !.n = @ + 1, !.mcipd = aica.scpu]
             \/ rep' = [rep EXCEPT !.mcipd = aica.scpu]
      BY <1>6 DEF Collect, TypeInv, AicaType
    <3>2. CASE rep' = [rep EXCEPT !.n = @ + 1, !.mcipd = aica.scpu]
      <4>1. rep.n + 1 \in Nat
        BY <3>1 DEF RepType
      <4>2. PICK n \in Nat, b \in BOOLEAN : rep' = [rep EXCEPT !.n = n, !.mcipd = b]
        BY <3>1, <3>2, <4>1
      <4>3. QED
        BY <3>1, <4>2 DEF RepType
    <3>3. CASE rep' = [rep EXCEPT !.mcipd = aica.scpu]
      BY <3>1, <3>3 DEF RepType
    <3>4. QED
      BY <3>1, <3>2, <3>3
  <2>4. QED
    BY <1>6, <2>1, <2>2, <2>3 DEF Collect, TypeInv
<1>7. QED
  BY <1>1, <1>2, <1>3, <1>4, <1>5, <1>6 DEF Ready, Clock, Look, Test, Stop, Collect

LEMMA SavedType == ASSUME TypeInv PROVE Saved \in BinType
<1>1. /\ block.tag \in BOOLEAN /\ block.k \in Entries
      /\ ghost.entry \in Entries \cup {None}
  BY DEF TypeInv, BlockType, GhostType
<1>2. QED
  BY <1>1, BoundsAssumption DEF Saved, BinType

(* What a job leaves on the disk                                             *)
LEMMA SavesTo ==
  ASSUME TypeInv, Save
  PROVE  \/ disk' = disk /\ file' = [file EXCEPT !.err = TRUE]
         \/ /\ file' = file /\ disk' \in DiskType /\ disk'.open = disk.open
            /\ \A name \in Keys :
                 /\ disk'.results[name] =
                      IF name = Job.name THEN rep.status ELSE disk.results[name]
                 /\ disk'.bin[name] =
                      IF Reads /\ name = Job.name THEN Saved ELSE disk.bin[name]
<1>1. /\ disk \in DiskType /\ rep.status \in Statuses /\ Saved \in BinType
      /\ Job.name \in Keys
  BY SavedType DEF TypeInv, RepType, FileType, JobType, Job
<1> DEFINE results == [disk.results EXCEPT ![Job.name] = rep.status]
           bin == [disk.bin EXCEPT ![Job.name] = Saved]
<1>2. /\ results \in [Keys -> Statuses \cup {"none"}] /\ bin \in [Keys -> BinType]
      /\ disk.bin \in [Keys -> BinType]
      /\ \A name \in Keys :
           /\ results[name] = IF name = Job.name THEN rep.status
                                                 ELSE disk.results[name]
           /\ bin[name] = IF name = Job.name THEN Saved ELSE disk.bin[name]
  BY <1>1 DEF DiskType
<1>3. CASE disk' = disk /\ file' = [file EXCEPT !.err = TRUE]
  BY <1>3
<1>4. CASE Reads /\ file' = file /\ disk' = Logged([disk EXCEPT !.bin[Job.name] = Saved])
  <2>1. disk' = [[disk EXCEPT !.bin = bin] EXCEPT !.results[Job.name] = rep.status]
    BY <1>4 DEF Logged
  <2> HIDE DEF bin
  <2>2. disk' = [[disk EXCEPT !.bin = bin] EXCEPT !.results = results]
    BY <1>1, <2>1 DEF DiskType
  <2> HIDE DEF results
  <2>3. disk' \in DiskType /\ disk'.bin = bin /\ disk'.results = results
        /\ disk'.open = disk.open
    BY <1>1, <1>2, <2>2 DEF DiskType
  <2>4. QED
    BY <1>2, <1>4, <2>3
<1>5. CASE ~Reads /\ file' = file /\ disk' = Logged(disk)
  <2>1. disk' = [disk EXCEPT !.results = results]
    BY <1>5 DEF Logged
  <2> HIDE DEF results
  <2>2. disk' \in DiskType /\ disk'.bin = disk.bin /\ disk'.results = results
        /\ disk'.open = disk.open
    BY <1>1, <1>2, <2>1 DEF DiskType
  <2>3. QED
    BY <1>2, <1>5, <2>2
<1>6. QED
  BY <1>3, <1>4, <1>5 DEF Save

LEMMA SaveKeeps ==
  ASSUME TypeInv, JobsOK, Save
  PROVE  TypeInv' /\ JobsOK'
<1>1. disk' \in DiskType /\ (file' = file \/ file' = [file EXCEPT !.err = TRUE])
  BY SavesTo DEF TypeInv
<1>2. /\ file' \in FileType /\ Job' = Job /\ file'.hw = file.hw
      /\ (file.err => file'.err) /\ file'.njobs = file.njobs
      /\ file'.lines = file.lines /\ file'.seen = file.seen
      /\ file'.whole = file.whole
  BY <1>1 DEF TypeInv, FileType, Job
<1>3. TypeInv'
  BY <1>1, <1>2 DEF Save, TypeInv
<1>4. QED
  BY <1>2, <1>3, JobsKeep

-----------------------------------------------------------------------------
(* The ARM, the interrupt and the poll *)

Poll == Still /\ Withdrawn /\ Ran /\ Seen /\ Done

(* Outside a run nothing of the poll is at stake.                            *)
LEMMA Idle ==
  ASSUME Still', Done',
         pc' \in {"start", "line", "exit", "prepare", "samples wait", "samples clear",
                  "save"}
  PROVE  Poll'
BY DEF Poll, Withdrawn, Ran, Seen

LEMMA LinePolls ==
  ASSUME TypeInv, Poll, Start \/ ReadLine \/ EndOfFile \/ WaitBit \/ ClearBit
  PROVE  Poll'
<1>1. /\ Done /\ Still /\ rep \in RepType
      /\ posted = <<>> => NoRelease
  <2>1. posted = <<>> => NoRelease
    BY DEF NoRelease
  <2>2. QED
    BY <2>1 DEF Poll, TypeInv
<1>2. ASSUME NEW code, Exit(code), pc \in {"start", "line"} PROVE Poll'
  <2>1. Done' /\ pc' = "exit" /\ UNCHANGED <<arm, posted>>
    BY <1>1, <1>2 DEF Exit, Done
  <2>2. Still'
    BY <1>1, <1>2, <2>1 DEF Still, NoRelease
  <2>3. QED
    BY <2>1, <2>2, Idle
<1>3. CASE Start
  <2>1. CASE \E code \in {1} : Exit(code)
    BY <1>2, <1>3, <2>1 DEF Start
  <2>2. CASE ~\E code \in {1} : Exit(code)
    <3>1. pc' = "line" /\ arm' = "held" /\ UNCHANGED <<posted, rep, ghost>> /\ posted = <<>>
      BY <1>3, <2>2 DEF Start, Drained
    <3>2. Still' /\ Done'
      BY <1>1, <3>1 DEF Still, NoRelease, Done
    <3>3. QED
      BY <3>1, <3>2, Idle
  <2>3. QED
    BY <2>1, <2>2
<1>4. CASE ReadLine
  <2>0. pc = "line" /\ arm = "held" /\ NoRelease
    BY <1>1, <1>4 DEF ReadLine, Still
  <2>1. PICK both \in FileLines[file.seen] :
          LET line == both.runner
          IN  \/ BadLine(both, line) \/ JobLine(both, line) \/ Out(both, line)
              \/ NoOut(line) \/ Chstate(both, line) \/ Samples(both, line)
              \/ Run(both, line)
    BY <1>4 DEF ReadLine
  <2> DEFINE line == both.runner
  <2>2. CASE \E code \in {1} : Exit(code)
    BY <1>2, <2>0, <2>2
  <2>3. CASE BadLine(both, line) \/ JobLine(both, line) \/ Chstate(both, line)
             \/ (Out(both, line) /\ ~Exit(1))
    <3>1. UNCHANGED <<pc, posted, arm, rep, ghost>>
      BY <2>3 DEF BadLine, JobLine, Chstate, Out
    <3>2. Still' /\ Done'
      BY <1>1, <2>0, <3>1 DEF Still, NoRelease, Done
    <3>3. QED
      BY <2>0, <3>1, <3>2, Idle
  <2>4. CASE Samples(both, line)
    <3>1. /\ pc' = "samples wait" /\ arm' = "held" /\ posted' = <<>>
          /\ rep'.status = rep.status
      BY <1>1, <2>4 DEF Samples, SamplesBegin, Drained, RepType
    <3>2. Still' /\ Done'
      BY <1>1, <3>1 DEF Still, Done
    <3>3. QED
      BY <3>1, <3>2, Idle
  <2>5. CASE Run(both, line)
    <3>1. /\ pc' = "prepare" /\ rep'.status = "done" /\ ghost'.all
          /\ UNCHANGED <<posted, arm>>
      BY <1>1, <2>5 DEF Run, RepType, TypeInv, GhostType
    <3>2. Still' /\ Done'
      BY <2>0, <3>1 DEF Still, NoRelease, Done
    <3>3. QED
      BY <3>1, <3>2, Idle
  <2>6. QED
    BY <2>1, <2>2, <2>3, <2>4, <2>5 DEF Out, NoOut
<1>5. CASE EndOfFile
  BY <1>2, <1>5 DEF EndOfFile
<1>6. CASE WaitBit \/ ClearBit
  <2>1. /\ pc' \in {"samples wait", "samples clear", "line"} /\ rep'.status = rep.status
        /\ UNCHANGED <<arm, posted>> /\ arm = "held" /\ posted = <<>>
    BY <1>1, <1>6 DEF WaitBit, ClearBit, RepType, Still
  <2>2. Still' /\ Done'
    BY <1>1, <2>1 DEF Still, NoRelease, Done
  <2>3. QED
    BY <2>1, <2>2, Idle
<1>7. QED
  BY <1>3, <1>4, <1>5, <1>6

LEMMA PreparePolls ==
  ASSUME TypeInv, JobFits, Poll, Prepare
  PROVE  Poll'
<1>1. /\ pc = "prepare" /\ arm' = "held" /\ rep' = rep /\ ghost' = ghost
      /\ aica' = aica /\ Done
  BY DEF Prepare, Poll
<1>2. CASE \A i \in DOMAIN Loads : Readable(Loads[i])
  <2>1. /\ posted' = Quiet \o Cleared \o Job.list["areg"] \o Withdraw
        /\ pc' = "ready"
    BY <1>2 DEF Prepare, Withdraw
  <2>2. /\ Len(posted') >= 2
        /\ posted'[Len(posted') - 1] = "MCIEB 0x20"
        /\ posted'[Len(posted')] = "MCIRE 0x7FF"
        /\ \A i \in DOMAIN posted' : posted'[i] # "release"
    BY <2>1, PreparedIs
  <2>3. Still' /\ Withdrawn' /\ Ran' /\ Seen' /\ Done'
    BY <1>1, <2>1, <2>2 DEF Still, NoRelease, Withdrawn, Ran, Seen, Done
  <2>4. QED
    BY <2>3 DEF Poll
<1>3. CASE ~\A i \in DOMAIN Loads : Readable(Loads[i])
  <2>1. posted' = Image /\ pc' = "line"
    BY <1>3 DEF Prepare, Image
  <2>2. \A i \in DOMAIN posted' : posted'[i] # "release"
    BY <2>1, PreparedIs
  <2>3. Still' /\ Done'
    BY <1>1, <2>1, <2>2 DEF Still, NoRelease, Done
  <2>4. QED
    BY <2>1, <2>3, Idle
<1>4. QED
  BY <1>2, <1>3

LEMMA ReadyPolls ==
  ASSUME TypeInv, Poll, Ready
  PROVE  Poll'
<1>1. /\ pc = "ready" /\ posted = <<>> /\ arm = "held" /\ aica.eb /\ ~aica.scpu
      /\ Done
  BY DEF Ready, Drained, Poll, Still, Withdrawn
<1>2. /\ rep'.status = rep.status /\ ghost'.entry = None /\ ghost'.raised = None
      /\ ghost'.all = ghost.all
  BY <1>1 DEF Ready, Status, Istext, TypeInv, RepType, GhostType
<1>3. posted' = <<"release">>
  BY <1>1 DEF Ready
<1>4. pc' = "clock" /\ UNCHANGED <<arm, aica>>
  BY DEF Ready
<1>5. Still' /\ Withdrawn' /\ Ran' /\ Seen' /\ Done'
  BY <1>1, <1>2, <1>3, <1>4 DEF Still, Withdrawn, Ran, Seen, Done
<1>6. QED
  BY <1>5 DEF Poll

LEMMA PollPolls ==
  ASSUME TypeInv, Poll, Clock \/ Look \/ Test
  PROVE  Poll'
<1>1. /\ UNCHANGED <<posted, aica, arm, block, ghost, clk>>
      /\ pc \in {"clock", "look", "test"} /\ Ran /\ Done /\ Seen
      /\ pc' \in {"clock", "look", "test", "stop"}
      /\ ghost.raised \in Nat \cup {None} /\ clk \in Nat
  <2>1. clk \in 0 .. Late /\ ghost.raised \in Nat \cup {None}
    BY DEF TypeInv, GhostType
  <2>2. clk \in Nat
    BY <2>1, BoundsAssumption DEF Late
  <2>3. QED
    BY <2>1, <2>2 DEF Clock, ClockNext, Look, Test, Poll
<1>2. Still' /\ Withdrawn' /\ Ran'
  BY <1>1 DEF Still, Withdrawn, Ran
<1>3. Seen' /\ Done'
  <2>1. CASE Clock
    <3>1. pc' = "look" /\ t1' = clk /\ rep' = rep
      BY <2>1 DEF Clock, ClockNext
    <3>2. QED
      BY <1>1, <2>1, <3>1 DEF Clock, Seen, Done
  <2>2. CASE Look
    <3>1. CASE Istext
      <4>1. pc' = "stop" /\ rep' = rep /\ arm = "spin" /\ aica.scpu
        BY <1>1, <2>2, <3>1 DEF Look, Istext, Ran
      <4>2. QED
        BY <1>1, <2>2, <4>1 DEF Look, Seen, Done
    <3>2. CASE ~Istext
      <4>1. /\ pc' = "test" /\ rep' = rep /\ t1' = t1 /\ pc = "look"
            /\ ghost.raised = None
        BY <1>1, <2>2, <3>2 DEF Look, Istext, Ran
      <4>2. QED
        BY <1>1, <4>1 DEF Seen, Done
    <3>3. QED
      BY <3>1, <3>2
  <2>3. CASE Test
    <3>1. CASE t1 > Timeout
      <4>1. pc' = "stop" /\ rep'.status = "timeout"
        BY <2>3, <3>1 DEF Test, TypeInv, RepType
      <4>2. QED
        BY <4>1 DEF Seen, Done
    <3>2. CASE ~(t1 > Timeout)
      <4>1. pc' = "clock" /\ rep' = rep /\ pc = "test"
        BY <2>3, <3>2 DEF Test
      <4>2. QED
        BY <1>1, <4>1 DEF Seen, Done
    <3>3. QED
      BY <3>1, <3>2
  <2>4. QED
    BY <2>1, <2>2, <2>3
<1>4. QED
  BY <1>2, <1>3 DEF Poll

LEMMA StopPolls ==
  ASSUME TypeInv, Poll, Stop \/ Collect \/ Save
  PROVE  Poll'
<1>1. /\ Ran /\ Done /\ Still /\ rep \in RepType /\ aica \in AicaType
      /\ ghost \in GhostType
  BY DEF Poll, TypeInv
<1>2. CASE Stop
  <2>1. /\ pc = "stop" /\ pc' = "collect" /\ posted = <<>> /\ arm' = "held"
        /\ UNCHANGED <<rep, posted, aica, block, ghost>>
    BY <1>2 DEF Stop, Drained
  <2>2. NoRelease'
    BY <2>1 DEF NoRelease
  <2>3. rep.status = "done" => Ended /\ aica.scpu /\ ghost.raised # None /\ ghost.all
    BY <1>1, <2>1 DEF Ran, Done, Ended, None
  <2>4. Still' /\ Done'
    BY <1>1, <2>1, <2>2, <2>3 DEF Still, Done, Ended
  <2>5. QED
    BY <2>1, <2>4 DEF Poll, Withdrawn, Ran, Seen
<1>3. CASE Collect
  <2>1. /\ pc = "collect" /\ pc' \in {"prepare", "save"} /\ posted = <<>>
        /\ arm = "held" /\ UNCHANGED <<posted, arm, block>>
        /\ rep'.status = rep.status /\ rep'.mcipd = aica.scpu
        /\ ghost'.all = (ghost.all /\ ghost.raised # None)
        /\ ghost'.entry = ghost.entry
    BY <1>1, <1>3 DEF Collect, Still, RepType, GhostType
  <2>2. NoRelease'
    BY <2>1 DEF NoRelease
  <2>3. rep.status = "done" => Ended /\ aica.scpu /\ ghost.raised # None /\ ghost.all
    BY <1>1, <2>1 DEF Done
  <2>4. Still' /\ Done'
    BY <1>1, <2>1, <2>2, <2>3 DEF Still, Done, Ended
  <2>5. QED
    BY <2>1, <2>4, Idle
<1>4. CASE Save
  <2>1. /\ pc' = "line" /\ posted = <<>> /\ arm = "held"
        /\ UNCHANGED <<posted, arm, rep>>
    BY <1>1, <1>4 DEF Save, Still
  <2>2. NoRelease'
    BY <2>1 DEF NoRelease
  <2>3. Still' /\ Done'
    BY <1>1, <2>1, <2>2 DEF Still, Done
  <2>4. QED
    BY <2>1, <2>3, Idle
<1>5. QED
  BY <1>2, <1>3, <1>4

(* The queue gets shorter from its head.                                     *)
LEMMA Drains ==
  ASSUME NEW s \in Seq(Writes), s # <<>>
  PROVE  /\ Head(s) = s[1] /\ Head(s) \in Writes /\ Tail(s) \in Seq(Writes)
         /\ Len(Tail(s)) = Len(s) - 1 /\ Len(s) \in Nat \ {0}
         /\ DOMAIN Tail(s) = 1 .. Len(s) - 1 /\ DOMAIN s = 1 .. Len(s)
         /\ \A i \in 1 .. Len(s) - 1 : Tail(s)[i] = s[i + 1]
         /\ Len(s) = 1 => Tail(s) = <<>>
OBVIOUS

LEMMA DrainPolls ==
  ASSUME TypeInv, Poll, Drain
  PROVE  Poll'
<1> DEFINE w == Head(posted)
           n == Len(posted)
<1>1. /\ posted \in Seq(Writes) /\ posted # <<>> /\ posted' = Tail(posted)
      /\ Arrived(w) /\ UNCHANGED <<pc, rep, clk, t1, ghost>>
      /\ aica \in AicaType /\ Still /\ Withdrawn /\ Ran /\ Seen /\ Done
  BY DEF Drain, TypeInv, Poll
<1>2. /\ w = posted[1] /\ n \in Nat \ {0} /\ Len(posted') = n - 1
      /\ DOMAIN posted' = 1 .. n - 1 /\ DOMAIN posted = 1 .. n
      /\ \A i \in 1 .. n - 1 : posted'[i] = posted[i + 1]
      /\ n = 1 => posted' = <<>>
  BY <1>1, Drains
<1>3. NoRelease => NoRelease' /\ w # "release"
  <2>1. \A i \in 1 .. n - 1 : i + 1 \in 1 .. n
    BY <1>2
  <2>2. 1 \in 1 .. n
    BY <1>2
  <2> HIDE DEF w, n
  <2>3. QED
    BY <1>2, <2>1, <2>2 DEF NoRelease
<1>4. pc # "start" /\ pc \notin {"samples wait", "samples clear", "collect", "save"}
  BY <1>1 DEF Still
<1>5. /\ w # "release" => arm' = arm
      /\ aica'.eb = (aica.eb \/ w = "MCIEB 0x20")
      /\ aica'.scpu = ((aica.scpu /\ w # "MCIRE 0x7FF") \/ w = "MCIPD")
  BY <1>1 DEF Arrived
<1> HIDE DEF w, n
<1>6. CASE pc \in {"line", "exit", "prepare", "ready"}
  <2>1. Still' /\ Done'
    BY <1>1, <1>3, <1>4, <1>5, <1>6 DEF Still, Done
  <2>2. CASE pc # "ready"
    BY <1>1, <1>6, <2>1, <2>2, Idle
  <2>3. CASE pc = "ready"
    <3>1. Withdrawn'
      <4>0. n \in Nat /\ Len(posted') = n - 1
        BY <1>2
      <4>1. CASE n = 1 /\ posted[1] = "MCIRE 0x7FF" /\ aica.eb
        <5>1. w = "MCIRE 0x7FF" /\ posted' = <<>>
          BY <1>2, <4>1
        <5>2. aica'.eb /\ ~aica'.scpu
          BY <1>5, <4>1, <5>1
        <5>3. QED
          BY <5>1, <5>2 DEF Withdrawn
      <4>2. CASE /\ n >= 2 /\ posted[n - 1] = "MCIEB 0x20"
                 /\ posted[n] = "MCIRE 0x7FF"
        <5>1. CASE n = 2
          <6>1. Len(posted') = 1 /\ 1 \in 1 .. n - 1 /\ 1 + 1 = n
            BY <4>0, <5>1
          <6>2. posted'[1] = posted[1 + 1]
            BY <1>2, <6>1
          <6>3. posted'[1] = "MCIRE 0x7FF" /\ w = "MCIEB 0x20"
            <7>1. n - 1 = 1
              BY <5>1
            <7>2. w = posted[1]
              BY <1>2
            <7>3. QED
              BY <4>2, <5>1, <6>1, <6>2, <7>1, <7>2
          <6>4. QED
            BY <1>5, <6>1, <6>3 DEF Withdrawn
        <5>2. CASE n > 2
          <6>1. /\ n - 1 \in 1 .. n - 1 /\ n - 2 \in 1 .. n - 1
                /\ n - 1 + 1 = n /\ n - 2 + 1 = n - 1 /\ n - 1 >= 2
                /\ n - 1 - 1 = n - 2
            BY <4>0, <5>2
          <6>2. posted'[n - 1] = posted[n - 1 + 1] /\ posted'[n - 2] = posted[n - 2 + 1]
            BY <1>2, <6>1
          <6>3. /\ posted'[n - 1] = "MCIRE 0x7FF" /\ posted'[n - 2] = "MCIEB 0x20"
                /\ Len(posted') = n - 1
            BY <4>0, <4>2, <6>1, <6>2
          <6>4. QED
            BY <6>1, <6>3 DEF Withdrawn
        <5>3. n = 2 \/ n > 2
          <6>1. n \in Nat
            BY <4>0
          <6>2. n >= 2
            BY <4>2
          <6>3. QED
            BY <6>1, <6>2
        <5>4. QED
          BY <5>1, <5>2, <5>3
      <4>3. QED
        BY <1>1, <2>3, <4>1, <4>2 DEF Withdrawn, n
    <3>2. QED
      BY <1>1, <2>1, <2>3, <3>1 DEF Poll, Ran, Seen
  <2>4. QED
    BY <2>2, <2>3
<1>7. CASE pc \in {"clock", "look", "test", "stop"}
  <2>1. posted = <<"release">> /\ arm = "held" /\ n = 1 /\ w = "release"
    BY <1>1, <1>2, <1>7 DEF Ran, n
  <2>2. /\ posted' = <<>> /\ arm' = "run" /\ aica'.eb = aica.eb
        /\ aica'.scpu = aica.scpu /\ block' = block
    BY <1>1, <1>2, <1>5, <2>1 DEF Arrived, AicaType, w
  <2>3. rep.status = "done" => pc # "stop"
    BY <1>1, <2>1 DEF Done
  <2>4. Still' /\ Withdrawn' /\ Ran' /\ Seen' /\ Done'
    BY <1>1, <1>7, <2>1, <2>2, <2>3 DEF Still, Withdrawn, Ran, Seen, Done
  <2>5. QED
    BY <2>4 DEF Poll
<1>8. QED
  BY <1>1, <1>4, <1>6, <1>7 DEF TypeInv

LEMMA ArmPolls ==
  ASSUME TypeInv, Poll, ProgramEnds \/ StubStep
  PROVE  Poll'
<1>1. /\ UNCHANGED <<pc, rep, posted, clk, t1>> /\ Still /\ Ran /\ Seen /\ Done
      /\ ghost \in GhostType /\ aica \in AicaType /\ block \in BlockType
      /\ arm \in {"run", "registers", "tag", "raise"}
  BY StubSteps DEF ProgramEnds, StubStep, Poll, TypeInv
<1>2. pc \in {"clock", "look", "test", "stop"}
  BY <1>1 DEF Still, TypeInv
<1>3. posted = <<>> /\ ghost.raised = None /\ ~aica.scpu
  BY <1>1, <1>2 DEF Ran
<1>4. rep.status = "done" => pc # "stop"
  BY <1>1, <1>3 DEF Done
<1>5. clk \in Nat
  <2>1. clk \in 0 .. Late
    BY DEF TypeInv
  <2>2. QED
    BY <2>1, BoundsAssumption DEF Late
<1>6. ghost'.all = ghost.all /\ ghost'.raised \in {ghost.raised, clk}
  BY <1>1 DEF ProgramEnds, StubStep, GhostType
<1>7. Still' /\ Withdrawn' /\ Seen' /\ Done'
  BY <1>1, <1>2, <1>3, <1>4, <1>5, <1>6 DEF Still, Withdrawn, Seen, Done, None
<1>8. Ran'
  <2>1. CASE ProgramEnds
    <3>1. /\ arm' = "registers" /\ ghost'.entry \in Entries
          /\ ghost'.raised = ghost.raised /\ UNCHANGED <<aica, block>>
      BY <1>1, <2>1 DEF ProgramEnds, StubOrder, GhostType
    <3>2. QED
      BY <1>1, <1>2, <1>3, <3>1 DEF Ran
  <2>2. CASE StubStep
    <3>1. \/ arm = "registers" /\ arm' = "tag"
          \/ arm = "tag" /\ arm' = "raise"
          \/ arm = "raise" /\ arm' = "spin"
      BY <2>2, StubSteps
    <3>2. /\ aica'.eb = aica.eb /\ aica'.scpu = (aica.scpu \/ arm = "raise")
          /\ ghost'.entry = ghost.entry
          /\ ghost'.raised = IF arm = "raise" THEN clk ELSE ghost.raised
          /\ block'.tag = (block.tag \/ arm = "tag")
          /\ block'.k = IF arm = "registers" THEN ghost.entry ELSE block.k
      BY <1>1, <2>2 DEF StubStep, AicaType, GhostType
    <3>3. QED
      BY <1>1, <1>2, <1>3, <1>5, <3>1, <3>2 DEF Ran
  <2>3. QED
    BY <2>1, <2>2
<1>9. QED
  BY <1>7, <1>8 DEF Poll

LEMMA TimePolls ==
  ASSUME TypeInv, Poll, SampleEdge \/ Tick
  PROVE  Poll'
<1>1. /\ UNCHANGED <<pc, rep, posted, arm, block, t1>>
      /\ Still /\ Withdrawn /\ Ran /\ Seen /\ Done
  BY DEF SampleEdge, Tick, Poll
<1>2. CASE SampleEdge
  <2>1. pc \in {"samples wait", "samples clear"}
    BY <1>2 DEF SampleEdge
  <2>2. Still' /\ Done'
    BY <1>1, <2>1 DEF Still, NoRelease, Done
  <2>3. QED
    BY <1>1, <2>1, <2>2, Idle
<1>3. CASE Tick
  <2>1. clk' = clk + 1 /\ UNCHANGED <<aica, ghost>> /\ clk \in Nat /\ t1 \in Nat
    <3>1. clk \in 0 .. Late /\ t1 \in Nat
      BY DEF TypeInv
    <3>2. clk \in Nat
      BY <3>1, BoundsAssumption DEF Late
    <3>3. QED
      BY <1>3, <3>1, <3>2 DEF Tick
  <2>2. Still' /\ Withdrawn' /\ Ran' /\ Done'
    BY <1>1, <2>1 DEF Still, NoRelease, Withdrawn, Ran, Done, Ended
  <2>3. Seen'
    BY <1>1, <2>1 DEF Seen
  <2>4. QED
    BY <2>2, <2>3 DEF Poll
<1>4. QED
  BY <1>2, <1>3

-----------------------------------------------------------------------------
(* The verdict *)

Judged == Blind /\ VerdictTrue

LEMMA JudgedKeeps ==
  ASSUME Judged, UNCHANGED disk, Job' = Job,
         ghost.blind \subseteq ghost'.blind,
         pc' \in {"prepare", "ready", "clock", "look", "test", "stop", "collect",
                  "save"} /\ ~Reads =>
           \/ pc \in {"prepare", "ready", "clock", "look", "test", "stop", "collect",
                      "save"}
           \/ Job.name \in ghost'.blind
  PROVE  Judged'
<1>1. Blind'
  BY DEF Judged, Blind, Reads
<1>2. VerdictTrue'
  BY DEF Judged, VerdictTrue, Pass
<1>3. QED
  BY <1>1, <1>2 DEF Judged

LEMMA SaveJudged ==
  ASSUME TypeInv, Poll, Judged, Save
  PROVE  Judged'
<1>1. /\ pc = "save" /\ pc' = "line" /\ ghost' = ghost
      /\ Blind /\ VerdictTrue /\ Done
  BY DEF Save, Judged, Poll
<1>2. Blind'
  BY <1>1 DEF Blind
<1>3. CASE disk' = disk
  BY <1>1, <1>2, <1>3 DEF Judged, VerdictTrue, Pass
<1>4. CASE disk' # disk
  <2>1. /\ disk'.open = disk.open
        /\ \A name \in Keys :
             /\ disk'.results[name] =
                  IF name = Job.name THEN rep.status ELSE disk.results[name]
             /\ disk'.bin[name] =
                  IF Reads /\ name = Job.name THEN Saved ELSE disk.bin[name]
    BY <1>4, SavesTo
  <2>2. SUFFICES ASSUME disk.open, NEW name \in Names \ ghost.blind, Pass(name)'
                 PROVE  disk'.bin[name].entry = 0
    BY <1>1, <1>2, <2>1 DEF Judged, VerdictTrue
  <2>3. name \in Keys
    BY DEF Keys
  <2>4. CASE name # Job.name
    <3>1. /\ disk'.results[name] = disk.results[name]
          /\ disk'.bin[name] = disk.bin[name]
      BY <2>1, <2>3, <2>4
    <3>2. QED
      BY <1>1, <2>2, <3>1 DEF VerdictTrue, Pass
  <2>5. CASE name = Job.name
    <3>1. Reads
      BY <1>1, <2>2, <2>5 DEF Blind
    <3>2. disk'.bin[name] = Saved /\ disk'.results[name] = rep.status
      BY <2>1, <2>3, <2>5, <3>1
    <3>3. rep.status = "done" /\ Saved.k = 0
      BY <2>2, <3>2 DEF Pass
    <3>4. block.k = ghost.entry
      BY <1>1, <3>3 DEF Done, Ended
    <3>5. QED
      BY <3>2, <3>3, <3>4 DEF Saved
  <2>6. QED
    BY <2>4, <2>5
<1>5. QED
  BY <1>3, <1>4

LEMMA LineJudged ==
  ASSUME TypeInv, JobsOK, Judged, ReadLine
  PROVE  Judged'
<1>1. PICK both \in FileLines[file.seen] :
        LET line == both.runner
        IN  \/ BadLine(both, line) \/ JobLine(both, line) \/ Out(both, line)
            \/ NoOut(line) \/ Chstate(both, line) \/ Samples(both, line)
            \/ Run(both, line)
  BY DEF ReadLine
<1> DEFINE line == both.runner
<1>2. pc = "line" /\ ghost \in GhostType /\ disk \in DiskType
      /\ file.lines < MaxLines
  <2>1. file.lines \in Nat
    BY DEF TypeInv, FileType
  <2>2. QED
    BY <2>1 DEF ReadLine, TypeInv
<1>3. ASSUME UNCHANGED disk, ghost'.blind = ghost.blind,
             pc' \in {"line", "exit", "samples wait"}
      PROVE  Judged'
  BY <1>3 DEF Judged, Blind, VerdictTrue, Pass
<1>4. CASE BadLine(both, line) \/ JobLine(both, line) \/ NoOut(line) \/ Chstate(both, line)
           \/ Samples(both, line) \/ (Out(both, line) /\ Exit(1))
  BY <1>2, <1>3, <1>4
     DEF BadLine, JobLine, NoOut, Chstate, Samples, Exit, GhostType
<1>5. CASE Out(both, line) /\ ~Exit(1)
  <2>1. /\ disk' = [disk EXCEPT !.results = Opened, !.open = TRUE]
        /\ pc' = "line"
    BY <1>2, <1>5 DEF Out
  <2>2. disk'.results = Opened
    BY <1>2, <2>1 DEF DiskType
  <2>3. \A name \in Names : ~Pass(name)'
    BY <2>2 DEF Pass, Opened, Keys
  <2>4. QED
    BY <2>1, <2>3 DEF Judged, Blind, VerdictTrue
<1>6. CASE Run(both, line)
  <2>1. Read(both, line, FALSE) /\ Taken(Job, line) /\ line.cmd = "run"
    BY <1>6 DEF Run
  <2>2. Job' = Applied(Job, line)
    BY <1>2, <2>1, ReadDoes DEF JobsOK
  <2>3. Job' = Job
    BY <2>1, <2>2 DEF Applied, Lists
  <2>4. ghost'.blind = IF Reads THEN ghost.blind ELSE ghost.blind \cup {Job.name}
    BY <1>2, <1>6 DEF Run, GhostType
  <2>5. UNCHANGED disk
    BY <1>6 DEF Run
  <2>6. QED
    BY <2>3, <2>4, <2>5, JudgedKeeps
<1>7. QED
  BY <1>1, <1>4, <1>5, <1>6

LEMMA OtherJudged ==
  ASSUME TypeInv, JobsOK, Judged,
         \/ Start \/ EndOfFile \/ WaitBit \/ ClearBit \/ Prepare \/ Ready \/ Clock
         \/ Look \/ Test \/ Stop \/ Collect
         \/ Drain \/ SampleEdge \/ Tick \/ ProgramEnds \/ StubStep
  PROVE  Judged'
<1> DEFINE running == {"prepare", "ready", "clock", "look", "test", "stop",
                       "collect", "save"}
<1>1. ghost \in GhostType /\ file \in FileType
  BY DEF TypeInv
<1>2. UNCHANGED disk
  BY DEF Start, EndOfFile, Exit, WaitBit, ClearBit, Prepare, Ready, Clock, Look, Test,
         Stop, Collect, Drain, SampleEdge, Tick, ProgramEnds, StubStep
<1>3. ghost'.blind = ghost.blind
  BY <1>1 DEF Start, EndOfFile, Exit, WaitBit, ClearBit, Prepare, Ready, Clock,
         Look, Test, Stop, Collect, Drain, SampleEdge, Tick, ProgramEnds, StubStep,
         GhostType
<1>4. Job' = Job
  BY <1>1 DEF Start, EndOfFile, Exit, WaitBit, ClearBit, Prepare, Ready, Clock,
         Look, Test, Stop, Collect, Drain, SampleEdge, Tick, ProgramEnds, StubStep,
         FileType, Job
<1>5. pc' \in running => pc \in running
  BY DEF Start, EndOfFile, Exit, WaitBit, ClearBit, Prepare, Ready, Clock, ClockNext,
         Look, Test, Stop, Collect, Drain, SampleEdge, Tick, ProgramEnds, StubStep
<1>6. QED
  BY <1>2, <1>3, <1>4, <1>5, JudgedKeeps

-----------------------------------------------------------------------------
(* The calibration *)

LEMMA CountedKeeps ==
  ASSUME TypeInv, Still, Counted, Sh4 \/ Drain \/ Tick \/ ProgramEnds \/ StubStep,
         ~(ReadLine \/ WaitBit \/ ClearBit)
  PROVE  Counted'
<1>1. CASE pc \in {"samples wait", "samples clear"}
  <2>1. posted = <<>> /\ arm = "held"
    BY <1>1 DEF Still
  <2>2. UNCHANGED <<pc, rep, aica, ghost>>
    BY <1>1, <2>1, StubSteps
       DEF Sh4, Start, EndOfFile, Prepare, Ready, Clock, Look, Test, Stop, Collect, Save,
           Drain, Tick, ProgramEnds
  <2>3. QED
    BY <2>2 DEF Counted
<1>2. CASE pc \notin {"samples wait", "samples clear"}
  <2>1. pc' \notin {"samples wait", "samples clear"}
    BY <1>2
       DEF Sh4, Start, EndOfFile, Exit, Prepare, Ready, Clock, ClockNext, Look, Test, Stop,
           Collect, Save, Drain, Tick, ProgramEnds, StubStep
  <2>2. QED
    BY <2>1 DEF Counted
<1>3. QED
  BY <1>1, <1>2

LEMMA EdgeCounted ==
  ASSUME TypeInv, Counted, SampleEdge
  PROVE  Counted'
<1>1. /\ UNCHANGED <<pc, rep>> /\ ghost'.edges = ghost.edges + 1
      /\ aica'.sample /\ (rep.n > 0 /\ rep.irqoff => ~aica.sample)
      /\ rep.n \in Nat /\ ghost.edges \in Nat
  BY DEF SampleEdge, TypeInv, AicaType, GhostType, RepType
<1>2. rep.irqoff /\ rep.n <= rep.want
  BY DEF Counted, SampleEdge
<1>3. ASSUME rep.ok, rep.n > 0 PROVE ghost'.edges = rep.n - 1 + 1
  <2>1. ghost.edges = rep.n - 1 + 0
    BY <1>1, <1>2, <1>3 DEF Counted, SampleEdge
  <2>2. rep.n \in Nat /\ ghost.edges \in Nat /\ ghost'.edges = ghost.edges + 1
    BY <1>1
  <2>3. QED
    BY <2>1, <2>2
<1>4. pc = "samples wait" => rep.ok
  BY DEF Counted
<1>5. QED
  BY <1>1, <1>2, <1>3, <1>4 DEF Counted

LEMMA LineCounted ==
  ASSUME TypeInv, ReadLine
  PROVE  Counted'
<1>1. PICK both \in FileLines[file.seen] :
        LET line == both.runner
        IN  \/ BadLine(both, line) \/ JobLine(both, line) \/ Out(both, line)
            \/ NoOut(line) \/ Chstate(both, line) \/ Samples(both, line)
            \/ Run(both, line)
  BY DEF ReadLine
<1> DEFINE line == both.runner
<1>2. pc = "line" /\ file.lines < MaxLines /\ rep \in RepType
  <2>1. file.lines \in Nat
    BY DEF TypeInv, FileType
  <2>2. QED
    BY <2>1 DEF ReadLine, TypeInv
<1>3. CASE Samples(both, line)
  <2>1. line.arg \in Nat
    BY <1>2, <1>3, LinesOK DEF LineOK, Samples
  <2>2. /\ rep'.n = 0 /\ rep'.want = line.arg /\ rep'.ok /\ rep'.irqoff
        /\ pc' = "samples wait"
    BY <1>2, <1>3 DEF Samples, SamplesBegin, RepType
  <2>3. rep'.n <= rep'.want /\ ~(rep'.n > 0)
    <3>1. rep'.n = 0 /\ rep'.want \in Nat
      BY <2>1, <2>2
    <3>2. QED
      BY <3>1
  <2>4. QED
    BY <2>2, <2>3 DEF Counted
<1>4. CASE ~Samples(both, line)
  <2>1. pc' \notin {"samples wait", "samples clear"}
    BY <1>1, <1>2, <1>4 DEF BadLine, JobLine, Out, NoOut, Exit, Chstate, Run
  <2>2. QED
    BY <2>1 DEF Counted
<1>5. QED
  BY <1>3, <1>4

LEMMA WaitCounted ==
  ASSUME TypeInv, Counted, WaitBit
  PROVE  Counted'
<1>1. /\ pc = "samples wait" /\ pc' = "samples clear" /\ UNCHANGED <<aica, ghost>>
      /\ rep'.n = rep.n /\ rep'.want = rep.want /\ rep'.irqoff = rep.irqoff
      /\ (aica.sample /\ rep'.ok = rep.ok) \/ ~rep'.ok
  BY DEF WaitBit, TypeInv, RepType
<1>2. QED
  BY <1>1 DEF Counted

LEMMA ClearCounted ==
  ASSUME TypeInv, Counted, ClearBit
  PROVE  /\ Counted'
         /\ pc' = "line" /\ rep.ok => ghost'.edges = rep.want
<1>1. /\ pc = "samples clear" /\ rep.irqoff /\ rep.n <= rep.want
      /\ rep.ok => aica.sample
      /\ rep.ok /\ rep.n > 0 =>
           ghost.edges = rep.n - 1 + (IF aica.sample THEN 1 ELSE 0)
      /\ rep.n \in Nat /\ rep.want \in Nat /\ ghost.edges \in Nat
  BY DEF ClearBit, Counted, TypeInv, RepType, GhostType
<1>2. /\ ghost'.edges = IF rep.n = 0 THEN 0 ELSE ghost.edges
      /\ ~aica'.sample
  BY DEF ClearBit, TypeInv, GhostType, AicaType
<1>0. rep.n \in Nat /\ rep.want \in Nat /\ rep.n <= rep.want
  BY <1>1
<1>3. rep.ok => ghost'.edges = rep.n
  <2>1. CASE rep.n = 0
    BY <1>2, <2>1
  <2>2. CASE rep.n # 0
    <3>1. rep.n > 0
      BY <1>0, <2>2
    <3>2. rep.ok => ghost.edges = rep.n - 1 + 1
      BY <1>1, <3>1
    <3>3. ghost'.edges = ghost.edges
      BY <1>2, <2>2
    <3>4. QED
      BY <1>0, <3>2, <3>3
  <2>3. QED
    BY <2>1, <2>2
<1>4. CASE rep.ok /\ rep.n < rep.want
  <2>1. /\ pc' = "samples wait" /\ rep'.n = rep.n + 1 /\ rep'.want = rep.want
        /\ rep'.ok = rep.ok /\ rep'.irqoff = rep.irqoff
    BY <1>4 DEF ClearBit, TypeInv, RepType
  <2>2. rep'.n <= rep'.want
    <3>1. rep'.n = rep.n + 1 /\ rep'.want = rep.want /\ rep.n < rep.want
      BY <1>4, <2>1
    <3>2. QED
      BY <1>0, <3>1
  <2>3. ghost'.edges = rep'.n - 1 + 0
    <3>1. rep'.n = rep.n + 1 /\ ghost'.edges = rep.n
      BY <1>3, <1>4, <2>1
    <3>2. QED
      BY <1>0, <3>1
  <2>4. QED
    BY <1>1, <1>2, <1>4, <2>1, <2>2, <2>3 DEF Counted
<1>5. CASE ~(rep.ok /\ rep.n < rep.want)
  <2>1. pc' = "line"
    BY <1>5 DEF ClearBit
  <2>2. rep.ok => rep.n = rep.want
    <3>1. rep.ok => ~(rep.n < rep.want)
      BY <1>5
    <3>2. QED
      BY <1>0, <3>1
  <2>3. QED
    BY <1>3, <2>1, <2>2 DEF Counted
<1>6. QED
  BY <1>4, <1>5

-----------------------------------------------------------------------------
(* The whole *)

LEMMA RunnerInit == Init => RunnerInv
<1> SUFFICES ASSUME Init PROVE RunnerInv
  OBVIOUS
<1>1. EmptyJob \in JobType /\ HwEmpty \in HwType
  BY EmptyType DEF HwEmpty, HwType, JobType
<1>2. file \in FileType /\ file.lines <= MaxLines /\ file.seen <= file.lines
  <2>1. /\ file = [lines |-> 0, seen |-> 0, job |-> EmptyJob, err |-> FALSE,
                   njobs |-> 0, hw |-> HwEmpty, whole |-> TRUE]
    BY DEF Init
  <2>2. file \in FileType /\ file.lines = 0 /\ file.seen = 0
    BY <1>1, <2>1 DEF FileType
  <2>3. QED
    BY <2>2, BoundsAssumption
<1>3. rep \in RepType /\ aica \in AicaType /\ posted \in Seq(Writes)
  BY DEF Init, RepType, AicaType, Statuses
<1>4. block \in BlockType /\ ghost \in GhostType
  BY BoundsAssumption DEF Init, BlockType, GhostType
<1>5. clk \in 0 .. Late /\ t1 \in Nat
  BY BoundsAssumption DEF Init, Late
<1>6. disk \in DiskType /\ ~disk.open
  <2>1. PICK old \in {NoFile, Old} :
          disk = [results |-> [name \in Keys |-> IF old.have THEN "done" ELSE "none"],
                  bin |-> [name \in Keys |-> old], open |-> FALSE]
    BY DEF Init
  <2>2. old \in BinType
    <3>1. CASE old = NoFile
      BY <3>1 DEF BinType, NoFile
    <3>2. CASE old = Old
      BY <3>2 DEF BinType, Old
    <3>3. QED
      BY <3>1, <3>2
  <2>3. /\ [name \in Keys |-> old] \in [Keys -> BinType]
        /\ [name \in Keys |-> IF old.have THEN "done" ELSE "none"]
             \in [Keys -> Statuses \cup {"none"}]
    BY <2>2 DEF Statuses
  <2> DEFINE results == [name \in Keys |-> IF old.have THEN "done" ELSE "none"]
             bin == [name \in Keys |-> old]
  <2>4. disk = [results |-> results, bin |-> bin, open |-> FALSE]
    BY <2>1
  <2> HIDE DEF results, bin
  <2>5. QED
    BY <2>3, <2>4 DEF DiskType, results, bin
<1>7. pc = "start" /\ arm \in {"held", "spin"} /\ posted = <<>> /\ rep.status = "done"
  BY DEF Init
<1>8. TypeInv
  BY <1>2, <1>3, <1>4, <1>5, <1>6, <1>7 DEF TypeInv
<1>9. JobFits
  <2>1. Job = EmptyJob
    BY DEF Init, Job
  <2>2. \A l \in Lists : Job.list[l] = <<>>
    BY <2>1 DEF EmptyJob
  <2>3. QED
    BY <2>2, LimitAssumption DEF JobFits, Fits, Lists
<1>10. SameJob
  <2>1. file.hw = HwEmpty /\ Job = EmptyJob /\ file.njobs = 0
    BY DEF Init, Job
  <2>2. /\ HwEmpty.cur = [EmptyJob EXCEPT !.repeat = 1]
        /\ ~HwEmpty.failed /\ HwEmpty.jobs = 0
    BY DEF HwEmpty
  <2>3. /\ HwEmpty.cur.name = EmptyJob.name /\ HwEmpty.cur.flags = EmptyJob.flags
        /\ HwEmpty.cur.list = EmptyJob.list
        /\ HwEmpty.cur.repeat = 1 /\ EmptyJob.repeat = 0
    BY <2>2 DEF EmptyJob
  <2>4. Reps(HwEmpty.cur) = 1 /\ Reps(EmptyJob) = 1
    BY <2>3, CountAssumption DEF Reps
  <2>5. QED
    BY <2>1, <2>2, <2>3, <2>4 DEF SameJob, Same
<1>11. Still /\ Withdrawn /\ Ran /\ Seen /\ Done
  BY <1>7 DEF Still, Withdrawn, Ran, Seen, Done
<1>12. Blind /\ VerdictTrue /\ Counted
  BY <1>6, <1>7 DEF Blind, VerdictTrue, Counted
<1>13. QED
  BY <1>8, <1>9, <1>10, <1>11, <1>12 DEF RunnerInv

LEMMA RunnerStep ==
  ASSUME RunnerInv, [Next]_vars
  PROVE  RunnerInv'
<1>1. TypeInv /\ JobsOK /\ Poll /\ Judged /\ Counted
  BY DEF RunnerInv, JobsOK, Poll, Judged
<1>2. SUFFICES TypeInv' /\ JobsOK' /\ Poll' /\ Judged' /\ Counted'
  BY DEF RunnerInv, JobsOK, Poll, Judged
<1>3. Still
  BY <1>1 DEF Poll
<1>4. CASE ReadLine
  BY <1>1, <1>4, LineKeeps, LinePolls, LineJudged, LineCounted
<1>5. CASE Start \/ EndOfFile \/ WaitBit \/ ClearBit
  <2>1. TypeInv' /\ JobsOK'
    <3>1. CASE \E code \in {0, 1} : Exit(code)
      BY <1>1, <3>1, ExitKeeps
    <3>2. CASE ~\E code \in {0, 1} : Exit(code)
      <4>1. TypeInv' /\ file' = file
        BY <1>1, <1>5, <3>2, WaitKeeps DEF EndOfFile
      <4>2. QED
        BY <1>1, <4>1, JobsKeep DEF Job
    <3>3. QED
      BY <3>1, <3>2
  <2>2. Poll' /\ Judged'
    BY <1>1, <1>5, LinePolls, OtherJudged
  <2>3. Counted'
    <3>1. CASE WaitBit \/ ClearBit
      BY <1>1, <3>1, WaitCounted, ClearCounted
    <3>2. CASE Start \/ EndOfFile
      BY <3>2 DEF Start, EndOfFile, Exit, Counted
    <3>3. QED
      BY <1>5, <3>1, <3>2
  <2>4. QED
    BY <2>1, <2>2, <2>3
<1>6. CASE Prepare
  <2>1. ~(ReadLine \/ WaitBit \/ ClearBit)
    BY <1>6 DEF Prepare, ReadLine, WaitBit, ClearBit
  <2>2. QED
    BY <1>1, <1>3, <1>6, <2>1, PrepareKeeps, PreparePolls, OtherJudged, CountedKeeps
       DEF JobsOK, Sh4
<1>7. CASE Save
  <2>1. ~(ReadLine \/ WaitBit \/ ClearBit)
    BY <1>7 DEF Save, ReadLine, WaitBit, ClearBit
  <2>2. QED
    BY <1>1, <1>3, <1>7, <2>1, SaveKeeps, StopPolls, SaveJudged, CountedKeeps DEF Sh4
<1>8. CASE Ready \/ Clock \/ Look \/ Test \/ Stop \/ Collect
  <2>1. ~(ReadLine \/ WaitBit \/ ClearBit)
    BY <1>8 DEF Ready, Clock, Look, Test, Stop, Collect, ReadLine, WaitBit, ClearBit
  <2>2. TypeInv' /\ file' = file
    BY <1>1, <1>8, PollKeeps
  <2>3. JobsOK'
    BY <1>1, <2>2, JobsKeep DEF Job
  <2>4. Poll'
    BY <1>1, <1>8, ReadyPolls, PollPolls, StopPolls
  <2>5. Judged' /\ Counted'
    BY <1>1, <1>3, <1>8, <2>1, OtherJudged, CountedKeeps DEF Sh4
  <2>6. QED
    BY <2>2, <2>3, <2>4, <2>5
<1>9. CASE Drain \/ SampleEdge \/ Tick \/ ProgramEnds \/ StubStep
  <2>1. arm = "registers" => ghost.entry \in Entries
    BY <1>1 DEF Poll, Still, Ran, TypeInv
  <2>2. TypeInv' /\ file' = file
    BY <1>1, <1>9, <2>1, AicaKeeps
  <2>3. JobsOK'
    BY <1>1, <2>2, JobsKeep DEF Job
  <2>4. Poll'
    BY <1>1, <1>9, DrainPolls, TimePolls, ArmPolls
  <2>5. Judged'
    BY <1>1, <1>9, OtherJudged
  <2>6. Counted'
    <3>1. CASE SampleEdge
      BY <1>1, <3>1, EdgeCounted
    <3>2. CASE Drain \/ Tick \/ ProgramEnds \/ StubStep
      <4>1. UNCHANGED pc /\ UNCHANGED rep
        BY <3>2 DEF Drain, Tick, ProgramEnds, StubStep
      <4>2. CASE ReadLine \/ WaitBit \/ ClearBit
        BY <1>1, <4>2, LineCounted, WaitCounted, ClearCounted
      <4>3. CASE ~(ReadLine \/ WaitBit \/ ClearBit)
        BY <1>1, <1>3, <3>2, <4>3, CountedKeeps
      <4>4. QED
        BY <4>2, <4>3
    <3>3. QED
      BY <1>9, <3>1, <3>2
  <2>7. QED
    BY <2>2, <2>3, <2>4, <2>5, <2>6
<1>10. CASE UNCHANGED vars
  <2>1. TypeInv'
    BY <1>1, <1>10 DEF vars, TypeInv
  <2>2. JobsOK'
    BY <1>1, <1>10, JobsKeep DEF vars, Job
  <2>3. Poll'
    BY <1>1, <1>10
       DEF vars, Poll, Still, NoRelease, Withdrawn, Ran, Seen, Done, Ended
  <2>4. Judged'
    BY <1>1, <1>10 DEF vars, Judged, Blind, Reads, Job, VerdictTrue, Pass
  <2>5. Counted'
    BY <1>1, <1>10 DEF vars, Counted
  <2>6. QED
    BY <2>1, <2>2, <2>3, <2>4, <2>5
<1>11. QED
  BY <1>4, <1>5, <1>6, <1>7, <1>8, <1>9, <1>10 DEF Next, Sh4

LEMMA RunnerAlways == Spec => []RunnerInv
BY RunnerInit, RunnerStep, PTL DEF Spec

LEMMA RunnerFollows == RunnerInv => RunnerTypeOK /\ StatusTrue
<1> SUFFICES ASSUME RunnerInv PROVE RunnerTypeOK /\ StatusTrue
  OBVIOUS
<1>1. TypeInv /\ JobFits /\ Done
  BY DEF RunnerInv
<1>2. RunnerTypeOK
  <2>1. /\ rep.status \in {"done", "timeout", "stuck"}
        /\ block \in [tag : BOOLEAN, k : Entries]
        /\ disk.results \in [Keys -> {"none", "done", "timeout", "stuck"}]
    <3>1. Statuses \cup {"none"} = {"none", "done", "timeout", "stuck"}
      BY DEF Statuses
    <3>2. disk.results \in [Keys -> Statuses \cup {"none"}]
      BY <1>1 DEF TypeInv, DiskType
    <3>3. QED
      BY <1>1, <3>1, <3>2 DEF TypeInv, RepType, Statuses, BlockType
  <2>2. QED
    BY <1>1, <2>1 DEF RunnerTypeOK, TypeInv, JobFits, Fits
<1>3. ASSUME pc = "save", rep.status = "done"
      PROVE  ghost.all /\ rep.mcipd /\ block = [tag |-> TRUE, k |-> ghost.entry]
  <2>1. ghost.all /\ rep.mcipd /\ block.tag /\ block.k = ghost.entry
    BY <1>1, <1>3 DEF Done, Ended
  <2>2. block = [tag |-> block.tag, k |-> block.k] /\ block.tag \in BOOLEAN
    BY <1>1 DEF TypeInv, BlockType
  <2>3. QED
    BY <2>1, <2>2
<1>4. QED
  BY <1>1, <1>2, <1>3 DEF StatusTrue, Done

(* For every size of the arrays and every file: they never hold more than    *)
(* they have room for.                                                       *)
THEOREM RunnerTypeCorrect == Spec => []RunnerTypeOK
BY RunnerAlways, RunnerFollows, PTL

(* A job is logged as done only if each of its repetitions raised the        *)
(* interrupt itself, and none is ever stuck.                                 *)
THEOREM StatusCorrect == Spec => []StatusTrue
BY RunnerAlways, RunnerFollows, PTL

(* A job passes only if its program ended normally in this session.          *)
THEOREM VerdictCorrect == Spec => []VerdictTrue
<1>1. RunnerInv => VerdictTrue
  BY DEF RunnerInv
<1>2. QED
  BY <1>1, RunnerAlways, PTL

(* For every file of lines the runner reads whole, however long the files    *)
(* and the names and paths it has room for: the runner and parse_jobs have   *)
(* the same jobs, unless the runner has reported a line.                     *)
THEOREM SameJobCorrect == Spec => []SameJob
<1>1. RunnerInv => SameJob
  BY DEF RunnerInv
<1>2. QED
  BY <1>1, RunnerAlways, PTL

LEMMA TimeoutStep ==
  ASSUME RunnerInv, [Next]_vars, pc = "test", pc' = "stop"
  PROVE  ghost.raised \notin 0 .. Timeout
<1>1. Test
  BY DEF vars, Next, Sh4, Start, ReadLine, EndOfFile, WaitBit, ClearBit, Prepare, Ready,
         Clock, Look, Stop, Collect, Save, Drain, SampleEdge, Tick, ProgramEnds,
         StubStep
<1>2. t1 > Timeout
  BY <1>1 DEF Test
<1>3. ghost.raised # None => t1 <= ghost.raised
  BY DEF RunnerInv, Seen
<1>4. t1 \in Nat /\ ghost.raised \in Nat \cup {None}
  BY DEF RunnerInv, TypeInv, GhostType
<1>5. ASSUME ghost.raised \in 0 .. Timeout PROVE FALSE
  <2>1. ghost.raised # None
    BY <1>5, BoundsAssumption DEF None
  <2>2. QED
    BY <1>2, <1>3, <1>4, <1>5, <2>1, BoundsAssumption
<1>6. QED
  BY <1>5

(* The runner gives up only on a run that had not raised its interrupt by    *)
(* the timeout, for every timeout and every order of the poll and the stub.  *)
THEOREM TimeoutCorrect == Spec => TimeoutTrue
<1>1. RunnerInv /\ [Next]_vars =>
        [pc = "test" /\ pc' = "stop" => ghost.raised \notin 0 .. Timeout]_vars
  BY TimeoutStep
<1>2. QED
  BY <1>1, RunnerAlways, PTL DEF Spec, TimeoutTrue

LEMMA SamplesStep ==
  ASSUME RunnerInv, [Next]_vars, pc = "samples clear", pc' = "line", rep.ok
  PROVE  ghost'.edges = rep.want
<1>1. ClearBit
  <2>1. posted = <<>> /\ arm = "held"
    BY DEF RunnerInv, Still
  <2>2. QED
    BY <2>1
       DEF vars, Next, Sh4, Start, ReadLine, EndOfFile, WaitBit, Prepare, Ready,
           Clock, Look, Test, Stop, Collect, Save, Drain, SampleEdge, Tick,
           ProgramEnds, StubStep
<1>2. QED
  BY <1>1, ClearCounted DEF RunnerInv

(* A calibration that did not time out counted exactly its N edges from t0,  *)
(* for every N.                                                              *)
THEOREM SamplesCorrect == Spec => SamplesExact
<1>1. RunnerInv /\ [Next]_vars =>
        [pc = "samples clear" /\ pc' = "line" /\ rep.ok
           => ghost'.edges = rep.want]_vars
  BY SamplesStep
<1>2. QED
  BY <1>1, RunnerAlways, PTL DEF Spec, SamplesExact

=============================================================================
