------------------------------ MODULE MCHwRunner ------------------------------
(***************************************************************************)
(* HwRunner with arrays of one entry, one rreg read, two repetitions, and    *)
(* words of three characters for the runner and four for parse_jobs.         *)
(***************************************************************************)
EXTENDS HwRunner

MCLimit == [l \in Lists |-> 1]
MCRunnerWidth == <<3, 3, 1>>
MCHwWidth == <<4, 4, 2>>

(* The numbers that words of the lines below stand for, cut ones too         *)
Value == [n \in {"0", "1", "2", "3"} |->
            IF n = "0" THEN 0 ELSE IF n = "1" THEN 1 ELSE IF n = "2" THEN 2 ELSE 3]
MCTexts == DOMAIN Value \cup
  {"", "0x28B8", "0x20", "dir", "image", "missing", "long image", "first", "second",
   "long name"}
MCNumber(w) ==
  IF w.text \in DOMAIN Value THEN Value[w.text]
  ELSE IF w.text = "0x28B8" THEN 10424 ELSE IF w.text = "0x20" THEN 32 ELSE 0

Text(text, len) == [text |-> text, from |-> 0, len |-> len]
Digit(n) == Text(n, 1)
Raw(cmd, words) == [cmd |-> cmd, words |-> words]

MCFiles == {Text("image", 3)}
MCNames == {Text("first", 2), Text("second", 2), Text("long name", 2),
            Text("long name", 4)}

(* The only word of the load is too long for the runner and makes two.       *)
Before ==
  {Raw("out", <<Text("dir", 3)>>), Raw("samples", <<Digit("1")>>),
   Raw("chstate", <<>>), Raw("run", <<>>),
   Raw("load", <<Text("long image", 4)>>)}

(* The path of the second load is too long for the runner.                   *)
InJob ==
  {Raw("run", <<>>), Raw("clear", <<>>), Raw("quiet", <<>>),
   Raw("load", <<Digit("0"), Text("image", 3)>>),
   Raw("load", <<Digit("0"), Text("long image", 4)>>),
   Raw("areg", <<Text("0x28B8", 2), Text("0x20", 2)>>),
   Raw("read", <<Digit("0"), Digit("0")>>), Raw("rreg", <<Digit("0"), Digit("2")>>),
   Raw("samples", <<>>)}

(* A job line names the next job; the long name is the first of a file.      *)
Job1 == {<<Text("first", 2), r>> : r \in {Digit("0"), Digit("3")}}
        \cup {<<Text("long name", 4), Digit("3")>>}
Job2 == {<<Text("second", 2), r>> : r \in {Digit("0"), Digit("3")}}

JobLines(seen) ==
  {Raw("job", <<j[1], Digit("1"), j[2]>>) :
     j \in IF seen = 0 THEN Job1 ELSE IF seen = 1 THEN Job2 ELSE {}}

MCLines(seen) == (IF seen = 0 THEN Before ELSE InJob) \cup JobLines(seen)

=============================================================================
