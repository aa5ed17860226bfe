--------------------------- MODULE InterruptProofs ---------------------------
(***************************************************************************)
(* Proofs about the interrupt controller and the programs on it.            *)
(* First the controller: its types, that no request is left waiting, and    *)
(* that it implements the handshake, for every set of level registers,      *)
(* every length of a cycle, and with or without a hook.  Then the console's *)
(* interrupt handlers, for any number of iterations and any moment an edge  *)
(* comes.                                                                   *)
(***************************************************************************)
EXTENDS FiqKernel, TLAPS


LatchType == [request : BOOLEAN, line : BOOLEAN, level : Levels,
              port : {"L", "M", "other"}]

-----------------------------------------------------------------------------
(* The latch *)

LEMMA LevelType == ASSUME NEW st PROVE Level(st) \in Levels
BY DEF Level, Levels

LEMMA UpdateType ==
  ASSUME NEW st, NEW s \in LatchType
  PROVE  /\ Update(st, s) \in LatchType
         /\ Level(st) # {} => Update(st, s).request
         /\ s.request => Update(st, s) = s
         /\ Level(st) = {} => Update(st, s) = s
<1>1. Level(st) \in Levels BY LevelType
<1> QED BY <1>1 DEF Update, LatchType

LEMMA ClockedLatchType ==
  ASSUME NEW s \in LatchType
  PROVE  ClockedLatch(s) \in LatchType
BY UpdateType DEF ClockedLatch

LEMMA AfterReadType ==
  ASSUME NEW r, NEW s \in LatchType
  PROVE  /\ AfterRead(r, s) \in LatchType
         /\ AfterRead(r, s).request = s.request
BY DEF AfterRead, AckRead, LatchType

LEMMA EndedType == ASSUME NEW s \in LatchType PROVE Ended(s) \in LatchType
BY DEF Ended, LatchType

LEMMA AfterWriteType ==
  ASSUME NEW st, NEW r, NEW v, NEW mask, NEW s \in LatchType
  PROVE  AfterWrite(st, r, v, mask, s) \in LatchType
BY UpdateType, EndedType DEF AfterWrite

LEMMA ThroughType ==
  ASSUME NEW s \in LatchType, NEW port \in {"L", "M", "other"}
  PROVE  /\ Through(port, s) \in LatchType
         /\ Through(port, s).request = s.request
BY DEF Through, LatchType

LEMMA PortType ==
  ASSUME NEW r, NEW v, NEW mask
  PROVE  /\ ReadPort(r) \in {"L", "M", "other"}
         /\ WritePort(r, v, mask) \in {"L", "M", "other"}
BY DEF ReadPort, WritePort

-----------------------------------------------------------------------------
(* The store *)

LEMMA OperandType ==
  ASSUME NEW r \in Registers, NEW v \in Operand(r), r # "M"
  PROVE  v \in SUBSET Bits
BY DEF Operand, Kept, Bits, Registers, Stored

LEMMA ClockedType ==
  ASSUME NEW st \in Store
  PROVE  Clocked(st) \in Store
<1>1. Sample \in Bits BY DEF Bits, Sources
<1> QED BY <1>1 DEF Clocked, Store, Stored, Bits

LEMMA WrittenType ==
  ASSUME NEW st \in Store, NEW r \in Registers, NEW v \in Operand(r), NEW mask
  PROVE  Written(st, r, v, mask) \in Store
<1>1. Scpu \in Bits BY DEF Bits, Sources
<1>2. Kept(r) \subseteq Bits BY DEF Kept, Bits
<1>3. \A q \in Stored : st[q] \subseteq Bits BY DEF Store
<1>4. "SCIPD" \in Stored BY DEF Stored
<1>5. CASE r = "SCIPD"
  <2>1. st[r] \cup (v \cap mask \cap {Scpu}) \in SUBSET Bits BY <1>1, <1>3, <1>4, <1>5
  <2>2. Written(st, r, v, mask)
          = [st EXCEPT !["SCIPD"] = st["SCIPD"] \cup (v \cap mask \cap {Scpu})]
    BY <1>5 DEF Written
  <2> QED BY <2>1, <2>2, <1>4, <1>5 DEF Store
<1>6. CASE r = "SCIRE"
  <2>1. st["SCIPD"] \ (v \cap mask) \in SUBSET Bits BY <1>3, <1>4
  <2>2. Written(st, r, v, mask) = [st EXCEPT !["SCIPD"] = st["SCIPD"] \ (v \cap mask)]
    BY <1>6 DEF Written
  <2> QED BY <2>1, <2>2, <1>4 DEF Store
<1>7. CASE r # "SCIPD" /\ r # "SCIRE" /\ r \in Stored
  <2>1. Merged(st[r], v \cap Kept(r), mask) \in SUBSET Bits
    BY <1>2, <1>3, <1>7 DEF Merged
  <2>2. Written(st, r, v, mask) = [st EXCEPT ![r] = Merged(st[r], v \cap Kept(r), mask)]
    BY <1>7 DEF Written
  <2> QED BY <2>1, <2>2, <1>7 DEF Store
<1>8. CASE r # "SCIPD" /\ r # "SCIRE" /\ r \notin Stored
  BY <1>8 DEF Written
<1> QED BY <1>5, <1>6, <1>7, <1>8

-----------------------------------------------------------------------------
(* One step of each kind *)

LEMMA TypeStep == ASSUME IrqTypeOK, [Next]_vars PROVE IrqTypeOK'
<1> USE DEF IrqTypeOK
<1>0. latch \in LatchType BY DEF LatchType
<1>1. CASE SampleEdge BY <1>1, DueAssumption DEF SampleEdge
<1>2. CASE Tick
  <2>1. store' \in Store BY <1>2, ClockedType DEF Tick
  <2>2. latch' \in LatchType
    BY <1>0, <1>2, ClockedLatchType, ThroughType DEF Tick
  <2> QED BY <1>2, <2>1, <2>2, DueAssumption DEF Tick, LatchType
<1>3. ASSUME NEW r \in Registers, ArmRead(r) PROVE IrqTypeOK'
  <2>1. store' \in Store BY <1>3, ClockedType DEF ArmRead
  <2>2. latch' \in LatchType
    BY <1>0, <1>3, ClockedLatchType, AfterReadType, ThroughType, PortType DEF ArmRead
  <2> QED BY <1>3, <2>1, <2>2, DueAssumption DEF ArmRead, LatchType
<1>4. ASSUME NEW r \in Registers, Sh4Read(r) PROVE IrqTypeOK'
  <2>1. latch' \in LatchType
    BY <1>0, <1>4, AfterReadType, ThroughType, PortType DEF Sh4Read
  <2> QED BY <1>4, <2>1 DEF Sh4Read, LatchType
<1>5. ASSUME NEW r \in Registers, NEW v \in Operand(r), Sh4Write(r, v)
      PROVE  IrqTypeOK'
  <2>1. store' \in Store BY <1>5, WrittenType DEF Sh4Write, StoreWritten
  <2>2. latch' \in LatchType
    BY <1>0, <1>5, AfterWriteType, ThroughType, PortType DEF Sh4Write
  <2>3. hook' \in Store BY <1>5, WrittenType DEF Sh4Write, HookWritten
  <2> QED BY <1>5, <2>1, <2>2, <2>3 DEF Sh4Write, LatchType
<1>6. ASSUME NEW r \in Registers, NEW v \in Operand(r), NEW mask \in Lanes,
             ArmWrite(r, v, mask)
      PROVE  IrqTypeOK'
  <2>1. store' \in Store
    BY <1>6, ClockedType, WrittenType DEF ArmWrite, StoreWritten
  <2>2. latch' \in LatchType
    BY <1>0, <1>6, ClockedLatchType, AfterWriteType, ThroughType, PortType DEF ArmWrite
  <2>3. hook' \in Store BY <1>6, WrittenType DEF ArmWrite, HookWritten
  <2> QED BY <1>6, <2>1, <2>2, <2>3, DueAssumption DEF ArmWrite, LatchType
<1>7. CASE UNCHANGED vars BY <1>7 DEF vars
<1> QED BY <1>1, <1>2, <1>3, <1>4, <1>5, <1>6, <1>7 DEF Next

LEMMA TypeInit == Init => IrqTypeOK
BY DueAssumption DEF Init, IrqTypeOK, Store, Levels

(* The store, the latch and the due edges keep to their ranges: for every    *)
(* program on both sides of the register block.                              *)
THEOREM IrqTypeCorrect == Spec => []IrqTypeOK
BY TypeInit, TypeStep, PTL DEF Spec

-----------------------------------------------------------------------------
(* No request waits *)

(* NoneWaiting in the controller's own terms                                 *)
Waits == Level(store) # {} => latch.request

LEMMA WaitsSays == IrqTypeOK /\ Waits => NoneWaiting
<1> SUFFICES ASSUME IrqTypeOK, Waits, NEW b \in Bits,
                    b \in store["SCIEB"], b \in store["SCIPD"],
                    \A c \in Bits : c < b => c \notin store["SCIEB"] \/ c \notin store["SCIPD"],
                    NEW i \in Planes, (IF b < 8 THEN b ELSE 7) \in store[i]
             PROVE  latch.request
  BY DEF NoneWaiting
<1>1. Bits \subseteq Nat
  BY DEF Bits, Sources, Scpu, Sample, LevelBit
<1>2. Pending(store) \subseteq Bits /\ b \in Pending(store)
  BY DEF IrqTypeOK, Store, Stored, Pending
<1>3. \A c \in Pending(store) : b <= c
  BY <1>1, <1>2 DEF Pending
<1>4. Lowest(Pending(store)) = b
  <2>1. \A d \in Pending(store) : (\A c \in Pending(store) : d <= c) => d = b
    BY <1>1, <1>2, <1>3
  <2>2. QED
    BY <1>2, <1>3, <2>1 DEF Lowest
<1>5. LevelBit(b) \in store[i]
  BY <1>1 DEF LevelBit
<1>6. i \in Level(store)
  BY <1>2, <1>4, <1>5 DEF Level
<1>7. QED
  BY <1>6 DEF Waits

(* After the clock, as before it, a level goes with a request.               *)
LEMMA ClockedWaits ==
  ASSUME latch \in LatchType, Waits
  PROVE  Level(Clocked(store)) # {} => ClockedLatch(latch).request
BY UpdateType DEF Clocked, ClockedLatch, Waits

(* Every write looks at the pending bits again, but for those to L and M     *)
(* that leave both the store and the latch as they are.                      *)
LEMMA WriteWaits ==
  ASSUME NEW st, NEW after, NEW r, NEW v, NEW mask, NEW s \in LatchType,
         Level(st) # {} => s.request,
         r \in {"L", "M"} => after = st
  PROVE  Level(after) # {} => AfterWrite(after, r, v, mask, s).request
<1>1. CASE Ends(r, v, mask)
  BY <1>1, UpdateType, EndedType DEF AfterWrite
<1>2. CASE ~Ends(r, v, mask) /\ r \in {"L", "M"} BY <1>2 DEF AfterWrite
<1>3. CASE ~Ends(r, v, mask) /\ r \notin {"L", "M"}
  BY <1>3, UpdateType DEF AfterWrite
<1> QED BY <1>1, <1>2, <1>3

LEMMA LMNotStored ==
  ASSUME NEW st, NEW r \in {"L", "M"}, NEW v, NEW mask
  PROVE  StoreWritten(st, r, v, mask) = st
<1>1. r \notin Stored BY PlanesAssumption DEF Stored
<1> QED BY <1>1 DEF StoreWritten, Written

LEMMA WaitingStep ==
  ASSUME IrqTypeOK, Waits, [Next]_vars
  PROVE  Waits'
<1>0. latch \in LatchType BY DEF IrqTypeOK, LatchType
<1>c. /\ ClockedLatch(latch) \in LatchType
      /\ Level(Clocked(store)) # {} => ClockedLatch(latch).request
  BY <1>0, ClockedLatchType, ClockedWaits
<1>1. CASE SampleEdge BY <1>1 DEF SampleEdge, Waits
<1>2. CASE Tick BY <1>2, <1>c, ThroughType DEF Tick, Waits
<1>3. ASSUME NEW r \in Registers, ArmRead(r) PROVE Waits'
  BY <1>3, <1>c, AfterReadType, ThroughType, PortType DEF ArmRead, Waits
<1>4. ASSUME NEW r \in Registers, Sh4Read(r) PROVE Waits'
  BY <1>4, <1>0, AfterReadType, ThroughType, PortType DEF Sh4Read, Waits
<1>5. ASSUME NEW r \in Registers, NEW v \in Operand(r), Sh4Write(r, v)
      PROVE  Waits'
  <2> DEFINE s == AfterWrite(store', r, v, 0 .. 15, latch)
  <2>1. r \in {"L", "M"} => store' = store BY <1>5, LMNotStored DEF Sh4Write
  <2>2. Level(store)' = Level(store') OBVIOUS
  <2>3. Level(store') # {} => s.request
    BY <1>0, <2>1, WriteWaits DEF Waits
  <2>4. s \in LatchType BY <1>0, AfterWriteType
  <2> QED BY <1>5, <2>3, <2>4, ThroughType, PortType DEF Sh4Write, Waits
<1>6. ASSUME NEW r \in Registers, NEW v \in Operand(r), NEW mask \in Lanes,
             ArmWrite(r, v, mask)
      PROVE  Waits'
  <2> DEFINE s == AfterWrite(store', r, v, mask, ClockedLatch(latch))
  <2>1. r \in {"L", "M"} => store' = Clocked(store)
    BY <1>6, LMNotStored DEF ArmWrite
  <2>3. Level(store') # {} => s.request BY <1>c, <2>1, WriteWaits
  <2>4. s \in LatchType BY <1>c, AfterWriteType
  <2> QED BY <1>6, <2>3, <2>4, ThroughType, PortType DEF ArmWrite, Waits
<1>7. CASE UNCHANGED vars BY <1>7 DEF vars, Waits
<1> QED BY <1>1, <1>2, <1>3, <1>4, <1>5, <1>6, <1>7 DEF Next

LEMMA WaitingInit == Init => Waits
BY DEF Init, Waits, Level, Pending, Stored

(* A pending enabled bit whose level is not 0 is never left without a        *)
(* request, whatever is written, read or due, on either side.                *)
THEOREM NoneWaitingCorrect == Spec => []NoneWaiting
<1>1. IrqTypeOK /\ Waits /\ [Next]_vars => Waits' BY WaitingStep
<1>2. IrqTypeOK /\ Waits => NoneWaiting BY WaitsSays
<1> QED BY <1>1, <1>2, WaitingInit, IrqTypeCorrect, PTL DEF Spec

-----------------------------------------------------------------------------
(* The handshake *)

LEMMA UpdateRaises ==
  ASSUME NEW st, NEW s \in LatchType
  PROVE  Update(st, s) \in H!Raise(s)
BY LevelType DEF Update, H!Raise, LatchType

LEMMA ClockedRaises ==
  ASSUME NEW s \in LatchType
  PROVE  ClockedLatch(s) \in H!Raise(s)
BY UpdateRaises DEF ClockedLatch, H!Raise

(* Naming the port does not disturb a request that comes in.                 *)
LEMMA OtherRaises ==
  ASSUME NEW s \in LatchType, NEW t \in H!Raise(s)
  PROVE  Through("other", t) \in H!Raise(H!Other(s))
<1>1. CASE t = s BY <1>1 DEF Through, H!Raise, H!Other
<1>2. CASE ~s.request /\ \E l \in Levels \ {{}} :
             t = [s EXCEPT !.request = TRUE, !.line = TRUE, !.level = l]
  <2>1. PICK l \in Levels \ {{}} :
          t = [s EXCEPT !.request = TRUE, !.line = TRUE, !.level = l] BY <1>2
  <2>2. Through("other", t)
          = [H!Other(s) EXCEPT !.request = TRUE, !.line = TRUE, !.level = l]
    BY <2>1 DEF Through, H!Other, LatchType
  <2>3. ~H!Other(s).request BY <1>2 DEF H!Other, LatchType
  <2> QED BY <2>2, <2>3 DEF H!Raise
<1> QED BY <1>1, <1>2 DEF H!Raise

LEMMA RaiseTwice ==
  ASSUME NEW s \in LatchType, NEW t \in H!Raise(s), NEW u \in H!Raise(t)
  PROVE  u \in H!Raise(s)
BY DEF H!Raise, LatchType

LEMMA EndRaises ==
  ASSUME NEW s \in LatchType, NEW t \in H!Raise(Ended(s))
  PROVE  Through("M", t) \in H!Raise(H!End(s))
<1>1. CASE t = Ended(s) BY <1>1 DEF Through, H!Raise, H!End, Ended
<1>2. CASE \E l \in Levels \ {{}} :
             t = [Ended(s) EXCEPT !.request = TRUE, !.line = TRUE, !.level = l]
  <2>1. PICK l \in Levels \ {{}} :
          t = [Ended(s) EXCEPT !.request = TRUE, !.line = TRUE, !.level = l]
    BY <1>2
  <2>2. Through("M", t)
          = [H!End(s) EXCEPT !.request = TRUE, !.line = TRUE, !.level = l]
    BY <2>1 DEF Through, H!End, Ended, LatchType
  <2>3. ~H!End(s).request BY DEF H!End, LatchType
  <2> QED BY <2>2, <2>3 DEF H!Raise
<1> QED BY <1>1, <1>2 DEF H!Raise

LEMMA WriteStep ==
  ASSUME NEW s \in LatchType, NEW c \in H!Raise(s), c \in LatchType, s = latch,
         NEW st, NEW r, NEW v, NEW mask,
         latch' = Through(WritePort(r, v, mask), AfterWrite(st, r, v, mask, c))
  PROVE  H!Next
<1>1. CASE Ends(r, v, mask)
  <2>1. latch' = Through("M", Update(st, Ended(c)))
    BY <1>1 DEF WritePort, AfterWrite
  <2>2. Update(st, Ended(c)) \in H!Raise(Ended(c)) BY EndedType, UpdateRaises
  <2>3. latch' \in H!Raise(H!End(c)) BY <2>1, <2>2, EndRaises
  <2> QED BY <2>3 DEF H!Next, H!WriteM
<1>2. CASE ~Ends(r, v, mask)
  <2> DEFINE t == AfterWrite(st, r, v, mask, c)
  <2>1. t = c \/ t = Update(st, c) BY <1>2 DEF AfterWrite
  <2>2. t \in H!Raise(s)
    <3>1. Update(st, c) \in H!Raise(c) BY UpdateRaises
    <3> QED BY <2>1, <3>1, RaiseTwice
  <2>3. latch' = Through("other", t) BY <1>2 DEF WritePort
  <2> QED BY <2>2, <2>3, OtherRaises DEF H!Next, H!Access
<1> QED BY <1>1, <1>2

LEMMA ReadStep ==
  ASSUME NEW s \in LatchType, NEW c \in H!Raise(s), c \in LatchType, s = latch,
         NEW r, latch' = Through(ReadPort(r), AfterRead(r, c))
  PROVE  H!Next
<1>1. CASE r = "L"
  <2>1. latch' = H!Acknowledge(c)
    BY <1>1 DEF ReadPort, AfterRead, AckRead, Through, H!Acknowledge, LatchType
  <2> QED BY <2>1 DEF H!Next, H!ReadL
<1>2. CASE r # "L"
  <2>1. latch' = Through("other", c) BY <1>2 DEF ReadPort, AfterRead
  <2> QED BY <2>1, OtherRaises DEF H!Next, H!Access
<1> QED BY <1>1, <1>2

LEMMA HandshakeStep ==
  ASSUME IrqTypeOK, [Next]_vars
  PROVE  [H!Next]_latch
<1>0. latch \in LatchType BY DEF IrqTypeOK, LatchType
<1>c. /\ ClockedLatch(latch) \in H!Raise(latch)
      /\ ClockedLatch(latch) \in LatchType
  BY <1>0, ClockedRaises, ClockedLatchType
<1>l. latch \in H!Raise(latch) BY DEF H!Raise
<1>1. CASE SampleEdge BY <1>1 DEF SampleEdge
<1>2. CASE Tick
  BY <1>0, <1>2, <1>c, OtherRaises DEF Tick, H!Next, H!Access
<1>3. ASSUME NEW r \in Registers, ArmRead(r) PROVE H!Next
  BY <1>0, <1>3, <1>c, ReadStep DEF ArmRead
<1>4. ASSUME NEW r \in Registers, Sh4Read(r) PROVE H!Next
  BY <1>0, <1>4, <1>l, ReadStep DEF Sh4Read
<1>5. ASSUME NEW r \in Registers, NEW v \in Operand(r), Sh4Write(r, v)
      PROVE  H!Next
  BY <1>0, <1>5, <1>l, WriteStep DEF Sh4Write
<1>6. ASSUME NEW r \in Registers, NEW v \in Operand(r), NEW mask \in Lanes,
             ArmWrite(r, v, mask)
      PROVE  H!Next
  BY <1>0, <1>6, <1>c, WriteStep DEF ArmWrite
<1>7. CASE UNCHANGED vars BY <1>7 DEF vars
<1> QED BY <1>1, <1>2, <1>3, <1>4, <1>5, <1>6, <1>7 DEF Next

(* The interrupt controller is the 68000's handshake: nFIQ rises only with a *)
(* new request and falls only with a read of L, the level stays as long as   *)
(* the request is in service, and only M ends it.                            *)
THEOREM HandshakeCorrect == Spec => Handshake
<1>1. Init => H!Init BY DEF Init, H!Init
<1>2. IrqTypeOK /\ [Next]_vars => [H!Next]_latch BY HandshakeStep
<1> QED BY <1>1, <1>2, IrqTypeCorrect, PTL DEF Spec, Handshake, H!Spec

-----------------------------------------------------------------------------
(* The programs, access by access *)

LevelsAt == IF kernel = "blkphase" THEN 2 ELSE 1
ResetAt == IF kernel = "blkphase" THEN 3 ELSE 2

LEMMA PrologueIs ==
  ASSUME kernel \in Kernels
  PROVE  /\ Len(Prologue) = 5
         /\ Prologue[LevelsAt] = Save("SCILV0", {7})
         /\ Prologue[ResetAt] = Save("SCIRE", Sources)
         /\ \A i \in 1 .. 3 \ {LevelsAt, ResetAt} : Prologue[i] = Load("L")
         /\ Prologue[4] = Save("M", {0})
         /\ Prologue[5] = Save("SCIEB", {Sample})
BY DEF Kernels, Prologue, SetLevels, Reset, Accept, Enable, LevelsAt, ResetAt

LEMMA HandlerIs ==
  ASSUME kernel \in Kernels
  PROVE  /\ kernel = "fiqcost" => Handler = <<Load("L"), Clear, Accept>>
         /\ kernel = "ldrl" =>
              Handler = <<Load("L"), Clear, Accept, Load("L"), Load("L")>>
         /\ kernel = "blkphase" => Handler = <<Clear, Load("L"), Accept, Accept>>
BY DEF Kernels, Handler

-----------------------------------------------------------------------------
(* Every step of a program is one of the controller's *)

LEMMA RegistersOf ==
  /\ {"SCILV0", "SCIRE", "L", "M", "SCIEB"} \subseteq Registers
  /\ {7} \in Operand("SCILV0")
  /\ Sources \in Operand("SCIRE") /\ {Sample} \in Operand("SCIRE")
  /\ {0} \in Operand("M") /\ {Sample} \in Operand("SCIEB")
<1>1. {"SCILV0", "SCIRE", "L", "M", "SCIEB"} \subseteq Registers
  BY LevelAssumption DEF Registers, Stored
<1>2. Sample \in Sources /\ Scpu \in Sources
  BY DEF Sources
<1>3. 7 \in Kept("SCILV0")
  <2>1. LevelBit(Sample) = 7 BY DEF LevelBit, Sample
  <2>2. QED BY <1>2, <2>1, LevelAssumption DEF Kept
<1>4. {7} \in Operand("SCILV0")
  BY <1>3, LevelAssumption DEF Operand, Stored
<1>5. "SCIRE" \notin Stored /\ "M" \notin Stored
  BY PlanesAssumption DEF Stored
<1>6. "SCIEB" \notin Planes /\ "SCIEB" \in Stored
  BY PlanesAssumption DEF Stored
<1>7. QED
  BY <1>1, <1>2, <1>4, <1>5, <1>6 DEF Operand, Kept

(* An access of the programs *)
Loads(access) == access = Load("L")
Saves(access) ==
  \E r \in Registers : \E v \in Operand(r) : access = Save(r, v)

LEMMA DoesNext ==
  ASSUME NEW access, Loads(access) \/ Saves(access), Does(access)
  PROVE  Next
<1>1. CASE Loads(access)
  <2>1. ArmRead("L")
    BY <1>1 DEF Loads, Load, Does
  <2>2. QED
    BY <2>1, RegistersOf DEF Next
<1>2. CASE Saves(access)
  <2>1. PICK r \in Registers : \E v \in Operand(r) : access = Save(r, v)
    BY <1>2 DEF Saves
  <2>2. PICK v \in Operand(r) : access = Save(r, v)
    BY <2>1
  <2>3. ArmWrite(r, v, 0 .. 15)
    BY <2>2 DEF Save, Does
  <2>4. QED
    BY <2>3 DEF Next, Lanes
<1>3. QED
  BY <1>1, <1>2

(* Where the programs are *)
Places ==
  /\ phase \in {"held", "prologue", "sled", "handler", "done", "free"}
  /\ kernel \in Kernels \cup {"free"}
  /\ kernel = "free" <=> phase = "free"
  /\ phase \in {"held", "sled"} => at = 1
  /\ phase = "prologue" => at \in 1 .. 5
  /\ phase = "handler" => at \in 1 .. Len(Handler)

LEMMA PrologueSorts ==
  ASSUME kernel \in Kernels, at \in 1 .. 5
  PROVE  Loads(Prologue[at]) \/ Saves(Prologue[at])
<1>1. CASE at = LevelsAt
  BY <1>1, PrologueIs, RegistersOf DEF Saves
<1>2. CASE at = ResetAt
  BY <1>2, PrologueIs, RegistersOf DEF Saves
<1>3. CASE at \in {4, 5}
  BY <1>3, PrologueIs, RegistersOf DEF Saves
<1>4. CASE at \in 1 .. 3 \ {LevelsAt, ResetAt}
  BY <1>4, PrologueIs DEF Loads
<1>5. QED
  BY <1>1, <1>2, <1>3, <1>4

LEMMA HandlerSorts ==
  ASSUME kernel \in Kernels, at \in 1 .. Len(Handler)
  PROVE  Loads(Handler[at]) \/ Saves(Handler[at])
<1>1. Saves(Clear) /\ Saves(Accept) /\ Loads(Load("L"))
  BY RegistersOf DEF Saves, Loads, Clear, Accept
<1>2. Handler[at] \in {Clear, Accept, Load("L")}
  BY HandlerIs DEF Kernels
<1>3. QED
  BY <1>1, <1>2

LEMMA StepOnController ==
  ASSUME Places, [KNext]_<<vars, kvars>>
  PROVE  [Next]_vars
<1>1. CASE Prepare
  BY <1>1 DEF Prepare, Next, Registers
<1>2. CASE Edge
  BY <1>2 DEF Edge, Next
<1>3. CASE Free
  BY <1>3 DEF Free
<1>4. CASE Release
  BY <1>4 DEF Release
<1>5. CASE PrologueStep
  <2>1. kernel \in Kernels /\ at \in 1 .. 5
    BY <1>5 DEF PrologueStep, Places
  <2>2. QED
    BY <1>5, <2>1, PrologueSorts, DoesNext DEF PrologueStep
<1>6. CASE Sled \/ LeaveAtOnce \/ Spin
  BY <1>6 DEF Sled, LeaveAtOnce, Spin, Next
<1>7. CASE HandlerStep
  <2>1. kernel \in Kernels /\ at \in 1 .. Len(Handler)
    BY <1>7 DEF HandlerStep, Places
  <2>2. QED
    BY <1>7, <2>1, HandlerSorts, DoesNext DEF HandlerStep
<1>8. CASE UNCHANGED <<vars, kvars>>
  BY <1>8
<1>9. QED
  BY <1>1, <1>2, <1>3, <1>4, <1>5, <1>6, <1>7, <1>8 DEF KNext, Step

LEMMA PlacesStep ==
  ASSUME Places, [KNext]_<<vars, kvars>>
  PROVE  Places'
<1>1. CASE Prepare \/ Edge \/ Free \/ Spin
  BY <1>1 DEF Prepare, Edge, Free, Spin, kvars, Places, Handler
<1>2. CASE Release
  BY <1>2 DEF Release, Places
<1>3. CASE PrologueStep
  <2>1. kernel' = kernel /\ kernel \in Kernels /\ at \in 1 .. 5
    BY <1>3 DEF PrologueStep, Places
  <2>2. Len(Prologue) = 5
    BY <2>1, PrologueIs
  <2>3. QED
    BY <1>3, <2>1, <2>2 DEF PrologueStep, Places, Kernels
<1>4. CASE Sled
  <2>1. kernel' = kernel /\ kernel \in Kernels /\ at' = 1
    BY <1>4 DEF Sled, Places
  <2>2. Len(Handler) \in Nat /\ Len(Handler) >= 1
    BY <2>1, HandlerIs DEF Kernels
  <2>3. Handler' = Handler
    BY <2>1 DEF Handler
  <2>4. QED
    BY <1>4, <2>1, <2>2, <2>3 DEF Sled, Places, Kernels
<1>5. CASE LeaveAtOnce
  BY <1>5 DEF LeaveAtOnce, Places
<1>6. CASE HandlerStep
  <2>1. kernel' = kernel /\ kernel \in Kernels /\ at \in 1 .. Len(Handler)
    BY <1>6 DEF HandlerStep, Places
  <2>2. Handler' = Handler
    BY <2>1 DEF Handler
  <2>3. Len(Handler) \in Nat
    BY <2>1, HandlerIs DEF Kernels
  <2>4. QED
    BY <1>6, <2>1, <2>2, <2>3 DEF HandlerStep, Places, Kernels
<1>7. CASE UNCHANGED <<vars, kvars>>
  BY <1>7 DEF kvars, Places, Handler
<1>8. QED
  BY <1>1, <1>2, <1>3, <1>4, <1>5, <1>6, <1>7 DEF KNext, Step

LEMMA PlacesInit == KInit => Places
BY DEF KInit, Places, Kernels

(* The console's programs, and any other, drive the controller through its   *)
(* own accesses alone: what is proved of it holds under them.                *)
THEOREM KernelOnController == KSpec => Spec
<1>1. Places /\ [KNext]_<<vars, kvars>> => Places' /\ [Next]_vars
  BY PlacesStep, StepOnController
<1>2. KInit => Init
  BY DEF KInit
<1>3. QED
  BY <1>1, <1>2, PlacesInit, PTL DEF KSpec, Spec

-----------------------------------------------------------------------------
(* The handlers keep the handshake *)

(* No request in service has been acknowledged: there is none, or nFIQ is up *)
Armed(s) == s.request => s.line

LEMMA UpdateArmed ==
  ASSUME NEW st, NEW s \in LatchType, Armed(s)
  PROVE  Armed(Update(st, s))
BY DEF Update, Armed, LatchType

LEMMA ClockedArmed ==
  ASSUME NEW s \in LatchType, Armed(s)
  PROVE  Armed(ClockedLatch(s))
BY UpdateArmed DEF ClockedLatch

LEMMA ThroughFields ==
  ASSUME NEW port, NEW s \in LatchType
  PROVE  /\ Through(port, s).request = s.request
         /\ Through(port, s).line = s.line
BY DEF Through, LatchType

(* The sample clock touches the pending bit alone.                           *)
LEMMA ClockedStore ==
  ASSUME store \in Store
  PROVE  /\ \A r \in Stored \ {"SCIPD", "MCIPD"} : Clocked(store)[r] = store[r]
         /\ Clocked(store)["SCIPD"] \subseteq store["SCIPD"] \cup {Sample}
         /\ due = 0 => Clocked(store) = store
BY DEF Clocked, Store, Stored

LEMMA TickDoes ==
  ASSUME IrqTypeOK, Tick
  PROVE  /\ store' = Clocked(store) /\ due' = 0
         /\ Armed(latch) => Armed(latch')
         /\ latch'.request = ClockedLatch(latch).request
<1>1. latch \in LatchType /\ ClockedLatch(latch) \in LatchType
  BY ClockedLatchType DEF IrqTypeOK, LatchType
<1>2. latch' = Through("other", ClockedLatch(latch))
  BY DEF Tick
<1>3. QED
  BY <1>1, <1>2, ClockedArmed, ThroughFields DEF Tick, Armed

LEMMA LoadDoes ==
  ASSUME IrqTypeOK, Does(Load("L"))
  PROVE  /\ store' = Clocked(store) /\ due' = 0
         /\ latch'.request = ClockedLatch(latch).request
<1>1. ArmRead("L")
  BY DEF Does, Load
<1>2. latch \in LatchType /\ ClockedLatch(latch) \in LatchType
  BY ClockedLatchType DEF IrqTypeOK, LatchType
<1>3. QED
  BY <1>1, <1>2, AfterReadType, ThroughFields DEF ArmRead

LEMMA AcceptDoes ==
  ASSUME IrqTypeOK, Does(Accept)
  PROVE  /\ store' = Clocked(store) /\ due' = 0
         /\ Armed(latch')
         /\ Level(store') = {} => ~latch'.request
<1>1. ArmWrite("M", {0}, 0 .. 15)
  BY DEF Does, Accept, Save
<1>2. store' = Clocked(store)
  BY <1>1, LMNotStored DEF ArmWrite
<1>3. latch \in LatchType /\ ClockedLatch(latch) \in LatchType
  BY ClockedLatchType DEF IrqTypeOK, LatchType
<1> DEFINE s == Ended(ClockedLatch(latch))
<1>4. s \in LatchType /\ ~s.request
  BY <1>3, EndedType DEF Ended, LatchType
<1>5. Ends("M", {0}, 0 .. 15)
  BY DEF Ends
<1>6. latch' = Through("M", Update(store', s))
  BY <1>1, <1>5 DEF ArmWrite, AfterWrite, WritePort
<1>7. Update(store', s) \in LatchType
  BY <1>4, UpdateType
<1>8. Level(store') = {} => Update(store', s) = s
  BY DEF Update
<1>9. Armed(Update(store', s))
  BY <1>4, UpdateArmed DEF Armed
<1>10. QED
  BY <1>1, <1>2, <1>4, <1>6, <1>7, <1>8, <1>9, ThroughFields DEF ArmWrite, Armed

LEMMA SaveDoes ==
  ASSUME IrqTypeOK, NEW r \in {"SCILV0", "SCIRE", "SCIEB"}, NEW v,
         Does(Save(r, v))
  PROVE  /\ store' = StoreWritten(Clocked(store), r, v, 0 .. 15) /\ due' = 0
         /\ Armed(latch) => Armed(latch')
<1>1. ArmWrite(r, v, 0 .. 15)
  BY DEF Does, Save
<1>2. latch \in LatchType /\ ClockedLatch(latch) \in LatchType
  BY ClockedLatchType DEF IrqTypeOK, LatchType
<1> DEFINE s == Update(store', ClockedLatch(latch))
<1>3. latch' = Through(WritePort(r, v, 0 .. 15), s)
  BY <1>1 DEF ArmWrite, AfterWrite, Ends
<1>4. s \in LatchType
  BY <1>2, UpdateType
<1>5. Armed(latch) => Armed(s)
  BY <1>2, ClockedArmed, UpdateArmed
<1>6. QED
  BY <1>1, <1>3, <1>4, <1>5, ThroughFields DEF ArmWrite, Armed

LEMMA SaveStores ==
  ASSUME NEW st \in Store, ~Hooked
  PROVE  /\ LET w == StoreWritten(st, "SCILV0", {7}, 0 .. 15)
            IN  /\ 7 \in w["SCILV0"]
                /\ w["SCIPD"] = st["SCIPD"] /\ w["SCIEB"] = st["SCIEB"]
         /\ LET w == StoreWritten(st, "SCIEB", {Sample}, 0 .. 15)
            IN  /\ w["SCIEB"] \subseteq {Sample}
                /\ w["SCIPD"] = st["SCIPD"] /\ w["SCILV0"] = st["SCILV0"]
         /\ \A v : LET w == StoreWritten(st, "SCIRE", v, 0 .. 15)
                   IN  /\ w["SCIPD"] = st["SCIPD"] \ (v \cap 0 .. 15)
                       /\ w["SCIEB"] = st["SCIEB"] /\ w["SCILV0"] = st["SCILV0"]
<1>1. {"SCIEB", "SCIPD", "SCILV0"} \subseteq Stored /\ "SCIRE" \notin Stored
  BY LevelAssumption, PlanesAssumption DEF Stored
<1>2. 7 \in Kept("SCILV0") /\ Sample \in Kept("SCIEB")
  BY RegistersOf DEF Operand, Kept, Stored, Sources
<1>3. \A r \in Stored : st[r] \subseteq 0 .. 15
  BY DEF Store, Bits, Sources, Scpu, Sample, LevelBit
<1>4. DOMAIN st = Stored
  BY DEF Store
<1>5. \A r \in {"SCILV0", "SCIEB"} : \A v :
        StoreWritten(st, r, v, 0 .. 15)
          = [st EXCEPT ![r] = Merged(st[r], v \cap Kept(r), 0 .. 15)]
  BY <1>1 DEF StoreWritten, Written
<1>6. \A v : StoreWritten(st, "SCIRE", v, 0 .. 15)
               = [st EXCEPT !["SCIPD"] = st["SCIPD"] \ (v \cap 0 .. 15)]
  BY <1>1 DEF StoreWritten, Written
<1>7. 7 \in Merged(st["SCILV0"], {7} \cap Kept("SCILV0"), 0 .. 15)
  BY <1>2 DEF Merged
<1>8. Merged(st["SCIEB"], {Sample} \cap Kept("SCIEB"), 0 .. 15) \subseteq {Sample}
  BY <1>1, <1>3 DEF Merged
<1>9. \A v : /\ [st EXCEPT !["SCIPD"] = v]["SCIPD"] = v
             /\ [st EXCEPT !["SCIPD"] = v]["SCIEB"] = st["SCIEB"]
             /\ [st EXCEPT !["SCIPD"] = v]["SCILV0"] = st["SCILV0"]
             /\ [st EXCEPT !["SCIEB"] = v]["SCIEB"] = v
             /\ [st EXCEPT !["SCIEB"] = v]["SCIPD"] = st["SCIPD"]
             /\ [st EXCEPT !["SCIEB"] = v]["SCILV0"] = st["SCILV0"]
             /\ [st EXCEPT !["SCILV0"] = v]["SCILV0"] = v
             /\ [st EXCEPT !["SCILV0"] = v]["SCIPD"] = st["SCIPD"]
             /\ [st EXCEPT !["SCILV0"] = v]["SCIEB"] = st["SCIEB"]
  BY <1>1, <1>4
<1>10. LET w == StoreWritten(st, "SCILV0", {7}, 0 .. 15)
       IN  /\ 7 \in w["SCILV0"]
           /\ w["SCIPD"] = st["SCIPD"] /\ w["SCIEB"] = st["SCIEB"]
  <2>1. StoreWritten(st, "SCILV0", {7}, 0 .. 15)
          = [st EXCEPT !["SCILV0"] =
               Merged(st["SCILV0"], {7} \cap Kept("SCILV0"), 0 .. 15)]
    BY <1>5
  <2>2. QED
    BY <2>1, <1>7, <1>9
<1>11. LET w == StoreWritten(st, "SCIEB", {Sample}, 0 .. 15)
       IN  /\ w["SCIEB"] \subseteq {Sample}
           /\ w["SCIPD"] = st["SCIPD"] /\ w["SCILV0"] = st["SCILV0"]
  <2>1. StoreWritten(st, "SCIEB", {Sample}, 0 .. 15)
          = [st EXCEPT !["SCIEB"] =
               Merged(st["SCIEB"], {Sample} \cap Kept("SCIEB"), 0 .. 15)]
    BY <1>5
  <2>2. QED
    BY <2>1, <1>8, <1>9
<1>12. ASSUME NEW v
       PROVE  LET w == StoreWritten(st, "SCIRE", v, 0 .. 15)
              IN  /\ w["SCIPD"] = st["SCIPD"] \ (v \cap 0 .. 15)
                  /\ w["SCIEB"] = st["SCIEB"] /\ w["SCILV0"] = st["SCILV0"]
  <2>1. StoreWritten(st, "SCIRE", v, 0 .. 15)
          = [st EXCEPT !["SCIPD"] = st["SCIPD"] \ (v \cap 0 .. 15)]
    BY <1>6
  <2>2. QED
    BY <2>1, <1>9
<1>13. QED
  BY <1>10, <1>11, <1>12

-----------------------------------------------------------------------------
(* The invariant *)

(* With a hook nothing the programs write reaches the controller.            *)
Deaf == Hooked => store["SCIEB"] = {} /\ ~latch.request

(* What the prologue has set up, as far as it has come                       *)
Past(i) ==
  phase \in {"sled", "handler", "done"} \/ (phase = "prologue" /\ at > i)
SetUp ==
  ~Hooked /\ phase # "free" =>
    /\ store["SCIPD"] \subseteq Sources
    /\ Past(LevelsAt) => 7 \in store["SCILV0"]
    /\ Past(ResetAt) => store["SCIPD"] \subseteq {Sample}
    /\ Past(5) => store["SCIEB"] \subseteq {Sample}

(* The handler that reads L again: no edge is due; once it has cleared the   *)
(* pending bit there is none, and once it has written M no request.          *)
Quiet ==
  phase = "handler" /\ kernel = "ldrl" =>
    /\ due = 0
    /\ ~Hooked /\ at > 2 => store["SCIPD"] = {}
    /\ at > 3 => ~latch.request

(* Who is to write M for an acknowledged request                             *)
Owned ==
  \/ phase = "free"
  \/ phase = "prologue" /\ at < 5
  \/ phase = "handler" /\ at > 1 /\ (kernel = "ldrl" => at < 4)
  \/ Armed(latch)

KernelInv ==
  Places /\ IrqTypeOK /\ Waits /\ Deaf /\ SetUp /\ Quiet /\ Owned

LEMMA UpdateDeaf ==
  ASSUME NEW st, st["SCIEB"] = {}, NEW s
  PROVE  Update(st, s) = s
BY DEF Update, Level, Pending

LEMMA DeafStep ==
  ASSUME IrqTypeOK, Deaf, [Next]_vars
  PROVE  Deaf'
<1> SUFFICES ASSUME Hooked
             PROVE  store'["SCIEB"] = {} /\ ~latch'.request
  BY DEF Deaf
<1>1. store["SCIEB"] = {} /\ ~latch.request /\ store \in Store
  BY DEF Deaf, IrqTypeOK
<1>2. Clocked(store)["SCIEB"] = {}
  BY <1>1, ClockedStore DEF Stored
<1>3. ClockedLatch(latch) = latch
  BY <1>2, UpdateDeaf DEF ClockedLatch
<1>4. \A st, r, v, mask : StoreWritten(st, r, v, mask) = st
  BY DEF StoreWritten
<1>5. latch \in LatchType
  BY DEF IrqTypeOK, LatchType
<1>6. ASSUME NEW st, st["SCIEB"] = {}, NEW r, NEW v, NEW mask
      PROVE  /\ AfterWrite(st, r, v, mask, latch) \in LatchType
             /\ ~AfterWrite(st, r, v, mask, latch).request
  <2>1. Ended(latch) \in LatchType /\ ~Ended(latch).request
    BY <1>5, EndedType DEF Ended, LatchType
  <2>2. AfterWrite(st, r, v, mask, latch) \in {latch, Ended(latch)}
    BY <1>6, UpdateDeaf DEF AfterWrite
  <2>3. QED
    BY <1>1, <1>5, <2>1, <2>2
<1>7. CASE SampleEdge
  BY <1>1, <1>7 DEF SampleEdge
<1>8. CASE Tick
  BY <1>1, <1>2, <1>3, <1>5, <1>8, ThroughFields DEF Tick
<1>9. ASSUME NEW r \in Registers, ArmRead(r) PROVE store'["SCIEB"] = {} /\ ~latch'.request
  BY <1>1, <1>2, <1>3, <1>5, <1>9, AfterReadType, ThroughFields DEF ArmRead
<1>10. ASSUME NEW r \in Registers, Sh4Read(r) PROVE store'["SCIEB"] = {} /\ ~latch'.request
  BY <1>1, <1>5, <1>10, AfterReadType, ThroughFields DEF Sh4Read
<1>11. ASSUME NEW r \in Registers, NEW v \in Operand(r), Sh4Write(r, v)
       PROVE  store'["SCIEB"] = {} /\ ~latch'.request
  <2>1. store' = store
    BY <1>4, <1>11 DEF Sh4Write
  <2>2. QED
    BY <1>1, <1>6, <1>11, <2>1, ThroughFields DEF Sh4Write
<1>12. ASSUME NEW r \in Registers, NEW v \in Operand(r), NEW mask \in Lanes,
              ArmWrite(r, v, mask)
       PROVE  store'["SCIEB"] = {} /\ ~latch'.request
  <2>1. store' = Clocked(store)
    BY <1>4, <1>12 DEF ArmWrite
  <2>2. QED
    BY <1>2, <1>3, <1>6, <1>12, <2>1, ThroughFields DEF ArmWrite
<1>13. CASE UNCHANGED vars
  BY <1>1, <1>13 DEF vars
<1>14. QED
  BY <1>7, <1>8, <1>9, <1>10, <1>11, <1>12, <1>13 DEF Next

(* What a tick, and an access of a handler, leave of the setting up          *)
Framed ==
  /\ store'["SCILV0"] = store["SCILV0"]
  /\ store'["SCIEB"] = store["SCIEB"]
  /\ store'["SCIPD"] \subseteq store["SCIPD"] \cup {Sample}
  /\ due' = 0
  /\ due = 0 => store'["SCIPD"] \subseteq store["SCIPD"]

LEMMA ClockFramed ==
  ASSUME IrqTypeOK, store' = Clocked(store), due' = 0
  PROVE  Framed
<1>1. {"SCILV0", "SCIEB"} \subseteq Stored \ {"SCIPD", "MCIPD"}
  BY LevelAssumption DEF Stored
<1>2. QED
  BY <1>1, ClockedStore DEF IrqTypeOK, Framed

LEMMA ClearDoes ==
  ASSUME IrqTypeOK, Does(Clear)
  PROVE  /\ Framed
         /\ ~Hooked => store'["SCIPD"] \subseteq store["SCIPD"] \ {Sample}
         /\ Armed(latch) => Armed(latch')
<1> DEFINE st == Clocked(store)
<1>1. /\ store' = StoreWritten(st, "SCIRE", {Sample}, 0 .. 15) /\ due' = 0
      /\ Armed(latch) => Armed(latch')
  BY SaveDoes DEF Clear
<1>2. st \in Store
  BY ClockedType DEF IrqTypeOK
<1>3. {"SCILV0", "SCIEB"} \subseteq Stored \ {"SCIPD", "MCIPD"}
  BY LevelAssumption DEF Stored
<1>4. /\ st["SCILV0"] = store["SCILV0"] /\ st["SCIEB"] = store["SCIEB"]
      /\ st["SCIPD"] \subseteq store["SCIPD"] \cup {Sample}
      /\ due = 0 => st = store
  BY <1>3, ClockedStore DEF IrqTypeOK
<1>5. CASE Hooked
  <2>1. store' = st
    BY <1>1, <1>5 DEF StoreWritten
  <2>2. QED
    BY <1>1, <1>4, <1>5, <2>1 DEF Framed
<1>6. CASE ~Hooked
  <2>1. /\ store'["SCIPD"] = st["SCIPD"] \ ({Sample} \cap 0 .. 15)
        /\ store'["SCIEB"] = st["SCIEB"] /\ store'["SCILV0"] = st["SCILV0"]
    BY <1>1, <1>2, <1>6, SaveStores
  <2>2. Sample \in 0 .. 15
    BY DEF Sample
  <2>3. QED
    BY <1>1, <1>4, <1>6, <2>1, <2>2 DEF Framed
<1>7. QED
  BY <1>5, <1>6

LEMMA AcceptFramed == ASSUME IrqTypeOK, Does(Accept) PROVE Framed
BY AcceptDoes, ClockFramed

LEMMA LoadFramed == ASSUME IrqTypeOK, Does(Load("L")) PROVE Framed
BY LoadDoes, ClockFramed


(* How a step that is framed and stays outside the prologue keeps SetUp      *)
LEMMA SetUpFramed ==
  ASSUME Places, SetUp, Framed, kernel' = kernel, Places',
         phase \notin {"held", "prologue"}, phase' \notin {"held", "prologue"},
         phase' = "free" <=> phase = "free"
  PROVE  SetUp'
<1>1. CASE Hooked \/ phase = "free"
  BY <1>1 DEF SetUp
<1>2. CASE ~Hooked /\ phase # "free"
  <2>1. /\ \A i : Past(i)
        /\ \A i : Past(i)'
    BY <1>2 DEF Past, Places
  <2>2. /\ 7 \in store["SCILV0"] /\ store["SCIPD"] \subseteq {Sample}
        /\ store["SCIEB"] \subseteq {Sample}
    BY <1>2, <2>1 DEF SetUp
  <2>3. /\ 7 \in store'["SCILV0"] /\ store'["SCIPD"] \subseteq {Sample}
        /\ store'["SCIEB"] \subseteq {Sample}
    BY <2>2 DEF Framed
  <2>4. QED
    BY <2>3 DEF SetUp, Sources
<1>3. QED
  BY <1>1, <1>2

LEMMA PrepareKeeps ==
  ASSUME KernelInv, Prepare
  PROVE  SetUp' /\ Quiet' /\ Owned'
<1>1. /\ phase = "held" /\ phase' = "held" /\ kernel' = kernel
      /\ store \in Store /\ latch \in LatchType
  BY DEF Prepare, kvars, KernelInv, IrqTypeOK, LatchType
<1>2. PICK r \in Stored \cup {"SCIRE"} : \E v \in Operand(r) : Sh4Write(r, v)
  BY DEF Prepare
<1>3. PICK v \in Operand(r) : Sh4Write(r, v)
  BY <1>2
<1>4. r \notin {"L", "M"}
  BY PlanesAssumption DEF Stored
<1>5. Armed(latch')
  <2>1. Armed(latch)
    BY <1>1 DEF KernelInv, Owned
  <2>2. latch' = Through(WritePort(r, v, 0 .. 15), Update(store', latch))
    BY <1>3, <1>4 DEF Sh4Write, AfterWrite, Ends
  <2>3. Update(store', latch) \in LatchType
    BY <1>1, UpdateType
  <2>4. QED
    BY <1>1, <2>1, <2>2, <2>3, UpdateArmed, ThroughFields DEF Armed
<1>6. ~Hooked => store'["SCIPD"] \subseteq Sources
  <2>1. SUFFICES ASSUME ~Hooked PROVE store'["SCIPD"] \subseteq Sources
    OBVIOUS
  <2>2. store' = Written(store, r, v, 0 .. 15)
    BY <1>3, <2>1 DEF Sh4Write, StoreWritten
  <2>3. store["SCIPD"] \subseteq Sources /\ DOMAIN store = Stored
    BY <1>1, <2>1 DEF KernelInv, SetUp, Store
  <2>4. CASE r = "SCIPD"
    BY <2>2, <2>3, <2>4 DEF Written, Sources, Stored
  <2>5. CASE r = "SCIRE"
    BY <2>2, <2>3, <2>5 DEF Written, Stored
  <2>6. CASE r \notin {"SCIPD", "SCIRE"}
    BY <2>2, <2>3, <2>6 DEF Written, Stored
  <2>7. QED
    BY <2>4, <2>5, <2>6
<1>7. QED
  BY <1>1, <1>5, <1>6 DEF SetUp, Quiet, Owned, Past

LEMMA PrologueKeeps ==
  ASSUME KernelInv, PrologueStep
  PROVE  SetUp' /\ Quiet' /\ Owned'
<1> DEFINE st == Clocked(store)
<1>1. /\ phase = "prologue" /\ kernel \in Kernels /\ kernel' = kernel
      /\ at \in 1 .. 5 /\ Does(Prologue[at]) /\ Len(Prologue) = 5
      /\ IrqTypeOK /\ LevelsAt' = LevelsAt /\ ResetAt' = ResetAt
      /\ LevelsAt \in 1 .. 2 /\ ResetAt \in 2 .. 3 /\ LevelsAt < ResetAt
  BY PrologueIs
     DEF PrologueStep, KernelInv, Places, LevelsAt, ResetAt
<1>2. IF at = 5 THEN phase' = "sled" /\ at' = 1
                ELSE phase' = "prologue" /\ at' = at + 1
  BY <1>1 DEF PrologueStep
<1>3. Quiet'
  BY <1>2 DEF Quiet
<1>4. Owned'
  <2>1. CASE at < 4
    BY <1>1, <1>2, <2>1 DEF Owned
  <2>2. CASE at = 4
    BY <1>1, <2>2, PrologueIs, AcceptDoes DEF Owned, Accept
  <2>3. CASE at = 5
    <3>1. Armed(latch)
      BY <1>1, <2>3 DEF KernelInv, Owned
    <3>2. Does(Save("SCIEB", {Sample}))
      BY <1>1, <2>3, PrologueIs
    <3>3. QED
      BY <1>1, <3>1, <3>2, SaveDoes DEF Owned
  <2>4. QED
    BY <1>1, <2>1, <2>2, <2>3
<1>5. SetUp'
  <2> SUFFICES ASSUME ~Hooked PROVE SetUp'
    BY DEF SetUp
  <2>1. /\ st \in Store
        /\ st["SCILV0"] = store["SCILV0"] /\ st["SCIEB"] = store["SCIEB"]
        /\ st["SCIPD"] \subseteq store["SCIPD"] \cup {Sample}
    BY <1>1, ClockedType, ClockedStore, LevelAssumption DEF IrqTypeOK, Stored
  <2>2. /\ store["SCIPD"] \subseteq Sources
        /\ at > LevelsAt => 7 \in store["SCILV0"]
        /\ at > ResetAt => store["SCIPD"] \subseteq {Sample}
    BY <1>1 DEF KernelInv, SetUp, Past
  <2>3. Sample \in Sources /\ Sources \subseteq 0 .. 15
    BY DEF Sources, Sample, Scpu
  <2>4. /\ store'["SCIPD"] \subseteq Sources
        /\ at >= LevelsAt => 7 \in store'["SCILV0"]
        /\ at >= ResetAt => store'["SCIPD"] \subseteq {Sample}
        /\ at >= 5 => store'["SCIEB"] \subseteq {Sample}
    <3>1. CASE at = LevelsAt
      <4>1. store' = StoreWritten(st, "SCILV0", {7}, 0 .. 15)
        BY <1>1, <3>1, PrologueIs, SaveDoes
      <4>2. 7 \in store'["SCILV0"] /\ store'["SCIPD"] = st["SCIPD"]
        BY <2>1, <4>1, SaveStores
      <4>3. QED
        BY <1>1, <2>1, <2>2, <2>3, <3>1, <4>2
    <3>2. CASE at = ResetAt
      <4>1. store' = StoreWritten(st, "SCIRE", Sources, 0 .. 15)
        BY <1>1, <3>2, PrologueIs, SaveDoes
      <4>2. /\ store'["SCILV0"] = st["SCILV0"]
            /\ store'["SCIPD"] = st["SCIPD"] \ (Sources \cap 0 .. 15)
        BY <2>1, <4>1, SaveStores
      <4>3. store'["SCIPD"] = {}
        BY <2>1, <2>2, <2>3, <4>2
      <4>4. at \in 1 .. 5 /\ at > LevelsAt /\ at < 5
        BY <1>1, <3>2
      <4>5. QED
        BY <2>1, <2>2, <4>2, <4>3, <4>4
    <3>3. CASE at = 5
      <4>1. store' = StoreWritten(st, "SCIEB", {Sample}, 0 .. 15)
        BY <1>1, <3>3, PrologueIs, SaveDoes
      <4>2. /\ store'["SCILV0"] = st["SCILV0"] /\ store'["SCIPD"] = st["SCIPD"]
            /\ store'["SCIEB"] \subseteq {Sample}
        BY <2>1, <4>1, SaveStores
      <4>3. QED
        BY <1>1, <2>1, <2>2, <2>3, <3>3, <4>2
    <3>4. CASE at \in 1 .. 4 \ {LevelsAt, ResetAt}
      <4>1. Does(Load("L")) \/ Does(Accept)
        BY <1>1, <3>4, PrologueIs DEF Accept
      <4>2. store' = st
        BY <1>1, <4>1, LoadDoes, AcceptDoes
      <4>3. QED
        BY <1>1, <2>1, <2>2, <2>3, <3>4, <4>2
    <3>5. QED
      BY <1>1, <3>1, <3>2, <3>3, <3>4
  <2>5. \A i \in {LevelsAt, ResetAt, 5} : Past(i)' => at >= i
    BY <1>1, <1>2 DEF Past
  <2>6. QED
    BY <1>1, <2>4, <2>5 DEF SetUp, Past
<1>6. QED
  BY <1>3, <1>4, <1>5

LEMMA SledKeeps ==
  ASSUME KernelInv, Places', Sled
  PROVE  SetUp' /\ Quiet' /\ Owned'
<1>1. /\ phase = "sled" /\ phase' \in {"sled", "handler"} /\ at' = 1
      /\ kernel' = kernel /\ IrqTypeOK /\ Tick
  BY DEF Sled, KernelInv, Places
<1>2. Framed /\ due' = 0
  BY <1>1, TickDoes, ClockFramed
<1>3. Armed(latch')
  BY <1>1, TickDoes DEF KernelInv, Owned
<1>4. QED
  BY <1>1, <1>2, <1>3, SetUpFramed DEF KernelInv, Quiet, Owned

LEMMA DoneKeeps ==
  ASSUME KernelInv, Places', LeaveAtOnce \/ Spin
  PROVE  SetUp' /\ Quiet' /\ Owned'
<1>1. /\ phase \in {"handler", "done"} /\ phase' = "done"
      /\ kernel' = kernel /\ IrqTypeOK /\ Tick
      /\ phase = "handler" => at = 1
  BY DEF LeaveAtOnce, LastSample, Spin, kvars, KernelInv
<1>2. Framed
  BY <1>1, TickDoes, ClockFramed
<1>3. Armed(latch')
  BY <1>1, TickDoes DEF KernelInv, Owned
<1>4. QED
  BY <1>1, <1>2, <1>3, SetUpFramed DEF KernelInv, Quiet, Owned

(* The handler that reads L twice more keeps to the time it has              *)
LEMMA LdrlKeeps ==
  ASSUME KernelInv, HandlerStep, kernel = "ldrl", Deaf'
  PROVE  Quiet' /\ Owned'
<1>1. /\ phase = "handler" /\ kernel' = kernel /\ at \in 1 .. 5 /\ due = 0
      /\ IrqTypeOK /\ Does(Handler[at]) /\ Len(Handler) = 5
      /\ Handler = <<Load("L"), Clear, Accept, Load("L"), Load("L")>>
  BY HandlerIs
     DEF HandlerStep, KernelInv, Places, Quiet, Kernels
<1>2. IF at < 5 THEN phase' = "handler" /\ at' = at + 1
                ELSE phase' \in {"done", "sled"}
  BY <1>1 DEF HandlerStep
<1>3. Framed
  <2>1. Handler[at] \in {Load("L"), Clear, Accept}
    BY <1>1
  <2>2. QED
    BY <1>1, <2>1, LoadFramed, ClearDoes, AcceptFramed
<1>4. ~Hooked /\ at > 1 => store'["SCIPD"] = {}
  <2>1. CASE at = 2
    <3>1. Does(Clear)
      BY <1>1, <2>1
    <3>2. ~Hooked => store["SCIPD"] \subseteq {Sample}
      BY <1>1 DEF KernelInv, SetUp, Past, ResetAt
    <3>3. QED
      BY <1>1, <3>1, <3>2, ClearDoes
  <2>2. CASE at > 2
    <3>1. ~Hooked => store["SCIPD"] = {}
      BY <1>1, <2>2 DEF KernelInv, Quiet
    <3>2. QED
      BY <1>1, <1>3, <3>1 DEF Framed
  <2>3. QED
    BY <1>1, <2>1, <2>2
<1>5. at > 2 => ~latch'.request
  <2>1. CASE at = 3
    <3>1. Does(Accept)
      BY <1>1, <2>1
    <3>2. Pending(store') = {}
      BY <1>4, <2>1 DEF Pending, Deaf
    <3>3. Level(store') = {}
      BY <3>2 DEF Level
    <3>4. QED
      BY <1>1, <3>1, <3>3, AcceptDoes
  <2>2. CASE at \in {4, 5}
    <3>1. Does(Load("L"))
      BY <1>1, <2>2
    <3>2. ClockedLatch(latch) = latch
      BY <1>1 DEF ClockedLatch
    <3>3. ~latch.request
      BY <1>1, <2>2 DEF KernelInv, Quiet
    <3>4. QED
      BY <1>1, <3>1, <3>2, <3>3, LoadDoes
  <2>3. QED
    BY <1>1, <2>1, <2>2
<1>6. Quiet'
  BY <1>1, <1>2, <1>3, <1>4, <1>5 DEF Quiet, Framed
<1>7. Owned'
  BY <1>1, <1>2, <1>5 DEF Owned, Armed
<1>8. QED
  BY <1>6, <1>7

LEMMA HandlerKeeps ==
  ASSUME KernelInv, Places', Deaf', HandlerStep
  PROVE  SetUp' /\ Quiet' /\ Owned'
<1>1. /\ phase = "handler" /\ kernel' = kernel /\ kernel \in Kernels
      /\ at \in 1 .. Len(Handler) /\ IrqTypeOK /\ Does(Handler[at])
  BY DEF HandlerStep, KernelInv, Places
<1>2. /\ phase' \in {"handler", "sled", "done"}
      /\ phase' = "handler" => at' = at + 1
      /\ phase' # "handler" => at = Len(Handler)
  <2>1. Len(Handler) \in Nat
    BY <1>1, HandlerIs DEF Kernels
  <2>2. QED
    BY <1>1, <2>1 DEF HandlerStep
<1>3. Framed
  <2>1. Handler[at] \in {Load("L"), Clear, Accept}
    BY <1>1, HandlerIs DEF Kernels
  <2>2. QED
    BY <1>1, <2>1, LoadFramed, ClearDoes, AcceptFramed
<1>4. SetUp'
  BY <1>1, <1>2, <1>3, SetUpFramed DEF KernelInv
<1>5. Quiet' /\ Owned'
  <2>1. CASE kernel = "ldrl"
    BY <2>1, LdrlKeeps
  <2>2. CASE kernel # "ldrl"
    <3>1. at = Len(Handler) => Handler[at] = Accept
      BY <1>1, <2>2, HandlerIs DEF Kernels
    <3>2. at = Len(Handler) => Armed(latch')
      BY <1>1, <3>1, AcceptDoes
    <3>3. at \in Nat /\ at >= 1
      BY <1>1, HandlerIs DEF Kernels
    <3>4. QED
      BY <1>1, <1>2, <2>2, <3>2, <3>3 DEF Quiet, Owned
  <2>3. QED
    BY <2>1, <2>2
<1>6. QED
  BY <1>4, <1>5

LEMMA KernelInit == KInit => KernelInv
<1> SUFFICES ASSUME KInit PROVE KernelInv
  OBVIOUS
<1>1. Init /\ phase \in {"held", "free"} /\ at = 1
  BY DEF KInit
<1>2. IrqTypeOK /\ Waits
  BY <1>1, TypeInit, WaitingInit
<1>3. store["SCIEB"] = {} /\ store["SCIPD"] = {} /\ ~latch.request
  BY <1>1 DEF Init, Stored
<1>4. QED
  BY <1>1, <1>2, <1>3, PlacesInit
     DEF KernelInv, Deaf, SetUp, Past, Quiet, Owned, Armed

LEMMA KernelStep ==
  ASSUME KernelInv, [KNext]_<<vars, kvars>>
  PROVE  KernelInv'
<1>1. Places' /\ [Next]_vars
  BY PlacesStep, StepOnController DEF KernelInv
<1>2. IrqTypeOK' /\ Waits' /\ Deaf'
  BY <1>1, TypeStep, WaitingStep, DeafStep DEF KernelInv
<1>3. SetUp' /\ Quiet' /\ Owned'
  <2>1. CASE Prepare
    BY <2>1, PrepareKeeps
  <2>2. CASE Edge
    BY <2>2
       DEF Edge, SampleEdge, kvars, KernelInv, SetUp, Past, LevelsAt, ResetAt,
           Quiet, Owned, Armed
  <2>3. CASE Release
    BY <1>1, <2>3
       DEF Release, vars, KernelInv, Places, SetUp, Past, LevelsAt, ResetAt,
           Quiet, Owned, Armed
  <2>4. CASE PrologueStep
    BY <2>4, PrologueKeeps
  <2>5. CASE Sled
    BY <1>1, <2>5, SledKeeps
  <2>6. CASE LeaveAtOnce \/ Spin
    BY <1>1, <2>6, DoneKeeps
  <2>7. CASE HandlerStep
    BY <1>1, <1>2, <2>7, HandlerKeeps
  <2>8. CASE Free
    BY <2>8 DEF Free, kvars, SetUp, Quiet, Owned
  <2>9. CASE UNCHANGED <<vars, kvars>>
    BY <2>9
       DEF vars, kvars, KernelInv, SetUp, Past, LevelsAt, ResetAt, Quiet,
           Owned, Armed
  <2>10. QED
    BY <2>1, <2>2, <2>3, <2>4, <2>5, <2>6, <2>7, <2>8, <2>9 DEF KNext, Step
<1>4. QED
  BY <1>1, <1>2, <1>3 DEF KernelInv

LEMMA KernelAlways == KSpec => []KernelInv
BY KernelInit, KernelStep, PTL DEF KSpec

-----------------------------------------------------------------------------
(* What follows from it *)

LEMMA OwnedFollows == KernelInv => ServiceOwned
<1> SUFFICES ASSUME KernelInv, phase # "free", latch.request, ~latch.line,
                    phase # "prologue"
             PROVE  /\ phase = "handler"
                    /\ \E i \in at .. Len(Handler) : Handler[i].reg = "M"
  BY DEF ServiceOwned
<1>1. /\ phase = "handler" /\ at > 1 /\ (kernel = "ldrl" => at < 4)
      /\ kernel \in Kernels /\ at \in 1 .. Len(Handler)
  BY DEF KernelInv, Owned, Armed, Places
<1>2. Accept.reg = "M"
  BY DEF Accept, Save
<1>3. CASE kernel \in {"fiqcost", "ldrl"}
  <2>1. Len(Handler) \in {3, 5} /\ Handler[3] = Accept
    BY <1>1, <1>3, HandlerIs
  <2>2. at \in Nat /\ at <= 3 /\ 3 <= Len(Handler)
    <3>1. CASE kernel = "fiqcost"
      <4>1. Len(Handler) = 3
        BY <1>1, <3>1, HandlerIs
      <4>2. QED
        BY <1>1, <4>1
    <3>2. CASE kernel = "ldrl"
      <4>1. Len(Handler) = 5
        BY <1>1, <3>2, HandlerIs
      <4>2. QED
        BY <1>1, <3>2, <4>1
    <3>3. QED
      BY <1>3, <3>1, <3>2
  <2>3. 3 \in at .. Len(Handler)
    BY <2>1, <2>2
  <2>4. QED
    BY <1>1, <1>2, <2>1, <2>3
<1>4. CASE kernel = "blkphase"
  <2>1. Len(Handler) = 4 /\ Handler[4] = Accept
    BY <1>4, <1>1, HandlerIs
  <2>2. 4 \in at .. Len(Handler)
    BY <1>1, <2>1
  <2>3. QED
    BY <1>1, <1>2, <2>1, <2>2
<1>5. QED
  BY <1>1, <1>3, <1>4 DEF Kernels

LEMMA ArmedFollows == KernelInv => SledArmed
<1> SUFFICES ASSUME KernelInv, phase = "sled", Sample \in Pending(store)
             PROVE  latch.request /\ latch.line
  BY DEF SledArmed
<1>1. ~Hooked
  BY DEF KernelInv, Deaf, Pending
<1>2. /\ 7 \in store["SCILV0"] /\ Pending(store) = {Sample}
  BY <1>1 DEF KernelInv, SetUp, Past, Pending
<1>3. Lowest({Sample}) = Sample
  BY DEF Lowest, Sample
<1>4. LevelBit(Sample) = 7
  BY DEF LevelBit, Sample
<1>5. "SCILV0" \in Level(store)
  BY <1>2, <1>3, <1>4, LevelAssumption DEF Level
<1>6. QED
  BY <1>5 DEF KernelInv, Waits, Owned, Armed

(* No request is left to nobody: one whose nFIQ was released is always with  *)
(* the prologue, or with a handler that is still to write M, whatever edge   *)
(* comes when, however many planes and iterations there are.                 *)
THEOREM OwnedCorrect == KSpec => []ServiceOwned
BY KernelAlways, OwnedFollows, PTL

(* No sample is lost on the sled: one that is pending there is on nFIQ.      *)
THEOREM ArmedCorrect == KSpec => []SledArmed
BY KernelAlways, ArmedFollows, PTL

=============================================================================
