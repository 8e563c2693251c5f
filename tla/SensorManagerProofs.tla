-------------------------- MODULE SensorManagerProofs --------------------------
(***************************************************************************)
(* Proofs about SensorManager, for any number of readers and samples: its  *)
(* types, that no reader is given a torn sample, that nothing is used      *)
(* after it is destroyed, and that it implements SampleCache but for       *)
(* SampleCache's fairness.                                                 *)
(***************************************************************************)
EXTENDS SensorManager, TLAPS

\* m_cacheMutex is held by the thread in a critical section and by no other.
Holder == \A t \in Threads : mutex = t <=> pc[t] \in Critical

\* The halves of the cache differ only while a writer is between the two.
Halves ==
  /\ \A t \in Writers : pc[t] = "finish" => cache.lo = data[t]
  /\ (\A t \in Writers : pc[t] # "finish") => cache.lo = cache.hi
Copied == \A r \in Readers : pc[r] = "copy" => out[r].lo = cache.lo

\* No reader is left when the destructor starts, and none comes back.
Leaving == pc[Main] \in {"stopping", "gone"} => \A r \in Readers : pc[r] = "idle"
Left == pc[Main] = "gone" => pc[Worker] \in {"unborn", "done"}

IInv == TypeOK /\ Holder /\ Halves /\ Copied /\ Untorn /\ Leaving /\ Left

USE DEF Writers, Threads, Samples

\* The strengthened invariant holds at the start.
LEMMA InitIInv ==
  ASSUME Init
  PROVE  IInv
<1> USE ManagerAssumption DEF Init, MainStates, WorkerStates, ReaderStates, Critical
<1>1. TypeOK
  <2>1. 0 \in Samples
    OBVIOUS
  <2>2. /\ pc \in [Threads -> MainStates \cup WorkerStates \cup ReaderStates]
        /\ pc[Main] = "idle" /\ pc[Worker] = "unborn"
        /\ \A r \in Readers : pc[r] = "idle"
    OBVIOUS
  <2>3. cache \in [lo : Samples, hi : Samples, valid : BOOLEAN]
    BY <2>1
  <2>4. /\ data \in [Writers -> Samples]
        /\ out \in [Readers -> [lo : Samples, hi : Samples, ok : BOOLEAN]]
    BY <2>1
  <2> QED
    BY <2>1, <2>2, <2>3, <2>4 DEF TypeOK
<1>2. Holder /\ Halves /\ Copied /\ Untorn /\ Leaving /\ Left
  BY DEF Holder, Halves, Copied, Untorn, Leaving, Left
<1> QED
  BY <1>1, <1>2 DEF IInv

\* Taking the mutex preserves it, for each of the three kinds of thread.
LEMMA LockIInv ==
  ASSUME IInv,
         NEW t \in Threads, NEW from, NEW to,
         Lock(t, from, to),
         \/ t \in Writers /\ from = "want" /\ to = "write"
         \/ t \in Readers /\ from = "want" /\ to = "look"
  PROVE  IInv'
  BY ManagerAssumption DEF Lock, At, IInv, TypeOK, Holder, Halves, Copied, Untorn, Leaving, Left,
     MainStates, WorkerStates, ReaderStates, Critical

\* So do the two halves of a write.
LEMMA WriteIInv ==
  ASSUME IInv,
         NEW t \in Writers, NEW next,
         next = IF t = Main THEN "spawn" ELSE "loop",
         WriteLow(t) \/ WriteHigh(t, next)
  PROVE  IInv'
<1> USE ManagerAssumption DEF At, IInv, TypeOK, Holder, Halves, Copied, Untorn, Leaving, Left,
     MainStates, WorkerStates, ReaderStates, Critical
<1>1. CASE WriteLow(t)
  BY <1>1 DEF WriteLow
<1>2. CASE WriteHigh(t, next)
  BY <1>2 DEF WriteHigh
<1> QED
  BY <1>1, <1>2

\* Every step preserves the strengthened invariant.
LEMMA NextIInv ==
  ASSUME IInv, [Next]_vars
  PROVE  IInv'
<1>3. CASE InitFill
  <2>1. Main \in Writers
    OBVIOUS
  <2>2. CASE Lock(Main, "want", "write")
    BY <2>1, <2>2, LockIInv
  <2>3. CASE WriteLow(Main)
    BY <2>1, <2>3, WriteIInv
  <2>4. CASE WriteHigh(Main, "spawn")
    BY <2>1, <2>4, WriteIInv
  <2> QED
    BY <1>3, <2>2, <2>3, <2>4 DEF InitFill
<1>10. CASE WorkerPublish
  <2>1. Worker \in Writers /\ Worker # Main
    BY ManagerAssumption
  <2>2. CASE Lock(Worker, "want", "write")
    BY <2>1, <2>2, LockIInv
  <2>3. CASE WriteLow(Worker) \/ WriteHigh(Worker, "loop")
    BY <2>1, <2>3, WriteIInv
  <2> QED
    BY <1>10, <2>2, <2>3 DEF WorkerPublish
<1>13. CASE \E r \in Readers : ReadLock(r)
  <2>1. PICK r \in Readers : Lock(r, "want", "look")
    BY <1>13 DEF ReadLock
  <2>2. r \in Threads
    OBVIOUS
  <2> QED
    BY <2>1, <2>2, LockIInv
<1> USE ManagerAssumption DEF At, IInv, TypeOK, Holder, Halves, Copied, Untorn, Leaving, Left,
     MainStates, WorkerStates, ReaderStates, Critical
<1>1. CASE InitSensor
  BY <1>1 DEF InitSensor, Outcomes
<1>2. CASE InitProbe
  BY <1>2 DEF InitProbe, Outcomes
<1>4. CASE SpawnWorker
  BY <1>4 DEF SpawnWorker
<1>5. CASE Destroy
  BY <1>5 DEF Destroy
<1>6. CASE DestroyMembers
  BY <1>6 DEF DestroyMembers
<1>7. CASE WorkerTest \/ WorkerSleep
  BY <1>7 DEF WorkerTest, WorkerSleep
<1>8. CASE WorkerTimeout
  BY <1>8 DEF WorkerTimeout
<1>9. CASE WorkerSample
  <2>1. CASE stopRequest /\ At(Worker, "awake", "done") /\ data' = data
    BY <1>9, <2>1 DEF WorkerSample
  <2>2. CASE At(Worker, "awake", "want") /\ data' = [data EXCEPT ![Worker] = conv]
    BY <1>9, <2>2 DEF WorkerSample
  <2>3. CASE At(Worker, "awake", "drop") /\ data' = data
    BY <1>9, <2>3 DEF WorkerSample
  <2> QED
    BY <1>9, <2>1, <2>2, <2>3 DEF WorkerSample
<1>11. CASE WorkerDrop
  BY <1>11 DEF WorkerDrop
<1>12. CASE \E r \in Readers : ReadCall(r)
  BY <1>12 DEF ReadCall
<1>14. CASE \E r \in Readers : ReadRefused(r)
  <2>1. PICK r \in Readers : ReadRefused(r)
    BY <1>14
  <2>2. mutex = r /\ r \in Threads /\ r \notin Writers
    BY <2>1 DEF ReadRefused
  <2>3. TypeOK' /\ Holder'
    BY <2>1, <2>2 DEF ReadRefused
  <2>4. Halves' /\ Leaving' /\ Left'
    BY <2>1, <2>2 DEF ReadRefused
  <2>5. Copied' /\ Untorn'
    BY <2>1, <2>2 DEF ReadRefused
  <2> QED
    BY <2>3, <2>4, <2>5
<1>15. CASE \E r \in Readers : ReadLow(r)
  BY <1>15 DEF ReadLow
<1>16. CASE \E r \in Readers : ReadHigh(r)
  <2>1. PICK r \in Readers : ReadHigh(r)
    BY <1>16
  <2>2. mutex = r /\ r \in Threads /\ r \notin Writers
    BY <2>1 DEF ReadHigh
  <2>3. cache.lo = cache.hi /\ out[r].lo = cache.lo
    BY <2>1, <2>2 DEF ReadHigh
  <2>4. TypeOK' /\ Holder'
    BY <2>1, <2>2 DEF ReadHigh
  <2>5. Halves' /\ Leaving' /\ Left'
    BY <2>1, <2>2 DEF ReadHigh
  <2>6. Copied' /\ Untorn'
    BY <2>1, <2>2, <2>3 DEF ReadHigh
  <2> QED
    BY <2>4, <2>5, <2>6
<1>17. CASE Convert
  BY <1>17 DEF Convert
<1>18. CASE LinkChange
  BY <1>18 DEF LinkChange
<1>19. CASE UNCHANGED vars
  BY <1>19 DEF vars
<1> QED
  BY <1>1, <1>2, <1>3, <1>4, <1>5, <1>6, <1>7, <1>8, <1>9, <1>10, <1>11, <1>12, <1>13, <1>14,
     <1>15, <1>16, <1>17, <1>18, <1>19
     DEF Next, InitStep, Gone, WorkerStep, WorkerInterrupt, ReadStep

\* The strengthened invariant, from which the three theorems follow.
LEMMA SpecIInv == SafeSpec => []IInv
  BY InitIInv, NextIInv, PTL DEF SafeSpec

\* The variables keep their types, and the worker is started once.
THEOREM ManagerTypeOK == SafeSpec => []TypeOK
  BY SpecIInv, PTL DEF IInv

\* No reader of the cache is given halves of two samples.
THEOREM ManagerUntorn == SafeSpec => []Untorn
  BY SpecIInv, PTL DEF IInv

\* Nothing of the manager is used after its members are destroyed.
THEOREM ManagerNoUseAfterDestroy == SafeSpec => []NoUseAfterDestroy
<1>1. IInv => NoUseAfterDestroy
  BY ManagerAssumption DEF IInv, TypeOK, Holder, Leaving, Left, NoUseAfterDestroy, Critical
<1> QED
  BY <1>1, SpecIInv, PTL

(* The refinement. *)

\* A writer brings a sample no older than the cached one, and a reader that
\* copies found it valid.
Ordered ==
  /\ cache.lo <= conv
  /\ \A t \in Writers : data[t] <= conv
  /\ \A t \in Writers : pc[t] \in {"want", "write", "finish"} => cache.lo <= data[t]
CopyValid == \A r \in Readers : pc[r] = "copy" => cache.valid

\* Main publishes before the worker is started, so neither overtakes the other.
LEMMA OneWriter == IInv => ~(pc[Main] \in {"probe", "want", "write", "finish"} /\ pc[Worker] # "unborn")
BY DEF IInv, TypeOK

\* Every step keeps the order of the samples and what a copying reader knows.
LEMMA NextOrdered ==
  ASSUME IInv, Ordered, CopyValid, [Next]_vars
  PROVE  Ordered' /\ CopyValid'
<1> USE ManagerAssumption, OneWriter DEF At, IInv, TypeOK, Holder, Halves, Ordered, CopyValid,
        MainStates, WorkerStates, ReaderStates, Critical
<1>1. ASSUME NEW t \in Writers, Lock(t, "want", "write") PROVE Ordered' /\ CopyValid'
  BY <1>1 DEF Lock
<1>2. ASSUME NEW t \in Writers, WriteLow(t) PROVE Ordered' /\ CopyValid'
  BY <1>2 DEF WriteLow
<1>3. ASSUME NEW t \in Writers, NEW next \in {"spawn", "loop"}, WriteHigh(t, next)
      PROVE  Ordered' /\ CopyValid'
  BY <1>3 DEF WriteHigh
<1>4. CASE InitSensor
  BY <1>4 DEF InitSensor, Outcomes
<1>5. CASE InitProbe
  BY <1>5 DEF InitProbe, Outcomes
<1>6. CASE SpawnWorker \/ Destroy \/ DestroyMembers
  BY <1>6 DEF SpawnWorker, Destroy, DestroyMembers
<1>7. CASE WorkerTest \/ WorkerSleep \/ WorkerTimeout
  BY <1>7 DEF WorkerTest, WorkerSleep, WorkerTimeout
<1>8. CASE WorkerSample
  BY <1>8 DEF WorkerSample
<1>9. CASE WorkerDrop
  BY <1>9 DEF WorkerDrop
<1>10. ASSUME NEW r \in Readers, ReadCall(r) \/ ReadLock(r) \/ ReadStep(r) PROVE Ordered' /\ CopyValid'
  BY <1>10 DEF ReadCall, ReadLock, Lock, ReadStep, ReadRefused, ReadLow, ReadHigh
<1>11. CASE Convert \/ LinkChange \/ UNCHANGED vars
  BY <1>11 DEF Convert, LinkChange, vars
<1> QED
  BY <1>1, <1>2, <1>3, <1>4, <1>5, <1>6, <1>7, <1>8, <1>9, <1>10, <1>11
     DEF Next, InitStep, InitFill, Gone, WorkerStep, WorkerInterrupt, WorkerPublish

\* What the register holds while a writer is publishing, and while none is.
CellMeaning ==
  /\ \A t \in Writers : Publishing(t) => Cell = data[t] /\ Latest = data[t]
  /\ (\A t \in Writers : ~Publishing(t)) =>
        Cell = (IF cache.valid THEN cache.lo ELSE Invalid) /\ Latest = cache.lo

\* It follows from the invariant: no two writers publish at once.
LEMMA CellIs == IInv => CellMeaning
<1> SUFFICES ASSUME IInv PROVE CellMeaning
  OBVIOUS
<1>1. \A t, u \in Writers : Publishing(t) /\ Publishing(u) => t = u
  BY DEF IInv, Holder, Publishing, Critical
<1>2. ASSUME NEW t \in Writers, Publishing(t) PROVE (CHOOSE u \in Writers : Publishing(u)) = t
  BY <1>1, <1>2
<1>3. ASSUME NEW t \in Writers, Publishing(t) PROVE Cell = data[t] /\ Latest = data[t]
  BY <1>2, <1>3 DEF Cell, Latest
<1>4. ASSUME \A t \in Writers : ~Publishing(t)
      PROVE  Cell = (IF cache.valid THEN cache.lo ELSE Invalid) /\ Latest = cache.lo
  BY <1>4 DEF Cell, Latest
<1> QED
  BY <1>3, <1>4 DEF CellMeaning

\* It also does after a step.
LEMMA CellIsNext == IInv' => CellMeaning'
  BY CellIs, PTL

\* Every step of the manager is one step of the register, or leaves it alone.
\* The register's own steps are the three in which a thread takes the mutex (a
\* writer refreshes, a reader is answered, a failed read invalidates) and the
\* call of read().
LEMMA StepImplements ==
  ASSUME IInv, IInv', Ordered, CopyValid, [Next]_vars
  PROVE  [Cache!Next]_(Cache!vars)
<1> DEFINE Answers == [r \in Readers |-> AnswerOf(r)]
           Stutter == Cell' = Cell /\ Latest' = Latest /\ Answers' = Answers
<1> USE ManagerAssumption DEF At
<1>0. /\ TypeOK /\ Holder /\ TypeOK' /\ Holder'
      /\ \A t \in Writers : t \notin Readers
      /\ Main # Worker /\ Main \notin Readers /\ Worker \notin Readers
      /\ CellMeaning /\ CellMeaning'
  BY CellIs, CellIsNext DEF IInv
<1>a. (\A r \in Readers : AnswerOf(r)' = AnswerOf(r)) => Answers' = Answers
  OBVIOUS
<1>1. ASSUME Stutter PROVE UNCHANGED Cache!vars
  BY <1>1 DEF Cache!vars
<1>2. \* A step that changes none of what the register is read off.
      ASSUME UNCHANGED <<cache, out>>,
             \A t \in Writers : Publishing(t)' = Publishing(t) /\ (Publishing(t) => data'[t] = data[t]),
             \A r \in Readers : pc'[r] = pc[r]
      PROVE  Stutter
  <2>1. Answers' = Answers
    BY <1>a, <1>2 DEF AnswerOf
  <2>2. CASE \E t \in Writers : Publishing(t)
    BY <1>0, <1>2, <2>1, <2>2 DEF CellMeaning
  <2>3. CASE \A t \in Writers : ~Publishing(t)
    BY <1>0, <1>2, <2>1, <2>3 DEF CellMeaning
  <2> QED
    BY <2>2, <2>3
<1>3. ASSUME NEW t \in Writers, Lock(t, "want", "write")
      PROVE  \E s \in Samples : Cache!Refresh(s)
  <2>1. pc'[t] = "write" /\ data' = data /\ cache' = cache /\ out' = out /\ mutex = None
    BY <1>0, <1>3 DEF Lock, TypeOK
  <2>2. \A r \in Readers : pc'[r] = pc[r] /\ pc[r] \notin {"look", "copy"}
    BY <1>0, <1>3, <2>1 DEF Lock, TypeOK, Holder, Critical
  <2>3. Answers' = Answers
    BY <1>a, <2>1, <2>2 DEF AnswerOf
  <2>4. Cell' = data[t] /\ Latest' = data[t]
    BY <1>0, <2>1 DEF Publishing, CellMeaning
  <2>5. Latest = cache.lo
    BY <1>0, <2>1 DEF CellMeaning, Publishing, Holder, Critical
  <2>6. data[t] >= cache.lo
    BY <1>0, <1>3 DEF Lock, Ordered, TypeOK
  <2> QED
    BY <1>0, <2>3, <2>4, <2>5, <2>6 DEF Cache!Refresh, TypeOK
<1>4. ASSUME NEW t \in Writers, WriteLow(t) PROVE Stutter
  <2>1. Publishing(t) /\ Publishing(t)' /\ data' = data /\ out' = out /\ mutex = t
    BY <1>0, <1>4 DEF WriteLow, TypeOK, Publishing, Holder, Critical
  <2>2. \A r \in Readers : pc'[r] = pc[r] /\ pc[r] \notin {"look", "copy"}
    BY <1>0, <1>4, <2>1 DEF WriteLow, TypeOK, Holder, Critical
  <2>3. Answers' = Answers
    BY <1>a, <1>0, <2>1, <2>2 DEF AnswerOf, TypeOK, ReaderStates
  <2> QED
    BY <1>0, <2>1, <2>3 DEF CellMeaning
<1>5. ASSUME NEW t \in Writers, NEW next \in {"spawn", "loop"}, WriteHigh(t, next) PROVE Stutter
  <2>1. Publishing(t) /\ pc[t] = "finish" /\ out' = out /\ mutex = t /\ mutex' = None
    BY <1>0, <1>5 DEF WriteHigh, TypeOK, Publishing, Holder, Critical
  <2>2. \A r \in Readers : pc'[r] = pc[r] /\ pc[r] \notin {"look", "copy"}
    BY <1>0, <1>5, <2>1 DEF WriteHigh, TypeOK, Holder, Critical
  <2>3. Answers' = Answers
    BY <1>a, <1>0, <2>1, <2>2 DEF AnswerOf, TypeOK, ReaderStates
  <2>4. cache.lo = data[t] /\ cache'.lo = cache.lo /\ cache'.valid
    BY <1>0, <1>5, <2>1 DEF WriteHigh, IInv, Halves, TypeOK
  <2>5. \A u \in Writers : ~Publishing(u)'
    BY <1>0, <2>1 DEF Publishing, Holder, Critical
  <2> QED
    BY <1>0, <2>1, <2>3, <2>4, <2>5 DEF CellMeaning
<1>6. ASSUME InitSensor \/ InitProbe \/ SpawnWorker \/ Destroy \/ DestroyMembers PROVE Stutter
  BY <1>0, <1>2, <1>6
     DEF InitSensor, InitProbe, SpawnWorker, Destroy, DestroyMembers, Publishing, TypeOK
<1>7. ASSUME WorkerTest \/ WorkerSleep \/ WorkerTimeout \/ WorkerSample PROVE Stutter
  BY <1>0, <1>2, <1>7 DEF WorkerTest, WorkerSleep, WorkerTimeout, WorkerSample, Publishing, TypeOK
<1>8. ASSUME WorkerDrop PROVE Cache!Invalidate
  <2>1. out' = out /\ mutex = None /\ mutex' = None /\ cache'.lo = cache.lo /\ ~cache'.valid
    BY <1>0, <1>8 DEF WorkerDrop, TypeOK
  <2>2. \A r \in Readers : pc'[r] = pc[r] /\ pc[r] \notin {"look", "copy"}
    BY <1>0, <1>8, <2>1 DEF WorkerDrop, TypeOK, Holder, Critical
  <2>3. Answers' = Answers
    BY <1>a, <1>0, <2>1, <2>2 DEF AnswerOf, TypeOK, ReaderStates
  <2>4. \A u \in Writers : ~Publishing(u) /\ ~Publishing(u)'
    BY <1>0, <2>1 DEF Publishing, Holder, Critical
  <2> QED
    BY <1>0, <2>1, <2>3, <2>4 DEF CellMeaning, Cache!Invalidate
<1>9. ASSUME \A t \in Writers : pc'[t] = pc[t], UNCHANGED <<cache, data>>
      PROVE  Cell' = Cell /\ Latest' = Latest
  BY <1>0, <1>9 DEF CellMeaning, Publishing
<1>10. ASSUME NEW r \in Readers, ReadCall(r) PROVE Cache!Ask(r)
  <2>1. Cell' = Cell /\ Latest' = Latest
    BY <1>0, <1>9, <1>10 DEF ReadCall, TypeOK
  <2>2. AnswerOf(r) # Pending
    BY <1>0, <1>10 DEF ReadCall, AnswerOf, TypeOK
  <2>3. AnswerOf(r)' = Pending
    BY <1>0, <1>10 DEF ReadCall, AnswerOf, TypeOK
  <2>4. \A q \in Readers \ {r} : AnswerOf(q)' = AnswerOf(q)
    BY <1>0, <1>10 DEF ReadCall, AnswerOf, TypeOK
  <2>5. Answers' = [Answers EXCEPT ![r] = Pending]
    BY <2>3, <2>4
  <2> QED
    BY <2>1, <2>2, <2>5 DEF Cache!Ask
<1>11. ASSUME NEW r \in Readers, ReadLock(r) PROVE Cache!Answer(r)
  <2>1. Cell' = Cell /\ Latest' = Latest
    BY <1>0, <1>9, <1>11 DEF ReadLock, Lock, TypeOK
  <2>2. \A t \in Writers : ~Publishing(t)
    BY <1>0, <1>11 DEF ReadLock, Lock, Publishing, Holder, Critical
  <2>3. Cell = IF cache.valid THEN cache.lo ELSE Invalid
    BY <2>2, <1>0 DEF CellMeaning
  <2>4. /\ AnswerOf(r) = Pending /\ AnswerOf(r)' = Cell
        /\ \A q \in Readers \ {r} : AnswerOf(q)' = AnswerOf(q)
    BY <1>0, <1>11, <2>3 DEF ReadLock, Lock, AnswerOf, TypeOK
  <2>5. Answers' = [Answers EXCEPT ![r] = Cell]
    BY <2>4
  <2> QED
    BY <2>1, <2>4, <2>5 DEF Cache!Answer
<1>12. ASSUME NEW r \in Readers, ReadStep(r) PROVE Stutter
  <2>1. Cell' = Cell /\ Latest' = Latest
    BY <1>0, <1>9, <1>12 DEF ReadStep, ReadRefused, ReadLow, ReadHigh, TypeOK
  <2>2. \A q \in Readers \ {r} : AnswerOf(q)' = AnswerOf(q)
    BY <1>0, <1>12 DEF ReadStep, ReadRefused, ReadLow, ReadHigh, AnswerOf, TypeOK
  <2>3. AnswerOf(r)' = AnswerOf(r)
    BY <1>0, <1>12 DEF ReadStep, ReadRefused, ReadLow, ReadHigh, AnswerOf, TypeOK,
       IInv, Copied, CopyValid
  <2> QED
    BY <2>1, <2>2, <2>3
<1>13. ASSUME Convert \/ LinkChange \/ UNCHANGED vars PROVE Stutter
  BY <1>2, <1>13 DEF Convert, LinkChange, vars, Publishing
<1> HIDE DEF Stutter
<1> QED
  BY <1>1, <1>3, <1>4, <1>5, <1>6, <1>7, <1>8, <1>10, <1>11, <1>12, <1>13
     DEF Next, InitStep, InitFill, Gone, WorkerStep, WorkerInterrupt, WorkerPublish, Cache!Next

\* The manager implements the register, but for the promise that every read()
\* is answered, which is liveness and left to the run.
THEOREM ManagerImplementsSampleCache == SafeSpec => Cache!SafeSpec
<1>1. Init => Ordered /\ CopyValid
  BY ManagerAssumption DEF Init, Ordered, CopyValid
<1>2. Init => Cache!Init
  BY ManagerAssumption DEF Init, Cache!Init, Cell, Latest, AnswerOf, Publishing
<1>3. SafeSpec => [](Ordered /\ CopyValid)
  BY <1>1, SpecIInv, NextOrdered, PTL DEF SafeSpec
<1> QED
  BY <1>2, <1>3, SpecIInv, StepImplements, PTL DEF SafeSpec, Cache!SafeSpec

===============================================================================
