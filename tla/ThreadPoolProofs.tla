--------------------------- MODULE ThreadPoolProofs ---------------------------
(***************************************************************************)
(* Proofs about ThreadPool, for any number of workers, users and tasks and *)
(* any number of spurious wake-ups.                                        *)
(***************************************************************************)
EXTENDS ThreadPool, FiniteSetTheorems, TLAPS

\* queueMutex is held by the thread inside a critical section and by no other:
\* the queue and the stop flag are never touched by two threads at once.
MutualExclusion == \A t \in Threads : mutex = t <=> pc[t] \in Critical

(* The invariant the other proofs build on.  Next to the properties of     *)
(* ThreadPool it says what the critical sections and the shutdown know.    *)

\* A worker that has found nothing to do holds the mutex, so it is still so.
DozeKnows == \A w \in Workers : pc[w] = "doze" => ~stop /\ tasks = <<>>

\* stop is set before the workers are notified and joined, and stays set.
StopStages ==
  /\ pc[Owner] \in {"notifyAll", "join", "gone"} => stop
  /\ stop => joined = NumThreads \/ pc[Owner] \in {"notifyAll", "join"}
  /\ stop => pc[Owner] # "construct"

\* A worker returns on stop with an empty queue: what is queued then is late.
ExitKnows ==
  /\ \A w \in Workers : pc[w] = "done" => stop
  /\ (\E w \in Workers : pc[w] = "done") => \A i \in DOMAIN tasks : tasks[i] \in late

JoinedDone == \A w \in Workers : w <= joined => pc[w] = "done"

IInv ==
  /\ TypeOK
  /\ MutualExclusion
  /\ DozeKnows
  /\ StopStages
  /\ ExitKnows
  /\ JoinedDone
  /\ NoSleepPastStop

\* The pool starts in the invariant.
LEMMA InitIInv == Init => IInv
<1> SUFFICES ASSUME Init PROVE IInv
  OBVIOUS
<1> USE PoolAssumption DEF Init
<1>1. TypeOK
  <2> USE DEF Threads, Workers, WorkerStates, CallerStates, Shutting
  <2>1. pc \in [Threads -> WorkerStates \cup CallerStates]
    OBVIOUS
  <2>2. \A w \in Workers : pc[w] \in WorkerStates
    OBVIOUS
  <2>3. \A c \in Callers : pc[c] = IF c = Owner THEN "construct" ELSE "idle"
    OBVIOUS
  <2>4. tasks \in Seq(Tasks) /\ 0 \in 0..NumThreads /\ 0 \in 0..MaxSpurious
    OBVIOUS
  <2>5. \A t \in Threads : pc[t] \notin {"wantPush", "push", "run"}
    OBVIOUS
  <2>6. QED
    BY <2>1, <2>2, <2>3, <2>4, <2>5 DEF TypeOK
<1>2. MutualExclusion
  BY DEF MutualExclusion, Critical, Threads, Workers
<1>3. DozeKnows /\ StopStages /\ ExitKnows /\ JoinedDone /\ NoSleepPastStop
  BY DEF DozeKnows, StopStages, ExitKnows, JoinedDone, NoSleepPastStop, Asleep, Threads, Workers
<1>4. QED
  BY <1>1, <1>2, <1>3 DEF IInv

(* The step: one case per action of Next. *)
LEMMA NextIInv == IInv /\ [Next]_vars => IInv'
<1> SUFFICES ASSUME IInv, [Next]_vars PROVE IInv'
  OBVIOUS
<1> USE PoolAssumption DEF IInv, TypeOK, MutualExclusion, DozeKnows, StopStages, ExitKnows,
      JoinedDone, NoSleepPastStop, Asleep, Threads, Workers, WorkerStates, CallerStates,
      Critical, Shutting, At
<1>1. ASSUME NEW w \in Workers, Spawn(w) PROVE IInv'
  BY <1>1 DEF Spawn
<1>2. ASSUME NEW c \in Callers, NEW t \in Tasks, EnqueueCall(c, t) PROVE IInv'
  BY <1>2 DEF EnqueueCall
<1>3. ASSUME NEW c \in Callers, EnqueueLock(c) PROVE IInv'
  BY <1>3 DEF EnqueueLock, Lock
<1>4. ASSUME NEW c \in Callers, EnqueuePush(c) PROVE IInv'
  <2> USE <1>4 DEF EnqueuePush, EnqueuePushTo
  <2>1. item[c] \in Tasks /\ pc[c] = "push" /\ mutex = c
    OBVIOUS
  <2>2. /\ tasks' \in Seq(Tasks) /\ Len(tasks') = Len(tasks) + 1
        /\ tasks'[Len(tasks) + 1] = item[c]
        /\ \A i \in 1..Len(tasks) : tasks'[i] = tasks[i]
    BY <2>1
  <2>3. \A w \in Workers : pc'[w] = pc[w] /\ pc[w] # "doze"
    BY <2>1
  <2>4. TypeOK'
    BY <2>1, <2>2
  <2>5. MutualExclusion' /\ DozeKnows' /\ StopStages' /\ JoinedDone' /\ NoSleepPastStop'
    BY <2>1, <2>3
  <2>6. ExitKnows'
    BY <2>1, <2>2, <2>3
  <2>7. QED
    BY <2>4, <2>5, <2>6
<1>5. ASSUME NEW c \in Callers, NotifyOne(c) PROVE IInv'
  <2> USE <1>5 DEF NotifyOne
  <2>1. CASE \E w \in Asleep : pc' = [pc EXCEPT ![c] = "idle", ![w] = "want"]
    BY <2>1
  <2>2. CASE Asleep = {} /\ pc' = [pc EXCEPT ![c] = "idle"]
    BY <2>2
  <2>3. QED
    BY <2>1, <2>2
<1>6. ASSUME NEW destroy \in BOOLEAN, ShutdownCall(destroy) PROVE IInv'
  BY <1>6 DEF ShutdownCall
<1>7. ASSUME ShutdownLock PROVE IInv'
  BY <1>7 DEF ShutdownLock, Lock
<1>8. ASSUME ShutdownStop PROVE IInv'
  BY <1>8 DEF ShutdownStop
<1>9. ASSUME ShutdownNotifyAll PROVE IInv'
  BY <1>9 DEF ShutdownNotifyAll
<1>10. ASSUME JoinWorker PROVE IInv'
  BY <1>10 DEF JoinWorker
<1>11. ASSUME ShutdownReturn PROVE IInv'
  BY <1>11 DEF ShutdownReturn
<1>12. ASSUME NEW w \in Workers, WorkerLock(w) PROVE IInv'
  BY <1>12 DEF WorkerLock, Lock
<1>13. ASSUME NEW w \in Workers, WorkerDoze(w) PROVE IInv'
  BY <1>13 DEF WorkerDoze
<1>14. ASSUME NEW w \in Workers, WorkerSleep(w) PROVE IInv'
  BY <1>14 DEF WorkerSleep
<1>15. ASSUME NEW w \in Workers, WorkerExit(w) PROVE IInv'
  BY <1>15 DEF WorkerExit
<1>16. ASSUME NEW w \in Workers, WorkerTake(w) PROVE IInv'
  BY <1>16 DEF WorkerTake
<1>17. ASSUME NEW w \in Workers, WorkerRun(w) PROVE IInv'
  BY <1>17 DEF WorkerRun
<1>18. ASSUME NEW w \in Workers, SpuriousWake(w) PROVE IInv'
  BY <1>18 DEF SpuriousWake
<1>19. CASE UNCHANGED vars
  BY <1>19 DEF vars
<1>20. QED
  BY <1>1, <1>2, <1>3, <1>4, <1>5, <1>6, <1>7, <1>8, <1>9, <1>10, <1>11, <1>12, <1>13,
     <1>14, <1>15, <1>16, <1>17, <1>18, <1>19
     DEF Next, Enqueue, Shutdown, WorkerLoop, Gone

\* Every reachable state of the pool is in the invariant.
LEMMA SpecIInv == SafeSpec => []IInv
  BY InitIInv, NextIInv, PTL DEF SafeSpec

\* The variables keep their types, whatever the threads do.
THEOREM PoolTypeOK == SafeSpec => []TypeOK
<1>1. IInv => TypeOK
  BY DEF IInv
<1>2. QED
  BY <1>1, SpecIInv, PTL

\* The queue and the stop flag are touched by one thread at a time.
THEOREM PoolMutualExclusion == SafeSpec => []MutualExclusion
<1>1. IInv => MutualExclusion
  BY DEF IInv
<1>2. QED
  BY <1>1, SpecIInv, PTL

\* No worker sleeps through a shutdown, so the join finds them all on their way out.
THEOREM PoolNoSleepPastStop == SafeSpec => []NoSleepPastStop
<1>1. IInv => NoSleepPastStop
  BY DEF IInv
<1>2. QED
  BY <1>1, SpecIInv, PTL

\* shutdown() returns with every worker gone and every task pushed before stop run.
THEOREM PoolDrainedAtReturn == SafeSpec => []DrainedAtReturn
<1>1. IInv => DrainedAtReturn
  <2> SUFFICES ASSUME IInv, stop, pc[Owner] \in {"idle", "gone"}
               PROVE  /\ \A w \in Workers : pc[w] = "done"
                      /\ \A i \in DOMAIN tasks : tasks[i] \in late
    BY DEF DrainedAtReturn
  <2>1. joined = NumThreads
    BY DEF IInv, StopStages
  <2>2. \A w \in Workers : pc[w] = "done"
    BY <2>1, PoolAssumption DEF IInv, JoinedDone, Workers
  <2>3. NumThreads \in Workers
    BY PoolAssumption DEF Workers
  <2>4. QED
    BY <2>2, <2>3 DEF IInv, ExitKnows
<1>2. QED
  BY <1>1, SpecIInv, PTL
-------------------------------------------------------------------------------
(* No lost wake-up.  The two sets that cover the queue are finite; each    *)
(* action moves at most one thread in or out of one of them.               *)

\* The sets of workers and of callers are finite and have a size.
LEMMA Counts ==
  /\ \A S \in SUBSET Workers : IsFiniteSet(S) /\ Cardinality(S) \in Nat
  /\ \A S \in SUBSET Callers : IsFiniteSet(S) /\ Cardinality(S) \in Nat
  /\ Awake \subseteq Workers /\ Awake' \subseteq Workers
  /\ Notifying \subseteq Callers /\ Notifying' \subseteq Callers
<1>1. IsFiniteSet(Workers) /\ IsFiniteSet(Callers)
  BY FS_Interval, PoolAssumption DEF Workers
<1>2. ASSUME NEW T, IsFiniteSet(T), NEW S \in SUBSET T
      PROVE  IsFiniteSet(S) /\ Cardinality(S) \in Nat
  BY <1>2, FS_Subset, FS_CardinalityType
<1>3. Awake \subseteq Workers /\ Awake' \subseteq Workers
  BY DEF Awake
<1>4. Notifying \subseteq Callers /\ Notifying' \subseteq Callers
  BY DEF Notifying
<1>5. QED
  BY <1>1, <1>2, <1>3, <1>4

\* A step that grows neither the queue nor the sleepers, and takes nobody away.
LEMMA CoverKept ==
  ASSUME TypeOK, TypeOK', NoLostWakeup,
         Len(tasks') <= Len(tasks), Asleep' \subseteq Asleep,
         Awake \subseteq Awake', Notifying \subseteq Notifying'
  PROVE  NoLostWakeup'
<1>1. Cardinality(Awake) <= Cardinality(Awake') /\ Cardinality(Notifying) <= Cardinality(Notifying')
  BY Counts, FS_Subset
<1>2. Len(tasks) \in Nat /\ Len(tasks') \in Nat
  BY DEF TypeOK
<1>3. QED
  BY <1>1, <1>2, Counts DEF NoLostWakeup

\* Every step of the pool keeps the sleepers, wakers and queued tasks in balance.
LEMMA NextNoLostWakeup == IInv /\ IInv' /\ NoLostWakeup /\ [Next]_vars => NoLostWakeup'
<1> SUFFICES ASSUME IInv, IInv', NoLostWakeup, [Next]_vars PROVE NoLostWakeup'
  OBVIOUS
<1> USE PoolAssumption DEF At, Threads, Workers
<1>0. TypeOK /\ TypeOK'
  BY DEF IInv
<1>1. ASSUME NEW w \in Workers, Spawn(w) PROVE NoLostWakeup'
  <2> USE <1>1 DEF Spawn
  <2>1. pc'[w] = "want" /\ \A v \in Workers : v # w => pc'[v] = pc[v]
    BY <1>0 DEF TypeOK
  <2>2. \A c \in Callers : pc[c] = "notifyOne" => pc'[c] = "notifyOne"
    BY <1>0 DEF TypeOK
  <2>3. Asleep' \subseteq Asleep /\ Awake \subseteq Awake' /\ Notifying \subseteq Notifying'
    BY <2>1, <2>2 DEF Asleep, Awake, Notifying
  <2>4. Len(tasks') <= Len(tasks)
    BY <1>0 DEF TypeOK
  <2>5. QED
    BY <2>3, <2>4, <1>0, CoverKept
<1>2. ASSUME NEW c \in Callers, NEW t \in Tasks, EnqueueCall(c, t) PROVE NoLostWakeup'
  BY <1>0, <1>2, CoverKept DEF EnqueueCall, TypeOK, Asleep, Awake, Notifying
<1>3. ASSUME NEW c \in Callers, EnqueueLock(c) PROVE NoLostWakeup'
  BY <1>0, <1>3, CoverKept DEF EnqueueLock, Lock, TypeOK, Asleep, Awake, Notifying
<1>4. ASSUME NEW c \in Callers, EnqueuePush(c) PROVE NoLostWakeup'
  <2> USE <1>4 DEF EnqueuePush, EnqueuePushTo
  <2>1. Asleep' = Asleep /\ Awake' = Awake
    BY <1>0 DEF TypeOK, Asleep, Awake
  <2>2. Notifying' = Notifying \cup {c} /\ c \notin Notifying
    BY <1>0 DEF TypeOK, Notifying
  <2>3. Cardinality(Notifying') = Cardinality(Notifying) + 1
    BY <2>2, <1>0, Counts, FS_AddElement
  <2>4. Len(tasks') = Len(tasks) + 1
    BY <1>0 DEF TypeOK
  <2>5. QED
    BY <2>1, <2>3, <2>4, <1>0, Counts DEF NoLostWakeup
<1>5. ASSUME NEW c \in Callers, NotifyOne(c) PROVE NoLostWakeup'
  <2> USE <1>5 DEF NotifyOne
  <2>1. CASE Asleep = {} /\ pc' = [pc EXCEPT ![c] = "idle"]
    BY <2>1, <1>0 DEF NoLostWakeup, Asleep, TypeOK
  <2>2. ASSUME NEW w \in Asleep, pc' = [pc EXCEPT ![c] = "idle", ![w] = "want"]
        PROVE  NoLostWakeup'
    <3>1. Awake' = Awake \cup {w} /\ w \notin Awake
      BY <2>2, <1>0 DEF TypeOK, Asleep, Awake
    <3>2. Notifying' = Notifying \ {c} /\ c \in Notifying
      BY <2>2, <1>0 DEF TypeOK, Asleep, Notifying
    <3>3. Cardinality(Awake') = Cardinality(Awake) + 1
      BY <3>1, <1>0, Counts, FS_AddElement
    <3>4. Cardinality(Notifying') = Cardinality(Notifying) - 1
      BY <3>2, <1>0, Counts, FS_RemoveElement
    <3>5. QED
      BY <2>2, <3>3, <3>4, <1>0, Counts DEF NoLostWakeup
  <2>3. QED
    BY <2>1, <2>2
<1>6. ASSUME NEW destroy \in BOOLEAN, ShutdownCall(destroy) PROVE NoLostWakeup'
  BY <1>0, <1>6, CoverKept DEF ShutdownCall, TypeOK, Asleep, Awake, Notifying
<1>7. ASSUME ShutdownLock PROVE NoLostWakeup'
  BY <1>0, <1>7, CoverKept DEF ShutdownLock, Lock, TypeOK, Asleep, Awake, Notifying
<1>8. ASSUME ShutdownStop PROVE NoLostWakeup'
  BY <1>0, <1>8, CoverKept DEF ShutdownStop, TypeOK, Asleep, Awake, Notifying
<1>9. ASSUME ShutdownNotifyAll PROVE NoLostWakeup'
  BY <1>0, <1>9 DEF ShutdownNotifyAll, NoLostWakeup, TypeOK, Asleep
<1>10. ASSUME JoinWorker PROVE NoLostWakeup'
  BY <1>0, <1>10, CoverKept DEF JoinWorker, TypeOK, Asleep, Awake, Notifying
<1>11. ASSUME ShutdownReturn PROVE NoLostWakeup'
  BY <1>0, <1>11, CoverKept DEF ShutdownReturn, TypeOK, Asleep, Awake, Notifying
<1>12. ASSUME NEW w \in Workers, WorkerLock(w) PROVE NoLostWakeup'
  BY <1>0, <1>12, CoverKept DEF WorkerLock, Lock, TypeOK, Asleep, Awake, Notifying
<1>13. ASSUME NEW w \in Workers, tasks = <<>>, UNCHANGED tasks PROVE NoLostWakeup'
  <2>1. Len(tasks') = 0
    BY <1>13
  <2>2. QED
    BY <2>1, Counts DEF NoLostWakeup
<1>14. ASSUME NEW w \in Workers, WorkerTake(w) PROVE NoLostWakeup'
  <2> USE <1>14 DEF WorkerTake
  <2>1. Asleep' = Asleep /\ Notifying' = Notifying
    BY <1>0 DEF TypeOK, Asleep, Notifying
  <2>2. Awake' = Awake \ {w} /\ w \in Awake
    BY <1>0 DEF TypeOK, Awake
  <2>3. Cardinality(Awake') = Cardinality(Awake) - 1
    BY <2>2, <1>0, Counts, FS_RemoveElement
  <2>4. Len(tasks') = Len(tasks) - 1
    BY <1>0 DEF TypeOK
  <2>5. QED
    BY <2>1, <2>3, <2>4, <1>0, Counts DEF NoLostWakeup
<1>15. ASSUME NEW w \in Workers, WorkerRun(w) PROVE NoLostWakeup'
  BY <1>0, <1>15, CoverKept DEF WorkerRun, TypeOK, Asleep, Awake, Notifying
<1>16. ASSUME NEW w \in Workers, SpuriousWake(w) PROVE NoLostWakeup'
  BY <1>0, <1>16, CoverKept DEF SpuriousWake, TypeOK, Asleep, Awake, Notifying
<1>17. CASE UNCHANGED vars
  BY <1>17, CoverKept DEF vars, Asleep, Awake, Notifying, NoLostWakeup
<1>18. ASSUME NEW w \in Workers, WorkerDoze(w) \/ WorkerSleep(w) \/ WorkerExit(w)
       PROVE  tasks = <<>> /\ UNCHANGED tasks
  BY <1>18 DEF WorkerDoze, WorkerSleep, WorkerExit, IInv, DozeKnows
<1>19. QED
  BY <1>1, <1>2, <1>3, <1>4, <1>5, <1>6, <1>7, <1>8, <1>9, <1>10, <1>11, <1>12, <1>13,
     <1>14, <1>15, <1>16, <1>17, <1>18
     DEF Next, Enqueue, Shutdown, WorkerLoop, Gone

\* While a worker sleeps, every queued task has a worker or a notification coming.
THEOREM PoolNoLostWakeup == SafeSpec => []NoLostWakeup
<1>1. Init => NoLostWakeup
  BY PoolAssumption DEF Init, NoLostWakeup, Asleep, Threads, Workers
<1>2. QED
  BY <1>1, NextNoLostWakeup, SpecIInv, PTL DEF SafeSpec
-------------------------------------------------------------------------------
(* Refinement: each action of ThreadPool is one of TaskPool or a stutter.  *)

\* Every step of the pool is a step of TaskPool, or leaves its variables alone.
LEMMA StepImplements == IInv /\ IInv' /\ [Next]_vars => [Pool!Next]_(Pool!vars)
<1> SUFFICES ASSUME IInv, IInv', [Next]_vars PROVE [Pool!Next]_(Pool!vars)
  OBVIOUS
<1> DEFINE Running == [w \in Workers |-> IF pc[w] = "run" THEN item[w] ELSE None]
           Alive == {w \in Workers : pc[w] \notin {"unborn", "done"}}
           Closed == joined = NumThreads
           Stutter == /\ tasks' = tasks /\ Running' = Running /\ Alive' = Alive
                      /\ stop' = stop /\ Closed' = Closed
<1> USE PoolAssumption DEF At, Threads, Workers
<1>0. TypeOK
  BY DEF IInv
<1>1. ASSUME Stutter PROVE UNCHANGED Pool!vars
  BY <1>1 DEF Pool!vars
<1> HIDE DEF Stutter
<1>2. ASSUME NEW w \in Workers, Spawn(w) PROVE Pool!Spawn(w)
  <2> USE <1>2 DEF Spawn
  <2>1. pc'[w] = "want" /\ \A v \in Workers : v # w => pc'[v] = pc[v]
    BY <1>0 DEF TypeOK
  <2>2. Running' = Running /\ Alive' = Alive \cup {w} /\ w \notin Alive
    BY <2>1
  <2>3. ~stop
    BY DEF IInv, StopStages
  <2>4. QED
    BY <2>2, <2>3 DEF Pool!Spawn
<1>3. ASSUME NEW c \in Callers, NEW t \in Tasks, EnqueueCall(c, t) PROVE Stutter
  BY <1>3, <1>0 DEF EnqueueCall, TypeOK, Stutter
<1>4. ASSUME NEW t \in Threads, NEW from, NEW to, Lock(t, from, to),
             from \notin {"run", "unborn", "done"}, to \notin {"run", "unborn", "done"}
      PROVE  Stutter
  BY <1>4, <1>0 DEF Lock, TypeOK, Stutter
<1>5. ASSUME NEW c \in Callers, EnqueuePush(c) PROVE Pool!Submit(item[c]) /\ item[c] \in Tasks
  <2> USE <1>5 DEF EnqueuePush, EnqueuePushTo
  <2>1. item[c] \in Tasks
    BY <1>0 DEF TypeOK
  <2>2. Running' = Running /\ Alive' = Alive
    BY <1>0 DEF TypeOK
  <2>3. QED
    BY <2>1, <2>2 DEF Pool!Submit
<1>6. ASSUME NEW c \in Callers, NotifyOne(c) PROVE Stutter
  <2>1. \A w \in Workers : pc'[w] = pc[w] \/ (pc[w] = "asleep" /\ pc'[w] = "want")
    BY <1>6, <1>0 DEF NotifyOne, TypeOK, Asleep
  <2>2. QED
    BY <2>1, <1>6 DEF NotifyOne, Stutter
<1>7. ASSUME NEW destroy \in BOOLEAN, ShutdownCall(destroy) PROVE Stutter
  BY <1>7, <1>0 DEF ShutdownCall, TypeOK, Stutter
<1>8. ASSUME ShutdownStop PROVE Pool!Stop \/ Stutter
  <2>1. Running' = Running /\ Alive' = Alive
    BY <1>8, <1>0 DEF ShutdownStop, TypeOK
  <2>2. QED
    BY <1>8, <1>0, <2>1 DEF ShutdownStop, TypeOK, Pool!Stop, Stutter
<1>9. ASSUME ShutdownNotifyAll PROVE Stutter
  <2>1. \A w \in Workers : pc'[w] = pc[w] \/ (pc[w] = "asleep" /\ pc'[w] = "want")
    BY <1>9, <1>0 DEF ShutdownNotifyAll, TypeOK, Asleep
  <2>2. QED
    BY <2>1, <1>9 DEF ShutdownNotifyAll, Stutter
<1>10. ASSUME JoinWorker PROVE Pool!Close \/ Stutter
  <2>1. Running' = Running /\ Alive' = Alive
    BY <1>10 DEF JoinWorker
  <2>2. CASE joined' = NumThreads
    <3>1. Alive = {}
      BY <2>2, <1>10 DEF IInv, JoinedDone, JoinWorker
    <3>2. stop /\ ~Closed /\ Closed'
      BY <2>2, <1>10, <1>0 DEF IInv, StopStages, JoinWorker, TypeOK
    <3>3. QED
      BY <2>1, <3>1, <3>2, <1>10 DEF JoinWorker, Pool!Close
  <2>3. CASE joined' # NumThreads
    BY <2>1, <2>3, <1>10 DEF JoinWorker, Stutter
  <2>4. QED
    BY <2>2, <2>3
<1>11. ASSUME ShutdownReturn PROVE Stutter
  BY <1>11, <1>0 DEF ShutdownReturn, TypeOK, Stutter
<1>12. ASSUME NEW w \in Workers, WorkerDoze(w) \/ WorkerSleep(w) \/ SpuriousWake(w) PROVE Stutter
  BY <1>12, <1>0 DEF WorkerDoze, WorkerSleep, SpuriousWake, TypeOK, Stutter
<1>13. ASSUME NEW w \in Workers, WorkerExit(w) PROVE Pool!Exit(w)
  <2>1. Running' = Running /\ Running[w] = None
    BY <1>13, <1>0 DEF WorkerExit, TypeOK
  <2>2. Alive' = Alive \ {w} /\ w \in Alive
    BY <1>13, <1>0 DEF WorkerExit, TypeOK
  <2>3. QED
    BY <2>1, <2>2, <1>13 DEF WorkerExit, Pool!Exit
<1>14. ASSUME NEW w \in Workers, WorkerTake(w) PROVE Pool!Start(w)
  <2>1. Running[w] = None /\ Running' = [Running EXCEPT ![w] = Head(tasks)]
    BY <1>14, <1>0 DEF WorkerTake, TypeOK
  <2>2. Alive' = Alive /\ w \in Alive
    BY <1>14, <1>0 DEF WorkerTake, TypeOK
  <2>3. QED
    BY <2>1, <2>2, <1>14 DEF WorkerTake, Pool!Start
<1>15. ASSUME NEW w \in Workers, WorkerRun(w) PROVE Pool!Finish(w)
  <2>1. Running[w] # None /\ Running' = [Running EXCEPT ![w] = None]
    BY <1>15, <1>0 DEF WorkerRun, TypeOK
  <2>2. Alive' = Alive
    BY <1>15, <1>0 DEF WorkerRun, TypeOK
  <2>3. QED
    BY <2>1, <2>2, <1>15 DEF WorkerRun, Pool!Finish
<1>16. ASSUME UNCHANGED vars PROVE Stutter
  BY <1>16 DEF vars, Stutter
<1>17. ASSUME NEW w \in Workers, WorkerLock(w) PROVE Stutter
  BY <1>4, <1>17 DEF WorkerLock
<1>18. ASSUME NEW c \in Callers, EnqueueLock(c) PROVE Stutter
  BY <1>4, <1>18 DEF EnqueueLock
<1>19. ASSUME ShutdownLock PROVE Stutter
  BY <1>4, <1>19 DEF ShutdownLock
<1>20. QED
  BY <1>1, <1>2, <1>3, <1>5, <1>6, <1>7, <1>8, <1>9, <1>10, <1>11, <1>12, <1>13, <1>14,
     <1>15, <1>16, <1>17, <1>18, <1>19
     DEF Next, Enqueue, Shutdown, WorkerLoop, Gone, Pool!Next

\* The pool built from a mutex and a condition variable is a TaskPool: it starts
\* tasks first in, first out, each once, and drains them before it closes.
THEOREM PoolImplementsTaskPool == SafeSpec => Pool!SafeSpec
<1>1. Init => Pool!Init
  BY PoolAssumption DEF Init, Pool!Init, Threads, Workers
<1>2. QED
  BY <1>1, StepImplements, SpecIInv, PTL DEF SafeSpec, Pool!SafeSpec

(* Every task is in one place. *)

HeldTasks == {item[t] : t \in Threads} \ {None}
QueuedTasks == {tasks[i] : i \in DOMAIN tasks}

\* Only four steps move a task; each takes it from one place to the next.
LEMMA NextExactlyOnce == IInv /\ IInv' /\ ExactlyOnce /\ [Next]_vars => ExactlyOnce'
<1> SUFFICES ASSUME IInv, IInv', ExactlyOnce, [Next]_vars PROVE ExactlyOnce'
  OBVIOUS
<1> USE PoolAssumption
<1>1. ASSUME UNCHANGED <<item, tasks, fresh, done>> PROVE ExactlyOnce'
  BY <1>1 DEF ExactlyOnce
<1>a. /\ fresh \cup HeldTasks \cup QueuedTasks \cup done = Tasks
      /\ fresh \cap (HeldTasks \cup QueuedTasks \cup done) = {}
      /\ HeldTasks \cap (QueuedTasks \cup done) = {}
      /\ QueuedTasks \cap done = {}
  BY DEF ExactlyOnce, HeldTasks, QueuedTasks
<1>b. /\ \A t, u \in Threads : item[t] = item[u] /\ item[t] # None => t = u
      /\ \A i, j \in DOMAIN tasks : tasks[i] = tasks[j] => i = j
  BY DEF ExactlyOnce
<1>c. item \in [Threads -> Tasks \cup {None}] /\ tasks \in Seq(Tasks)
  BY DEF IInv, TypeOK
<1>d. ASSUME \/ UNCHANGED <<HeldTasks, QueuedTasks, done, fresh>>
             \/ \E t \in fresh : /\ fresh' = fresh \ {t} /\ HeldTasks' = HeldTasks \cup {t}
                                 /\ UNCHANGED <<QueuedTasks, done>>
             \/ \E t \in HeldTasks : /\ HeldTasks' = HeldTasks \ {t}
                                     /\ QueuedTasks' = QueuedTasks \cup {t}
                                     /\ UNCHANGED <<fresh, done>>
             \/ \E t \in QueuedTasks : /\ QueuedTasks' = QueuedTasks \ {t}
                                       /\ HeldTasks' = HeldTasks \cup {t}
                                       /\ UNCHANGED <<fresh, done>>
             \/ \E t \in HeldTasks : /\ HeldTasks' = HeldTasks \ {t} /\ done' = done \cup {t}
                                     /\ UNCHANGED <<fresh, QueuedTasks>>,
             \A t, u \in Threads : item'[t] = item'[u] /\ item'[t] # None => t = u,
             \A i, j \in DOMAIN tasks' : tasks'[i] = tasks'[j] => i = j
      PROVE  ExactlyOnce'
  <2>1. /\ fresh' \cup HeldTasks' \cup QueuedTasks' \cup done' = Tasks
        /\ fresh' \cap (HeldTasks' \cup QueuedTasks' \cup done') = {}
        /\ HeldTasks' \cap (QueuedTasks' \cup done') = {}
        /\ QueuedTasks' \cap done' = {}
    BY <1>a, <1>d
  <2> QED
    BY <1>d, <2>1 DEF ExactlyOnce, HeldTasks, QueuedTasks
<1>2. ASSUME NEW c \in Callers, NEW t \in Tasks, EnqueueCall(c, t) PROVE ExactlyOnce'
  <2>1. /\ t \in fresh /\ c \in Threads /\ item[c] = None
        /\ item' = [item EXCEPT ![c] = t] /\ fresh' = fresh \ {t}
        /\ UNCHANGED <<tasks, done>>
    BY <1>2 DEF EnqueueCall, At, IInv, TypeOK, Threads
  <2>2. t \notin HeldTasks /\ t # None
    BY <1>a, <1>2, <2>1
  <2>3. HeldTasks' = HeldTasks \cup {t} /\ UNCHANGED QueuedTasks
    BY <1>c, <2>1, <2>2 DEF HeldTasks, QueuedTasks
  <2>4. \A u, v \in Threads : item'[u] = item'[v] /\ item'[u] # None => u = v
    BY <1>b, <1>c, <2>1, <2>2 DEF HeldTasks
  <2> QED
    BY <1>b, <1>d, <2>1, <2>3, <2>4
<1>3. ASSUME NEW c \in Callers, EnqueuePush(c) PROVE ExactlyOnce'
  <2>1. /\ c \in Threads /\ item[c] \in Tasks /\ item[c] # None
        /\ item' = [item EXCEPT ![c] = None] /\ tasks' = Append(tasks, item[c])
        /\ UNCHANGED <<fresh, done>>
    BY <1>3 DEF EnqueuePush, EnqueuePushTo, At, IInv, TypeOK, Threads
  <2>2. item[c] \in HeldTasks /\ item[c] \notin QueuedTasks
    BY <1>a, <2>1 DEF HeldTasks
  <2>3. /\ DOMAIN tasks = 1..Len(tasks) /\ DOMAIN tasks' = 1 .. Len(tasks) + 1
        /\ tasks'[Len(tasks) + 1] = item[c] /\ Len(tasks) \in Nat
        /\ \A i \in 1..Len(tasks) : tasks'[i] = tasks[i]
    BY <1>c, <2>1
  <2>4. HeldTasks' = HeldTasks \ {item[c]}
    BY <1>b, <1>c, <2>1 DEF HeldTasks
  <2>5. QueuedTasks' = QueuedTasks \cup {item[c]}
    BY <2>3 DEF QueuedTasks
  <2>6. \A i, j \in DOMAIN tasks' : tasks'[i] = tasks'[j] => i = j
    BY <1>b, <2>2, <2>3 DEF QueuedTasks
  <2>7. \A u, v \in Threads : item'[u] = item'[v] /\ item'[u] # None => u = v
    BY <1>b, <1>c, <2>1
  <2> QED
    BY <1>d, <2>1, <2>2, <2>4, <2>5, <2>6, <2>7
<1>4. ASSUME NEW w \in Workers, WorkerTake(w) PROVE ExactlyOnce'
  <2>1. /\ w \in Threads /\ item[w] = None /\ tasks # <<>>
        /\ item' = [item EXCEPT ![w] = Head(tasks)] /\ tasks' = Tail(tasks)
        /\ UNCHANGED <<fresh, done>>
    BY <1>4 DEF WorkerTake, At, IInv, TypeOK, Threads
  <2>2. /\ Len(tasks) \in Nat \ {0} /\ DOMAIN tasks = 1..Len(tasks) /\ Head(tasks) = tasks[1]
        /\ DOMAIN tasks' = 1 .. Len(tasks) - 1
        /\ \A i \in 1 .. Len(tasks) - 1 : tasks'[i] = tasks[i + 1]
    BY <1>c, <2>1
  <2>3. Head(tasks) \in QueuedTasks /\ Head(tasks) \notin HeldTasks /\ Head(tasks) # None
    <3>1. Head(tasks) \in QueuedTasks
      BY <2>2 DEF QueuedTasks
    <3> QED
      BY <1>a, <3>1
  <2>4. HeldTasks' = HeldTasks \cup {Head(tasks)}
    BY <1>c, <2>1, <2>3 DEF HeldTasks
  <2>5. QueuedTasks' = QueuedTasks \ {Head(tasks)}
    <3>1. ASSUME NEW i \in DOMAIN tasks' PROVE tasks'[i] \in QueuedTasks \ {Head(tasks)}
      BY <1>b, <2>2, <3>1 DEF QueuedTasks
    <3>2. ASSUME NEW i \in DOMAIN tasks, tasks[i] # Head(tasks)
          PROVE  i - 1 \in DOMAIN tasks' /\ tasks'[i - 1] = tasks[i]
      BY <2>2, <3>2
    <3> QED
      BY <3>1, <3>2 DEF QueuedTasks
  <2>6. \A i, j \in DOMAIN tasks' : tasks'[i] = tasks'[j] => i = j
    BY <1>b, <2>2
  <2>7. \A u, v \in Threads : item'[u] = item'[v] /\ item'[u] # None => u = v
    BY <1>b, <1>c, <2>1, <2>3 DEF HeldTasks
  <2> QED
    BY <1>d, <2>1, <2>3, <2>4, <2>5, <2>6, <2>7
<1>5. ASSUME NEW w \in Workers, WorkerRun(w) PROVE ExactlyOnce'
  <2>1. /\ w \in Threads /\ item[w] # None
        /\ item' = [item EXCEPT ![w] = None] /\ done' = done \cup {item[w]}
        /\ UNCHANGED <<tasks, fresh>>
    BY <1>5 DEF WorkerRun, At, IInv, TypeOK, Threads
  <2>2. item[w] \in HeldTasks /\ HeldTasks' = HeldTasks \ {item[w]} /\ UNCHANGED QueuedTasks
    BY <1>b, <1>c, <2>1 DEF HeldTasks, QueuedTasks
  <2>3. \A u, v \in Threads : item'[u] = item'[v] /\ item'[u] # None => u = v
    BY <1>b, <1>c, <2>1
  <2> QED
    BY <1>b, <1>d, <2>1, <2>2, <2>3
<1> QED
  BY <1>1, <1>2, <1>3, <1>4, <1>5
  DEF Next, vars, Enqueue, Shutdown, WorkerLoop, Spawn, EnqueueLock, NotifyOne, ShutdownCall,
      ShutdownLock, ShutdownStop, ShutdownNotifyAll, JoinWorker, ShutdownReturn, WorkerLock,
      WorkerDoze, WorkerSleep, WorkerExit, SpuriousWake, Gone, Lock

\* No task is lost and none is run twice, for any number of workers, users and
\* tasks (ThreadPool.hpp, enqueue() and workerThread()).
THEOREM PoolExactlyOnce == SafeSpec => []ExactlyOnce
<1>1. Init => ExactlyOnce
  BY PoolAssumption DEF Init, ExactlyOnce
<1> QED
  BY SpecIInv, <1>1, NextExactlyOnce, PTL DEF SafeSpec
===============================================================================
