------------------------------ MODULE ThreadPool ------------------------------
(***************************************************************************)
(* inc/ThreadPool.hpp: a queue of tasks under queueMutex, a condition      *)
(* variable the workers sleep on, a stop flag, and a vector of worker      *)
(* threads that the constructor fills and shutdown() joins.                *)
(*                                                                         *)
(* One action is one critical section, one call on the condition variable, *)
(* or one thread operation.  Sleeping releases the mutex and enters the    *)
(* wait set in one step, as condition_variable::wait does; a woken worker  *)
(* has to win the mutex again before it looks at the predicate.            *)
(***************************************************************************)
EXTENDS Integers, Sequences, FiniteSets

CONSTANTS
  NumThreads,   \* numThreads
  Callers,      \* the threads that use the pool
  Owner,        \* the caller that constructs the pool, and destroys it
  Tasks,        \* the values enqueued; each is enqueued at most once
  None,         \* no task, no mutex holder
  MaxSpurious   \* bound: spurious wake-ups in one behaviour

Workers == 1..NumThreads
Threads == Workers \cup Callers

ASSUME PoolAssumption ==
  /\ NumThreads \in Nat \ {0}
  /\ MaxSpurious \in Nat
  /\ IsFiniteSet(Callers) /\ Owner \in Callers
  /\ Workers \cap Callers = {}
  /\ None \notin Threads \cup Tasks

VARIABLES
  mutex,     \* the holder of queueMutex, or None
  tasks,     \* the queue
  stop,      \* the stop flag
  pc,        \* where each thread is
  item,      \* client_fd of a worker, task_item of a caller, or None
  joined,    \* workers[1..joined] are joined, no longer joinable()
  dtor,      \* the destructor has been entered
  spurious,  \* wake-ups without a notification so far
  fresh,     \* history: the tasks not handed to enqueue yet
  done,      \* history: the tasks whose workerFunction call has returned
  late       \* history: the tasks pushed after stop was set

vars == <<mutex, tasks, stop, pc, item, joined, dtor, spurious, fresh, done, late>>

WorkerStates == {"unborn", "want", "check", "doze", "asleep", "run", "done"}
CallerStates == {"construct", "idle", "wantPush", "push", "notifyOne",
                 "wantStop", "stop", "notifyAll", "join", "gone"}
Critical == {"check", "doze", "push", "stop"}   \* the states that hold queueMutex
Shutting == {"wantStop", "stop", "notifyAll", "join", "gone"}

At(t, from, to) == pc[t] = from /\ pc' = [pc EXCEPT ![t] = to]

Lock(t, from, to) ==
  /\ At(t, from, to)
  /\ mutex = None
  /\ mutex' = t
  /\ UNCHANGED <<tasks, stop, item, joined, dtor, spurious, fresh, done, late>>

Asleep == {w \in Workers : pc[w] = "asleep"}
Awake == {w \in Workers : pc[w] \in {"want", "check"}}
Notifying == {c \in Callers : pc[c] = "notifyOne"}
-------------------------------------------------------------------------------
Init ==
  /\ mutex = None
  /\ tasks = <<>>
  /\ stop = FALSE
  /\ pc = [t \in Threads |-> IF t \in Workers THEN "unborn"
                             ELSE IF t = Owner THEN "construct" ELSE "idle"]
  /\ item = [t \in Threads |-> None]
  /\ joined = 0
  /\ dtor = FALSE
  /\ spurious = 0
  /\ fresh = Tasks
  /\ done = {}
  /\ late = {}

\* The constructor starts the workers one by one; each may run at once.
Spawn(w) ==
  /\ pc[Owner] = "construct"
  /\ pc[w] = "unborn"
  /\ \A v \in Workers : pc[v] = "unborn" => w <= v
  /\ pc' = [pc EXCEPT ![w] = "want", ![Owner] = IF w = NumThreads THEN "idle" ELSE @]
  /\ UNCHANGED <<mutex, tasks, stop, item, joined, dtor, spurious, fresh, done, late>>

-------------------------------------------------------------------------------
(* enqueue() *)

EnqueueCall(c, t) ==
  /\ pc[Owner] # "construct" /\ ~dtor
  /\ At(c, "idle", "wantPush")
  /\ t \in fresh
  /\ fresh' = fresh \ {t}
  /\ item' = [item EXCEPT ![c] = t]
  /\ UNCHANGED <<mutex, tasks, stop, joined, dtor, spurious, done, late>>

EnqueueLock(c) == Lock(c, "wantPush", "push")

EnqueuePushTo(c, next) ==
  /\ At(c, "push", next)
  /\ tasks' = Append(tasks, item[c])
  /\ item' = [item EXCEPT ![c] = None]
  /\ late' = IF stop THEN late \cup {item[c]} ELSE late
  /\ mutex' = None
  /\ UNCHANGED <<stop, joined, dtor, spurious, fresh, done>>

\* Mutant: the push is not followed by a notification.
EnqueuePushSilent(c) == EnqueuePushTo(c, "idle")

\* Mutant: enqueue starts over after the push instead of notifying.
EnqueuePushAgain(c) == EnqueuePushTo(c, "wantPush")

EnqueuePush(c) == EnqueuePushTo(c, "notifyOne")

\* condition.notify_one(), after the mutex is released: whichever sleeper the
\* system picks, and nothing when nobody sleeps.
NotifyOne(c) ==
  /\ pc[c] = "notifyOne"
  /\ \/ \E w \in Asleep : pc' = [pc EXCEPT ![c] = "idle", ![w] = "want"]
     \/ Asleep = {} /\ pc' = [pc EXCEPT ![c] = "idle"]
  /\ UNCHANGED <<mutex, tasks, stop, item, joined, dtor, spurious, fresh, done, late>>
-------------------------------------------------------------------------------
(* shutdown(), called once explicitly or by the destructor, or both *)

ShutdownCall(destroy) ==
  /\ At(Owner, "idle", "wantStop")
  /\ dtor' = destroy
  /\ IF destroy THEN \A c \in Callers : pc[c] = "idle" ELSE ~stop
  /\ UNCHANGED <<mutex, tasks, stop, item, joined, spurious, fresh, done, late>>

\* Mutant: stop is set without the mutex.
ShutdownUnlocked ==
  /\ At(Owner, "wantStop", "stop")
  /\ UNCHANGED <<mutex, tasks, stop, item, joined, dtor, spurious, fresh, done, late>>

ShutdownLock == Lock(Owner, "wantStop", "stop")

ShutdownStop ==
  /\ At(Owner, "stop", "notifyAll")
  /\ stop' = TRUE
  /\ mutex' = None
  /\ UNCHANGED <<tasks, item, joined, dtor, spurious, fresh, done, late>>

ShutdownNotifyAll ==
  /\ pc[Owner] = "notifyAll"
  /\ pc' = [t \in Threads |-> IF t = Owner THEN "join"
                              ELSE IF t \in Asleep THEN "want" ELSE pc[t]]
  /\ UNCHANGED <<mutex, tasks, stop, item, joined, dtor, spurious, fresh, done, late>>

\* worker.join() on the next worker that is still joinable().
JoinWorker ==
  /\ pc[Owner] = "join"
  /\ joined < NumThreads
  /\ pc[joined + 1] = "done"
  /\ joined' = joined + 1
  /\ UNCHANGED <<mutex, tasks, stop, pc, item, dtor, spurious, fresh, done, late>>

ShutdownReturn ==
  /\ joined = NumThreads
  /\ At(Owner, "join", IF dtor THEN "gone" ELSE "idle")
  /\ UNCHANGED <<mutex, tasks, stop, item, joined, dtor, spurious, fresh, done, late>>
-------------------------------------------------------------------------------
(* workerThread() *)

WorkerLock(w) == Lock(w, "want", "check")

\* The wait predicate is false: the worker is about to sleep, mutex in hand.
WorkerDoze(w) ==
  /\ At(w, "check", "doze")
  /\ ~stop /\ tasks = <<>>
  /\ UNCHANGED <<mutex, tasks, stop, item, joined, dtor, spurious, fresh, done, late>>

WorkerSleep(w) ==
  /\ At(w, "doze", "asleep")
  /\ mutex' = None
  /\ UNCHANGED <<tasks, stop, item, joined, dtor, spurious, fresh, done, late>>

\* Mutant: a worker leaves on stop without draining the queue.
WorkerExitAtStop(w) ==
  /\ At(w, "check", "done")
  /\ stop
  /\ mutex' = None
  /\ UNCHANGED <<tasks, stop, item, joined, dtor, spurious, fresh, done, late>>

\* Mutant: a stopped worker goes round the loop again instead of returning.
WorkerExitLoops(w) ==
  /\ At(w, "check", "want")
  /\ stop /\ tasks = <<>>
  /\ mutex' = None
  /\ UNCHANGED <<tasks, stop, item, joined, dtor, spurious, fresh, done, late>>

WorkerExit(w) ==
  /\ At(w, "check", "done")
  /\ stop /\ tasks = <<>>
  /\ mutex' = None
  /\ UNCHANGED <<tasks, stop, item, joined, dtor, spurious, fresh, done, late>>

\* Mutant: tasks.front() without tasks.pop().
WorkerPeek(w) ==
  /\ At(w, "check", "run")
  /\ tasks # <<>>
  /\ item' = [item EXCEPT ![w] = Head(tasks)]
  /\ mutex' = None
  /\ UNCHANGED <<tasks, stop, joined, dtor, spurious, fresh, done, late>>

\* Mutant: the newest task is taken first.
WorkerTakeLast(w) ==
  /\ At(w, "check", "run")
  /\ tasks # <<>>
  /\ item' = [item EXCEPT ![w] = tasks[Len(tasks)]]
  /\ tasks' = SubSeq(tasks, 1, Len(tasks) - 1)
  /\ mutex' = None
  /\ UNCHANGED <<stop, joined, dtor, spurious, fresh, done, late>>

WorkerTake(w) ==
  /\ At(w, "check", "run")
  /\ tasks # <<>>
  /\ item' = [item EXCEPT ![w] = Head(tasks)]
  /\ tasks' = Tail(tasks)
  /\ mutex' = None
  /\ UNCHANGED <<stop, joined, dtor, spurious, fresh, done, late>>

\* workerFunction(client_fd), outside the lock.
WorkerRun(w) ==
  /\ At(w, "run", "want")
  /\ done' = done \cup {item[w]}
  /\ item' = [item EXCEPT ![w] = None]
  /\ UNCHANGED <<mutex, tasks, stop, joined, dtor, spurious, fresh, late>>

SpuriousWake(w) ==
  /\ spurious < MaxSpurious
  /\ At(w, "asleep", "want")
  /\ spurious' = spurious + 1
  /\ UNCHANGED <<mutex, tasks, stop, item, joined, dtor, fresh, done, late>>
-------------------------------------------------------------------------------
Enqueue(c) == EnqueueLock(c) \/ EnqueuePush(c) \/ NotifyOne(c)
Shutdown ==
  \/ ShutdownLock \/ ShutdownStop \/ ShutdownNotifyAll \/ JoinWorker \/ ShutdownReturn
WorkerLoop(w) ==
  WorkerLock(w) \/ WorkerDoze(w) \/ WorkerSleep(w) \/ WorkerExit(w) \/ WorkerTake(w)

\* The pool is destroyed: nothing is left to happen.
Gone == pc[Owner] = "gone" /\ UNCHANGED vars

Next ==
  \/ \E w \in Workers : Spawn(w) \/ WorkerLoop(w) \/ WorkerRun(w) \/ SpuriousWake(w)
  \/ \E c \in Callers : Enqueue(c) \/ \E t \in Tasks : EnqueueCall(c, t)
  \/ \E destroy \in BOOLEAN : ShutdownCall(destroy)
  \/ Shutdown
  \/ Gone

SafeSpec == Init /\ [][Next]_vars

\* Threads keep running, and workerFunction returns.  Nobody is obliged to call
\* enqueue or shutdown, and no spurious wake-up has to happen.
Fairness ==
  /\ \A w \in Workers : WF_vars(Spawn(w)) /\ WF_vars(WorkerLoop(w)) /\ WF_vars(WorkerRun(w))
  /\ \A c \in Callers : WF_vars(Enqueue(c))
  /\ WF_vars(Shutdown)

Spec == SafeSpec /\ Fairness
-------------------------------------------------------------------------------
(* Properties *)

\* The variables keep their types, and a thread holds a task exactly while it
\* is between taking it over and handing it on.
TypeOK ==
  /\ mutex \in Threads \cup {None}
  /\ tasks \in Seq(Tasks)
  /\ stop \in BOOLEAN /\ dtor \in BOOLEAN
  /\ pc \in [Threads -> WorkerStates \cup CallerStates]
  /\ \A w \in Workers : pc[w] \in WorkerStates
  /\ \A c \in Callers : pc[c] \in CallerStates \ IF c = Owner THEN {} ELSE Shutting \cup {"construct"}
  /\ item \in [Threads -> Tasks \cup {None}]
  /\ \A t \in Threads : item[t] # None <=> pc[t] \in {"wantPush", "push", "run"}
  /\ joined \in 0..NumThreads
  /\ spurious \in 0..MaxSpurious
  /\ fresh \subseteq Tasks /\ done \subseteq Tasks /\ late \subseteq Tasks

\* Every task is in one place: not enqueued, in the hands of one thread, once in
\* the queue, or finished.  None is lost and none is served twice, however the
\* pushes, the pops and the wake-ups interleave.
ExactlyOnce ==
  LET Held == {item[t] : t \in Threads} \ {None}
      Queued == {tasks[i] : i \in DOMAIN tasks}
  IN /\ fresh \cup Held \cup Queued \cup done = Tasks
     /\ fresh \cap (Held \cup Queued \cup done) = {}
     /\ Held \cap (Queued \cup done) = {}
     /\ Queued \cap done = {}
     /\ \A t, u \in Threads : item[t] = item[u] /\ item[t] # None => t = u
     /\ \A i, j \in DOMAIN tasks : tasks[i] = tasks[j] => i = j

\* No wake-up is lost: while a worker sleeps, every queued task is covered by a
\* worker on its way to the queue or by a notify_one that has not happened yet,
\* although enqueue notifies after it has released the mutex.
NoLostWakeup ==
  Asleep # {} => Len(tasks) <= Cardinality(Awake) + Cardinality(Notifying)

\* Once stop is set no worker sleeps, or the notify_all is still to come: the
\* join in shutdown can not wait for a worker nobody will wake.
NoSleepPastStop == stop /\ Asleep # {} => pc[Owner] = "notifyAll"

\* When a shutdown has returned, no worker is left to touch the pool (it can be
\* destroyed), and every task pushed before stop was set has been run; only one
\* pushed behind the shutdown's back can stay in the queue.
DrainedAtReturn ==
  (stop /\ pc[Owner] \in {"idle", "gone"}) =>
     /\ \A w \in Workers : pc[w] = "done"
     /\ \A i \in DOMAIN tasks : tasks[i] \in late

\* A task that was pushed before stop is run in the end.
EventuallyRun ==
  \A t \in Tasks : (t \notin fresh /\ ~stop) ~> (t \in done \/ t \in late)

\* shutdown() returns: the join does not wait for ever.
ShutdownReturns == stop ~> joined = NumThreads

\* The pool implements the specification its users rely on.
Pool == INSTANCE TaskPool WITH
  queue   <- tasks,
  running <- [w \in Workers |-> IF pc[w] = "run" THEN item[w] ELSE None],
  alive   <- {w \in Workers : pc[w] \notin {"unborn", "done"}},
  stopped <- stop,
  closed  <- joined = NumThreads
ImplementsTaskPool == Pool!Spec
===============================================================================
