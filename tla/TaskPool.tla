------------------------------- MODULE TaskPool -------------------------------
(***************************************************************************)
(* What inc/ThreadPool.hpp promises its user, without the mutex, the       *)
(* condition variable and the notifications that keep the promise: tasks   *)
(* are started in the order they were submitted, each by one worker, a     *)
(* free worker never leaves a submitted task waiting for ever, and a       *)
(* worker leaves only after a stop, once it has found the queue empty.     *)
(***************************************************************************)
EXTENDS Naturals, Sequences

CONSTANTS
  Workers,   \* the worker threads
  Tasks,     \* the values that can be submitted (TaskType)
  None       \* "no task"

VARIABLES
  queue,     \* submitted and not yet started, oldest first
  running,   \* the task each worker is executing, or None
  alive,     \* the workers that have been started and have not returned
  stopped,   \* a shutdown has been requested
  closed     \* the shutdown has returned

vars == <<queue, running, alive, stopped, closed>>

Init ==
  /\ queue = <<>>
  /\ running = [w \in Workers |-> None]
  /\ alive = {}
  /\ stopped = FALSE
  /\ closed = FALSE

Spawn(w) ==
  /\ w \notin alive
  /\ ~stopped
  /\ alive' = alive \cup {w}
  /\ UNCHANGED <<queue, running, stopped, closed>>

Submit(t) ==
  /\ queue' = Append(queue, t)
  /\ UNCHANGED <<running, alive, stopped, closed>>

Start(w) ==
  /\ w \in alive
  /\ running[w] = None
  /\ queue # <<>>
  /\ running' = [running EXCEPT ![w] = Head(queue)]
  /\ queue' = Tail(queue)
  /\ UNCHANGED <<alive, stopped, closed>>

Finish(w) ==
  /\ running[w] # None
  /\ running' = [running EXCEPT ![w] = None]
  /\ UNCHANGED <<queue, alive, stopped, closed>>

Stop ==
  /\ ~stopped
  /\ stopped' = TRUE
  /\ UNCHANGED <<queue, running, alive, closed>>

\* A worker leaves only when nothing submitted is left for it to do.
Exit(w) ==
  /\ stopped
  /\ w \in alive
  /\ running[w] = None
  /\ queue = <<>>
  /\ alive' = alive \ {w}
  /\ UNCHANGED <<queue, running, stopped, closed>>

Close ==
  /\ stopped
  /\ alive = {}
  /\ ~closed
  /\ closed' = TRUE
  /\ UNCHANGED <<queue, running, alive, stopped>>

Next ==
  \/ \E w \in Workers : Spawn(w) \/ Start(w) \/ Finish(w) \/ Exit(w)
  \/ \E t \in Tasks : Submit(t)
  \/ Stop
  \/ Close

SafeSpec == Init /\ [][Next]_vars

\* A task that waits while a worker is free is started, by one of them; every
\* execution ends; a stopped pool closes.
Fairness ==
  /\ WF_vars(\E w \in Workers : Start(w))
  /\ \A w \in Workers : WF_vars(Finish(w))
  /\ \A w \in Workers : WF_vars(Exit(w))
  /\ WF_vars(Close)

Spec == SafeSpec /\ Fairness
===============================================================================
