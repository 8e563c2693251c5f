----------------------------- MODULE SensorManager -----------------------------
(***************************************************************************)
(* src/BME280SensorManager.cpp: a thread that samples the sensor once per  *)
(* interval into a cache, and the readers that take copies of the cache    *)
(* under m_cacheMutex.                                                     *)
(*                                                                         *)
(* A sample is the number of the conversion it comes from.  A BME280Data   *)
(* is larger than a machine word, so copying one takes two steps, low half *)
(* and high half.  m_cache.readAt is written with the data and never read: *)
(* it is left out.  The sensor is external here: a read gives the latest   *)
(* conversion or fails, as the link allows.                                *)
(***************************************************************************)
EXTENDS Integers

CONSTANTS
  Main,        \* the thread that constructs, initialises and destroys the manager
  Worker,      \* m_thread, which runs acquisitionWorker()
  Readers,     \* the threads that call read()
  None,        \* no mutex holder
  Invalid, Pending,   \* see SampleCache
  UpdateInterval, MIN_UPDATE_INTERVAL, MAX_UPDATE_INTERVAL,
  MaxSample    \* bound: conversions in one behaviour

Writers == {Main, Worker}
Threads == Writers \cup Readers
Samples == 0..MaxSample

ASSUME ManagerAssumption ==
  /\ Main # Worker
  /\ Writers \cap Readers = {}
  /\ None \notin Threads
  /\ Invalid \notin Nat /\ Pending \notin Nat /\ Invalid # Pending
  /\ UpdateInterval \in Int /\ MIN_UPDATE_INTERVAL \in Int /\ MAX_UPDATE_INTERVAL \in Int
  /\ MaxSample \in Nat

VARIABLES
  mutex,        \* the holder of m_cacheMutex, or None
  cache,        \* m_cache: the two halves of data, and validSample
  initialized,  \* m_initialized
  stopRequest,  \* the stop state of m_thread
  pc,           \* where each thread is
  data,         \* what a writer's local BME280Data holds
  out,          \* the two halves and the return value of each reader's read()
  conv,         \* external: the sensor's latest conversion
  link          \* external: whether the sensor answers

vars == <<mutex, cache, initialized, stopRequest, pc, data, out, conv, link>>

MainStates == {"idle", "probe", "want", "write", "finish", "spawn", "stopping", "gone"}
WorkerStates == {"unborn", "loop", "doze", "asleep", "awake", "want", "write", "finish", "drop", "done"}
ReaderStates == {"idle", "want", "look", "copy"}
Critical == {"write", "finish", "look", "copy"}   \* the states that hold m_cacheMutex

At(t, from, to) == pc[t] = from /\ pc' = [pc EXCEPT ![t] = to]

\* What a call on the sensor may return: TRUE for 0, FALSE for an error.
Outcomes ==
  CASE link = "up" -> {TRUE} [] link = "down" -> {FALSE} [] link = "flaky" -> BOOLEAN

\* Mutant: the cache is touched whoever holds m_cacheMutex.
LockAnyway(t, from, to) ==
  /\ At(t, from, to)
  /\ mutex' = t
  /\ UNCHANGED <<cache, initialized, stopRequest, data, out, conv, link>>

Lock(t, from, to) ==
  /\ At(t, from, to)
  /\ mutex = None
  /\ mutex' = t
  /\ UNCHANGED <<cache, initialized, stopRequest, data, out, conv, link>>
-------------------------------------------------------------------------------
Init ==
  /\ mutex = None
  /\ cache = [lo |-> 0, hi |-> 0, valid |-> FALSE]
  /\ initialized = FALSE
  /\ stopRequest = FALSE
  /\ pc = [t \in Threads |-> IF t = Worker THEN "unborn" ELSE "idle"]
  /\ data = [t \in Writers |-> 0]
  /\ out = [r \in Readers |-> [lo |-> 0, hi |-> 0, ok |-> FALSE]]
  /\ conv = 0
  /\ link \in {"up", "flaky", "down"}
-------------------------------------------------------------------------------
(* m_cache.data = ...; validSample = true, under m_cacheMutex *)

WriteLow(t) ==
  /\ At(t, "write", "finish")
  /\ cache' = [cache EXCEPT !.lo = data[t]]
  /\ UNCHANGED <<mutex, initialized, stopRequest, data, out, conv, link>>

\* Mutant: validSample is left as it was.
WriteHighOnly(t, next) ==
  /\ At(t, "finish", next)
  /\ cache' = [cache EXCEPT !.hi = data[t]]
  /\ mutex' = None
  /\ UNCHANGED <<initialized, stopRequest, data, out, conv, link>>

WriteHigh(t, next) ==
  /\ At(t, "finish", next)
  /\ cache' = [cache EXCEPT !.hi = data[t], !.valid = TRUE]
  /\ mutex' = None
  /\ UNCHANGED <<initialized, stopRequest, data, out, conv, link>>
-------------------------------------------------------------------------------
(* init(): a refusal, because the manager is initialised or the interval is *)
(* out of range, changes nothing.                                           *)

InitSensor ==
  /\ ~initialized
  /\ UpdateInterval \in MIN_UPDATE_INTERVAL..MAX_UPDATE_INTERVAL
  /\ \E ok \in Outcomes : At(Main, "idle", IF ok THEN "probe" ELSE "idle")
  /\ UNCHANGED <<mutex, cache, initialized, stopRequest, data, out, conv, link>>

InitProbe ==
  /\ \E ok \in Outcomes :
       /\ At(Main, "probe", IF ok THEN "want" ELSE "idle")
       /\ data' = IF ok THEN [data EXCEPT ![Main] = conv] ELSE data
  /\ UNCHANGED <<mutex, cache, initialized, stopRequest, out, conv, link>>

InitFill == Lock(Main, "want", "write") \/ WriteLow(Main) \/ WriteHigh(Main, "spawn")

\* Mutant: m_initialized is never set.
SpawnForgotten ==
  /\ pc[Main] = "spawn"
  /\ pc' = [pc EXCEPT ![Main] = "idle", ![Worker] = "loop"]
  /\ UNCHANGED <<mutex, cache, initialized, stopRequest, data, out, conv, link>>

SpawnWorker ==
  /\ pc[Main] = "spawn"
  /\ pc' = [pc EXCEPT ![Main] = "idle", ![Worker] = "loop"]
  /\ initialized' = TRUE
  /\ UNCHANGED <<mutex, cache, stopRequest, data, out, conv, link>>

InitStep == InitProbe \/ InitFill \/ SpawnWorker
-------------------------------------------------------------------------------
(* ~BME280SensorManager(): m_thread is the last member and goes first; its  *)
(* destructor requests a stop and joins.  The users have left by then.      *)

Destroy ==
  /\ \A r \in Readers : pc[r] = "idle"
  /\ At(Main, "idle", "stopping")
  /\ stopRequest' = initialized
  /\ UNCHANGED <<mutex, cache, initialized, data, out, conv, link>>

\* Mutant: the members go before the thread has been joined.
DestroyEarly ==
  /\ At(Main, "stopping", "gone")
  /\ UNCHANGED <<mutex, cache, initialized, stopRequest, data, out, conv, link>>

DestroyMembers ==
  /\ pc[Worker] \in {"unborn", "done"}
  /\ At(Main, "stopping", "gone")
  /\ UNCHANGED <<mutex, cache, initialized, stopRequest, data, out, conv, link>>
-------------------------------------------------------------------------------
(* acquisitionWorker() *)

\* The loop condition.
WorkerTest ==
  /\ At(Worker, "loop", IF stopRequest THEN "done" ELSE "doze")
  /\ UNCHANGED <<mutex, cache, initialized, stopRequest, data, out, conv, link>>

\* The mutex is taken, and wait_for gives it back at once.  It is given the stop
\* token: a stop requested since the test keeps it from sleeping.
WorkerSleep ==
  /\ mutex = None
  /\ At(Worker, "doze", IF stopRequest THEN "awake" ELSE "asleep")
  /\ UNCHANGED <<mutex, cache, initialized, stopRequest, data, out, conv, link>>

\* wait_for ends when the interval is over ...
WorkerTimeout ==
  /\ mutex = None
  /\ At(Worker, "asleep", "awake")
  /\ UNCHANGED <<mutex, cache, initialized, stopRequest, data, out, conv, link>>

\* Mutant: a wait_for that is not given the stop token.
WorkerUninterrupted == FALSE

\* ... or, without waiting for it, on the stop request.
WorkerInterrupt == stopRequest /\ WorkerTimeout

\* The stop is looked at once more; m_sensor.read() runs without m_cacheMutex.
WorkerSample ==
  /\ \/ /\ stopRequest
        /\ At(Worker, "awake", "done")
        /\ data' = data
     \/ /\ ~stopRequest
        /\ \E ok \in Outcomes :
             /\ At(Worker, "awake", IF ok THEN "want" ELSE "drop")
             /\ data' = IF ok THEN [data EXCEPT ![Worker] = conv] ELSE data
  /\ UNCHANGED <<mutex, cache, initialized, stopRequest, out, conv, link>>

WorkerPublish ==
  Lock(Worker, "want", "write") \/ WriteLow(Worker) \/ WriteHigh(Worker, "loop")

\* Mutant: after a failed read the old sample stays valid.
WorkerDropIgnored ==
  /\ mutex = None
  /\ At(Worker, "drop", "loop")
  /\ UNCHANGED <<mutex, cache, initialized, stopRequest, data, out, conv, link>>

WorkerDrop ==
  /\ mutex = None
  /\ At(Worker, "drop", "loop")
  /\ cache' = [cache EXCEPT !.valid = FALSE]
  /\ UNCHANGED <<mutex, initialized, stopRequest, data, out, conv, link>>
-------------------------------------------------------------------------------
(* read() *)

ReadCall(r) ==
  /\ pc[Main] \notin {"stopping", "gone"}
  /\ At(r, "idle", "want")
  /\ UNCHANGED <<mutex, cache, initialized, stopRequest, data, out, conv, link>>

ReadLock(r) == Lock(r, "want", "look")

ReadRefused(r) ==
  /\ ~cache.valid
  /\ At(r, "look", "idle")
  /\ out' = [out EXCEPT ![r].ok = FALSE]
  /\ mutex' = None
  /\ UNCHANGED <<cache, initialized, stopRequest, data, conv, link>>

\* Mutant: validSample is not looked at.
ReadLowUnchecked(r) ==
  /\ At(r, "look", "copy")
  /\ out' = [out EXCEPT ![r].lo = cache.lo]
  /\ UNCHANGED <<mutex, cache, initialized, stopRequest, data, conv, link>>

ReadLow(r) ==
  /\ cache.valid
  /\ At(r, "look", "copy")
  /\ out' = [out EXCEPT ![r].lo = cache.lo]
  /\ UNCHANGED <<mutex, cache, initialized, stopRequest, data, conv, link>>

ReadHigh(r) ==
  /\ At(r, "copy", "idle")
  /\ out' = [out EXCEPT ![r].hi = cache.hi, ![r].ok = TRUE]
  /\ mutex' = None
  /\ UNCHANGED <<cache, initialized, stopRequest, data, conv, link>>

ReadStep(r) == ReadRefused(r) \/ ReadLow(r) \/ ReadHigh(r)
-------------------------------------------------------------------------------
(* The sensor *)

Convert ==
  /\ conv < MaxSample
  /\ conv' = conv + 1
  /\ UNCHANGED <<mutex, cache, initialized, stopRequest, pc, data, out, link>>

LinkChange ==
  /\ link' \in {"up", "flaky", "down"} \ {link}
  /\ UNCHANGED <<mutex, cache, initialized, stopRequest, pc, data, out, conv>>
-------------------------------------------------------------------------------
WorkerStep ==
  WorkerTest \/ WorkerSleep \/ WorkerInterrupt \/ WorkerSample \/ WorkerPublish \/ WorkerDrop

Gone == pc[Main] = "gone" /\ UNCHANGED vars

Next ==
  \/ InitSensor \/ InitStep \/ Destroy \/ DestroyMembers \/ Gone
  \/ WorkerStep \/ WorkerTimeout
  \/ \E r \in Readers : ReadCall(r) \/ ReadLock(r) \/ ReadStep(r)
  \/ Convert \/ LinkChange

SafeSpec == Init /\ [][Next]_vars

\* Threads keep running, and a thread that finds the mutex free again and again
\* gets it.  Nobody has to call init(), read() or the destructor.
Fairness ==
  /\ SF_vars(InitStep) /\ WF_vars(DestroyMembers)
  /\ SF_vars(WorkerStep)
  /\ \A r \in Readers : SF_vars(ReadLock(r)) /\ WF_vars(ReadStep(r))

\* The update interval may be as long as it likes to be.
Spec == SafeSpec /\ Fairness
-------------------------------------------------------------------------------
(* Properties *)

\* The variables keep their types, and the manager counts as initialised
\* exactly when the worker has been started: init() can not start a second one.
TypeOK ==
  /\ mutex \in Threads \cup {None}
  /\ cache \in [lo : Samples, hi : Samples, valid : BOOLEAN]
  /\ initialized \in BOOLEAN /\ stopRequest \in BOOLEAN
  /\ pc \in [Threads -> MainStates \cup WorkerStates \cup ReaderStates]
  /\ pc[Main] \in MainStates /\ pc[Worker] \in WorkerStates
  /\ \A r \in Readers : pc[r] \in ReaderStates
  /\ initialized <=> pc[Worker] # "unborn"
  /\ initialized => pc[Main] \in {"idle", "stopping", "gone"}
  /\ data \in [Writers -> Samples]
  /\ out \in [Readers -> [lo : Samples, hi : Samples, ok : BOOLEAN]]
  /\ conv \in Samples
  /\ link \in {"up", "flaky", "down"}

\* No reader is given half of one sample and half of another, whatever the
\* worker was publishing meanwhile.
Untorn == \A r \in Readers : pc[r] = "idle" /\ out[r].ok => out[r].lo = out[r].hi

\* When the members of the manager are destroyed nobody uses them any more:
\* the worker has returned or was never started, and the mutex is free.
NoUseAfterDestroy ==
  pc[Main] = "gone" =>
    /\ pc[Worker] \in {"unborn", "done"}
    /\ \A r \in Readers : pc[r] = "idle"
    /\ mutex = None

\* The destructor returns, even if the update interval never comes to an end:
\* the stop request reaches a sleeping worker.
StopReturns == pc[Main] = "stopping" ~> pc[Main] = "gone"

\* Each update interval comes to an end.
IntervalsEnd == SF_vars(WorkerTimeout)

\* A sensor that stops answering is noticed: in the end every read() fails,
\* rather than repeat the last good sample.
DeadSensorNoticed ==
  IntervalsEnd => (<>[](link = "down" /\ ~stopRequest) => <>[]~cache.valid)

\* A running manager recovers: when the sensor answers again, reads succeed.
RecoverySeen ==
  IntervalsEnd => (<>[](link = "up" /\ initialized /\ ~stopRequest) => <>[]cache.valid)

\* The cache is the register its readers rely on.  A sample is in the register
\* from the moment its writer has the mutex, and a read() takes effect when the
\* reader has it.
Publishing(t) == pc[t] \in {"write", "finish"}
Cell ==
  IF \E t \in Writers : Publishing(t) THEN data[CHOOSE t \in Writers : Publishing(t)]
  ELSE IF cache.valid THEN cache.lo ELSE Invalid
Latest ==
  IF \E t \in Writers : Publishing(t) THEN data[CHOOSE t \in Writers : Publishing(t)]
  ELSE cache.lo
AnswerOf(r) ==
  CASE pc[r] = "want" -> Pending
    [] pc[r] \in {"look", "copy"} -> IF cache.valid THEN cache.lo ELSE Invalid
    [] pc[r] = "idle" -> IF out[r].ok THEN out[r].lo ELSE Invalid
Cache == INSTANCE SampleCache WITH
  cell <- Cell, latest <- Latest, answer <- [r \in Readers |-> AnswerOf(r)]
ImplementsSampleCache == Cache!Spec
===============================================================================
