\* Two users of the class share the pool; one of them destroys it.
CONSTANTS
  NumThreads = 3
  Callers = {main, helper}
  Owner = main
  Tasks = {t1, t2, t3}
  None = None
  MaxSpurious = 1
SPECIFICATION Spec
INVARIANTS
  TypeOK
  ExactlyOnce
  NoLostWakeup
  NoSleepPastStop
  DrainedAtReturn
PROPERTIES
  EventuallyRun
  ShutdownReturns
  ImplementsTaskPool
