\* Two readers against the worker; the shortest interval that is accepted.
CONSTANTS
  Main = main
  Worker = worker
  Readers = {r1, r2}
  None = None
  Invalid = Invalid
  Pending = Pending
  UpdateInterval = 100
  MIN_UPDATE_INTERVAL = 100
  MAX_UPDATE_INTERVAL = 60000
  MaxSample = 2
SPECIFICATION Spec
INVARIANTS
  TypeOK
  Untorn
  NoUseAfterDestroy
PROPERTIES
  StopReturns
  DeadSensorNoticed
  RecoverySeen
  ImplementsSampleCache
