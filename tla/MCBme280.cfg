\* Three users of one driver; the supply may fail twice.
CONSTANTS
  Users = {u1, u2, u3}
  None = None
  RESET_POLL_ATTEMPTS = 5
  MaxMeasure = 3
  MaxLoss = 2
SPECIFICATION Spec
INVARIANTS
  TypeOK
  ConsistentReading
  NoPhantomReading
  CalibrationSound
PROPERTIES
  FirstReadValid
  CallsReturn
