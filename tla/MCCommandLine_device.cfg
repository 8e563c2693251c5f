SPECIFICATION Spec
CONSTANTS
  Words <- MCWords
  MaxArgs = 1
  None = None
  NoNumber = NoNumber
INVARIANT UsageDevice
