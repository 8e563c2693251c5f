SPECIFICATION Spec
CONSTANTS
  Words <- MCWords
  MaxArgs = 4
  None = None
  NoNumber = NoNumber
INVARIANTS
  InRange
  FirstDecides
  SettingsAsWritten
