SPECIFICATION Spec
CONSTANTS
  Clients <- MCClients
  MaxAddresses = 2
  None = None
INVARIANTS
  TypeOK
  OneSocket
  ExitTells
  Verdict
PROPERTY
  Finishes
