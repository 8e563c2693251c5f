SPECIFICATION Spec
CONSTANTS
  Clients <- MCClients
  MaxAddresses = 2
  None = None
INVARIANT ShowsEveryFailure
