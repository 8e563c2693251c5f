\* One descriptor for two clients.
CONSTANTS
  Clients = {c1, c2}
  Workers = {w1, w2}
  Fds = {4}
  Backlog = 2
  Requests = {temp}
  Malformed = Malformed
  None = None
  Invalid = Invalid
  Pending = Pending
  MaxSample = 1
SPECIFICATION Spec
CHECK_DEADLOCK FALSE
INVARIANTS
  TypeOK
PROPERTIES
  Served
