\* Two requests that differ, and a cache that is refreshed twice.
CONSTANTS
  Clients = {c1, c2}
  Workers = {w1, w2}
  Fds = {4, 5}
  Backlog = 1
  Requests = {temp, press}
  Malformed = Malformed
  None = None
  Invalid = Invalid
  Pending = Pending
  MaxSample = 2
SPECIFICATION SafeSpec
SYMMETRY Symmetry
CHECK_DEADLOCK FALSE
INVARIANTS
  FdOwned
  RightReply
  NoGroundlessRefusal
