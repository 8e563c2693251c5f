\* Three instances, two ports.
CONSTANTS
  Procs = {p1, p2, p3}
  Ports = {n1, n2}
  None = None
SPECIFICATION Spec
INVARIANTS
  TypeOK
  SingleInstance
PROPERTY StartDecides
