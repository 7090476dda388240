SPECIFICATION Spec
CONSTANTS
  p1 = p1
  p2 = p2
  d1 = d1
  Procs = {p1, p2}
  Drivers = {d1}
  Start <- MCStart
  Total <- MCTotal
  Linked <- MCLinked
  Requests = {1}
VIEW View
SYMMETRY Symmetry
INVARIANTS
  OwnedOnce
  FreeFindsBank
