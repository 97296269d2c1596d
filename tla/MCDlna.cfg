SPECIFICATION Spec
CONSTANTS
  Requests = {r1, r2, r3}
  Dirs = {d1, d2}
  None = None
SYMMETRY Symmetry
INVARIANTS
  DriftHasACause
PROPERTY LoneChangeIsServed
CHECK_DEADLOCK FALSE
