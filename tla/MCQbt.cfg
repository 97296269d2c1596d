SPECIFICATION Spec
CONSTANTS
  Requests = {r1, r2, r3}
  VolumeNames = {v1, v2}
  None = None
  Empty = Empty
  Torn = Torn
SYMMETRY Symmetry
CHECK_DEADLOCK FALSE
INVARIANTS
  ConfiguredIsInForce
  ConfiguredCanStart
