SPECIFICATION Spec
CONSTANTS
  md1 = md1
  md10 = md10
  Requests = {r1, r2, r3}
  Disks = {k1, k2, k3}
  Devices = {md1, md10}
  ForeignNames = {md127}
  Shadows <- OneShadowsTen
  None = None
SYMMETRY Symmetry
CHECK_DEADLOCK FALSE
INVARIANTS
  MembersAreMarked
  ArraysAreDisjoint
  DeletedStaysDeleted
  NamesArePersistent
