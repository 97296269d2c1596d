SPECIFICATION FilesSpec
CONSTANTS
  a = a
  b = b
  v1 = v1
  Menu <- SmallMenu
  Tour <- IntoA
  Requests = {r1, r2}
  Views = {v1}
  Names = {a, b}
  Given = {a}
  Sizes <- OneThenTwo
  Slots = {s1, s2}
  None = None
SYMMETRY Symmetry
CHECK_DEADLOCK FALSE
INVARIANTS
  FilesTypeOK
  LoneUploadsAreWhole
  CalmViewIsUpToDate
  ProgressEnds
