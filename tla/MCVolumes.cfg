SPECIFICATION Spec
CONSTANTS
  a1 = a1
  a2 = a2
  md0 = md0
  md1 = md1
  md127 = md127
  srvMd0 = srvMd0
  srvMd127 = srvMd127
  data = data
  dataSlash = dataSlash
  spaced = spaced
  escaped = escaped
  word = word
  Requests = {r1, r2, r3}
  Arrays = {a1, a2}
  Own <- OwnNames
  ForeignNames = {md127}
  DefaultMount <- Defaults
  MountPoints = {srvMd0, srvMd127, data, dataSlash, spaced, escaped, word}
  Directories = {srvMd0, srvMd127, data, spaced, word}
  Dir <- Found
  Word <- FirstWord
  Place <- Read
  Shown <- Escaped
  Targets <- Places
  None = None
CONSTRAINT Bounds
SYMMETRY Symmetry
CHECK_DEADLOCK FALSE
INVARIANTS
  TypeOK
  MountsAreListed
  UnmountedStaysUnmounted
