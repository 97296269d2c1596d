SPECIFICATION FairSpec
CONSTANTS
  Requests = {r1}
  VolumeNames = {v1}
  None = None
  Empty = Empty
  Torn = Torn
CHECK_DEADLOCK FALSE
PROPERTY GatedByVolumes
