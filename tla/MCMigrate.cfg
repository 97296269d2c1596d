SPECIFICATION FairSpec
CONSTANTS
  Daemon = nasd
  Tools = {nasctl1, nasctl2}
  N = 3
  Alters = {3}
  MaxFaults = 2
  Nobody = Nobody
INVARIANTS
  OnceInOrder
  ReadyHasSchema
PROPERTY DaemonServes
