SPECIFICATION FairSpec
CONSTANTS
  Requests = {r1, r2}
  n1 = n1
  n2 = n2
  Names = {n1, n2}
  Rows <- BothProtocols
  Factory = Factory
  None = None
INVARIANTS
  LoneSuccessIsApplied
  DriftHasACause
  TmpIsNotLive
PROPERTIES
  RequestsFinish
  SourceOfTruth
