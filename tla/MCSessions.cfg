SPECIFICATION FairSpec
CONSTANTS
  Tabs = {t1, t2}
  OpenTabs = {t1}
  Users = {u1, u2}
  MaxLogins = 2
  MaxInFlight = 2
  Lossy = TRUE
  None = None
INVARIANTS
  SessionsTypeOK
  ChangesAreByTheShownUser
PROPERTY DeadSessionIsNoticed
