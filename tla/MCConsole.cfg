SPECIFICATION MCSpec
CONSTANTS
  a1 = a1
  d1 = d1
  d2 = d2
  d3 = d3
  p1 = p1
  p2 = p2
  p3 = p3
  s1 = s1
  n1 = n1
  u1 = u1
  everyone = everyone
  c1 = c1
  guest = guest
  None = None
  Arrays = {a1}
  Disks = {d1, d2, d3}
  Partitions = {p1, p2, p3}
  Begins <- Beginnings
  Smb = {s1}
  Nfs = {n1}
  Members = {u1}
  Clients = {everyone, c1}
  All = everyone
  Blank = Blank
  Accounts = {root, guest}
  Root = root
  MaxVisits = 1
  MaxChanges = 2
  MaxLoads = 2
CONSTRAINT Bounds
SYMMETRY Symmetric
INVARIANTS TypeOK ToldIsShown
PROPERTIES DestructionWasShown SaveKeepsTheRest ToggleDoesWhatItSays AdminsRemain
CHECK_DEADLOCK FALSE
