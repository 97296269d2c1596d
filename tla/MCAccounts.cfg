SPECIFICATION Spec
CONSTANTS
  Requests = {r1, r2, r3}
  Users = {u1}
  Passwords = {p1, p2}
  None = None
SYMMETRY Symmetry
CHECK_DEADLOCK FALSE
INVARIANTS
  PasswordsAgree
  NoOrphans
