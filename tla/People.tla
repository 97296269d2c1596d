------------------------------- MODULE People -------------------------------
(***************************************************************************)
(* The users of the NAS, as Accounts and Sessions both know them: the rows *)
(* of the table app_users, by name.                                        *)
(***************************************************************************)
CONSTANTS
  Users,
  None     \* no user, no password, no token
=============================================================================
