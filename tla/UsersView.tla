----------------------------- MODULE UsersView ------------------------------
(***************************************************************************)
(* The page of the users (app.js UsersView and its modals): the accounts   *)
(* that it shows, the changes that it makes to its own copy only, and the  *)
(* rule that the only administrator cannot be deleted, which lives in the  *)
(* page and nowhere else.  A role is Admin or not.  The groups are         *)
(* constants of the page, and their modals close without doing anything.   *)
(***************************************************************************)
EXTENDS App

CONSTANTS
  Accounts,
  Root   \* the account named admin

\* The server's table app_users: per account (its id), the role, or "no" before
\* it exists and "gone" after.
VARIABLE accounts

Roles == {"Admin", "User"}
States == Roles \cup {"no", "gone"}
Admins(table) == {u \in Accounts : table[u] = "Admin"}
Nobody == [u \in Accounts |-> "no"]

\* locked: shown as locked; edited: history, a role was changed in the copy
\* since the list came.
UsersFresh == [modal |-> [type |-> "none"], locked |-> {}, edited |-> FALSE]

Here == route = "users"
Shown == Rows(lists["users"], Nobody)
ShownUsers == {u \in Accounts : Shown[u] \in Roles}
AdminCount == Cardinality(Admins(Shown))
ReadAt == IF lists["users"].shown = None THEN None ELSE lists["users"].shown.rev

-----------------------------------------------------------------------------
(* The list                                                                *)

Rest(v) == UNCHANGED <<route, visits, changes, rev, told, sent, accounts>> /\ v

ServeUsers == Here /\ ServeList("users", accounts, TRUE) /\ Rest(UNCHANGED view)

\* setUsers replaces the copy and what was changed in it.
ShowUsers ==
  /\ Here /\ ShowAnswer("users")
  /\ view' = [view EXCEPT !.locked = {}, !.edited = FALSE]
  /\ Rest(TRUE)

\* .catch(() => {})
FailUsers == Here /\ FailList("users", lists["users"].shown) /\ Rest(UNCHANGED view)

-----------------------------------------------------------------------------
(* Modals, and what is changed in the copy only                            *)

Open(m) == view' = [view EXCEPT !.modal = m]
Alone(v) == UNCHANGED <<route, visits, changes, rev, told, sent, accounts>> /\ v

OpenUser ==
  /\ Here /\ view.modal.type = "none"
  /\ \/ Open([type |-> "add"])
     \/ \E u \in ShownUsers, t \in {"edit", "delete"} :
              Open([type |-> t, user |-> u, role |-> Shown[u], edited |-> view.edited])
  /\ Alone(UNCHANGED lists)

CloseUser ==
  /\ Here /\ view.modal.type # "none"
  /\ Open([type |-> "none"])
  /\ Alone(UNCHANGED lists)

\* The row of admin has no such button.
ToggleLock ==
  /\ Here /\ view.modal.type = "none"
  /\ \E u \in ShownUsers \ {Root} :
       view' = [view EXCEPT !.locked = IF u \in @ THEN @ \ {u} ELSE @ \cup {u}]
  /\ Alone(UNCHANGED lists)

\* setUsers(prev => ...): the user's role in the copy, and the modal closes.
DoEdit(u, role) ==
  /\ lists' = IF lists["users"].shown = None \/ u \notin ShownUsers THEN lists
              ELSE [lists EXCEPT !["users"].shown.rows[u] = role]
  /\ view' = [view EXCEPT !.modal = [type |-> "none"],
                          !.edited = @ \/ (u \in ShownUsers /\ role # Shown[u])]

\* editUser without a password: nothing is sent.
EditUser ==
  /\ Here /\ view.modal.type = "edit"
  /\ \E role \in Roles : DoEdit(view.modal.user, role)
  /\ Alone(TRUE)

-----------------------------------------------------------------------------
(* Requests                                                                *)

Quiet == UNCHANGED <<told, lists, view, accounts>>

SubmitUser ==
  LET m == view.modal IN
  /\ Here
  /\ \/ /\ m.type = "add"
        /\ \E u \in {x \in Accounts : Shown[x] = "no"}, role \in Roles :
             Send("addUser", [user |-> u, role |-> role])
     \/ /\ m.type = "edit"
        /\ \E role \in Roles : Send("setPassword", [user |-> m.user, role |-> role])
  /\ Quiet

\* Mutant: the modal does not look at the number of administrators.
ConfirmAnyDelete ==
  /\ Here /\ view.modal.type = "delete"
  /\ view.modal.user \in ShownUsers
  /\ Send("deleteUser", [user |-> view.modal.user, basis |-> ReadAt,
           edited |-> view.edited \/ view.modal.edited])
  /\ Quiet

\* isOnlyAdmin takes the role from the time when the modal was opened, and the
\* number of administrators from the list as it is now; deleteUser looks for
\* the account in that list.
ConfirmDelete ==
  /\ Here /\ view.modal.type = "delete"
  /\ view.modal.user \in ShownUsers
  /\ ~(view.modal.role = "Admin" /\ AdminCount <= 1)
  /\ Send("deleteUser", [user |-> view.modal.user, basis |-> ReadAt,
           edited |-> view.edited \/ view.modal.edited])
  /\ Quiet

-----------------------------------------------------------------------------
(* The server                                                              *)

Without(u) == [accounts EXCEPT ![u] = IF @ \in Roles THEN "gone" ELSE @]
UserKinds == {"addUser", "setPassword", "deleteUser"}

\* A deletion of a user who is gone already answers 200 too.
ServeUserRequest ==
  /\ \/ /\ AtServer("addUser") /\ accounts[sent.what.user] = "no"
        /\ accounts' = [accounts EXCEPT ![sent.what.user] = sent.what.role] /\ Committed("ok")
     \/ AtServer("setPassword") /\ accounts' = accounts /\ Accepted
     \/ AtServer("deleteUser") /\ accounts' = Without(sent.what.user) /\ Committed("ok")
     \/ (\E k \in UserKinds : AtServer(k)) /\ Refused /\ UNCHANGED accounts
  /\ UNCHANGED <<route, visits, changes, told, lists, view>>

OtherAccounts ==
  /\ Other
  /\ \E u \in Accounts :
       \/ accounts[u] = "no" /\ \E role \in Roles : accounts' = [accounts EXCEPT ![u] = role]
       \/ accounts[u] \in Roles /\ accounts' = Without(u)
  /\ UNCHANGED view

-----------------------------------------------------------------------------
(* The answer                                                              *)

\* addUser and deleteUser load; a new password is followed by the edit of the
\* copy, and by no load.
OnUserOk ==
  /\ Here /\ Answered("ok") /\ ForThisView
  /\ IF sent.kind = "setPassword"
     THEN DoEdit(sent.what.user, sent.what.role) /\ UNCHANGED told
     ELSE /\ view' = [view EXCEPT !.modal = [type |-> "none"]]
          /\ told' = rev
          /\ Load
  /\ UNCHANGED <<route, visits, changes, rev, accounts>>

OnUserError ==
  /\ Here /\ Answered("error") /\ ForThisView
  /\ UNCHANGED <<route, visits, changes, rev, told, lists, view, accounts>>

UsersNext ==
  \/ ServeUsers \/ ShowUsers \/ FailUsers
  \/ OpenUser \/ CloseUser \/ ToggleLock \/ EditUser
  \/ SubmitUser \/ ConfirmDelete
  \/ ServeUserRequest \/ OtherAccounts \/ OnUserOk \/ OnUserError

UsersTypeOK ==
  /\ accounts \in [Accounts -> States]
  /\ Here =>
       /\ DOMAIN lists = {"users"}
       /\ Shown \in [Accounts -> States]
       /\ view.locked \subseteq Accounts \ {Root}
=============================================================================
