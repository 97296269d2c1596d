------------------------------ MODULE Accounts ------------------------------
(***************************************************************************)
(* Users (api/handlers.go userHandlers, users/users.go): one person has    *)
(* three passwords, in the table app_users (the web interface), in         *)
(* /etc/shadow (chpasswd) and in Samba's tdbsam (smbpasswd).  A handler    *)
(* sets them one after the other, some of them best effort; nothing makes  *)
(* the steps of a request atomic, and requests overlap.  nasctl, which     *)
(* makes the first administrator, writes the table alone.                  *)
(*                                                                         *)
(* useradd, userdel, chpasswd and smbpasswd are external.  The comment and *)
(* the admin flag of a user are left out.                                  *)
(***************************************************************************)
EXTENDS FiniteSets, People

CONSTANTS
  Requests,  \* the requests; each is served once
  Passwords

ASSUME AccountsAssumption == None \notin Passwords /\ "locked" \notin Passwords

VARIABLES
  web,    \* app_users: per user, the password of its hash, or None
  unix,   \* the system's users: per user, its password, "locked" or None
  samba,  \* tdbsam: per user, its password or None
  pc,     \* per request: where it is, or its answer
  job,    \* per request: operation, user and password
  spoilt, \* history: the requests with a failed step, or that were not alone with
          \* their user
  broken  \* history: the users whose stores a spoilt request, nasctl or somebody
          \* before nasd has left as they are, and no other request has mended

vars == <<web, unix, samba, pc, job, spoilt, broken>>

Jobs == [op: {"create", "password", "delete"}, user: Users, password: Passwords]
NoJob == [op |-> "none", user |-> None, password |-> None]
Steps == {"useradd", "chpasswd", "smbpasswd", "insert", "update", "remove", "userdel"}
Answers == {"ok", "error", "killed"}
Active == {r \in Requests : pc[r] \in Steps}

At(r, step) == pc[r] = step
Goto(r, step) == pc' = [pc EXCEPT ![r] = step]
Of(u) == {r \in Active : job[r].user = u}

\* A step of r fails: what it did stays.
Break(r) == broken' = broken \cup {job[r].user} /\ spoilt' = spoilt \cup {r}
\* r is answered; if all its steps worked and it was alone, it has set every store.
Mend(r) ==
  /\ broken' = IF r \in spoilt THEN broken ELSE broken \ {job[r].user}
  /\ UNCHANGED spoilt

-----------------------------------------------------------------------------
FirstStep == [create |-> "useradd", password |-> "chpasswd", delete |-> "remove"]

Begin(r, j) ==
  /\ pc[r] = "new"
  /\ job' = [job EXCEPT ![r] = j]
  /\ IF Of(j.user) = {} THEN UNCHANGED <<spoilt, broken>>
     ELSE spoilt' = spoilt \cup Of(j.user) \cup {r} /\ broken' = broken \cup {j.user}
  /\ Goto(r, FirstStep[j.op])
  /\ UNCHANGED <<web, unix, samba>>

\* Creation: useradd makes a user without a password, or fails (because it exists,
\* say); the handler goes on either way.
Useradd(r) ==
  LET u == job[r].user IN
  /\ At(r, "useradd")
  /\ \/ unix[u] = None /\ unix' = [unix EXCEPT ![u] = "locked"]
     \/ UNCHANGED unix
  /\ Goto(r, "chpasswd")
  /\ UNCHANGED <<web, samba, job, spoilt, broken>>

\* SetPassword: a failure ends a change of password, and it makes a creation
\* skip smbpasswd, which is all the same to the rest of it.
Chpasswd(r) ==
  LET u == job[r].user IN
  /\ At(r, "chpasswd")
  /\ \/ /\ unix[u] # None
        /\ unix' = [unix EXCEPT ![u] = job[r].password]
        /\ Goto(r, "smbpasswd")
        /\ UNCHANGED <<spoilt, broken>>
     \/ /\ job[r].op = "create"
        /\ Goto(r, "insert")
        /\ Break(r)
        /\ UNCHANGED unix
     \/ /\ job[r].op = "password"
        /\ Goto(r, "error")
        /\ UNCHANGED <<unix, spoilt, broken>>
  /\ UNCHANGED <<web, samba, job>>

\* smbpasswd -a needs the system's user; its failure is ignored.
Smbpasswd(r) ==
  LET u == job[r].user IN
  /\ At(r, "smbpasswd")
  /\ \/ /\ unix[u] # None
        /\ samba' = [samba EXCEPT ![u] = job[r].password]
        /\ UNCHANGED <<spoilt, broken>>
     \/ Break(r) /\ UNCHANGED samba
  /\ Goto(r, IF job[r].op = "create" THEN "insert" ELSE "update")
  /\ UNCHANGED <<web, unix, job>>

\* INSERT INTO app_users: username is UNIQUE, so the creation of a user who
\* exists fails here, after it has changed the other two passwords.
Insert(r) ==
  LET u == job[r].user IN
  /\ At(r, "insert")
  /\ \/ /\ web[u] = None
        /\ web' = [web EXCEPT ![u] = job[r].password]
        /\ Goto(r, "ok")
        /\ Mend(r)
     \/ Goto(r, "error") /\ Break(r) /\ UNCHANGED web
  /\ UNCHANGED <<unix, samba, job>>

\* Mutant: a change of password leaves the hash of the web interface.
UpdateHashSkipped(r) ==
  /\ At(r, "update")
  /\ Goto(r, "ok")
  /\ Mend(r)
  /\ UNCHANGED <<web, unix, samba, job>>

\* UPDATE app_users ... WHERE username: no error when there is no row, and then the
\* web account is not mended.
UpdateHash(r) ==
  LET u == job[r].user IN
  /\ At(r, "update")
  /\ \/ /\ web' = [web EXCEPT ![u] = IF @ = None THEN None ELSE job[r].password]
        /\ Goto(r, "ok")
        /\ IF web[u] = None THEN UNCHANGED <<spoilt, broken>> ELSE Mend(r)
     \/ Goto(r, "error") /\ Break(r) /\ UNCHANGED web
  /\ UNCHANGED <<unix, samba, job>>

\* Mutant: delete answers once the row is gone.
RemoveRow(r) ==
  /\ At(r, "remove")
  /\ web' = [web EXCEPT ![job[r].user] = None]
  /\ Goto(r, "ok")
  /\ Mend(r)
  /\ UNCHANGED <<unix, samba, job>>

Remove(r) ==
  /\ At(r, "remove")
  /\ \/ web' = [web EXCEPT ![job[r].user] = None] /\ Goto(r, "userdel")
     \/ Goto(r, "error") /\ UNCHANGED web
  /\ UNCHANGED <<unix, samba, job, spoilt, broken>>

\* userdel, errors ignored; tdbsam keeps its entry.
Userdel(r) ==
  LET u == job[r].user IN
  /\ At(r, "userdel")
  /\ \/ unix' = [unix EXCEPT ![u] = None] /\ Mend(r)
     \/ Break(r) /\ UNCHANGED unix
  /\ Goto(r, "ok")
  /\ UNCHANGED <<web, samba, job>>

\* nasd stops; its commands end with it.
Crash ==
  /\ Active # {}
  /\ pc' = [r \in Requests |-> IF r \in Active THEN "killed" ELSE pc[r]]
  /\ broken' = broken \cup {job[r].user : r \in Active}
  /\ UNCHANGED <<web, unix, samba, job, spoilt>>

\* nasctl create-admin, also to reset a password: INSERT ... ON CONFLICT DO UPDATE.
CreateAdmin(u, p) ==
  /\ web' = [web EXCEPT ![u] = p]
  /\ broken' = broken \cup {u}
  /\ spoilt' = spoilt \cup Of(u)
  /\ UNCHANGED <<unix, samba, pc, job>>

Continue(r) ==
  \/ Useradd(r) \/ Chpasswd(r) \/ Smbpasswd(r) \/ Insert(r) \/ UpdateHash(r)
  \/ Remove(r) \/ Userdel(r)

\* The system may have users of its own, with or without a password ("admin",
\* handlers.go:166).
Init ==
  /\ web = [u \in Users |-> None]
  /\ unix \in [Users -> Passwords \cup {"locked", None}]
  /\ samba = [u \in Users |-> None]
  /\ pc = [r \in Requests |-> "new"]
  /\ job = [r \in Requests |-> NoJob]
  /\ spoilt = {}
  /\ broken = {u \in Users : unix[u] # None}

Next ==
  \/ \E r \in Requests : (\E j \in Jobs : Begin(r, j)) \/ Continue(r)
  \/ \E u \in Users, p \in Passwords : CreateAdmin(u, p)
  \/ Crash

Spec == Init /\ [][Next]_vars

-----------------------------------------------------------------------------
(* Properties                                                              *)

TypeOK ==
  /\ web \in [Users -> Passwords \cup {None}]
  /\ unix \in [Users -> Passwords \cup {"locked", None}]
  /\ samba \in [Users -> Passwords \cup {None}]
  /\ pc \in [Requests -> {"new"} \cup Steps \cup Answers]
  /\ job \in [Requests -> Jobs \cup {NoJob}]
  /\ spoilt \subseteq Requests
  /\ broken \subseteq Users

\* handlers.go:163-167 and users.go:136: a user of the web interface enters the
\* shares with the password of the web interface: the three stores agree about
\* every user for whom no request is being served, as soon as one request for that
\* user was served alone and all its steps worked, whatever was left behind before:
\* by failed steps, by overlaps, by nasd stopping half way, by create-admin or by
\* the system.  Each of these may part the stores again until the next such request.
Served(u) == Of(u) = {}

PasswordsAgree ==
  \A u \in Users \ broken :
    Served(u) /\ web[u] # None => unix[u] = web[u] /\ samba[u] = web[u]

\* userHandlers.delete: on the same condition, a user without a web account has
\* no system account, also when an earlier deletion could not remove it.
NoOrphans ==
  \A u \in Users \ broken : Served(u) /\ web[u] = None => unix[u] = None
=============================================================================
