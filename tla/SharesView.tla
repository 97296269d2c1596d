----------------------------- MODULE SharesView -----------------------------
(***************************************************************************)
(* The page of the shares (app.js SharesView, its modals and its panel).   *)
(* The server keeps a row per share: columns that the generators read, and *)
(* the form that the page sent, as a blob.  The page turns a row into a    *)
(* form (mapShareFromAPI), and every button sends a whole row made from    *)
(* the form that it holds (mapCIFSToAPI, mapNFSToAPI), whatever the user   *)
(* changed.  Rows are written by nobody but forms and older clients, which *)
(* send no blob.  Quota, paths, SMB and squash options are left out; the   *)
(* order of the client rules too.                                          *)
(***************************************************************************)
EXTENDS App

CONSTANTS
  Smb, Nfs,   \* the ids of the shares of either protocol
  Members,    \* who may be named in a Samba share
  Clients,    \* clients of an export; All among them
  All, Blank  \* the client "*", and the one that was never filled in

VARIABLE shares   \* the table: per id, a row, or NoRow; at is the rev of its last change

Ids == Smb \cup Nfs
Perms == {"ro", "rw"}
Rules == [client: Clients \cup {Blank}, perm: Perms]

\* The forms of the two modals.  A user may be listed without access, or with
\* some: the kind of access goes into the blob only.  No default access is "rw"
\* here, which is what the column read_only makes of it.
Access == {"absent", "none", "some"}
SmbForms == [on: BOOLEAN, dflt: Perms, users: [Members -> Access], guest: BOOLEAN]
NfsForms == [on: BOOLEAN, rules: (SUBSET Rules) \ {{}}]
Forms(id) == IF id \in Smb THEN SmbForms ELSE NfsForms
NewForm(id) == IF id \in Smb
  THEN [on |-> TRUE, dflt |-> "rw", users |-> [u \in Members |-> "absent"], guest |-> FALSE]
  ELSE [on |-> TRUE, rules |-> {[client |-> Blank, perm |-> "rw"]}]

NoRow == [on |-> FALSE, ro |-> FALSE, who |-> {}, config |-> None, at |-> 0, is |-> FALSE]
\* The ids are never used again (AUTOINCREMENT).
Unused == {id \in Ids : shares[id] = NoRow}
Row(on, ro, who, config, at) == [on |-> on, ro |-> ro, who |-> who, config |-> config, at |-> at, is |-> TRUE]
Gone == [NoRow EXCEPT !.at = rev + 1]
Present == {id \in Ids : shares[id].is}

Here == route = "shares"

-----------------------------------------------------------------------------
(* Between rows and forms                                                  *)

Perm(ro) == IF ro THEN "ro" ELSE "rw"

\* What a row without a blob is taken for.
FormOf(id, row) ==
  IF id \in Smb
  THEN [on |-> row.on, dflt |-> Perm(row.ro), guest |-> FALSE,
        users |-> [u \in Members |-> IF u \in row.who THEN "some" ELSE "absent"]]
  ELSE [on |-> row.on,
        rules |-> {[client |-> c, perm |-> Perm(row.ro)] : c \in IF row.who = {} THEN {All} ELSE row.who}]

\* Mutant: the blob prevails over the column enabled.
MapShareFromBlob(id, row) == IF row.config # None THEN row.config ELSE FormOf(id, row)

\* The blob is the source of everything but the state.
MapShareFromAPI(id, row) ==
  IF row.config # None THEN [row.config EXCEPT !.on = row.on] ELSE FormOf(id, row)

MapCIFSToAPI(form, on, at) ==
  Row(on, form.dflt = "ro",
      IF form.guest THEN {} ELSE {u \in Members : form.users[u] = "some"}, form, at)

MapNFSToAPI(form, on, at) ==
  Row(on, \A r \in form.rules : r.perm = "ro", {r.client : r \in form.rules} \ {Blank}, form, at)

ToAPI(id, form, on, at) == IF id \in Smb THEN MapCIFSToAPI(form, on, at) ELSE MapNFSToAPI(form, on, at)

\* What a row can be: what a form is written as, or what an older client wrote.
IsRow(id, row) ==
  /\ row \in [on: BOOLEAN, ro: BOOLEAN, who: SUBSET (IF id \in Smb THEN Members ELSE Clients),
              config: Forms(id) \cup {None}, at: Nat, is: BOOLEAN]
  /\ row.config # None => row = ToAPI(id, row.config, row.on, row.at)

\* A rule without a client is for all.
Host(r) == IF r.client = Blank THEN All ELSE r.client

\* What the generators make of a row (ApplySMB, ApplyNFS): read only or not,
\* and for whom; no name means everybody.  An export goes by the rules of its
\* blob.
Exports(row) ==
  IF row.config # None
  THEN {[r EXCEPT !.client = Host(r)] : r \in row.config.rules}
  ELSE {[client |-> c, perm |-> Perm(row.ro)] : c \in IF row.who = {} THEN {All} ELSE row.who}

\* The parts of what a share serves that a user can change on their own.
Parts(id) == {"on"} \cup (IF id \in Smb THEN {"mode", "who"} ELSE Clients)
Part(id, row, part) ==
  CASE part = "on" -> row.on
    [] part = "mode" -> row.ro
    [] part = "who" -> row.who
    [] OTHER -> {r.perm : r \in {x \in Exports(row) : x.client = part}}

-----------------------------------------------------------------------------
(* The list                                                                *)

NoShares == [id \in Ids |-> None]
SharesFresh == [modal |-> [type |-> "none"], panel |-> None, err |-> FALSE, loading |-> TRUE]

\* cifsList and nfsList: a form per share, with the moment it was read.
Shown == Rows(lists["shares"], NoShares)
ShownIds == {id \in Ids : Shown[id] # None}
Copy(id) == [id |-> id, form |-> Shown[id], basis |-> lists["shares"].shown.rev]

\* While a load is under way and no share is in the list, the page shows that
\* it is loading and nothing else, not even its modal.
Usable == Here /\ ~(view.loading /\ ShownIds = {})
Uncovered == Usable /\ view.modal.type = "none" /\ view.panel = None
Calm == Settled(lists["shares"]) /\ sent.at = "idle"

Rest(v) == UNCHANGED <<route, visits, changes, rev, sent, shares>> /\ v

\* listShares answers the table; the answers of the three other GETs matter to
\* the menus of the modals only.
ServeShares ==
  /\ Here
  /\ ServeList("shares", [id \in Ids |-> IF shares[id].is THEN MapShareFromAPI(id, shares[id]) ELSE None],
               TRUE)
  /\ Rest(UNCHANGED <<told, view>>)

ShowShares ==
  /\ Here /\ ShowAnswer("shares")
  /\ view' = [view EXCEPT !.err = FALSE, !.loading = FALSE]
  /\ Rest(UNCHANGED told)

\* Promise.all fails as soon as one of the four does: nothing new is shown.
FailShares ==
  /\ Here /\ FailList("shares", lists["shares"].shown)
  /\ view' = [view EXCEPT !.err = TRUE, !.loading = FALSE]
  /\ Rest(UNCHANGED told)

Retry ==
  /\ Uncovered /\ view.err
  /\ told' = rev
  /\ view' = [view EXCEPT !.loading = TRUE]
  /\ Rest(Load)

-----------------------------------------------------------------------------
(* Modals and the panel work on the copy that they were opened with        *)

Open(m) == view' = [view EXCEPT !.modal = m]
Quiet(v) == UNCHANGED <<told, lists, shares>> /\ v
Alone(v) == UNCHANGED <<route, visits, changes, rev, sent>> /\ Quiet(v)

OpenShare ==
  /\ Uncovered
  /\ \/ \E id \in Unused : Open([type |-> "create", id |-> id])
     \/ \E id \in ShownIds, t \in {"edit", "delete"} : Open([type |-> t, copy |-> Copy(id)])
  /\ Alone(TRUE)

OpenPanel ==
  /\ Uncovered
  /\ \E id \in ShownIds : view' = [view EXCEPT !.panel = [copy |-> Copy(id), calm |-> Calm]]
  /\ Alone(TRUE)

PanelEdit ==
  /\ Usable /\ view.panel # None
  /\ view' = [view EXCEPT !.modal = [type |-> "edit", copy |-> view.panel.copy], !.panel = None]
  /\ Alone(TRUE)

CloseShare ==
  /\ Usable
  /\ \/ view.modal.type # "none" /\ Open([type |-> "none"])
     \/ view.modal.type = "none" /\ view.panel # None /\ view' = [view EXCEPT !.panel = None]
  /\ Alone(TRUE)

-----------------------------------------------------------------------------
(* Requests                                                                *)

\* One change of a form in its modal, and the part of the share that the user
\* means to change by it.
SmbEdits(form) ==
  {[form |-> [form EXCEPT !.dflt = p], part |-> "mode"] : p \in Perms}
  \cup {[form |-> [form EXCEPT !.users[u] = x], part |-> "who"] : u \in Members, x \in Access}
  \cup {[form |-> [form EXCEPT !.guest = ~@], part |-> "who"]}

\* Mutant: the last rule can be removed too.
NfsEditsAll(form) ==
  {[form |-> [form EXCEPT !.rules = @ \cup {r}], part |-> Host(r)] : r \in Rules}
  \cup {[form |-> [form EXCEPT !.rules = @ \ {r}], part |-> Host(r)] : r \in form.rules}

\* A rule is added or removed, unless it is the last one.
NfsEdits(form) ==
  {[form |-> [form EXCEPT !.rules = @ \cup {r}], part |-> Host(r)] : r \in Rules}
  \cup {[form |-> [form EXCEPT !.rules = @ \ {r}], part |-> Host(r)] :
          r \in IF Cardinality(form.rules) > 1 THEN form.rules ELSE {}}

Edits(id, form) == IF id \in Smb THEN SmbEdits(form) ELSE NfsEdits(form)

\* handleCIFSSave, handleNFSSave, and the modal of the client rules: the state
\* goes along as the copy has it.
HandleSave ==
  /\ Usable
  /\ \/ /\ view.modal.type = "create"
        /\ Send("createShare", [id |-> view.modal.id, form |-> NewForm(view.modal.id)])
     \/ /\ view.modal.type = "edit"
        /\ LET c == view.modal.copy IN
           \E e \in Edits(c.id, c.form) :
             /\ e.form # c.form
             /\ Send("updateShare", [id |-> c.id, form |-> e.form, on |-> c.form.on,
                      part |-> e.part, basis |-> c.basis, says |-> None])
  /\ Quiet(UNCHANGED view)

\* handleToggle takes the share from the list as it is now.
Toggle(id, says) ==
  /\ id \in ShownIds
  /\ Send("updateShare", [id |-> id, form |-> Shown[id], on |-> ~Shown[id].on,
           part |-> "on", basis |-> lists["shares"].shown.rev, says |-> says])

HandleToggle ==
  /\ Uncovered
  /\ \E id \in ShownIds : Toggle(id, [on |-> ~Shown[id].on, calm |-> TRUE])
  /\ Quiet(UNCHANGED view)

\* Mutant: the panel stays open.
PanelToggleStays ==
  /\ Usable /\ view.panel # None
  /\ LET p == view.panel IN Toggle(p.copy.id, [on |-> ~p.copy.form.on, calm |-> p.calm])
  /\ Quiet(UNCHANGED view)

\* The button of the panel bears the state of the copy, and toggles what the
\* list says; without the share in the list it only closes the panel.
PanelToggle ==
  /\ Usable /\ view.panel # None
  /\ LET p == view.panel IN
     \/ Toggle(p.copy.id, [on |-> ~p.copy.form.on, calm |-> p.calm])
     \/ p.copy.id \notin ShownIds /\ UNCHANGED <<route, visits, changes, rev, sent>>
  /\ Quiet(view' = [view EXCEPT !.panel = None])

HandleDelete ==
  /\ Usable /\ view.modal.type = "delete"
  /\ Send("deleteShare", [id |-> view.modal.copy.id])
  /\ Quiet(UNCHANGED view)

-----------------------------------------------------------------------------
(* The server (the handlers of api/handlers.go, in one step)               *)

ShareKinds == {"createShare", "updateShare", "deleteShare"}

\* The row is written; reapply may fail then, and the answer is an error.
Write(id, row) == shares' = [shares EXCEPT ![id] = row] /\ \E answer \in {"ok", "error"} : Committed(answer)

ServeShareRequest ==
  /\ \/ /\ AtServer("createShare")
        /\ sent.what.id \in Unused
        /\ Write(sent.what.id, ToAPI(sent.what.id, sent.what.form, sent.what.form.on, rev + 1))
     \/ /\ AtServer("updateShare")
        /\ shares[sent.what.id].is
        /\ Write(sent.what.id, ToAPI(sent.what.id, sent.what.form, sent.what.on, rev + 1))
     \/ AtServer("deleteShare") /\ shares[sent.what.id].is /\ Write(sent.what.id, Gone)
     \/ (\E k \in ShareKinds : AtServer(k)) /\ Refused /\ UNCHANGED shares
  /\ UNCHANGED <<route, visits, changes, told, lists, view>>

\* Another administrator enables or disables a share, on this page of their
\* own, or deletes it; an edit of theirs would be undone in the same way.
OtherShares ==
  /\ Other
  /\ \E id \in Present :
       LET form == MapShareFromAPI(id, shares[id]) IN
       \/ shares' = [shares EXCEPT ![id] = Gone]
       \/ shares' = [shares EXCEPT ![id] = ToAPI(id, form, ~form.on, rev + 1)]
  /\ UNCHANGED view

-----------------------------------------------------------------------------
(* The answer                                                              *)

\* The saves and the deletion close the modal, whichever it is now.  (A
\* deletion closes the panel of its share as well, but of the render in which
\* it was asked for, and then the modal was open and no panel.)
OnShareOk ==
  /\ Here /\ Answered("ok") /\ ForThisView
  /\ view' = IF sent.kind = "updateShare" /\ sent.what.says # None
             THEN [view EXCEPT !.loading = TRUE]
             ELSE [view EXCEPT !.loading = TRUE, !.modal = [type |-> "none"]]
  /\ told' = rev
  /\ Load
  /\ UNCHANGED <<route, visits, changes, rev, shares>>

OnShareError ==
  /\ Here /\ Answered("error") /\ ForThisView
  /\ UNCHANGED <<route, visits, changes, rev, told, lists, view, shares>>

SharesNext ==
  \/ ServeShares \/ ShowShares \/ FailShares \/ Retry
  \/ OpenShare \/ OpenPanel \/ PanelEdit \/ CloseShare
  \/ HandleSave \/ HandleToggle \/ PanelToggle \/ HandleDelete
  \/ ServeShareRequest \/ OtherShares \/ OnShareOk \/ OnShareError

SharesTypeOK ==
  /\ \A id \in Ids : IsRow(id, shares[id]) /\ shares[id].at \in 0..rev
  /\ Here =>
       /\ DOMAIN lists = {"shares"}
       /\ \A id \in Ids : Shown[id] \in Forms(id) \cup {None}
       /\ view.panel # None => view.panel.copy.id \in Ids
=============================================================================
