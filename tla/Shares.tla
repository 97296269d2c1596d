------------------------------- MODULE Shares -------------------------------
(***************************************************************************)
(* The share manager of nasd: the table `shares`, the HTTP handlers that   *)
(* change it (api/handlers.go) and the two generators that turn the table  *)
(* into /etc/exports and nasd-shares.conf (shares/shares.go).              *)
(*                                                                         *)
(* Every HTTP request runs in a goroutine of its own and no lock is held   *)
(* across a handler, so a request is a process: it changes the table,      *)
(* reads the whole table back, then rewrites and reloads first the NFS     *)
(* configuration, then the Samba one.  Both files are written through one  *)
(* fixed temporary name, path+".tmp", which all requests share; a file is  *)
(* therefore modelled by its inodes, not only by its name.                 *)
(***************************************************************************)
EXTENDS Naturals, FiniteSets

CONSTANTS
  Requests,   \* the create, update and delete requests; each is served once
  Names,      \* share names
  Rows,       \* the shares a request may carry, all accepted by validateShare
  Factory,    \* the inode a configuration file has before nasd writes it
  None        \* "no row", "no inode" and "no holder"

Protocols == {"NFS", "SMB"}

\* What a share carries, as far as the generators look at it.  `client` says
\* whether ApplyNFS accepts its client list (shares.go:216, 232).
Row == [name: Names, proto: Protocols, enabled: BOOLEAN, client: {"ok", "bad"}]

ASSUME RowsAssumption == Rows \subseteq Row /\ None \notin Rows
ASSUME InodeAssumption == Factory \notin Requests /\ None \notin Requests \cup {Factory}

VARIABLES
  db,         \* the table: id -> share; the id of a row is its creating request
  conn,       \* who holds the only database connection (SetMaxOpenConns(1))
  pc,         \* where each request is, or the answer it got
  phase,      \* the protocol whose configuration the request is applying
  snap,       \* what loadAll returned to the request
  fd,         \* the inode the request has open for writing
  tmp,        \* per protocol, the inode named path+".tmp"
  live,       \* per protocol, the inode named by the configured path
  data,       \* per protocol, the content of each inode
  running,    \* per protocol, whether its service runs
  exported,   \* the export table the kernel serves (exportfs -ra)
  overlapped  \* history: the requests that were not alone while being served

requestVars == <<pc, phase, snap, fd, overlapped>>
fileVars == <<tmp, live, data>>
serviceVars == <<running, exported>>
vars == <<db, conn, requestVars, fileVars, serviceVars>>

-----------------------------------------------------------------------------
(* Tables, configuration files and requests                                *)

Inodes == Requests \cup {Factory}
Tables == [Requests -> Rows \cup {None}]

Contents == [kind: {"whole", "empty", "torn"}, rows: SUBSET Rows]
Whole(rows) == [kind |-> "whole", rows |-> rows]
Empty == [kind |-> "empty", rows |-> {}]
Torn  == [kind |-> "torn",  rows |-> {}]

\* The shares a generator writes: those of its protocol that are enabled.
Lines(p, table) ==
  {row \in Rows : /\ \E i \in Requests : table[i] = row
                  /\ row.proto = p
                  /\ row.enabled}

\* The generator gives up before it writes when a client list is malformed.
Renderable(p, rows) == p = "NFS" => \A row \in rows : row.client = "ok"

\* UNIQUE(name, protocol) of table shares would be violated by row at id.
Clash(id, row) ==
  \E i \in Requests \ {id} :
    /\ db[i] # None
    /\ db[i].name = row.name
    /\ db[i].proto = row.proto

Steps == {"load", "scan", "prepare", "open", "write", "rename",
          "validate", "service", "reload", "respond"}
Failures == {"apply_failed", "config_rejected", "killed"}
Answers == {"ok", "invalid", "conflict", "not_found"} \cup Failures

Active == {r \in Requests : pc[r] \in Steps}

Goto(r, step) == pc' = [pc EXCEPT ![r] = step]
At(r, p, step) == pc[r] = step /\ phase[r] = p

\* An error of a generator ends the request; the table keeps the mutation.
ApplyFailed(r) ==
  /\ Goto(r, "apply_failed")
  /\ UNCHANGED <<db, conn, phase, snap, fd, overlapped>>

-----------------------------------------------------------------------------
(* The mutation                                                            *)

CanBegin(r) ==
  /\ pc[r] = "new"
  /\ conn = None

\* The request has mutated the table and goes on to reapply.
Mutate(r, table) ==
  /\ db' = table
  /\ Goto(r, "load")
  /\ overlapped' = IF Active = {} THEN overlapped
                   ELSE overlapped \cup Active \cup {r}
  /\ UNCHANGED <<conn, phase, snap, fd, fileVars, serviceVars>>

Refuse(r, answer) ==
  /\ Goto(r, answer)
  /\ UNCHANGED <<db, conn, phase, snap, fd, overlapped, fileVars, serviceVars>>

\* Malformed body, share refused by validateShare, confirmation missing.
Invalid(r) == CanBegin(r) /\ Refuse(r, "invalid")

Create(r, row) ==
  /\ CanBegin(r)
  /\ IF Clash(r, row) THEN Refuse(r, "conflict")
     ELSE Mutate(r, [db EXCEPT ![r] = row])

Update(r, id, row) ==
  /\ CanBegin(r)
  /\ IF db[id] = None THEN Refuse(r, "not_found")
     ELSE IF Clash(id, row) THEN Refuse(r, "conflict")
     ELSE Mutate(r, [db EXCEPT ![id] = row])

\* Mutant: delete answers without reapplying.
DeleteOnly(r, id) ==
  /\ CanBegin(r)
  /\ IF db[id] = None THEN Refuse(r, "not_found")
     ELSE /\ db' = [db EXCEPT ![id] = None]
          /\ Goto(r, "respond")
          /\ UNCHANGED <<conn, phase, snap, fd, overlapped, fileVars, serviceVars>>

Delete(r, id) ==
  /\ CanBegin(r)
  /\ IF db[id] = None THEN Refuse(r, "not_found")
     ELSE Mutate(r, [db EXCEPT ![id] = None])

-----------------------------------------------------------------------------
(* reapply: loadAll                                                        *)

\* db.Query takes the connection; the rows are read from one statement, so
\* no other request can change the table before rows.Close.
Load(r) ==
  /\ pc[r] = "load"
  /\ conn = None
  /\ \/ Goto(r, "scan") /\ conn' = r
     \/ Goto(r, "apply_failed") /\ UNCHANGED conn
  /\ UNCHANGED <<db, phase, snap, fd, overlapped, fileVars, serviceVars>>

\* Mutant: the rows are not closed.
ScanLeaksRows(r) ==
  /\ pc[r] = "scan"
  /\ snap' = [snap EXCEPT ![r] = db]
  /\ phase' = [phase EXCEPT ![r] = "NFS"]
  /\ Goto(r, "prepare")
  /\ UNCHANGED <<db, conn, fd, overlapped, fileVars, serviceVars>>

Scan(r) ==
  /\ pc[r] = "scan"
  /\ snap' = [snap EXCEPT ![r] = db]
  /\ conn' = None
  /\ phase' = [phase EXCEPT ![r] = "NFS"]
  /\ Goto(r, "prepare")
  /\ UNCHANGED <<db, fd, overlapped, fileVars, serviceVars>>

-----------------------------------------------------------------------------
(* reapply: ApplyNFS, then ApplySMB                                        *)

\* The loop over the shares: check, mkdir -p, chmod.  No shared file changes.
Prepare(r, p) ==
  /\ At(r, p, "prepare")
  /\ \/ /\ Renderable(p, Lines(p, snap[r]))
        /\ Goto(r, "open")
        /\ UNCHANGED <<db, conn, phase, snap, fd, overlapped>>
     \/ ApplyFailed(r)
  /\ UNCHANGED <<fileVars, serviceVars>>

\* Mutant: the temporary file is opened without O_TRUNC.
OpenUntruncated(r, p) ==
  LET inode == IF tmp[p] = None THEN r ELSE tmp[p] IN
  /\ At(r, p, "open")
  /\ tmp' = [tmp EXCEPT ![p] = inode]
  /\ fd' = [fd EXCEPT ![r] = inode]
  /\ Goto(r, "write")
  /\ UNCHANGED <<db, conn, phase, snap, overlapped, data, live, serviceVars>>

\* Mutant: the file is written in place, under its configured name.
OpenInPlace(r, p) ==
  /\ At(r, p, "open")
  /\ data' = [data EXCEPT ![p][live[p]] = Empty]
  /\ fd' = [fd EXCEPT ![r] = live[p]]
  /\ Goto(r, "write")
  /\ UNCHANGED <<db, conn, phase, snap, overlapped, tmp, live, serviceVars>>

\* os.WriteFile, first half: open path+".tmp" with O_CREATE|O_TRUNC.  When the
\* name exists the inode behind it is truncated, whoever is writing to it.
OpenTmp(r, p) ==
  /\ At(r, p, "open")
  /\ \/ LET inode == IF tmp[p] = None THEN r ELSE tmp[p] IN
        /\ tmp' = [tmp EXCEPT ![p] = inode]
        /\ data' = [data EXCEPT ![p][inode] = Empty]
        /\ fd' = [fd EXCEPT ![r] = inode]
        /\ Goto(r, "write")
        /\ UNCHANGED <<db, conn, phase, snap, overlapped>>
     \/ ApplyFailed(r) /\ UNCHANGED <<tmp, data>>
  /\ UNCHANGED <<live, serviceVars>>

\* What an inode holds after text is written at its offset 0: when it held
\* another, longer text (its length is not modelled) the tail of that stays.
Overwrite(old, new) == IF old \in {Empty, new} THEN {new} ELSE {new, Torn}

\* os.WriteFile, second half: write the text and close; a failing write may
\* have written a part of it.
WriteTmp(r, p) ==
  /\ At(r, p, "write")
  /\ \/ /\ \E new \in Overwrite(data[p][fd[r]], Whole(Lines(p, snap[r]))) :
             data' = [data EXCEPT ![p][fd[r]] = new]
        /\ Goto(r, "rename")
        /\ UNCHANGED <<db, conn, phase, snap, fd, overlapped>>
     \/ /\ ApplyFailed(r)
        /\ \/ data' = [data EXCEPT ![p][fd[r]] = Torn]
           \/ UNCHANGED data
  /\ UNCHANGED <<tmp, live, serviceVars>>

\* Mutant: the file is linked to its name and the temporary name stays.
RenameKeepsTmp(r, p) ==
  /\ At(r, p, "rename")
  /\ tmp[p] # None
  /\ live' = [live EXCEPT ![p] = tmp[p]]
  /\ Goto(r, IF p = "SMB" THEN "validate" ELSE "service")
  /\ UNCHANGED <<db, conn, phase, snap, fd, overlapped, tmp, data, serviceVars>>

\* os.Rename(tmp, path): it moves whatever inode has the temporary name now,
\* and fails when another request has already moved it.
Rename(r, p) ==
  /\ At(r, p, "rename")
  /\ \/ /\ tmp[p] # None
        /\ live' = [live EXCEPT ![p] = tmp[p]]
        /\ tmp' = [tmp EXCEPT ![p] = None]
        /\ Goto(r, IF p = "SMB" THEN "validate" ELSE "service")
        /\ UNCHANGED <<db, conn, phase, snap, fd, overlapped>>
     \/ ApplyFailed(r) /\ UNCHANGED <<tmp, live>>
  /\ UNCHANGED <<data, serviceVars>>

\* testparm -s runs on the installed file; its verdict stops the request but
\* does not bring the former file back.
Validate(r) ==
  /\ At(r, "SMB", "validate")
  /\ \/ Goto(r, "service")
     \/ Goto(r, "config_rejected")
  /\ UNCHANGED <<db, conn, phase, snap, fd, overlapped, fileVars, serviceVars>>

\* systemctl enable --now when a share of this protocol is enabled (a failure
\* is an error; the service may have started all the same), disable --now
\* otherwise (a failure is ignored).
Service(r, p) ==
  /\ At(r, p, "service")
  /\ IF Lines(p, snap[r]) # {}
     THEN \/ /\ running' = [running EXCEPT ![p] = TRUE]
             /\ Goto(r, "reload")
          \/ /\ running' = [running EXCEPT ![p] = TRUE]
             /\ Goto(r, "apply_failed")
          \/ /\ UNCHANGED running
             /\ Goto(r, "apply_failed")
     ELSE /\ \/ running' = [running EXCEPT ![p] = FALSE]
             \/ UNCHANGED running
          /\ Goto(r, "reload")
  /\ UNCHANGED <<db, conn, phase, snap, fd, overlapped, fileVars, exported>>

LiveContent(p) == data[p][live[p]]

\* exportfs -ra loads /etc/exports into the kernel; then the Samba half begins.
ReloadNFS(r) ==
  /\ At(r, "NFS", "reload")
  /\ \/ /\ exported' = LiveContent("NFS")
        /\ phase' = [phase EXCEPT ![r] = "SMB"]
        /\ Goto(r, "prepare")
     \/ /\ Goto(r, "apply_failed")
        /\ UNCHANGED <<exported, phase>>
  /\ UNCHANGED <<db, conn, snap, fd, overlapped, fileVars, running>>

\* smbcontrol all reload-config, best effort.
ReloadSMB(r) ==
  /\ At(r, "SMB", "reload")
  /\ Goto(r, "respond")
  /\ UNCHANGED <<db, conn, phase, snap, fd, overlapped, fileVars, serviceVars>>

\* GrantShareAccess (ignored errors), Emit("shares.changed"), 2xx.
Respond(r) ==
  /\ pc[r] = "respond"
  /\ Goto(r, "ok")
  /\ UNCHANGED <<db, conn, phase, snap, fd, overlapped, fileVars, serviceVars>>

-----------------------------------------------------------------------------
(* The daemon                                                              *)

\* nasd is killed and restarted by systemd.  Requests in flight are lost, the
\* table and the files stay as they are, and nothing is reapplied at start.
Crash ==
  /\ Active # {}
  /\ pc' = [r \in Requests |-> IF r \in Active THEN "killed" ELSE pc[r]]
  /\ conn' = None
  /\ UNCHANGED <<db, phase, snap, fd, overlapped, fileVars, serviceVars>>

Begin(r) ==
  \/ Invalid(r)
  \/ \E row \in Rows : Create(r, row)
  \/ \E id \in Requests, row \in Rows : Update(r, id, row)
  \/ \E id \in Requests : Delete(r, id)

Continue(r) ==
  \/ Load(r)
  \/ Scan(r)
  \/ \E p \in Protocols : \/ Prepare(r, p)
                          \/ OpenTmp(r, p)
                          \/ WriteTmp(r, p)
                          \/ Rename(r, p)
                          \/ Service(r, p)
  \/ Validate(r)
  \/ ReloadNFS(r)
  \/ ReloadSMB(r)
  \/ Respond(r)

\* Every request has been answered: the bounded model ends here.
Served == (\A r \in Requests : pc[r] \in Answers) /\ UNCHANGED vars

Init ==
  /\ db = [i \in Requests |-> None]
  /\ conn = None
  /\ pc = [r \in Requests |-> "new"]
  /\ phase = [r \in Requests |-> "NFS"]
  /\ snap = [r \in Requests |-> db]
  /\ fd = [r \in Requests |-> None]
  /\ tmp = [p \in Protocols |-> None]
  /\ live = [p \in Protocols |-> Factory]
  /\ data = [p \in Protocols |-> [i \in Inodes |->
                IF i = Factory THEN Whole({}) ELSE Empty]]
  /\ running = [p \in Protocols |-> FALSE]
  /\ exported = Whole({})
  /\ overlapped = {}

Next ==
  \/ \E r \in Requests : Begin(r) \/ Continue(r)
  \/ Crash
  \/ Served

Spec == Init /\ [][Next]_vars

\* Every command of a handler is bounded by a timeout (system/runner.go), so a
\* request that can take its next step takes it.
FairSpec == Spec /\ \A r \in Requests : WF_vars(Continue(r))

-----------------------------------------------------------------------------
(* Properties                                                              *)

TypeOK ==
  /\ db \in Tables
  /\ conn \in Requests \cup {None}
  /\ pc \in [Requests -> {"new"} \cup Steps \cup Answers]
  /\ phase \in [Requests -> Protocols]
  /\ snap \in [Requests -> Tables]
  /\ fd \in [Requests -> Inodes \cup {None}]
  /\ tmp \in [Protocols -> Inodes \cup {None}]
  /\ live \in [Protocols -> Inodes]
  /\ data \in [Protocols -> [Inodes -> Contents]]
  /\ running \in [Protocols -> BOOLEAN]
  /\ exported \in Contents
  /\ overlapped \subseteq Requests

\* The configuration on disk, in the kernel and in the service manager is the
\* one the table asks for.
InstalledIs(p, table) == LiveContent(p) = Whole(Lines(p, table))
ServiceMatches(p, table) == Lines(p, table) # {} => running[p]
Applied ==
  /\ \A p \in Protocols : InstalledIs(p, db) /\ ServiceMatches(p, db)
  /\ exported = Whole(Lines("NFS", db))

\* A request that was alone while it was served is answered 2xx only when the
\* whole table is applied - also after crashes, half-written temporary files
\* and requests that overlapped before it (handlers.go create/update/delete).
LoneSuccessIsApplied ==
  \A r \in Requests : pc[r] = "respond" /\ r \notin overlapped => Applied

\* Drift between the table and the running configuration has one of four
\* causes: an apply error, a rejected Samba configuration, a restart of the
\* daemon, or two requests that overlapped (handlers.go:476-477).
DriftHasACause ==
  Active = {} /\ ~Applied =>
    \E r \in Requests : pc[r] \in Failures \/ r \in overlapped

\* The temporary name and the configured name are never the same inode: a
\* writer never truncates the installed file by opening its own temporary
\* (shares.go writeFileAtomic).
TmpIsNotLive == \A p \in Protocols : tmp[p] # live[p]

\* Every request that began gets an answer or dies with the daemon; the single
\* database connection is always given back (loadAll, rows.Close).
RequestsFinish ==
  \A r \in Requests : pc[r] \in Steps ~> pc[r] \in Answers

\* As long as clients wait for each answer, the table and the two files implement
\* the source of truth of ConfigStore: through apply errors, failed writes and
\* restarts a file only ever changes to the rendering of the current table.
Store == INSTANCE ConfigStore WITH
  Files <- Protocols,
  Render <- [p \in Protocols |-> [t \in Tables |-> Whole(Lines(p, t))]],
  table <- db,
  installed <- [p \in Protocols |-> LiveContent(p)]

Installed == [p \in Protocols |-> LiveContent(p)]

SourceOfTruth ==
  Store!Init /\ [][overlapped = {} => [Store!Next]_<<db, Installed>>]_vars

=============================================================================
