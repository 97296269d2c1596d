-------------------------------- MODULE Dlna --------------------------------
(***************************************************************************)
(* The DLNA media server: the table media_dirs, the handlers that change   *)
(* it (api/handlers.go) and dlna.Manager, which turns it into              *)
(* minidlna.conf and restarts the service (dlna/dlna.go).                  *)
(*                                                                         *)
(* Unlike the share configurations this file is written in place: it is    *)
(* truncated, then filled.  minidlnad (external) reads it when it starts.  *)
(***************************************************************************)
EXTENDS FiniteSets

CONSTANTS
  Requests,   \* each is served once
  Dirs,       \* the media directories
  None

ASSUME DlnaAssumption == None \notin Requests

VARIABLES
  table,      \* media_dirs
  conf,       \* the content of minidlna.conf
  enabled,    \* the service is started at boot; nasd never changes that
  loaded,     \* the content minidlnad started with, or Off
  pc,         \* per request: where it is, or its answer
  job,        \* per request: its operation and directory
  snap,       \* per request: what loadDirs returned
  overlapped  \* history: the requests that were not alone while being served

vars == <<table, conf, enabled, loaded, pc, job, snap, overlapped>>

Whole(dirs) == [kind |-> "whole", dirs |-> dirs]
Empty == [kind |-> "empty", dirs |-> {}]
Torn == [kind |-> "torn", dirs |-> {}]
\* The file of the package, which nasd has not written: the directory it serves
\* is none of the table.
Packaged == [kind |-> "packaged", dirs |-> {}]
Off == [kind |-> "off", dirs |-> {}]
Contents == [kind: {"whole", "empty", "torn", "packaged"}, dirs: SUBSET Dirs]

Jobs == [op: {"add", "remove"}, dir: Dirs] \cup [op: {"rescan"}, dir: {None}]
NoJob == [op |-> "none", dir |-> None]
Steps == {"mutate", "load", "open", "write", "restart", "rescan"}
Failures == {"apply_failed", "killed"}
Answers == {"ok", "refused"} \cup Failures
Active == {r \in Requests : pc[r] \in Steps}

At(r, step) == pc[r] = step
Goto(r, step) == pc' = [pc EXCEPT ![r] = step] /\ UNCHANGED <<job, overlapped>>

-----------------------------------------------------------------------------
Begin(r, j) ==
  /\ pc[r] = "new"
  /\ job' = [job EXCEPT ![r] = j]
  /\ pc' = [pc EXCEPT ![r] = IF j.op = "rescan" THEN "rescan" ELSE "mutate"]
  /\ overlapped' = IF Active = {} THEN overlapped ELSE overlapped \cup Active \cup {r}
  /\ UNCHANGED <<table, conf, enabled, loaded, snap>>

\* Mutant: a removal does not regenerate the file.
MutateOnly(r) ==
  LET d == job[r].dir IN
  /\ At(r, "mutate")
  /\ \/ /\ job[r].op = "add" /\ d \notin table
        /\ table' = table \cup {d}
        /\ Goto(r, "load")
     \/ /\ job[r].op = "remove" /\ d \in table
        /\ table' = table \ {d}
        /\ Goto(r, "ok")
  /\ UNCHANGED <<conf, enabled, loaded, snap>>

\* addDir (path is UNIQUE; a malformed request is refused too) and removeDir.
Mutate(r) ==
  /\ At(r, "mutate")
  /\ LET d == job[r].dir IN
     \/ /\ job[r].op = "add" /\ d \notin table
        /\ table' = table \cup {d}
        /\ Goto(r, "load")
     \/ /\ job[r].op = "remove" /\ d \in table
        /\ table' = table \ {d}
        /\ Goto(r, "load")
     \/ Goto(r, "refused") /\ UNCHANGED table
  /\ UNCHANGED <<conf, enabled, loaded, snap>>

\* reconfigure: loadDirs reads the whole table.
LoadDirs(r) ==
  /\ At(r, "load")
  /\ \/ snap' = [snap EXCEPT ![r] = table] /\ Goto(r, "open")
     \/ Goto(r, "apply_failed") /\ UNCHANGED snap
  /\ UNCHANGED <<table, conf, enabled, loaded>>

\* Mutant: the file is opened without O_TRUNC.
OpenUntruncated(r) ==
  /\ At(r, "open")
  /\ Goto(r, "write")
  /\ UNCHANGED <<table, conf, enabled, loaded, snap>>

\* os.WriteFile: open with O_TRUNC.
Open(r) ==
  /\ At(r, "open")
  /\ \/ conf' = Empty /\ Goto(r, "write")
     \/ Goto(r, "apply_failed") /\ UNCHANGED conf
  /\ UNCHANGED <<table, enabled, loaded, snap>>

\* os.WriteFile: write and close.  Over another, longer text a tail of that
\* stays; a failed write leaves a part.
Write(r) ==
  /\ At(r, "write")
  /\ LET text == Whole(snap[r]) IN
     \/ /\ conf' \in IF conf \in {Empty, text} THEN {text} ELSE {text, Torn}
        /\ Goto(r, "restart")
     \/ /\ conf' \in {conf, Torn}
        /\ Goto(r, "apply_failed")
  /\ UNCHANGED <<table, enabled, loaded, snap>>

\* systemctl restart minidlna, after Configure and after Rescan.
Restart(r) ==
  /\ At(r, "restart")
  /\ \/ loaded' = conf /\ Goto(r, "ok")
     \/ Goto(r, "apply_failed") /\ UNCHANGED loaded
  /\ UNCHANGED <<table, conf, enabled, snap>>

\* minidlnad -R, whose failure ends the request.
Rescan(r) ==
  /\ At(r, "rescan")
  /\ Goto(r, "restart") \/ Goto(r, "refused")
  /\ UNCHANGED <<table, conf, enabled, loaded, snap>>

\* nasd dies and starts again: nothing is regenerated.
Crash ==
  /\ Active # {}
  /\ pc' = [r \in Requests |-> IF r \in Active THEN "killed" ELSE pc[r]]
  /\ UNCHANGED <<table, conf, enabled, loaded, job, snap, overlapped>>

\* The machine restarts, and nasd with it, which generates nothing.
Reboot ==
  /\ loaded' = IF enabled THEN conf ELSE Off
  /\ pc' = [r \in Requests |-> IF r \in Active THEN "killed" ELSE pc[r]]
  /\ UNCHANGED <<table, conf, enabled, job, snap, overlapped>>

Continue(r) == Mutate(r) \/ LoadDirs(r) \/ Open(r) \/ Write(r) \/ Restart(r) \/ Rescan(r)

Init ==
  /\ table = {}
  /\ conf = Packaged
  /\ enabled \in BOOLEAN
  /\ loaded = IF enabled THEN Packaged ELSE Off
  /\ pc = [r \in Requests |-> "new"]
  /\ job = [r \in Requests |-> NoJob]
  /\ snap = [r \in Requests |-> {}]
  /\ overlapped = {}

Next == (\E r \in Requests : (\E j \in Jobs : Begin(r, j)) \/ Continue(r)) \/ Crash \/ Reboot

Spec == Init /\ [][Next]_vars

-----------------------------------------------------------------------------
(* Properties                                                              *)

TypeOK ==
  /\ table \subseteq Dirs
  /\ conf \in Contents
  /\ enabled \in BOOLEAN
  /\ loaded \in Contents \cup {Off}
  /\ pc \in [Requests -> {"new"} \cup Steps \cup Answers]
  /\ job \in [Requests -> Jobs \cup {NoJob}]
  /\ snap \in [Requests -> SUBSET Dirs]
  /\ overlapped \subseteq Requests

\* handlers.go dlna: a change that was alone and is answered with 2xx brings the
\* server to the whole table, also after failed, killed or overlapping changes.
LoneChangeIsServed ==
  [][\A r \in Requests :
       (At(r, "restart") /\ pc'[r] = "ok" /\ job[r].op # "rescan" /\ r \notin overlapped)
         => loaded' = Whole(table)]_vars

\* The first file is the package's, and nasd writes none when it starts: until a
\* change was asked for it is that file.
FileIsTables == conf = Whole(table) \/ (conf = Packaged /\ table = {})
\* A boot starts the server only where systemd was told to.
ServesTable ==
  \/ loaded = Whole(table)
  \/ loaded = Packaged /\ table = {}
  \/ loaded = Off /\ ~enabled

\* handlers.go:988 reconfigure: a server that serves something else than the table,
\* or does not run although it is started at boot, does so because a change or a
\* rescan failed or died, or because two requests overlapped.
DriftHasACause ==
  (Active = {} /\ ~(FileIsTables /\ ServesTable)) =>
    \E r \in Requests : pc[r] \in Failures \/ r \in overlapped
=============================================================================
