------------------------------- MODULE Migrate -------------------------------
(***************************************************************************)
(* The start of nasd and of nasctl on one SQLite database: config.OpenDB   *)
(* and config.Migrate, run by every process before it serves.  The scripts *)
(* are applied in order of name, each in a transaction that also records   *)
(* it in schema_migrations.  Processes overlap (an administrator runs      *)
(* nasctl while systemd starts nasd), fail, are killed and start again.    *)
(*                                                                         *)
(* SQLite (external) in WAL mode: readers see what is committed, one       *)
(* transaction writes at a time, another gives up after busy_timeout.      *)
(***************************************************************************)
EXTENDS Naturals, FiniteSets

CONSTANTS
  Daemon,     \* nasd: started at boot and again whenever it fails (Restart=on-failure)
  Tools,      \* the runs of nasctl, each started by hand and any number of times
  N,          \* the number of scripts, in order of name
  Alters,     \* the scripts that fail on a schema that has them (ALTER TABLE ADD COLUMN)
  MaxFaults,  \* a bound on the read errors, failed statements and kills
  Nobody      \* no process

ASSUME MigrateAssumption ==
  /\ N \in Nat /\ MaxFaults \in Nat
  /\ Alters \subseteq 1..N
  /\ Daemon \notin Tools /\ Nobody \notin Tools \cup {Daemon}

VARIABLES
  applied,   \* per script: how many committed transactions ran it
  recorded,  \* the scripts in schema_migrations
  admin,     \* TRUE: app_users holds an administrator
  writer,    \* the process whose transaction holds the write lock, or Nobody
  phase,     \* per process: its next step
  pos,       \* per process: the script of its loop
  faults

dbVars == <<applied, recorded, admin>>
migrateVars == <<dbVars, writer, phase, pos, faults>>

Processes == Tools \cup {Daemon}
Scripts == 1..N
Phases == {"count", "script", "record", "commit"}

Enter(p, next) == phase' = [phase EXCEPT ![p] = next]
Fault == faults < MaxFaults /\ faults' = faults + 1

\* Mutant: a transaction that fails keeps the write lock.
FailKeepsLock(p) ==
  /\ Enter(p, "down")
  /\ UNCHANGED <<dbVars, writer, pos>>

\* Migrate returns an error, the process exits and its transaction is undone.
Fail(p) ==
  /\ Enter(p, "down")
  /\ writer' = IF writer = p THEN Nobody ELSE writer
  /\ UNCHANGED <<dbVars, pos>>

-----------------------------------------------------------------------------
\* OpenDB, then CREATE TABLE IF NOT EXISTS schema_migrations.
Start(p) ==
  /\ phase[p] = "down"
  /\ Enter(p, "count")
  /\ pos' = [pos EXCEPT ![p] = 1]
  /\ UNCHANGED <<dbVars, writer, faults>>

\* Mutant: the loop ends before the last script.
CountOffByOne(p) ==
  /\ phase[p] = "count"
  /\ \/ pos[p] >= N /\ Enter(p, "ready") /\ UNCHANGED <<pos, faults>>
     \/ /\ pos[p] < N /\ pos[p] \in recorded
        /\ pos' = [pos EXCEPT ![p] = @ + 1]
        /\ UNCHANGED <<phase, faults>>
     \/ /\ pos[p] < N /\ pos[p] \notin recorded
        /\ Enter(p, "script")
        /\ UNCHANGED <<pos, faults>>
  /\ UNCHANGED <<dbVars, writer>>

\* SELECT COUNT(*): an error is ignored and counts as "not applied".
Count(p) ==
  /\ phase[p] = "count"
  /\ \/ /\ pos[p] > N
        /\ Enter(p, "ready")
        /\ UNCHANGED <<pos, faults>>
     \/ /\ pos[p] \in recorded
        /\ pos' = [pos EXCEPT ![p] = @ + 1]
        /\ UNCHANGED <<phase, faults>>
     \/ /\ pos[p] \in Scripts
        /\ IF pos[p] \in recorded THEN Fault ELSE UNCHANGED faults
        /\ Enter(p, "script")
        /\ UNCHANGED pos
  /\ UNCHANGED <<dbVars, writer>>

\* Mutant: the script runs outside the transaction that records it.
ScriptAutocommits(p) ==
  /\ phase[p] = "script"
  /\ writer = Nobody
  /\ ~(pos[p] \in Alters /\ applied[pos[p]] > 0)
  /\ applied' = [applied EXCEPT ![pos[p]] = 1]
  /\ writer' = p
  /\ Enter(p, "record")
  /\ UNCHANGED <<recorded, admin, pos, faults>>

\* Begin and the script, whose first write takes the lock.
Script(p) ==
  /\ phase[p] = "script"
  /\ \/ /\ writer = Nobody
        /\ ~(pos[p] \in Alters /\ applied[pos[p]] > 0)
        /\ writer' = p
        /\ Enter(p, "record")
        /\ UNCHANGED <<dbVars, pos, faults>>
     \/ /\ writer # Nobody \/ (pos[p] \in Alters /\ applied[pos[p]] > 0)
        /\ Fail(p)
        /\ UNCHANGED faults
     \/ Fault /\ Fail(p)

\* INSERT INTO schema_migrations: version is its primary key.
Record(p) ==
  /\ phase[p] = "record"
  /\ \/ /\ pos[p] \notin recorded
        /\ Enter(p, "commit")
        /\ UNCHANGED <<dbVars, writer, pos, faults>>
     \/ pos[p] \in recorded /\ Fail(p) /\ UNCHANGED faults
     \/ Fault /\ Fail(p)

\* Script and record become visible together.
Commit(p) ==
  /\ phase[p] = "commit"
  /\ \/ /\ applied' = [applied EXCEPT ![pos[p]] = @ + 1]
        /\ recorded' = recorded \cup {pos[p]}
        /\ writer' = Nobody
        /\ pos' = [pos EXCEPT ![p] = @ + 1]
        /\ Enter(p, "count")
        /\ UNCHANGED <<admin, faults>>
     \/ Fault /\ Fail(p)

\* nasctl create-admin: one INSERT ... ON CONFLICT DO UPDATE, then it exits.
CreateAdmin(p) ==
  /\ p \in Tools
  /\ phase[p] = "ready"
  /\ admin' = (admin \/ writer = Nobody)
  /\ Enter(p, "down")
  /\ UNCHANGED <<applied, recorded, writer, pos, faults>>

KillProcess(p) ==
  /\ phase[p] # "down"
  /\ Fault
  /\ Fail(p)

Run(p) == Count(p) \/ Script(p) \/ Record(p) \/ Commit(p) \/ CreateAdmin(p)

MigrateInit ==
  /\ applied = [f \in Scripts |-> 0]
  /\ recorded = {}
  /\ admin = FALSE
  /\ writer = Nobody
  /\ phase = [p \in Processes |-> "down"]
  /\ pos = [p \in Processes |-> 1]
  /\ faults = 0

MigrateNext == \E p \in Processes : Start(p) \/ Run(p) \/ KillProcess(p)

MigrateSpec == MigrateInit /\ [][MigrateNext]_migrateVars

\* Processes run, and systemd starts nasd again.
FairSpec == MigrateSpec /\ WF_migrateVars(Start(Daemon)) /\ \A p \in Processes : WF_migrateVars(Run(p))

-----------------------------------------------------------------------------
(* Properties                                                              *)

MigrateTypeOK ==
  /\ applied \in [Scripts -> Nat]
  /\ recorded \subseteq Scripts
  /\ admin \in BOOLEAN
  /\ writer \in Processes \cup {Nobody}
  /\ phase \in [Processes -> Phases \cup {"down", "ready"}]
  /\ pos \in [Processes -> 1..(N + 1)]
  /\ faults \in 0..MaxFaults

\* config.go Migrate, "in ordine ... Idempotente": whatever overlaps, fails or is
\* killed, what the database holds is the effect of the first scripts, each run
\* once, and exactly those are recorded.
OnceInOrder ==
  \E k \in 0..N :
    /\ recorded = 1..k
    /\ applied = [f \in Scripts |-> IF f <= k THEN 1 ELSE 0]

\* No process serves (or writes an administrator) on a part of the schema, although
\* it asks with queries whose errors it ignores.
ReadyHasSchema ==
  \A p \in Processes : phase[p] = "ready" => recorded = Scripts

\* cmd/nasd/main.go: once the faults are over nasd serves, although it may lose the
\* race for the lock or run a script another process has just applied.
DaemonServes == <>[](phase[Daemon] = "ready")
=============================================================================
