----------------------------- MODULE BootProofs ------------------------------
(***************************************************************************)
(* Theorems about what a start finds.  Migrate: the schema, for any number *)
(* of processes, scripts and faults and any choice of the scripts that     *)
(* cannot run twice.  Volumes: the lines of /etc/fstab and what a boot     *)
(* mounts by them, for any arrays, names, mount points and requests.       *)
(***************************************************************************)
EXTENDS Migrate, Volumes, SequenceTheorems, FiniteSetTheorems, TLAPS

-----------------------------------------------------------------------------
(* Migrate: the inductive invariant                                        *)

\* Who runs a transaction holds the write lock, for a script of the list.
LockHeld ==
  \A p \in Processes :
    /\ phase[p] \in {"record", "commit"} => writer = p
    /\ phase[p] \in {"script", "record", "commit"} => pos[p] \in Scripts

\* SQLite has checked the primary key before a transaction commits.
CommitIsNew == \A p \in Processes : phase[p] = "commit" => pos[p] \notin recorded

\* A process has seen every script before its position recorded.
SeenRecorded == \A p \in Processes : phase[p] \in Phases => 1..(pos[p] - 1) \subseteq recorded

MigrateInv ==
  /\ MigrateTypeOK
  /\ OnceInOrder
  /\ LockHeld
  /\ CommitIsNew
  /\ SeenRecorded
  /\ ReadyHasSchema

-----------------------------------------------------------------------------
LEMMA InitInv == MigrateInit => MigrateInv
<1> SUFFICES ASSUME MigrateInit PROVE MigrateInv
  OBVIOUS
<1> USE MigrateAssumption DEF MigrateInit, Processes, Scripts, Phases
<1>1. MigrateTypeOK
  <2>1. 0 \in Nat /\ 1 \in 1..(N + 1) /\ 0 \in 0..MaxFaults
    OBVIOUS
  <2>2. applied \in [Scripts -> Nat] /\ recorded \subseteq Scripts
    BY <2>1
  <2>3. pos \in [Processes -> 1..(N + 1)]
    BY <2>1
  <2>4. QED
    BY <2>1, <2>2, <2>3 DEF MigrateTypeOK
<1>2. OnceInOrder
  <2>1. 0 \in 0..N /\ recorded = 1..0
    OBVIOUS
  <2>2. applied = [f \in Scripts |-> IF f <= 0 THEN 1 ELSE 0]
    OBVIOUS
  <2>3. QED
    BY <2>1, <2>2 DEF OnceInOrder
<1>3. LockHeld /\ CommitIsNew /\ SeenRecorded /\ ReadyHasSchema
  BY DEF LockHeld, CommitIsNew, SeenRecorded, ReadyHasSchema
<1>4. QED
  BY <1>1, <1>2, <1>3 DEF MigrateInv

\* A process that is put down, with its lock or without, leaves the rest as it is.
LEMMA FailInv ==
  ASSUME MigrateInv, NEW p \in Processes, Fail(p), faults' \in 0..MaxFaults
  PROVE  MigrateInv'
<1> USE DEF MigrateInv, Fail, Enter, dbVars
<1>1. MigrateTypeOK'
  BY DEF MigrateTypeOK
<1>2. OnceInOrder'
  BY DEF OnceInOrder
<1>3. LockHeld'
  BY DEF LockHeld, MigrateTypeOK
<1>4. CommitIsNew' /\ SeenRecorded' /\ ReadyHasSchema'
  BY DEF CommitIsNew, SeenRecorded, ReadyHasSchema, MigrateTypeOK, Phases
<1>5. QED
  BY <1>1, <1>2, <1>3, <1>4

LEMMA FaultType == ASSUME MigrateTypeOK, Fault PROVE faults' \in 0..MaxFaults
BY MigrateAssumption DEF MigrateTypeOK, Fault

LEMMA StartInv == ASSUME MigrateInv, NEW p \in Processes, Start(p) PROVE MigrateInv'
<1> USE MigrateAssumption DEF MigrateInv, Start, Enter, dbVars, Phases
<1>1. MigrateTypeOK'
  BY DEF MigrateTypeOK
<1>2. OnceInOrder'
  BY DEF OnceInOrder
<1>3. LockHeld' /\ CommitIsNew' /\ ReadyHasSchema'
  BY DEF LockHeld, CommitIsNew, ReadyHasSchema, MigrateTypeOK
<1>4. SeenRecorded'
  BY DEF SeenRecorded, MigrateTypeOK
<1>5. QED
  BY <1>1, <1>2, <1>3, <1>4

LEMMA CountInv == ASSUME MigrateInv, NEW p \in Processes, Count(p) PROVE MigrateInv'
<1> USE MigrateAssumption DEF MigrateInv, Enter, dbVars, Phases, Scripts
<1>1. CASE pos[p] > N /\ Enter(p, "ready") /\ UNCHANGED <<dbVars, writer, pos, faults>>
  <2>1. recorded = Scripts
    <3>1. 1..(pos[p] - 1) \subseteq recorded /\ recorded \subseteq 1..N
      BY DEF Count, SeenRecorded, MigrateTypeOK
    <3>2. pos[p] \in 1..(N + 1)
      BY DEF MigrateTypeOK
    <3>3. pos[p] - 1 = N
      BY <1>1, <3>2
    <3>4. QED
      BY <3>1, <3>3
  <2>2. MigrateTypeOK' /\ OnceInOrder'
    BY <1>1 DEF MigrateTypeOK, OnceInOrder
  <2>3. LockHeld' /\ CommitIsNew' /\ SeenRecorded'
    BY <1>1 DEF LockHeld, CommitIsNew, SeenRecorded, MigrateTypeOK
  <2>4. ReadyHasSchema'
    BY <1>1, <2>1 DEF ReadyHasSchema, MigrateTypeOK
  <2>5. QED
    BY <2>2, <2>3, <2>4
<1>2. CASE /\ pos[p] \in recorded
           /\ pos' = [pos EXCEPT ![p] = @ + 1]
           /\ UNCHANGED <<dbVars, writer, phase, faults>>
  <2>1. MigrateTypeOK' /\ OnceInOrder'
    <3>1. MigrateTypeOK'
      BY <1>2 DEF MigrateTypeOK
    <3>2. OnceInOrder'
      BY <1>2 DEF OnceInOrder
    <3>3. QED
      BY <3>1, <3>2
  <2>2. LockHeld' /\ CommitIsNew' /\ ReadyHasSchema'
    BY <1>2 DEF Count, LockHeld, CommitIsNew, ReadyHasSchema, MigrateTypeOK
  <2>3. SeenRecorded'
    BY <1>2 DEF Count, SeenRecorded, MigrateTypeOK
  <2>4. QED
    BY <2>1, <2>2, <2>3
<1>3. CASE /\ pos[p] \in Scripts
           /\ faults' \in 0..MaxFaults
           /\ Enter(p, "script")
           /\ UNCHANGED <<dbVars, writer, pos>>
  <2>1. MigrateTypeOK' /\ OnceInOrder'
    <3>1. MigrateTypeOK'
      BY <1>3 DEF MigrateTypeOK
    <3>2. OnceInOrder'
      BY <1>3 DEF OnceInOrder
    <3>3. QED
      BY <3>1, <3>2
  <2>2. LockHeld' /\ CommitIsNew' /\ ReadyHasSchema'
    BY <1>3 DEF LockHeld, CommitIsNew, ReadyHasSchema, MigrateTypeOK
  <2>3. SeenRecorded'
    BY <1>3 DEF Count, SeenRecorded, MigrateTypeOK
  <2>4. QED
    BY <2>1, <2>2, <2>3
<1>4. QED
  BY <1>1, <1>2, <1>3, FaultType DEF Count, MigrateTypeOK

LEMMA ScriptInv == ASSUME MigrateInv, NEW p \in Processes, Script(p) PROVE MigrateInv'
<1>1. CASE Fail(p) /\ faults' \in 0..MaxFaults
  BY <1>1, FailInv
<1>2. CASE /\ writer = Nobody
           /\ writer' = p
           /\ Enter(p, "record")
           /\ UNCHANGED <<dbVars, pos, faults>>
  <2> USE MigrateAssumption DEF MigrateInv, Enter, dbVars, Phases
  <2>1. MigrateTypeOK' /\ OnceInOrder'
    BY <1>2 DEF MigrateTypeOK, OnceInOrder
  <2>2. LockHeld'
    BY <1>2 DEF Script, LockHeld, MigrateTypeOK, Processes
  <2>3. CommitIsNew' /\ SeenRecorded' /\ ReadyHasSchema'
    BY <1>2 DEF Script, CommitIsNew, SeenRecorded, ReadyHasSchema, MigrateTypeOK
  <2>4. QED
    BY <2>1, <2>2, <2>3
<1>3. QED
  BY <1>1, <1>2, FaultType DEF Script, MigrateInv, MigrateTypeOK

LEMMA RecordInv == ASSUME MigrateInv, NEW p \in Processes, Record(p) PROVE MigrateInv'
<1>1. CASE Fail(p) /\ faults' \in 0..MaxFaults
  BY <1>1, FailInv
<1>2. CASE /\ pos[p] \notin recorded
           /\ Enter(p, "commit")
           /\ UNCHANGED <<dbVars, writer, pos, faults>>
  <2> USE DEF MigrateInv, Enter, dbVars, Phases
  <2>1. MigrateTypeOK' /\ OnceInOrder'
    BY <1>2 DEF MigrateTypeOK, OnceInOrder
  <2>2. LockHeld' /\ CommitIsNew'
    BY <1>2 DEF Record, LockHeld, CommitIsNew, MigrateTypeOK
  <2>3. SeenRecorded' /\ ReadyHasSchema'
    BY <1>2 DEF Record, SeenRecorded, ReadyHasSchema, MigrateTypeOK
  <2>4. QED
    BY <2>1, <2>2, <2>3
<1>3. QED
  BY <1>1, <1>2, FaultType DEF Record, MigrateInv, MigrateTypeOK

\* A script that commits is the first one that is not recorded: the process has
\* seen the ones before it, and the lock has kept every other process out.
LEMMA CommitNext ==
  ASSUME MigrateInv, NEW p \in Processes, phase[p] = "commit"
  PROVE  \E k \in 0..N : /\ recorded = 1..k
                         /\ applied = [f \in Scripts |-> IF f <= k THEN 1 ELSE 0]
                         /\ pos[p] = k + 1
<1>1. PICK k \in 0..N : /\ recorded = 1..k
                        /\ applied = [f \in Scripts |-> IF f <= k THEN 1 ELSE 0]
  BY DEF MigrateInv, OnceInOrder
<1>2. pos[p] \in 1..N /\ pos[p] \notin 1..k /\ 1..(pos[p] - 1) \subseteq 1..k
  BY <1>1 DEF MigrateInv, LockHeld, CommitIsNew, SeenRecorded, Phases, Scripts
<1>3. pos[p] > k
  BY <1>2, MigrateAssumption
<1>4. CASE pos[p] > k + 1
  <2>1. k + 1 \in 1..(pos[p] - 1)
    BY <1>2, <1>4, MigrateAssumption
  <2>2. QED
    BY <1>2, <2>1, MigrateAssumption
<1>5. QED
  BY <1>1, <1>2, <1>3, <1>4, MigrateAssumption

LEMMA CommitInv == ASSUME MigrateInv, NEW p \in Processes, Commit(p) PROVE MigrateInv'
<1>1. CASE Fail(p) /\ faults' \in 0..MaxFaults
  BY <1>1, FailInv
<1>2. CASE /\ applied' = [applied EXCEPT ![pos[p]] = @ + 1]
           /\ recorded' = recorded \cup {pos[p]}
           /\ writer' = Nobody
           /\ pos' = [pos EXCEPT ![p] = @ + 1]
           /\ Enter(p, "count")
           /\ UNCHANGED <<admin, faults>>
  <2>1. PICK k \in 0..N : /\ recorded = 1..k
                          /\ applied = [f \in Scripts |-> IF f <= k THEN 1 ELSE 0]
                          /\ pos[p] = k + 1
    BY CommitNext DEF Commit
  <2>2. pos[p] \in Scripts /\ k + 1 \in 0..N
    BY <2>1, MigrateAssumption DEF Commit, MigrateInv, LockHeld, Scripts
  <2> USE MigrateAssumption DEF MigrateInv, Enter, Phases
  <2>3. MigrateTypeOK'
    <3>1. pos[p] + 1 \in 1..(N + 1)
      BY <2>2 DEF Scripts
    <3>2. recorded' \subseteq Scripts
      BY <1>2, <2>2 DEF MigrateTypeOK
    <3>3. pos' \in [Processes -> 1..(N + 1)]
      BY <1>2, <3>1 DEF MigrateTypeOK
    <3>4. applied' \in [Scripts -> Nat]
      BY <1>2, <2>2 DEF MigrateTypeOK
    <3>5. QED
      BY <1>2, <3>2, <3>3, <3>4 DEF MigrateTypeOK
  <2>4. OnceInOrder'
    <3>1. recorded' = 1..(k + 1)
      BY <1>2, <2>1
    <3>2. applied' = [f \in Scripts |-> IF f <= k + 1 THEN 1 ELSE 0]
      <4>1. applied[k + 1] = 0
        BY <2>1, <2>2 DEF Scripts
      <4>2. /\ DOMAIN applied' = Scripts
            /\ applied'[k + 1] = 1
            /\ \A f \in Scripts \ {k + 1} : applied'[f] = applied[f]
        BY <1>2, <2>1, <2>2, <4>1
      <4>3. applied' = [f \in Scripts |-> applied'[f]]
        BY <1>2, <2>1
      <4>4. \A f \in Scripts : f <= k + 1 <=> f <= k \/ f = k + 1
        BY DEF Scripts
      <4>5. \A f \in Scripts : applied'[f] = (IF f <= k + 1 THEN 1 ELSE 0)
        BY <2>1, <4>2, <4>4
      <4>6. QED
        BY <4>5, <4>3
    <3>3. QED
      BY <2>2, <3>1, <3>2 DEF OnceInOrder
  <2>5. LockHeld' /\ CommitIsNew'
    <3>1. \A q \in Processes \ {p} : phase'[q] = phase[q] /\ phase[q] \notin {"record", "commit"}
      BY <1>2 DEF Commit, LockHeld, MigrateTypeOK
    <3>2. phase'[p] = "count" /\ \A q \in Processes \ {p} : pos'[q] = pos[q]
      BY <1>2 DEF MigrateTypeOK
    <3>3. QED
      BY <3>1, <3>2 DEF LockHeld, CommitIsNew
  <2>6. SeenRecorded'
    <3>1. pos'[p] - 1 = k + 1 /\ 1..(k + 1) \subseteq recorded'
      BY <1>2, <2>1 DEF MigrateTypeOK
    <3>2. \A q \in Processes \ {p} : pos'[q] = pos[q] /\ phase'[q] = phase[q]
      BY <1>2 DEF MigrateTypeOK
    <3>3. recorded \subseteq recorded'
      BY <1>2
    <3>4. QED
      BY <3>1, <3>2, <3>3 DEF SeenRecorded
  <2>7. ReadyHasSchema'
    BY <1>2, <2>2 DEF ReadyHasSchema, MigrateTypeOK
  <2>8. QED
    BY <2>3, <2>4, <2>5, <2>6, <2>7
<1>3. QED
  BY <1>1, <1>2, FaultType DEF Commit, MigrateInv

LEMMA CreateAdminInv == ASSUME MigrateInv, NEW p \in Processes, CreateAdmin(p) PROVE MigrateInv'
<1> USE DEF MigrateInv, CreateAdmin, Enter
<1>1. MigrateTypeOK'
  BY DEF MigrateTypeOK
<1>2. OnceInOrder'
  BY DEF OnceInOrder
<1>3. LockHeld' /\ CommitIsNew' /\ SeenRecorded' /\ ReadyHasSchema'
  BY DEF LockHeld, CommitIsNew, SeenRecorded, ReadyHasSchema, MigrateTypeOK, Phases
<1>4. QED
  BY <1>1, <1>2, <1>3

LEMMA NextInv == MigrateInv /\ [MigrateNext]_migrateVars => MigrateInv'
<1> SUFFICES ASSUME MigrateInv, [MigrateNext]_migrateVars PROVE MigrateInv'
  OBVIOUS
<1>1. ASSUME NEW p \in Processes, Run(p) PROVE MigrateInv'
  BY <1>1, CountInv, ScriptInv, RecordInv, CommitInv, CreateAdminInv DEF Run
<1>2. ASSUME NEW p \in Processes, KillProcess(p) PROVE MigrateInv'
  BY <1>2, FailInv, FaultType DEF KillProcess, MigrateInv
<1>3. CASE UNCHANGED migrateVars
  BY <1>3 DEF migrateVars, dbVars, MigrateInv, MigrateTypeOK, OnceInOrder, LockHeld, CommitIsNew, SeenRecorded,
              ReadyHasSchema
<1>4. QED
  BY <1>1, <1>2, <1>3, StartInv DEF MigrateNext

\* The invariant above holds for every number of processes, scripts and faults.
THEOREM MigrateInvariance == MigrateSpec => []MigrateInv
<1>1. QED
  BY InitInv, NextInv, PTL DEF MigrateSpec

\* Whatever starts overlap, fail or are killed, the database holds the effect
\* of the first scripts, each run once, and records exactly those.
THEOREM MigratesOnceInOrder == MigrateSpec => []OnceInOrder
<1>1. MigrateInv => OnceInOrder
  BY DEF MigrateInv
<1>2. QED
  BY <1>1, MigrateInvariance, PTL

\* No process serves before every script is applied.
THEOREM ServesOnSchema == MigrateSpec => []ReadyHasSchema
<1>1. MigrateInv => ReadyHasSchema
  BY DEF MigrateInv
<1>2. QED
  BY <1>1, MigrateInvariance, PTL

-----------------------------------------------------------------------------
(* Volumes: what a request is at, by what it was asked to do               *)

Adding == {"blkid", "add_read", "append"}
Removing == {"remove_read", "truncate", "rewrite"}
StepsOf == [create  |-> {"mkfs", "mount"} \cup Adding,
            mount   |-> {"mount"} \cup Adding,
            unmount |-> {"umount"} \cup Removing,
            wipe    |-> {"find", "umount", "wipefs"} \cup Removing,
            stop    |-> {"find", "umount", "stop"} \cup Removing]

HasJob(r) ==
  /\ pc[r] = "new" => job[r] = NoJob
  /\ pc[r] \in Steps =>
       /\ job[r] \in Jobs /\ pc[r] \in StepsOf[job[r].op]
       /\ job[r].op # "unmount" => job[r].array \in Arrays
       /\ pc[r] = "find" => job[r].mp = None
       /\ pc[r] \notin {"find", "wipefs", "stop"} => job[r].mp \in MountPoints
       /\ pc[r] \in {"add_read", "append"} => source[r] # None

Typed == TypeOK /\ \A r \in Requests : HasJob(r)

\* A filesystem is the one of the request that made it.
MadeBy ==
  \A a \in Arrays : fs[a] # None =>
    job[fs[a]].op = "create" /\ job[fs[a]].array = a

-----------------------------------------------------------------------------
(* What holds without a mishap: requests are served one at a time, and     *)
(* what is mounted, or listed, is what somebody asked for.                 *)

Serial == \A q, r \in Active : q = r

\* Somebody asked for the array under the text, or at the directory.
Named(a, mp) ==
  \E r \in Requests : job[r].op \in {"create", "mount"} /\ job[r].array = a /\ job[r].mp = mp
Wanted(a, d) == \E r \in Mounting(d) : job[r].array = a
\* The line names a filesystem by the UUID it was made with.
LineOK(line) ==
  /\ line[1] \in Requests /\ job[line[1]].op = "create"
  /\ Named(job[line[1]].array, line[2])
Task(r) == <<job[r].array, Dir[job[r].mp]>>

Progress(r) ==
  /\ pc[r] \in Adding => Task(r) \in mounts
  /\ pc[r] \in {"add_read", "append"} => source[r] # None /\ source[r] = fs[job[r].array]
  /\ pc[r] = "truncate" => fstabRead[r] = fstab
  /\ pc[r] = "rewrite" => \A i \in DOMAIN fstabRead[r] : LineOK(fstabRead[r][i])

AllWanted ==
  /\ \A m \in mounts : Wanted(m[1], m[2])
  /\ \A i \in DOMAIN fstab : LineOK(fstab[i])
AsAsked == Serial /\ AllWanted /\ \A r \in Requests : Progress(r)

-----------------------------------------------------------------------------
(* What holds, besides, of the mounts and places with a plain name         *)

Solo(d) == NamedPlainly(d) /\ NotShared(d)
Leads(lines, m) == \E i \in DOMAIN lines : LeadsTo(lines[i], m)
Empty(lines, d) == \A i \in DOMAIN lines : LinePlace(lines[i][2]) # d

\* Between the truncation of fstab and its rewriting no line leads to a mount, and
\* a request that mounts adds the line later.
Listed ==
  (\A r \in Requests : pc[r] # "rewrite") =>
    \A m \in mounts :
      Owned(m) => Leads(fstab, m) \/ \E r \in Requests : pc[r] \in Adding /\ m = Task(r)

\* A request that removes lines has unmounted what they lead to; and what it writes
\* back leads to every mount.
Freed(r) ==
  /\ pc[r] = "rewrite" => \A m \in mounts : Owned(m) => Leads(fstabRead[r], m)
  /\ pc[r] \in Removing =>
       /\ \A m \in mounts : Owned(m) => Shown[m[2]] # job[r].mp
       /\ job[r].op = "unmount" /\ Solo(Dir[job[r].mp]) =>
            \A m \in mounts : m[2] # Dir[job[r].mp]

\* A place that is gone is neither mounted nor listed, nor about to be.
Vacant ==
  \A d \in gone : Solo(d) =>
    /\ \A m \in mounts : m[2] # d
    /\ Empty(fstab, d)
    /\ \A r \in Requests : pc[r] = "rewrite" => Empty(fstabRead[r], d)
    /\ \A r \in Active : r \notin Mounting(d)

InOrder == Listed /\ (\A r \in Requests : Freed(r)) /\ Vacant

VolumesInv ==
  /\ Typed /\ MadeBy
  /\ ~mishap => AsAsked /\ InOrder

-----------------------------------------------------------------------------
(* The same of one request, when no other is being served                  *)

Alone(r) == \A q \in Requests : q # r => pc[q] \notin Steps
AskedBy(r) == AllWanted /\ Progress(r)
ListedBy(r) ==
  pc[r] # "rewrite" =>
    \A m \in mounts : Owned(m) => Leads(fstab, m) \/ (pc[r] \in Adding /\ m = Task(r))
VacantBy(r) ==
  \A d \in gone : Solo(d) =>
    /\ \A m \in mounts : m[2] # d
    /\ Empty(fstab, d)
    /\ pc[r] = "rewrite" => Empty(fstabRead[r], d)
    /\ pc[r] \in Steps => r \notin Mounting(d)
InOrderBy(r) == ListedBy(r) /\ Freed(r) /\ VacantBy(r)

\* What a step of any request leaves of what the requests were asked to do.
JobsStay ==
  \A q \in Requests : job[q].op \in Ops =>
    /\ job'[q].op = job[q].op /\ job'[q].array = job[q].array /\ job'[q].typed = job[q].typed
    /\ job[q].mp # None \/ job[q].op \notin {"wipe", "stop"} => job'[q].mp = job[q].mp

-----------------------------------------------------------------------------
(* Induction over numbers, by the least one that fails                     *)

LEMMA Least ==
  ASSUME NEW T \in SUBSET Nat, T # {}
  PROVE  \E n \in T : \A m \in T : n <= m
<1> DEFINE Belows == {0 .. n : n \in T}
<1>1. Belows \in SUBSET FiniteSubsetsOf(Nat) /\ Belows # {}
  <2>1. ASSUME NEW n \in T PROVE 0 .. n \in FiniteSubsetsOf(Nat)
    BY FS_Interval DEF FiniteSubsetsOf
  <2>2. QED
    BY <2>1
<1>2. PICK b \in Belows : \A c \in Belows : <<c, b>> \notin StrictSubsetOrdering(Nat)
  <2> HIDE DEF Belows
  <2> QED
    BY <1>1, FS_StrictSubsetOrderingWellFounded, WFMin
<1>3. PICK n \in T : b = 0 .. n
  OBVIOUS
<1>4. ASSUME NEW m \in T, m < n PROVE FALSE
  <2>1. 0 .. m \in Belows /\ 0 .. m \subseteq 0 .. n /\ n \in 0 .. n /\ n \notin 0 .. m
    BY <1>4
  <2>2. <<0 .. m, b>> \in StrictSubsetOrdering(Nat)
    BY <1>3, <2>1 DEF StrictSubsetOrdering
  <2>3. QED
    BY <1>2, <2>1, <2>2
<1>5. QED
  BY <1>4

LEMMA Induction ==
  ASSUME NEW S, 0 \in S, \A n \in Nat : n \in S => n + 1 \in S
  PROVE  Nat \subseteq S
<1> SUFFICES ASSUME Nat \ S # {} PROVE FALSE
  OBVIOUS
<1>1. PICK n \in Nat \ S : \A m \in Nat \ S : n <= m
  BY Least
<1>2. n # 0 /\ n - 1 \in Nat /\ n - 1 \in S
  BY <1>1
<1>3. QED
  BY <1>2

-----------------------------------------------------------------------------
(* What fstabRemove keeps of the lines                                     *)

\* The function that Others defines exists, and its equations hold.
LEMMA OthersComputed ==
  ASSUME NEW lines, NEW mp, Len(lines) \in Nat
  PROVE  \E k : /\ Others(lines, mp) = k[Len(lines)]
                /\ k[0] = <<>>
                /\ \A i \in 1 .. Len(lines) :
                     k[i] = IF Word[lines[i][2]] = mp THEN k[i - 1] ELSE Append(k[i - 1], lines[i])
<1> DEFINE n == Len(lines)
           Step(k, i) == IF i = 0 THEN <<>>
                         ELSE IF Word[lines[i][2]] = mp THEN k[i - 1] ELSE Append(k[i - 1], lines[i])
           Computed(k, m) == k = [i \in 0 .. m |-> Step(k, i)]
           Reached == {m \in Nat : \E k : Computed(k, m)}
<1>1. Nat \subseteq Reached
  <2>1. 0 \in Reached
    <3>1. [i \in 0 .. 0 |-> <<>>] = [i \in 0 .. 0 |-> Step([j \in 0 .. 0 |-> <<>>], i)]
      OBVIOUS
    <3>2. QED
      BY <3>1
  <2>2. ASSUME NEW m \in Nat, m \in Reached PROVE m + 1 \in Reached
    <3>1. PICK k : Computed(k, m)
      BY <2>2
    <3> DEFINE j == [i \in 0 .. m + 1 |-> Step(k, i)]
    <3>2. ASSUME NEW i \in 0 .. m + 1 PROVE Step(k, i) = Step(j, i)
      <4>1. CASE i = 0
        BY <4>1
      <4>2. CASE i # 0
        <5>1. i - 1 \in 0 .. m /\ i - 1 \in 0 .. m + 1
          BY <3>2, <4>2
        <5>2. j[i - 1] = k[i - 1]
          BY <3>1, <5>1
        <5> QED
          BY <5>2
      <4> QED BY <4>1, <4>2
    <3>3. Computed(j, m + 1)
      BY <3>2
    <3> HIDE DEF j, Computed
    <3>4. QED
      BY <3>3
  <2> HIDE DEF Reached
  <2>3. QED
    BY <2>1, <2>2, Induction
<1> DEFINE kept == CHOOSE k : k = [i \in 0 .. n |-> Step(k, i)]
<1>2. Others(lines, mp) = kept[n]
  BY DEF Others
<1>3. kept = [i \in 0 .. n |-> Step(kept, i)]
  BY <1>1
<1>4. \A i \in 0 .. n : kept[i] = Step(kept, i)
  <2> HIDE DEF kept
  <2> QED BY <1>3
<1>5. kept[0] = <<>> /\ \A i \in 1 .. n : kept[i] = IF Word[lines[i][2]] = mp THEN kept[i - 1] ELSE Append(kept[i - 1], lines[i])
  <2> HIDE DEF kept
  <2> QED BY <1>4
<1>6. QED
  <2> HIDE DEF kept
  <2> QED BY <1>2, <1>5

\* The lines with another text, and no others.
Keeps(kept, lines, mp) ==
  \A line : (\E i \in DOMAIN kept : kept[i] = line)
        <=> (\E i \in DOMAIN lines : lines[i] = line /\ Word[line[2]] # mp)

LEMMA OthersKept ==
  ASSUME NEW lines \in Seq(Lines), NEW mp
  PROVE  Others(lines, mp) \in Seq(Lines) /\ Keeps(Others(lines, mp), lines, mp)
<1> DEFINE n == Len(lines)
<1>1. n \in Nat /\ DOMAIN lines = 1 .. n /\ \A i \in 1 .. n : lines[i] \in Lines
  OBVIOUS
<1>2. PICK k : /\ Others(lines, mp) = k[n]
               /\ k[0] = <<>>
               /\ \A i \in 1 .. n :
                    k[i] = IF Word[lines[i][2]] = mp THEN k[i - 1] ELSE Append(k[i - 1], lines[i])
  <2>1. Len(lines) \in Nat
    BY <1>1
  <2>2. \E k : /\ Others(lines, mp) = k[Len(lines)]
              /\ k[0] = <<>>
              /\ \A i \in 1 .. Len(lines) :
                   k[i] = IF Word[lines[i][2]] = mp THEN k[i - 1] ELSE Append(k[i - 1], lines[i])
    BY <2>1, OthersComputed
  <2>3. QED
    BY <2>2, Zenon
<1> DEFINE Kept(s, m) ==
             /\ s \in Seq(Lines)
             /\ \A line : (\E i \in 1 .. Len(s) : s[i] = line)
                      <=> (\E i \in 1 .. m : lines[i] = line /\ Word[line[2]] # mp)
           Right == {m \in Nat : m <= n => Kept(k[m], m)}
<1>3. Kept(k[0], 0)
  BY <1>2
<1>4. ASSUME NEW m \in Nat, NEW s, Kept(s, m), m + 1 <= n
      PROVE  /\ Word[lines[m + 1][2]] = mp => Kept(s, m + 1)
             /\ Word[lines[m + 1][2]] # mp => Kept(Append(s, lines[m + 1]), m + 1)
  <2>1. PICK l \in Lines : l = lines[m + 1]
    BY <1>1, <1>4
  <2>2. \A i : i \in 1 .. m + 1 <=> (i \in 1 .. m \/ i = m + 1)
    OBVIOUS
  <2>3. CASE Word[l[2]] = mp
    <3>1. Kept(s, m + 1)
      BY <1>4, <2>1, <2>2, <2>3
    <3> QED BY <2>1, <2>3, <3>1
  <2>4. CASE Word[l[2]] # mp
    <3> DEFINE t == Append(s, l)
    <3>1. /\ t \in Seq(Lines) /\ Len(t) = Len(s) + 1 /\ Len(s) \in Nat
          /\ \A i \in 1 .. Len(s) : t[i] = s[i]
          /\ t[Len(s) + 1] = l
      BY <1>4, AppendProperties
    <3>2. \A i : i \in 1 .. Len(t) <=> (i \in 1 .. Len(s) \/ i = Len(t))
      BY <3>1
    <3> HIDE DEF t
    <3>3. \A line : (\E i \in 1 .. Len(t) : t[i] = line) <=> (line = l \/ \E i \in 1 .. Len(s) : s[i] = line)
      BY <3>1, <3>2
    <3>4. \A line : (\E i \in 1 .. m + 1 : lines[i] = line /\ Word[line[2]] # mp)
                <=> (line = l \/ \E i \in 1 .. m : lines[i] = line /\ Word[line[2]] # mp)
      BY <2>1, <2>2, <2>4
    <3>5. Kept(t, m + 1)
      BY <1>4, <3>1, <3>3, <3>4
    <3>6. QED
      BY <2>1, <2>4, <3>5 DEF t
  <2>5. QED
    BY <2>3, <2>4
<1> HIDE DEF Kept
<1>5. ASSUME NEW m \in Nat, m \in Right PROVE m + 1 \in Right
  BY <1>1, <1>2, <1>4, <1>5
<1>6. Nat \subseteq Right
  <2>1. 0 \in Right
    BY <1>3
  <2> HIDE DEF Right
  <2>2. QED
    BY <1>5, <2>1, Induction
<1>7. Kept(k[n], n)
  BY <1>1, <1>6
<1>8. PICK t : t = Others(lines, mp)
  OBVIOUS
<1>9. DOMAIN t = 1 .. Len(t) /\ Kept(t, n)
  BY <1>2, <1>7, <1>8 DEF Kept
<1>10. QED
  BY <1>1, <1>8, <1>9 DEF Kept, Keeps

-----------------------------------------------------------------------------
(* Types                                                                   *)

LEMMA VolumesInitTyped == Init => Typed
<1> SUFFICES ASSUME Init PROVE Typed
  OBVIOUS
<1> USE VolumesAssumption DEF Init
<1>1. name \in [Arrays -> Names]
  OBVIOUS
<1>2. TypeOK
  <2>1. fs \in [Arrays -> UUIDs \cup {None}] /\ fstab \in Seq(Lines)
    OBVIOUS
  <2>2. pc \in [Requests -> {"new"} \cup Steps \cup Answers]
    OBVIOUS
  <2>3. job \in [Requests -> Jobs \cup {NoJob}]
    OBVIOUS
  <2>4. source \in [Requests -> Sources \cup {None}] /\ fstabRead \in [Requests -> Seq(Lines)]
    OBVIOUS
  <2>5. QED
    BY <1>1, <2>1, <2>2, <2>3, <2>4 DEF TypeOK
<1>3. \A r \in Requests : HasJob(r)
  BY DEF HasJob, Steps
<1>4. QED
  BY <1>2, <1>3 DEF Typed

LEMMA KillTypes ==
  ASSUME Typed, Kill, UNCHANGED job
  PROVE  /\ pc' \in [Requests -> {"new"} \cup Steps \cup Answers]
         /\ source' \in [Requests -> Sources \cup {None}]
         /\ fstabRead' \in [Requests -> Seq(Lines)]
         /\ \A r \in Requests : HasJob(r)'
<1> USE DEF Typed, TypeOK, Kill, Answers, Active
<1>1. /\ pc' \in [Requests -> {"new"} \cup Steps \cup Answers]
      /\ source' \in [Requests -> Sources \cup {None}]
      /\ fstabRead' \in [Requests -> Seq(Lines)]
  OBVIOUS
<1>2. \A r \in Requests : pc'[r] \notin Steps /\ (pc'[r] = "new" => pc[r] = "new")
  BY DEF Steps
<1>3. QED
  BY <1>1, <1>2 DEF HasJob

\* A request knows its array and its place when it needs them.
LEMMA JobKnown ==
  ASSUME Typed, NEW r \in Requests, pc[r] \in Steps
  PROVE  /\ job[r].op \in Ops /\ pc[r] \in StepsOf[job[r].op]
         /\ job[r].op # "unmount" => job[r].array \in Arrays
         /\ pc[r] \notin {"find", "wipefs", "stop"} => job[r].mp \in MountPoints
         /\ job[r].mp \in MountPoints \cup {None}
         /\ job[r].array \in Arrays \cup {None}
<1>1. PICK j : j = job[r]
  OBVIOUS
<1>2. HasJob(r) /\ j \in Jobs
  BY <1>1 DEF Typed, HasJob
<1>3. QED
  BY <1>1, <1>2 DEF HasJob, Jobs

\* A step of a request that keeps jobs and sources fits, if it goes where its kind does.
LEMMA GoesOn ==
  ASSUME Typed, NEW r \in Requests, pc[r] \in Steps, NEW s, Goto(r, s),
         UNCHANGED <<job, source>>,
         s \in Steps => /\ s \in StepsOf[job[r].op] /\ s # "find"
                        /\ s \notin {"wipefs", "stop"} => job[r].mp \in MountPoints
                        /\ s \in {"add_read", "append"} => source[r] # None,
         s \in Steps \cup Answers
  PROVE  pc' \in [Requests -> {"new"} \cup Steps \cup Answers] /\ \A q \in Requests : HasJob(q)'
<1>1. pc' \in [Requests -> {"new"} \cup Steps \cup Answers]
  BY DEF Typed, TypeOK, Goto
<1>2. ASSUME NEW q \in Requests PROVE HasJob(q)'
  <2>1. CASE q # r
    <3>1. pc'[q] = pc[q]
      BY <2>1 DEF Typed, TypeOK, Goto
    <3>2. QED
      BY <3>1 DEF Typed, HasJob
  <2>2. CASE q = r
    <3>1. pc'[r] = s /\ s # "new"
      BY DEF Typed, TypeOK, Goto, Steps, Answers
    <3>2. job[r] \in Jobs /\ (job[r].op # "unmount" => job[r].array \in Arrays)
      BY DEF Typed, HasJob
    <3>3. QED
      BY <2>2, <3>1, <3>2 DEF HasJob
  <2>3. QED
    BY <2>1, <2>2
<1>3. QED
  BY <1>1, <1>2

LEMMA FailsTyped == ASSUME Typed, NEW r \in Requests, pc[r] \in Steps, Fails(r) PROVE Typed'
<1>1. pc' \in [Requests -> {"new"} \cup Steps \cup Answers] /\ \A q \in Requests : HasJob(q)'
  BY GoesOn DEF Fails, Steps, Answers
<1>2. QED
  BY <1>1 DEF Fails, Typed, TypeOK

LEMMA AddingTyped ==
  ASSUME Typed, NEW r \in Requests,
         Mkfs(r) \/ Mount(r) \/ Blkid(r) \/ AddRead(r) \/ AddLine(r)
  PROVE  Typed'
<1>1. pc[r] \in {"mkfs", "mount", "blkid", "add_read", "append"}
  BY DEF Mkfs, Mount, Blkid, AddRead, AddLine, At
<1>2. PICK a, mp : a = job[r].array /\ mp = job[r].mp
  OBVIOUS
<1>3. job[r].op \in {"create", "mount"} /\ a \in Arrays /\ mp \in MountPoints /\ pc[r] \in Steps
  BY <1>1, <1>2, JobKnown DEF StepsOf, Adding, Removing, Ops, Steps
<1>4. \A s : s \in Steps \cup Answers /\ (s \in Steps => s \in {"mount"} \cup Adding /\ (s \in {"add_read", "append"} => source[r] # None))
      /\ Goto(r, s) /\ UNCHANGED <<job, source>>
      => pc' \in [Requests -> {"new"} \cup Steps \cup Answers] /\ \A q \in Requests : HasJob(q)'
  <2>1. \A s \in {"mount"} \cup Adding : s \in StepsOf[job[r].op] /\ s \notin {"find", "wipefs", "stop"}
    BY <1>3 DEF StepsOf, Adding
  <2>2. job[r].mp \in MountPoints
    BY <1>2, <1>3
  <2>3. QED
    BY <1>3, <2>1, <2>2, GoesOn
<1> USE VolumesAssumption DEF Typed, TypeOK, At
<1>5. CASE Fails(r)
  BY <1>3, <1>5, FailsTyped
<1>6. CASE Mkfs(r) /\ ~Fails(r)
  <2>1. fs' = [fs EXCEPT ![a] = r] /\ Goto(r, "mount")
        /\ UNCHANGED <<name, mounts, fstab, job, source, fstabRead, gone, mishap>>
    BY <1>2, <1>6 DEF Mkfs
  <2>2. pc' \in [Requests -> {"new"} \cup Steps \cup Answers] /\ \A q \in Requests : HasJob(q)'
    BY <1>4, <2>1 DEF Steps
  <2>3. QED
    BY <1>3, <2>1, <2>2 DEF UUIDs
<1>7. CASE Mount(r) /\ ~Fails(r)
  <2>1. mounts' = mounts \cup {<<a, Dir[mp]>>} /\ Goto(r, "blkid") /\ Dir[mp] \in Directories
        /\ UNCHANGED <<name, fs, fstab, job, source, fstabRead, gone, mishap>>
    BY <1>2, <1>3, <1>7 DEF Mount
  <2>2. pc' \in [Requests -> {"new"} \cup Steps \cup Answers] /\ \A q \in Requests : HasJob(q)'
    BY <1>4, <2>1 DEF Steps, Adding
  <2>3. QED
    BY <1>3, <2>1, <2>2
<1>8. CASE Blkid(r)
  <2>1. /\ source' \in {[source EXCEPT ![r] = fs[a]], [source EXCEPT ![r] = name[a]]}
        /\ fs[a] # None \/ source' = [source EXCEPT ![r] = name[a]]
        /\ source'[r] \in Sources
        /\ Goto(r, "add_read")
        /\ mishap' \in {mishap, TRUE}
        /\ UNCHANGED <<name, fs, mounts, fstab, job, fstabRead, gone>>
    <3>1. fs[a] # None => fs[a] \in Sources
      BY <1>3 DEF Sources
    <3>2. name[a] \in Sources
      BY <1>3 DEF Sources
    <3>3. CASE fs[a] # None /\ source' = [source EXCEPT ![r] = fs[a]] /\ UNCHANGED mishap
      BY <1>2, <1>8, <3>1, <3>3 DEF Blkid
    <3>4. CASE source' = [source EXCEPT ![r] = name[a]] /\ mishap' = TRUE
      BY <1>2, <1>8, <3>2, <3>4 DEF Blkid
    <3>5. QED
      BY <1>2, <1>8, <3>3, <3>4 DEF Blkid
  <2>2. source'[r] # None
    BY <2>1 DEF Sources, UUIDs
  <2>3. ASSUME NEW q \in Requests PROVE HasJob(q)'
    <3>1. CASE q # r
      <4>1. pc'[q] = pc[q] /\ source'[q] = source[q]
        BY <2>1, <3>1 DEF Goto
      <4>2. QED
        BY <2>1, <4>1 DEF HasJob
    <3>2. CASE q = r
      <4>1. pc'[r] = "add_read" /\ HasJob(r)
        BY <2>1 DEF Goto
      <4>2. QED
        BY <1>2, <1>3, <2>1, <2>2, <3>2, <4>1 DEF HasJob, StepsOf, Adding
    <3>3. QED
      BY <3>1, <3>2
  <2>4. QED
    BY <1>3, <2>1, <2>3 DEF Goto, Sources, Steps
<1>9. CASE AddRead(r)
  <2>1. PICK s \in {"ok", "append"} : Goto(r, s)
    BY <1>9 DEF AddRead
  <2>2. mishap' \in {mishap, TRUE} /\ UNCHANGED <<name, fs, mounts, fstab, job, source, fstabRead, gone>>
    BY <1>9 DEF AddRead
  <2>3. source[r] # None
    BY <1>9 DEF HasJob, AddRead, Steps
  <2>4. pc' \in [Requests -> {"new"} \cup Steps \cup Answers] /\ \A q \in Requests : HasJob(q)'
    BY <1>4, <2>1, <2>2, <2>3 DEF Adding, Steps, Answers
  <2>5. QED
    BY <2>2, <2>4
<1>10. CASE AddLine(r)
  <2>1. source[r] \in Sources
    BY <1>10 DEF HasJob, AddLine, Steps
  <2>2. PICK e \in Lines : e = Entry(r)
    <3>1. job[r].typed \in BOOLEAN
      <4>1. PICK j \in Jobs : j = job[r]
        BY <1>3 DEF HasJob
      <4>2. QED
        BY <4>1 DEF Jobs
    <3>2. QED
      BY <1>2, <1>3, <2>1, <3>1 DEF Lines, Entry
  <2>3. fstab' = Append(fstab, e) /\ source' = [source EXCEPT ![r] = None]
        /\ Goto(r, "ok") /\ UNCHANGED <<name, fs, mounts, job, fstabRead, gone, mishap>>
    BY <1>10, <2>2 DEF AddLine
  <2>4. ASSUME NEW q \in Requests PROVE HasJob(q)'
    <3>1. pc'[q] = IF q = r THEN "ok" ELSE pc[q]
      BY <2>3 DEF Goto
    <3>2. q # r => source'[q] = source[q]
      BY <2>3
    <3>3. QED
      BY <2>3, <3>1, <3>2 DEF HasJob, Steps
  <2>5. QED
    BY <2>2, <2>3, <2>4, AppendProperties DEF Goto, Answers
<1>11. QED
  BY <1>5, <1>6, <1>7, <1>8, <1>9, <1>10

LEMMA BeginTyped == ASSUME Typed, NEW r \in Requests, NEW j \in Asks, Begin(r, j) PROVE Typed'
<1>1. /\ job' = [job EXCEPT ![r] = j] /\ Goto(r, FirstStep[j.op])
      /\ gone' \subseteq gone /\ mishap' \in BOOLEAN
      /\ UNCHANGED <<name, fs, mounts, fstab, source, fstabRead>>
  BY DEF Begin, Typed, TypeOK
<1>2. j \in Jobs /\ j.op \in Ops /\ FirstStep[j.op] \in StepsOf[j.op] \cap {"mkfs", "mount", "umount", "find"}
  BY DEF Asks, Jobs, Ops, FirstStep, StepsOf
<1>3. /\ j.op # "unmount" => j.array \in Arrays
      /\ FirstStep[j.op] = "find" => j.mp = None
      /\ FirstStep[j.op] # "find" => j.mp \in MountPoints
  <2>1. CASE j.op \in {"wipe", "stop"}
    BY <2>1 DEF Asks, FirstStep, Jobs
  <2>2. CASE j.op = "unmount"
    <3>1. \E t \in Targets : j.mp \in {t[2], Shown[Dir[t[2]]]}
      BY <2>2 DEF Asks
    <3>2. j.mp \in MountPoints
      BY <3>1, VolumesAssumption
    <3>3. QED
      BY <2>2, <3>2 DEF FirstStep
  <2>3. CASE j.op \in {"create", "mount"}
    <3>1. <<j.array, j.mp>> \in Targets
      BY <2>3 DEF Asks
    <3>2. j.array \in Arrays /\ j.mp \in MountPoints
      BY <3>1, VolumesAssumption
    <3>3. QED
      BY <2>3, <3>2 DEF FirstStep
  <2>4. QED
    BY <1>2, <2>1, <2>2, <2>3 DEF Ops
<1>4. TypeOK'
  BY <1>1, <1>2 DEF Typed, TypeOK, Goto, Steps
<1>5. ASSUME NEW q \in Requests PROVE HasJob(q)'
  <2>1. CASE q # r
    <3>1. pc'[q] = pc[q] /\ job'[q] = job[q]
      BY <1>1, <2>1 DEF Typed, TypeOK, Goto
    <3>2. QED
      BY <1>1, <3>1 DEF Typed, HasJob
  <2>2. CASE q = r
    <3>1. pc'[r] = FirstStep[j.op] /\ job'[r] = j
      BY <1>1 DEF Typed, TypeOK, Goto
    <3>2. QED
      BY <1>2, <1>3, <2>2, <3>1 DEF HasJob
  <2>3. QED
    BY <2>1, <2>2
<1>6. QED
  BY <1>4, <1>5 DEF Typed

LEMMA FindTyped == ASSUME Typed, NEW r \in Requests, Find(r) PROVE Typed'
<1>1. pc[r] = "find" /\ HasJob(r)
  BY DEF Find, At, Typed
<1>2. PICK j \in Jobs : j = job[r] /\ j.op \in {"wipe", "stop"} /\ j.array \in Arrays
  <2>1. job[r] \in Jobs
    BY <1>1 DEF HasJob, Steps
  <2>2. job[r].op \in {"wipe", "stop"} /\ job[r].array \in Arrays
    BY <1>1, JobKnown DEF Steps, StepsOf, Adding, Removing, Ops
  <2>3. QED
    BY <2>1, <2>2
<1>3. PICK mp \in MountPoints \cup {None}, s \in {"umount", "stop", "remove_read"} :
        /\ job' = [job EXCEPT ![r].mp = mp] /\ Goto(r, s)
        /\ s \in StepsOf[j.op]
        /\ mp = None => s = "stop"
  <2>1. PICK mp \in MountPoints \cup {None} :
       /\ job' = [job EXCEPT ![r].mp = mp]
       /\ \/ mp \in MountPointsOf(j.array) /\ Goto(r, "umount")
          \/ j.op = "stop" /\ mp = None /\ Goto(r, "stop")
          \/ /\ j.op = "wipe"
             /\ mp \in FstabMountPoints(j.array) \/ mp = DefaultMount[name[j.array]]
             /\ Goto(r, "remove_read")
    BY <1>2 DEF Find
  <2>2. MountPointsOf(j.array) \subseteq MountPoints
    BY VolumesAssumption DEF MountPointsOf, Typed, TypeOK
  <2>3. FstabMountPoints(j.array) \subseteq MountPoints
    BY VolumesAssumption DEF FstabMountPoints, Typed, TypeOK, Lines
  <2>4. DefaultMount[name[j.array]] \in MountPoints
    BY <1>2, VolumesAssumption DEF Typed, TypeOK
  <2>5. None \notin MountPoints
    BY VolumesAssumption
  <2>6. "umount" \in StepsOf[j.op]
    BY <1>2 DEF StepsOf
  <2>7. /\ j.op = "stop" => "stop" \in StepsOf[j.op]
        /\ j.op = "wipe" => "remove_read" \in StepsOf[j.op]
    BY DEF StepsOf, Removing
  <2>8. \E s \in {"umount", "stop", "remove_read"} :
          Goto(r, s) /\ s \in StepsOf[j.op] /\ (mp = None => s = "stop")
    BY <2>1, <2>2, <2>3, <2>4, <2>5, <2>6, <2>7
  <2>9. QED
    BY <2>1, <2>8
<1>4. PICK i : i = [j EXCEPT !.mp = mp]
  OBVIOUS
<1>5. i \in Jobs /\ i.op = j.op /\ i.array = j.array /\ i.mp = mp
  BY <1>2, <1>4 DEF Jobs
<1>6. job' = [job EXCEPT ![r] = i]
  BY <1>2, <1>3, <1>4
<1>7. UNCHANGED <<name, fs, mounts, fstab, source, fstabRead, gone>> /\ mishap' \in BOOLEAN
  BY DEF Find, Typed, TypeOK
<1>8. TypeOK'
  BY <1>3, <1>5, <1>6, <1>7 DEF Typed, TypeOK, Goto, Steps
<1>9. ASSUME NEW q \in Requests PROVE HasJob(q)'
  <2>1. CASE q # r
    <3>1. pc'[q] = pc[q] /\ job'[q] = job[q]
      BY <1>3, <1>6, <2>1 DEF Typed, TypeOK, Goto
    <3>2. QED
      BY <1>7, <3>1 DEF Typed, HasJob
  <2>2. CASE q = r
    <3>1. pc'[r] = s /\ job'[r] = i
      BY <1>3, <1>6 DEF Typed, TypeOK, Goto
    <3>2. QED
      BY <1>2, <1>3, <1>5, <2>2, <3>1 DEF HasJob, Steps
  <2>3. QED
    BY <2>1, <2>2
<1>10. QED
  BY <1>8, <1>9 DEF Typed

LEMMA RemovingTyped ==
  ASSUME Typed, NEW r \in Requests,
         Umount(r) \/ RemoveRead(r) \/ Truncate(r) \/ Rewrite(r) \/ Erase(r)
  PROVE  Typed'
<1>1. pc[r] \in {"umount", "remove_read", "truncate", "rewrite", "wipefs", "stop"}
  BY DEF Umount, RemoveRead, Truncate, Rewrite, Erase, At
<1>2. /\ job[r].op \in {"unmount", "wipe", "stop"} /\ pc[r] \in Steps
      /\ pc[r] \notin {"wipefs", "stop"} => job[r].mp \in MountPoints
  BY <1>1, JobKnown DEF StepsOf, Adding, Ops, Steps
<1>3. \A s : s \in Steps \cup Answers
      /\ (s \in Steps => s \in StepsOf[job[r].op] \ {"find", "add_read", "append"}
                         /\ (s \notin {"wipefs", "stop"} => job[r].mp \in MountPoints))
      /\ Goto(r, s) /\ UNCHANGED <<job, source>>
      => pc' \in [Requests -> {"new"} \cup Steps \cup Answers] /\ \A q \in Requests : HasJob(q)'
  BY <1>2, GoesOn
<1>4. \A s \in Removing : s \in StepsOf[job[r].op] /\ s \in Steps
  BY <1>2 DEF StepsOf, Removing, Steps
<1>5. AfterRemove(r) /\ job[r].mp \in MountPoints /\ UNCHANGED <<job, source>> =>
        /\ gone' \subseteq gone \cup Directories
        /\ pc' \in [Requests -> {"new"} \cup Steps \cup Answers] /\ \A q \in Requests : HasJob(q)'
  <2>1. SUFFICES ASSUME AfterRemove(r), job[r].mp \in MountPoints, UNCHANGED <<job, source>>
        PROVE /\ gone' \subseteq gone \cup Directories
              /\ pc' \in [Requests -> {"new"} \cup Steps \cup Answers] /\ \A q \in Requests : HasJob(q)'
    OBVIOUS
  <2>2. gone' \subseteq gone \cup Directories
    BY <2>1, VolumesAssumption DEF AfterRemove
  <2>3. PICK s \in {"ok", "wipefs", "stop"} :
          Goto(r, s) /\ (s = "wipefs" => job[r].op = "wipe") /\ (s = "stop" => job[r].op = "stop")
    BY <2>1 DEF AfterRemove
  <2>4. s \in Steps \cup Answers /\ (s \in Steps => s \in StepsOf[job[r].op])
    BY <2>3 DEF Steps, Answers, StepsOf
  <2>5. QED
    BY <1>3, <2>1, <2>2, <2>3, <2>4
<1>6. CASE Fails(r)
  BY <1>2, <1>6, FailsTyped
<1>7. CASE Umount(r) /\ ~Fails(r)
  <2>1. /\ Goto(r, "remove_read") /\ mounts' \subseteq mounts /\ mishap' \in {mishap, TRUE}
        /\ UNCHANGED <<name, fs, fstab, job, source, fstabRead, gone>>
    BY <1>7 DEF Umount
  <2>2. job[r].mp \in MountPoints
    BY <1>2, <1>7 DEF Umount, At
  <2>3. pc' \in [Requests -> {"new"} \cup Steps \cup Answers] /\ \A q \in Requests : HasJob(q)'
    BY <1>3, <1>4, <2>1, <2>2 DEF Removing
  <2>4. QED
    BY <2>1, <2>3 DEF Typed, TypeOK
<1>8. CASE RemoveRead(r)
  <2>1. job[r].mp \in MountPoints
    BY <1>2, <1>8 DEF RemoveRead, At
  <2>2. UNCHANGED <<name, fs, mounts, fstab, job, source>>
    BY <1>8 DEF RemoveRead
  <2>3. CASE fstabRead' = [fstabRead EXCEPT ![r] = fstab] /\ Goto(r, "truncate") /\ UNCHANGED <<gone, mishap>>
    <3>1. pc' \in [Requests -> {"new"} \cup Steps \cup Answers] /\ \A q \in Requests : HasJob(q)'
      BY <1>3, <1>4, <2>1, <2>2, <2>3 DEF Removing
    <3>2. QED
      BY <2>2, <2>3, <3>1 DEF Typed, TypeOK
  <2>4. CASE AfterRemove(r) /\ mishap' = TRUE /\ UNCHANGED fstabRead
    <3>1. /\ gone' \subseteq gone \cup Directories
          /\ pc' \in [Requests -> {"new"} \cup Steps \cup Answers] /\ \A q \in Requests : HasJob(q)'
      BY <1>5, <2>1, <2>2, <2>4
    <3>2. QED
      BY <2>2, <2>4, <3>1 DEF Typed, TypeOK
  <2>5. QED
    BY <1>8, <2>3, <2>4 DEF RemoveRead
<1>9. CASE Truncate(r)
  <2>1. job[r].mp \in MountPoints
    BY <1>2, <1>9 DEF Truncate, At
  <2>2. /\ fstab' = <<>> /\ Goto(r, "rewrite")
        /\ UNCHANGED <<name, fs, mounts, job, source, fstabRead, gone, mishap>>
    BY <1>9 DEF Truncate
  <2>3. pc' \in [Requests -> {"new"} \cup Steps \cup Answers] /\ \A q \in Requests : HasJob(q)'
    BY <1>3, <1>4, <2>1, <2>2 DEF Removing
  <2>4. QED
    BY <2>2, <2>3 DEF Typed, TypeOK
<1>10. CASE Rewrite(r)
  <2>1. job[r].mp \in MountPoints
    BY <1>2, <1>10 DEF Rewrite, At
  <2>2. /\ fstab' = Others(fstabRead[r], job[r].mp) /\ fstabRead' = [fstabRead EXCEPT ![r] = <<>>]
        /\ AfterRemove(r) /\ UNCHANGED <<name, fs, mounts, job, source, mishap>>
    BY <1>10 DEF Rewrite
  <2>3. fstab' \in Seq(Lines) /\ fstabRead' \in [Requests -> Seq(Lines)]
    BY <2>2, OthersKept DEF Typed, TypeOK
  <2>4. /\ gone' \subseteq gone \cup Directories
        /\ pc' \in [Requests -> {"new"} \cup Steps \cup Answers] /\ \A q \in Requests : HasJob(q)'
    BY <1>5, <2>1, <2>2
  <2>5. QED
    BY <2>2, <2>3, <2>4 DEF Typed, TypeOK
<1>11. CASE Erase(r) /\ ~Fails(r)
  <2>1. /\ fs' = [fs EXCEPT ![job[r].array] = None] /\ Goto(r, "ok")
        /\ UNCHANGED <<name, mounts, fstab, job, source, fstabRead, gone, mishap>>
    BY <1>11 DEF Erase
  <2>2. pc' \in [Requests -> {"new"} \cup Steps \cup Answers] /\ \A q \in Requests : HasJob(q)'
    BY <1>3, <2>1 DEF Steps, Answers
  <2>3. QED
    BY <2>1, <2>2 DEF Typed, TypeOK
<1>12. QED
  BY <1>6, <1>7, <1>8, <1>9, <1>10, <1>11

LEMMA StepTyped == Typed /\ [Next]_vars => Typed'
<1> SUFFICES ASSUME Typed, [Next]_vars PROVE Typed'
  OBVIOUS
<1>1. ASSUME NEW ready \in SUBSET Arrays, NEW n \in Namings, Boot(ready, n) PROVE Typed'
  <2>1. mounts' \subseteq Arrays \X Directories /\ n \in [Arrays -> Names]
    BY <1>1 DEF Boot, Namings
  <2>2. QED
    BY <1>1, <2>1, KillTypes DEF Boot, Typed, TypeOK
<1>2. CASE Crash
  BY <1>2, KillTypes DEF Crash, Typed, TypeOK
<1>3. CASE UNCHANGED vars
  BY <1>3 DEF vars, requestVars, Typed, TypeOK, HasJob
<1>4. QED
  BY <1>1, <1>2, <1>3, BeginTyped, AddingTyped, FindTyped, RemovingTyped DEF Next, Continue

-----------------------------------------------------------------------------
(* One request at a time                                                   *)

LEMMA Singly ==
  ASSUME NEW r \in Requests, Alone(r)
  PROVE  (AsAsked => AskedBy(r)) /\ (InOrder => InOrderBy(r))
<1>1. AsAsked => AskedBy(r)
  BY DEF AsAsked, AskedBy, AllWanted
<1>2. ASSUME InOrder PROVE ListedBy(r)
  BY <1>2 DEF Alone, InOrder, Listed, ListedBy, Steps, Adding
<1>3. ASSUME InOrder PROVE VacantBy(r)
  BY <1>3 DEF InOrder, Vacant, VacantBy, Active
<1>4. QED
  BY <1>1, <1>2, <1>3 DEF InOrder, InOrderBy

LEMMA SinglyAfter ==
  ASSUME NEW r \in Requests, Alone(r)'
  PROVE  (AskedBy(r)' => AsAsked') /\ (InOrderBy(r)' => InOrder')
<1>1. \A q \in Requests : q # r =>
        pc'[q] \notin Steps /\ pc'[q] \notin Adding /\ pc'[q] \notin Removing
  BY DEF Alone, Steps, Adding, Removing
<1>2. ASSUME AskedBy(r)' PROVE AsAsked'
  <2>1. Serial'
    BY DEF Serial, Active, Alone
  <2>2. \A q \in Requests : Progress(q)'
    BY <1>1, <1>2 DEF AskedBy, Progress, Adding, Removing, Steps
  <2>3. QED
    BY <1>2, <2>1, <2>2 DEF AskedBy, AllWanted, AsAsked
<1>3. ASSUME InOrderBy(r)' PROVE InOrder'
  <2>1. Listed'
    BY <1>1, <1>3 DEF InOrderBy, ListedBy, Listed
  <2>2. \A q \in Requests : Freed(q)'
    BY <1>1, <1>3 DEF InOrderBy, Freed, Removing
  <2>3. Vacant'
    BY <1>1, <1>3 DEF InOrderBy, VacantBy, Vacant, Removing, Active
  <2>4. QED
    BY <2>1, <2>2, <2>3 DEF InOrder
<1>4. QED
  BY <1>2, <1>3

-----------------------------------------------------------------------------
(* What a request was asked to do stays                                    *)

LEMMA JobsStayInStep == Typed /\ [Next]_vars => JobsStay
<1> SUFFICES ASSUME Typed, [Next]_vars PROVE JobsStay
  OBVIOUS
<1>1. ASSUME NEW r \in Requests, NEW j \in Asks, Begin(r, j) PROVE JobsStay
  <2>1. job[r].op \notin Ops
    BY <1>1 DEF Begin, Typed, HasJob, NoJob, Ops
  <2>2. \A q \in Requests : q # r => job'[q] = job[q]
    BY <1>1 DEF Begin, Typed, TypeOK
  <2>3. QED
    BY <2>1, <2>2 DEF JobsStay
<1>2. ASSUME NEW r \in Requests, Find(r) PROVE JobsStay
  <2>1. job[r].mp = None /\ job[r] \in Jobs
    BY <1>2 DEF Find, At, Typed, HasJob, Steps
  <2>2. PICK mp : job' = [job EXCEPT ![r].mp = mp]
    BY <1>2 DEF Find
  <2>3. \A q \in Requests : q # r => job'[q] = job[q]
    BY <2>2 DEF Typed, TypeOK
  <2>4. job'[r] = [job[r] EXCEPT !.mp = mp]
    BY <2>2 DEF Typed, TypeOK
  <2>5. job'[r].op = job[r].op /\ job'[r].array = job[r].array /\ job'[r].typed = job[r].typed
    BY <2>1, <2>4 DEF Jobs
  <2>6. job[r].op \in {"wipe", "stop"}
    BY <1>2, JobKnown DEF Find, At, Steps, StepsOf, Adding, Removing, Ops
  <2>7. QED
    BY <2>1, <2>3, <2>5, <2>6 DEF JobsStay
<1>3. CASE UNCHANGED job
  BY <1>3 DEF JobsStay
<1>4. QED
  BY <1>1, <1>2, <1>3 DEF Next, Continue, Mkfs, Mount, Blkid, AddRead, AddLine, Umount,
    RemoveRead, Truncate, Rewrite, Erase, Fails, Boot, Crash, vars, requestVars

LEMMA AboutStays ==
  ASSUME JobsStay, NEW d, NEW q \in About(d)
  PROVE  /\ q \in Requests /\ q \in About(d)' /\ (q \in Mounting(d) => q \in Mounting(d)')
         /\ job'[q].op = job[q].op /\ job'[q].array = job[q].array
         /\ job'[q].mp = job[q].mp /\ job'[q].typed = job[q].typed
<1>1. q \in Requests /\ job[q].op \in {"create", "mount", "unmount"}
  BY DEF About
<1>2. /\ job'[q].op = job[q].op /\ job'[q].array = job[q].array
      /\ job'[q].mp = job[q].mp /\ job'[q].typed = job[q].typed
  BY <1>1 DEF JobsStay, Ops
<1>3. QED
  BY <1>1, <1>2 DEF About, Mounting, LinePlace

LEMMA WantedStays ==
  ASSUME JobsStay, NEW a, NEW d, Wanted(a, d) PROVE Wanted(a, d)'
<1>1. PICK q \in Mounting(d) : job[q].array = a
  BY DEF Wanted
<1>2. q \in Mounting(d)' /\ job'[q].array = a
  BY <1>1, AboutStays DEF Mounting
<1>3. QED
  BY <1>2 DEF Wanted

LEMMA LineStays ==
  ASSUME JobsStay, NEW line, LineOK(line) PROVE LineOK(line)'
<1>1. job[line[1]].op \in Ops /\ line[1] \in Requests
  BY DEF LineOK, Ops
<1>2. job'[line[1]].op = job[line[1]].op /\ job'[line[1]].array = job[line[1]].array
  BY <1>1 DEF JobsStay
<1>3. PICK q \in Requests : /\ job[q].op \in {"create", "mount"}
                            /\ job[q].array = job[line[1]].array /\ job[q].mp = line[2]
  BY DEF LineOK, Named
<1>4. job'[q].op = job[q].op /\ job'[q].array = job[q].array /\ job'[q].mp = job[q].mp
  BY <1>3 DEF JobsStay, Ops
<1>5. Named(job[line[1]].array, line[2])'
  BY <1>2, <1>3, <1>4 DEF Named
<1>6. QED
  BY <1>1, <1>2, <1>5 DEF LineOK

\* Fewer and fewer places are plain, and mounts owned.
LEMMA FewerSolo ==
  ASSUME JobsStay, NEW d
  PROVE  (NamedPlainly(d)' => NamedPlainly(d)) /\ (Solo(d)' => Solo(d))
<1>1. ASSUME NamedPlainly(d)' PROVE NamedPlainly(d)
  BY <1>1, AboutStays DEF NamedPlainly
<1>2. ASSUME NotShared(d)' PROVE NotShared(d)
  <2>1. \A q \in Mounting(d) : q \in Mounting(d)' /\ job'[q].array = job[q].array
    BY AboutStays DEF Mounting
  <2>2. QED
    BY <1>2, <2>1 DEF NotShared
<1>3. QED
  BY <1>1, <1>2 DEF Solo

LEMMA FewerOwned ==
  ASSUME JobsStay, NEW m, m[2] \in Directories, Owned(m)' PROVE Owned(m)
<1>1. NamedPlainly(m[2])
  BY FewerSolo DEF Owned
<1>2. \A q \in About(m[2]) : job[q].typed
  BY AboutStays DEF Owned
<1>3. Shown[m[2]] # None
  BY VolumesAssumption
<1>4. ASSUME NEW q \in Requests
      PROVE  /\ job[q].op \in {"create", "mount", "wipe"} /\ job[q].mp = Shown[m[2]] => job[q].array = m[1]
             /\ job[q].op \in {"create", "mount"} /\ job[q].array = m[1] => job[q].mp = Shown[m[2]]
  BY <1>3 DEF JobsStay, Owned, Ops
<1>5. QED
  BY <1>1, <1>2, <1>4 DEF Owned

\* The same, of the mounts there are.
LEMMA Fewer ==
  ASSUME Typed, Typed', JobsStay
  PROVE  /\ \A m \in mounts : Owned(m)' => Owned(m)
         /\ \A m \in mounts' : Owned(m)' => Owned(m)
         /\ \A d : Solo(d)' => Solo(d)
<1>1. \A m \in mounts \cup mounts' : m[2] \in Directories
  BY DEF Typed, TypeOK
<1>2. QED
  BY <1>1, FewerOwned, FewerSolo

\* The mounts and the lines as they were are wanted still.
LEMMA AllWantedStays ==
  ASSUME Typed, JobsStay, AllWanted
  PROVE  /\ \A m \in mounts : Wanted(m[1], m[2])'
         /\ \A line : (\E i \in DOMAIN fstab : fstab[i] = line) => line \in Lines /\ LineOK(line)'
<1>1. \A m \in mounts : Wanted(m[1], m[2])'
  BY WantedStays DEF AllWanted
<1>2. ASSUME NEW line, NEW i \in DOMAIN fstab, fstab[i] = line PROVE line \in Lines /\ LineOK(line)'
  <2>1. line \in Lines
    BY <1>2 DEF Typed, TypeOK
  <2>2. LineOK(line)
    BY <1>2 DEF AllWanted
  <2>3. QED
    BY <2>1, <2>2, LineStays
<1>3. QED
  BY <1>1, <1>2

LEMMA AskedStays ==
  ASSUME Typed, JobsStay, NEW r, AskedBy(r)
  PROVE  /\ \A m \in mounts : Wanted(m[1], m[2])'
         /\ \A line : (\E i \in DOMAIN fstab : fstab[i] = line) => line \in Lines /\ LineOK(line)'
BY AllWantedStays DEF AskedBy

LEMMA AskedSame ==
  ASSUME Typed, JobsStay, NEW r, AskedBy(r), mounts' \subseteq mounts, UNCHANGED fstab, Progress(r)'
  PROVE  AskedBy(r)'
BY AskedStays DEF AskedBy, AllWanted

-----------------------------------------------------------------------------
(* What a plain name gives                                                 *)

\* What is read and written of a text that stands for a plainly named place.
LEMMA PlainText ==
  ASSUME NEW d, NamedPlainly(d), NEW q \in Requests, job[q].op \in {"create", "mount", "unmount"},
         d = Dir[job[q].mp] \/ d = LinePlace(job[q].mp)
  PROVE  /\ q \in About(d) /\ job[q].mp = Shown[d] /\ Word[Shown[d]] = Shown[d]
         /\ Dir[Shown[d]] = d /\ Place[Shown[d]] = d /\ LinePlace(Shown[d]) = d
<1>1. q \in About(d)
  BY DEF About
<1>2. QED
  BY <1>1 DEF NamedPlainly, LinePlace

\* A mounted place with a plain name.
LEMMA PlainMount ==
  ASSUME NEW a, NEW d, Wanted(a, d), NamedPlainly(d)
  PROVE  /\ \E q \in Mounting(d) : job[q].array = a /\ job[q].mp = Shown[d]
         /\ Word[Shown[d]] = Shown[d] /\ Dir[Shown[d]] = d /\ LinePlace(Shown[d]) = d
<1>1. PICK q \in Mounting(d) : job[q].array = a
  BY DEF Wanted
<1>2. q \in About(d)
  BY DEF Mounting
<1>3. QED
  BY <1>1, <1>2 DEF NamedPlainly, LinePlace

\* A line for a plainly named place has its text, and is as it was typed.
LEMMA PlainLine ==
  ASSUME NEW line, LineOK(line), NamedPlainly(LinePlace(line[2]))
  PROVE  line[2] = Shown[LinePlace(line[2])] /\ Word[line[2]] = line[2]
<1>1. PICK q \in Requests : job[q].op \in {"create", "mount"} /\ job[q].mp = line[2]
  BY DEF LineOK, Named
<1>2. QED
  BY <1>1, PlainText

\* An owned mount is the only one of its place, and of its array.
LEMMA OneMount ==
  ASSUME Typed, AllWanted, NEW m \in mounts, NEW n \in mounts, Owned(m), n[1] = m[1] \/ n[2] = m[2]
  PROVE  n = m
<1>1. m = <<m[1], m[2]>> /\ n = <<n[1], n[2]>>
  BY DEF Typed, TypeOK
<1>2. NamedPlainly(m[2]) /\ Wanted(m[1], m[2])
  BY DEF Owned, AllWanted
<1>3. PICK q \in Mounting(n[2]) : job[q].array = n[1]
  BY DEF AllWanted, Wanted
<1>4. /\ q \in Requests /\ job[q].op \in {"create", "mount"}
      /\ n[2] \in {Dir[job[q].mp], LinePlace(job[q].mp)}
  BY <1>3 DEF Mounting, About
<1>5. CASE n[1] = m[1]
  <2>1. job[q].mp = Shown[m[2]]
    BY <1>3, <1>4, <1>5 DEF Owned
  <2>2. n[2] = m[2]
    BY <1>2, <1>4, <2>1, PlainMount
  <2>3. QED
    BY <1>1, <1>5, <2>2
<1>6. CASE n[2] = m[2]
  <2>1. job[q].mp = Shown[m[2]]
    BY <1>2, <1>4, <1>6, PlainText
  <2>2. n[1] = m[1]
    BY <1>3, <1>4, <2>1 DEF Owned
  <2>3. QED
    BY <1>1, <1>6, <2>2
<1>7. QED
  BY <1>5, <1>6

-----------------------------------------------------------------------------
(* The steps, one by one                                                   *)

LEMMA MadeByStays ==
  ASSUME Typed, MadeBy, [Next]_vars PROVE MadeBy'
<1>1. JobsStay
  BY JobsStayInStep
<1>2. \A a \in Arrays : fs[a] \in Requests \cup {None}
  BY DEF Typed, TypeOK, UUIDs
<1>3. \A a \in Arrays : fs[a] # None =>
        job'[fs[a]].op = "create" /\ job'[fs[a]].array = a
  BY <1>1, <1>2 DEF MadeBy, JobsStay, Ops
<1>4. ASSUME NEW r \in Requests, Mkfs(r), ~UNCHANGED fs PROVE MadeBy'
  <2>1. job[r].op = "create" /\ job[r].array \in Arrays
    BY <1>4, JobKnown DEF Mkfs, At, Steps, StepsOf, Adding, Removing, Ops
  <2>2. fs' = [fs EXCEPT ![job[r].array] = r] /\ UNCHANGED job
    BY <1>4 DEF Mkfs, Fails
  <2>3. QED
    BY <1>3, <2>1, <2>2 DEF MadeBy, Typed, TypeOK
<1>5. ASSUME NEW r \in Requests, Erase(r), ~UNCHANGED fs PROVE MadeBy'
  <2>1. fs' = [fs EXCEPT ![job[r].array] = None] /\ UNCHANGED job
    BY <1>5 DEF Erase, Fails
  <2>2. \A a \in Arrays : fs'[a] # None => fs'[a] = fs[a]
    BY <2>1 DEF Typed, TypeOK
  <2>3. QED
    BY <1>3, <2>2 DEF MadeBy
<1>6. CASE UNCHANGED fs
  BY <1>3, <1>6 DEF MadeBy
<1>7. QED
  BY <1>4, <1>5, <1>6 DEF Next, Continue, Begin, Mount, Blkid, AddRead, AddLine, Find, Umount,
    RemoveRead, Truncate, Rewrite, Fails, Boot, Crash, vars, requestVars

LEMMA AloneStays ==
  ASSUME Typed, NEW r, NEW s, Alone(r), Goto(r, s) PROVE Alone(r)' /\ (r \in Requests => pc'[r] = s)
BY DEF Alone, Goto, Typed, TypeOK

LEMMA BeginKeeps ==
  ASSUME Typed, Typed', JobsStay, NEW r \in Requests, NEW j \in Asks, Begin(r, j), Alone(r), AskedBy(r)
  PROVE  Alone(r)' /\ AskedBy(r)' /\ (InOrderBy(r) => InOrderBy(r)')
<1>1. /\ pc[r] = "new" /\ pc'[r] = FirstStep[j.op] /\ Alone(r)' /\ job'[r] = j
      /\ gone' = IF j.op \in {"create", "mount"} THEN gone \ {Dir[j.mp]} ELSE gone
      /\ UNCHANGED <<name, fs, mounts, fstab, source, fstabRead>>
  BY AloneStays DEF Begin, Typed, TypeOK
<1>2. pc'[r] \in {"mkfs", "mount", "umount", "find"} /\ (pc'[r] = "umount" => j.op = "unmount")
  BY <1>1 DEF FirstStep, Asks, Jobs, Ops
<1>3. Progress(r)'
  BY <1>1, <1>2 DEF Progress, Adding
<1>4. AskedBy(r)'
  BY <1>1, <1>3, AskedSame
<1>5. ASSUME InOrderBy(r) PROVE InOrderBy(r)'
  <2>1. \A m \in mounts : Owned(m) => Leads(fstab, m)
    BY <1>1, <1>5 DEF InOrderBy, ListedBy, Adding
  <2>2. ListedBy(r)'
    BY <1>1, <2>1, Fewer DEF ListedBy, Leads, LeadsTo, Names_
  <2>3. Freed(r)'
    BY <1>2 DEF Freed, Removing
  <2>4. VacantBy(r)'
    <3>1. SUFFICES ASSUME NEW d \in gone', Solo(d)' PROVE r \notin Mounting(d)'
      BY <1>1, <1>2, <1>5, Fewer DEF InOrderBy, VacantBy, Empty
    <3>2. SUFFICES ASSUME r \in Mounting(d)' PROVE FALSE
      OBVIOUS
    <3>3. j.op \in {"create", "mount"} /\ Dir[j.mp] = d
      BY <1>1, <3>1, <3>2 DEF Mounting, About, Solo, NamedPlainly
    <3>4. QED
      BY <1>1, <3>1, <3>3
  <2>5. QED
    BY <2>2, <2>3, <2>4 DEF InOrderBy
<1>6. QED
  BY <1>1, <1>4, <1>5

LEMMA FailsKeeps ==
  ASSUME Typed, Typed', JobsStay, NEW r \in Requests, Fails(r), Alone(r), AskedBy(r),
         pc[r] \in {"mkfs", "mount", "umount", "wipefs", "stop"}
  PROVE  Alone(r)' /\ AskedBy(r)' /\ (InOrderBy(r) => InOrderBy(r)')
<1>1. /\ Alone(r)' /\ pc'[r] = "error"
      /\ UNCHANGED <<name, fs, mounts, fstab, job, source, fstabRead, gone, mishap>>
  BY AloneStays DEF Fails
<1>2. Progress(r)'
  BY <1>1 DEF Progress, Adding
<1>3. AskedBy(r)'
  BY <1>1, <1>2, AskedSame
<1>4. ASSUME InOrderBy(r) PROVE InOrderBy(r)'
  <2>1. ListedBy(r)'
    BY <1>1, <1>4, Fewer DEF InOrderBy, ListedBy, Leads, LeadsTo, Names_, Adding
  <2>2. Freed(r)'
    BY <1>1 DEF Freed, Removing
  <2>3. VacantBy(r)'
    BY <1>1, <1>4, Fewer DEF InOrderBy, VacantBy, Empty, Steps
  <2>4. QED
    BY <2>1, <2>2, <2>3 DEF InOrderBy
<1>5. QED
  BY <1>1, <1>3, <1>4

\* A filesystem made on an array, or wiped off it, that is not mounted takes no line from a mount.
LEMMA LeadsStays ==
  ASSUME Typed, NEW a, ~Mounted(a), NEW u, fs' = [fs EXCEPT ![a] = u],
         UNCHANGED <<name, mounts, fstab>>, Typed', JobsStay,
         \A m \in mounts : Owned(m) => Leads(fstab, m)
  PROVE  (\A m \in mounts : Owned(m) => Leads(fstab, m))'
<1>1. ASSUME NEW m \in mounts, Owned(m) PROVE Leads(fstab, m)'
  <2>1. m[1] # a /\ m[1] \in Arrays
    BY DEF Mounted, Typed, TypeOK
  <2>2. fs'[m[1]] = fs[m[1]]
    BY <2>1 DEF Typed, TypeOK
  <2>3. QED
    BY <1>1, <2>2 DEF Leads, LeadsTo, Names_
<1>2. QED
  BY <1>1, Fewer

LEMMA MkfsKeeps ==
  ASSUME Typed, Typed', JobsStay, NEW r \in Requests, Mkfs(r), Alone(r), AskedBy(r)
  PROVE  Alone(r)' /\ AskedBy(r)' /\ (InOrderBy(r) => InOrderBy(r)')
<1>1. CASE Fails(r)
  BY <1>1, FailsKeeps DEF Mkfs, At
<1>2. CASE ~Fails(r)
  <2>1. /\ Alone(r)' /\ pc[r] = "mkfs" /\ pc'[r] = "mount"
        /\ ~Mounted(job[r].array) /\ fs' = [fs EXCEPT ![job[r].array] = r]
        /\ UNCHANGED <<name, mounts, fstab, job, source, fstabRead, gone, mishap>>
    BY <1>2, AloneStays DEF Mkfs, At
  <2>2. Progress(r)'
    BY <2>1 DEF Progress, Adding
  <2>3. AskedBy(r)'
    BY <2>1, <2>2, AskedSame
  <2>4. ASSUME InOrderBy(r) PROVE InOrderBy(r)'
    <3>1. \A m \in mounts : Owned(m) => Leads(fstab, m)
      BY <2>1, <2>4 DEF InOrderBy, ListedBy, Adding
    <3>2. ListedBy(r)'
      BY <2>1, <3>1, LeadsStays DEF ListedBy
    <3>3. VacantBy(r)'
      BY <2>1, <2>4, Fewer DEF InOrderBy, VacantBy, Empty, Steps, Mounting, About, LinePlace
    <3>4. QED
      BY <2>1, <3>2, <3>3 DEF InOrderBy, Freed, Removing
  <2>5. QED
    BY <2>1, <2>3, <2>4
<1>3. QED
  BY <1>1, <1>2

LEMMA EraseKeeps ==
  ASSUME Typed, Typed', JobsStay, NEW r \in Requests, Erase(r), Alone(r), AskedBy(r)
  PROVE  Alone(r)' /\ AskedBy(r)' /\ (InOrderBy(r) => InOrderBy(r)')
<1>1. CASE Fails(r)
  BY <1>1, FailsKeeps DEF Erase, At
<1>2. CASE ~Fails(r)
  <2>1. /\ Alone(r)' /\ pc[r] \in {"wipefs", "stop"} /\ pc'[r] = "ok"
        /\ ~Mounted(job[r].array) /\ fs' = [fs EXCEPT ![job[r].array] = None]
        /\ UNCHANGED <<name, mounts, fstab, job, source, fstabRead, gone, mishap>>
    BY <1>2, AloneStays DEF Erase, At
  <2>2. Progress(r)'
    BY <2>1 DEF Progress, Adding
  <2>3. AskedBy(r)'
    BY <2>1, <2>2, AskedSame
  <2>4. ASSUME InOrderBy(r) PROVE InOrderBy(r)'
    <3>1. \A m \in mounts : Owned(m) => Leads(fstab, m)
      BY <2>1, <2>4 DEF InOrderBy, ListedBy, Adding
    <3>2. ListedBy(r)'
      BY <2>1, <3>1, LeadsStays DEF ListedBy
    <3>3. VacantBy(r)'
      BY <2>1, <2>4, Fewer DEF InOrderBy, VacantBy, Empty, Steps, Mounting, About, LinePlace
    <3>4. QED
      BY <2>1, <3>2, <3>3 DEF InOrderBy, Freed, Removing
  <2>5. QED
    BY <2>1, <2>3, <2>4
<1>3. QED
  BY <1>1, <1>2

LEMMA AddingJob ==
  ASSUME Typed, NEW r \in Requests, pc[r] \in {"mount"} \cup Adding
  PROVE  /\ pc[r] \in Steps /\ job[r].op \in {"create", "mount"}
         /\ job[r].array \in Arrays /\ job[r].mp \in MountPoints
         /\ Named(job[r].array, job[r].mp) /\ Wanted(job[r].array, Dir[job[r].mp])
         /\ r \in Mounting(Dir[job[r].mp]) /\ r \in Mounting(LinePlace(job[r].mp))
<1>1. pc[r] \in Steps /\ job[r].op \in {"create", "mount"}
  BY JobKnown DEF Steps, StepsOf, Adding, Removing, Ops
<1>2. job[r].array \in Arrays /\ job[r].mp \in MountPoints
  BY <1>1, JobKnown DEF Adding
<1>3. QED
  BY <1>1, <1>2 DEF Named, Wanted, Mounting, About

LEMMA MountKeeps ==
  ASSUME Typed, Typed', JobsStay, NEW r \in Requests, Mount(r), Alone(r), AskedBy(r)
  PROVE  Alone(r)' /\ AskedBy(r)' /\ (InOrderBy(r) => InOrderBy(r)')
<1>1. CASE Fails(r)
  BY <1>1, FailsKeeps DEF Mount, At
<1>2. CASE ~Fails(r)
  <2>1. /\ Alone(r)' /\ pc[r] = "mount" /\ pc'[r] = "blkid" /\ mounts' = mounts \cup {Task(r)}
        /\ UNCHANGED <<name, fs, fstab, job, source, fstabRead, gone, mishap>>
    BY <1>2, AloneStays DEF Mount, At, Task
  <2>2. /\ pc[r] \in Steps /\ job[r].op \in {"create", "mount"}
        /\ Wanted(job[r].array, Dir[job[r].mp]) /\ r \in Mounting(Dir[job[r].mp])
    BY <2>1, AddingJob
  <2>3. Progress(r)'
    BY <2>1 DEF Progress, Task, Adding
  <2>4. PICK m : m = Task(r)
    OBVIOUS
  <2>5. m = Task(r) /\ m[1] = job[r].array /\ m[2] = Dir[job[r].mp]
    BY <2>4 DEF Task
  <2>6. \A n \in mounts' : Wanted(n[1], n[2])'
    <3>1. Wanted(m[1], m[2])'
      BY <2>2, <2>5, WantedStays
    <3>2. QED
      BY <2>1, <2>5, <3>1, AskedStays
  <2>7. AskedBy(r)'
    BY <2>1, <2>3, <2>6, AskedStays DEF AskedBy, AllWanted
  <2>8. ASSUME InOrderBy(r) PROVE InOrderBy(r)'
    <3>1. \A n \in mounts : Owned(n) => Leads(fstab, n)
      BY <2>1, <2>8 DEF InOrderBy, ListedBy, Adding
    <3>2. ListedBy(r)'
      BY <2>1, <3>1, Fewer DEF ListedBy, Leads, LeadsTo, Names_, Adding, Task
    <3>3. VacantBy(r)'
      <4>1. ASSUME NEW d \in gone, Solo(d) PROVE r \notin Mounting(d) /\ Empty(fstab, d) /\ \A n \in mounts : n[2] # d
        BY <2>1, <2>2, <2>8, <4>1 DEF InOrderBy, VacantBy
      <4>2. ASSUME NEW d \in gone', Solo(d)'
            PROVE  r \notin Mounting(d)' /\ Empty(fstab, d)' /\ \A n \in mounts' : n[2] # d
        <5>1. d \in gone /\ Solo(d)
          BY <2>1, <4>2, Fewer
        <5>2. r \notin Mounting(d) /\ Empty(fstab, d) /\ \A n \in mounts : n[2] # d
          BY <4>1, <5>1
        <5>3. m[2] # d
          BY <2>2, <2>5, <5>2
        <5>4. r \notin Mounting(d)' /\ Empty(fstab, d)'
          BY <2>1, <5>2 DEF Mounting, About, LinePlace, Empty
        <5>5. QED
          BY <2>1, <2>5, <5>2, <5>3, <5>4
      <4>3. QED
        BY <2>1, <4>2 DEF VacantBy
    <3>4. QED
      BY <2>1, <3>2, <3>3 DEF InOrderBy, Freed, Removing
  <2>9. QED
    BY <2>1, <2>7, <2>8
<1>3. QED
  BY <1>1, <1>2

LEMMA BlkidKeeps ==
  ASSUME Typed, Typed', JobsStay, ~mishap', NEW r \in Requests, Blkid(r), Alone(r), AskedBy(r)
  PROVE  Alone(r)' /\ AskedBy(r)' /\ (InOrderBy(r) => InOrderBy(r)')
<1>1. /\ Alone(r)' /\ pc[r] = "blkid" /\ pc'[r] = "add_read"
      /\ fs[job[r].array] # None /\ source'[r] = fs[job[r].array]
      /\ UNCHANGED <<name, fs, mounts, fstab, job, fstabRead, gone, mishap>>
  BY AloneStays DEF Blkid, At, Typed, TypeOK
<1>2. Progress(r)'
  BY <1>1 DEF AskedBy, AllWanted, Progress, Task, Adding
<1>3. AskedBy(r)'
  BY <1>1, <1>2, AskedSame
<1>4. ASSUME InOrderBy(r) PROVE InOrderBy(r)'
  <2>1. ListedBy(r)'
    BY <1>1, <1>4, Fewer DEF InOrderBy, ListedBy, Leads, LeadsTo, Names_, Adding, Task
  <2>2. VacantBy(r)'
    BY <1>1, <1>4, Fewer DEF InOrderBy, VacantBy, Empty, Steps, Mounting, About, LinePlace
  <2>3. QED
    BY <1>1, <2>1, <2>2 DEF InOrderBy, Freed, Removing
<1>5. QED
  BY <1>1, <1>3, <1>4

\* The line of a request leads to its mount, if that is owned.
LEMMA EntryLeads ==
  ASSUME Typed, NEW r \in Requests, pc[r] \in Adding, source[r] = fs[job[r].array], Owned(Task(r))
  PROVE  LeadsTo(Entry(r), Task(r))
<1>1. PICK m, e : m = Task(r) /\ e = Entry(r)
  OBVIOUS
<1>2. m[1] = job[r].array /\ m[2] = Dir[job[r].mp]
  BY <1>1 DEF Task
<1>3. e[1] = source[r] /\ e[2] = job[r].mp /\ e[3] = job[r].typed
  BY <1>1 DEF Entry
<1>4. r \in About(m[2])
  BY <1>2, AddingJob DEF Mounting
<1>5. job[r].typed /\ Word[job[r].mp] = job[r].mp /\ Place[job[r].mp] = m[2]
  BY <1>1, <1>4 DEF Owned, NamedPlainly
<1>6. WellFormed(e) /\ LinePlace(e[2]) = m[2] /\ Names_(e, m[1])
  BY <1>2, <1>3, <1>5 DEF WellFormed, LinePlace, Names_
<1>7. QED
  BY <1>1, <1>6 DEF LeadsTo

LEMMA AddReadKeeps ==
  ASSUME Typed, Typed', JobsStay, ~mishap', NEW r \in Requests, AddRead(r), Alone(r), AskedBy(r)
  PROVE  Alone(r)' /\ AskedBy(r)' /\ (InOrderBy(r) => InOrderBy(r)')
<1>1. /\ Alone(r)' /\ pc[r] = "add_read" /\ pc'[r] \in {"ok", "append"}
      /\ pc'[r] = "ok" => \E i \in DOMAIN fstab : fstab[i] = Entry(r)
      /\ UNCHANGED <<name, fs, mounts, fstab, job, source, fstabRead, gone, mishap>>
  BY AloneStays DEF AddRead, At
<1>2. Task(r) \in mounts /\ source[r] # None /\ source[r] = fs[job[r].array]
  BY <1>1 DEF AskedBy, AllWanted, Progress, Adding
<1>3. Progress(r)'
  BY <1>1, <1>2 DEF Progress, Task, Adding
<1>4. AskedBy(r)'
  BY <1>1, <1>3, AskedSame
<1>5. ASSUME InOrderBy(r) PROVE InOrderBy(r)'
  <2>1. \A m \in mounts : Owned(m) => Leads(fstab, m) \/ m = Task(r)
    BY <1>1, <1>5 DEF InOrderBy, ListedBy
  <2>2. pc'[r] = "ok" /\ Owned(Task(r)) => Leads(fstab, Task(r))
    <3>1. Owned(Task(r)) => LeadsTo(Entry(r), Task(r))
      BY <1>1, <1>2, EntryLeads DEF Adding
    <3>2. QED
      BY <1>1, <3>1 DEF Leads
  <2>3. ListedBy(r)'
    BY <1>1, <2>1, <2>2, Fewer DEF ListedBy, Leads, LeadsTo, Names_, Adding, Task
  <2>4. VacantBy(r)'
    BY <1>1, <1>5, Fewer DEF InOrderBy, VacantBy, Empty, Steps, Mounting, About, LinePlace
  <2>5. QED
    BY <1>1, <2>3, <2>4 DEF InOrderBy, Freed, Removing
<1>6. QED
  BY <1>1, <1>4, <1>5

LEMMA AddLineKeeps ==
  ASSUME Typed, Typed', MadeBy, JobsStay, NEW r \in Requests, AddLine(r), Alone(r), AskedBy(r)
  PROVE  Alone(r)' /\ AskedBy(r)' /\ (InOrderBy(r) => InOrderBy(r)')
<1>1. /\ Alone(r)' /\ pc[r] = "append" /\ pc'[r] = "ok" /\ fstab' = Append(fstab, Entry(r))
      /\ UNCHANGED <<name, fs, mounts, job, fstabRead, gone, mishap>>
  BY AloneStays DEF AddLine, At
<1>2. Task(r) \in mounts /\ source[r] # None /\ source[r] = fs[job[r].array]
  BY <1>1 DEF AskedBy, AllWanted, Progress, Adding
<1>3. /\ pc[r] \in Steps /\ job[r].op \in {"create", "mount"} /\ job[r].array \in Arrays
      /\ Named(job[r].array, job[r].mp) /\ job[r].mp \in MountPoints /\ job[r].typed \in BOOLEAN
      /\ r \in Mounting(LinePlace(job[r].mp))
  <2>1. PICK j \in Jobs : j = job[r]
    BY <1>1 DEF Typed, HasJob, Steps
  <2>2. QED
    BY <1>1, <2>1, AddingJob DEF Adding, Jobs
<1>4. PICK e : e = Entry(r)
  OBVIOUS
<1>5. e = Entry(r) /\ e[1] = fs[job[r].array] /\ e[2] = job[r].mp
  BY <1>2, <1>4 DEF Entry
<1>6. e[1] \in Requests /\ job[e[1]].op = "create" /\ job[e[1]].array = job[r].array
  BY <1>2, <1>3, <1>5 DEF MadeBy, Typed, TypeOK, UUIDs
<1>7. e \in Lines
  BY <1>2, <1>3, <1>5, <1>6 DEF Lines, Sources, UUIDs, Entry
<1>8. LineOK(e)
  BY <1>3, <1>5, <1>6 DEF LineOK
<1>9. /\ DOMAIN fstab' = DOMAIN fstab \cup {Len(fstab) + 1}
      /\ \A i \in DOMAIN fstab : fstab'[i] = fstab[i]
      /\ fstab'[Len(fstab) + 1] = e
  <2>1. fstab \in Seq(Lines)
    BY DEF Typed, TypeOK
  <2>2. QED
    BY <1>1, <1>5, <1>7, <2>1, AppendProperties
<1>10. Progress(r)'
  BY <1>1 DEF Progress, Adding
<1>11. AskedBy(r)'
  <2>1. LineOK(e)'
    BY <1>7, <1>8, LineStays
  <2>2. \A line : (\E i \in DOMAIN fstab' : fstab'[i] = line) => LineOK(line)'
    BY <1>9, <2>1, AskedStays
  <2>3. QED
    BY <1>1, <1>10, <2>2, AskedStays DEF AskedBy, AllWanted
<1>12. ASSUME InOrderBy(r) PROVE InOrderBy(r)'
  <2>1. \A m \in mounts : Owned(m) => Leads(fstab, m) \/ m = Task(r)
    BY <1>1, <1>12 DEF InOrderBy, ListedBy
  <2>2. ASSUME NEW m \in mounts, Leads(fstab, m) PROVE Leads(fstab, m)'
    BY <1>1, <1>9, <2>2 DEF Leads, LeadsTo, Names_
  <2>3. ASSUME NEW m \in mounts, m = Task(r), Owned(m) PROVE Leads(fstab, m)'
    <3>1. LeadsTo(e, m)
      BY <1>1, <1>2, <1>5, <2>3, EntryLeads DEF Adding
    <3>2. QED
      BY <1>1, <1>9, <3>1 DEF Leads, LeadsTo, Names_
  <2>4. ListedBy(r)'
    BY <1>1, <2>1, <2>2, <2>3, Fewer DEF ListedBy
  <2>5. VacantBy(r)'
    <3>1. \A d \in gone : Solo(d) => LinePlace(e[2]) # d
      BY <1>1, <1>3, <1>5, <1>12 DEF InOrderBy, VacantBy, Steps
    <3>2. QED
      BY <1>1, <1>9, <1>12, <3>1, Fewer DEF InOrderBy, VacantBy, Empty, Steps
  <2>6. QED
    BY <1>1, <2>4, <2>5 DEF InOrderBy, Freed, Removing
<1>13. QED
  BY <1>1, <1>11, <1>12

LEMMA FindKeeps ==
  ASSUME Typed, Typed', JobsStay, ~mishap', NEW r \in Requests, Find(r), Alone(r), AskedBy(r)
  PROVE  Alone(r)' /\ AskedBy(r)' /\ (InOrderBy(r) => InOrderBy(r)')
<1>1. /\ pc[r] = "find"
      /\ UNCHANGED <<name, fs, mounts, fstab, source, fstabRead, gone>>
  BY DEF Find, At
<1>2. job[r] \in Jobs /\ job[r].op \in {"wipe", "stop"} /\ job[r].array \in Arrays
  <2>1. job[r] \in Jobs
    BY <1>1 DEF Typed, HasJob, Steps
  <2>2. QED
    BY <1>1, <2>1, JobKnown DEF Steps, StepsOf, Adding, Removing, Ops
<1>3. /\ Alone(r)' /\ pc'[r] \in {"umount", "stop", "remove_read"}
      /\ pc'[r] = "umount" => job'[r].mp \in MountPointsOf(job[r].array)
      /\ pc'[r] = "remove_read" => job[r].op = "wipe" /\ MountPointsOf(job[r].array) = {}
  <2>1. PICK mp : /\ job' = [job EXCEPT ![r].mp = mp]
                  /\ \/ mp \in MountPointsOf(job[r].array) /\ Goto(r, "umount")
                     \/ Goto(r, "stop")
                     \/ /\ Goto(r, "remove_read") /\ job[r].op = "wipe"
                        /\ MountPointsOf(job[r].array) = {}
    BY DEF Find
  <2>2. job'[r] = [job[r] EXCEPT !.mp = mp]
    BY <2>1 DEF Typed, TypeOK
  <2>3. job'[r].mp = mp
    BY <1>2, <2>2 DEF Jobs
  <2>4. QED
    BY <2>1, <2>3, AloneStays
<1>4. job'[r].op = job[r].op /\ job'[r].array = job[r].array
  BY <1>2 DEF JobsStay, Ops
<1>5. Progress(r)'
  BY <1>3 DEF Progress, Adding
<1>6. AskedBy(r)'
  BY <1>1, <1>5, AskedSame
<1>7. ASSUME InOrderBy(r) PROVE InOrderBy(r)'
  <2>1. ListedBy(r)'
    BY <1>1, <1>7, Fewer DEF InOrderBy, ListedBy, Leads, LeadsTo, Names_, Adding
  <2>2. ASSUME pc'[r] = "remove_read", NEW m \in mounts, Owned(m)', Shown[m[2]] = job'[r].mp PROVE FALSE
    <3>1. m[1] = job[r].array
      BY <1>3, <1>4, <2>2 DEF Owned
    <3>2. Shown[m[2]] \in MountPointsOf(job[r].array)
      BY <3>1 DEF MountPointsOf
    <3>3. QED
      BY <1>3, <2>2, <3>2
  <2>3. Freed(r)'
    BY <1>1, <1>2, <1>3, <1>4, <2>2 DEF Freed, Removing
  <2>4. VacantBy(r)'
    <3>1. \A d : r \notin Mounting(d)'
      BY <1>2, <1>4 DEF Mounting, About
    <3>2. QED
      BY <1>1, <1>3, <1>7, <3>1, Fewer DEF InOrderBy, VacantBy, Empty
  <2>5. QED
    BY <2>1, <2>3, <2>4 DEF InOrderBy
<1>8. QED
  BY <1>3, <1>6, <1>7

LEMMA RemovingJob ==
  ASSUME Typed, NEW r \in Requests, pc[r] \in {"umount"} \cup Removing
  PROVE  /\ pc[r] \in Steps /\ job[r].op \in {"unmount", "wipe", "stop"}
         /\ job[r].mp \in MountPoints /\ \A d : r \notin Mounting(d)
<1>1. pc[r] \in Steps /\ job[r].op \in {"unmount", "wipe", "stop"}
  BY JobKnown DEF Steps, StepsOf, Adding, Removing, Ops
<1>2. \A d : r \notin Mounting(d)
  BY <1>1 DEF Mounting, About
<1>3. QED
  BY <1>1, <1>2, JobKnown DEF Removing

LEMMA UmountKeeps ==
  ASSUME Typed, Typed', JobsStay, ~mishap', NEW r \in Requests, Umount(r), Alone(r), AskedBy(r)
  PROVE  Alone(r)' /\ AskedBy(r)' /\ (InOrderBy(r) => InOrderBy(r)')
<1>1. CASE Fails(r)
  BY <1>1, FailsKeeps DEF Umount, At
<1>2. CASE ~Fails(r)
  <2>1. /\ Alone(r)' /\ pc[r] = "umount" /\ pc'[r] = "remove_read"
        /\ UNCHANGED <<name, fs, fstab, job, source, fstabRead, gone, mishap>>
    BY <1>2, AloneStays DEF Umount, At
  <2>2. PICK m \in mounts : /\ mounts' = mounts \ {m}
                            /\ job[r].op = "wipe" => m[1] = job[r].array
                            /\ job[r].op # "wipe" => m[2] = Dir[job[r].mp]
    BY <1>2 DEF Umount
  <2>3. job[r].op \in {"unmount", "wipe", "stop"} /\ \A d : r \notin Mounting(d)
    BY <2>1, RemovingJob
  <2>4. Progress(r)'
    BY <2>1 DEF Progress, Adding
  <2>5. AskedBy(r)'
    BY <2>1, <2>2, <2>4, AskedSame
  <2>6. ASSUME InOrderBy(r) PROVE InOrderBy(r)'
    <3>1. AllWanted
      BY DEF AskedBy
    <3>2. ASSUME NEW n \in mounts, Owned(n), Shown[n[2]] = job[r].mp PROVE n = m
      <4>1. CASE job[r].op = "wipe"
        <5>1. job[r].array = n[1]
          BY <3>2, <4>1 DEF Owned
        <5>2. QED
          BY <2>2, <3>1, <3>2, <4>1, <5>1, OneMount
      <4>2. CASE job[r].op # "wipe"
        <5>1. Wanted(n[1], n[2]) /\ NamedPlainly(n[2])
          BY <3>1, <3>2 DEF AllWanted, Owned
        <5>2. Dir[job[r].mp] = n[2]
          BY <3>2, <5>1, PlainMount
        <5>3. QED
          BY <2>2, <3>1, <3>2, <4>2, <5>2, OneMount
      <4>3. QED
        BY <4>1, <4>2
    <3>3. ASSUME job[r].op = "unmount", Solo(Dir[job[r].mp]), NEW n \in mounts, n[2] = Dir[job[r].mp]
          PROVE  n = m
      <4>1. m[2] = n[2]
        BY <2>2, <3>3
      <4>2. Wanted(m[1], n[2]) /\ Wanted(n[1], n[2])
        BY <3>1, <4>1 DEF AllWanted
      <4>3. m[1] = n[1]
        BY <3>3, <4>2 DEF Wanted, Solo, NotShared
      <4>4. m = <<m[1], m[2]>> /\ n = <<n[1], n[2]>>
        BY DEF Typed, TypeOK
      <4>5. QED
        BY <4>1, <4>3, <4>4
    <3>4. ListedBy(r)'
      BY <2>1, <2>2, <2>6, Fewer DEF InOrderBy, ListedBy, Leads, LeadsTo, Names_, Adding
    <3>5. Freed(r)'
      <4>1. \A n \in mounts' : n \in mounts /\ n # m /\ (Owned(n)' => Owned(n))
        BY <2>2, Fewer
      <4>2. \A n \in mounts' : Owned(n)' => Shown[n[2]] # job[r].mp
        BY <3>2, <4>1
      <4>3. PICK d : d = Dir[job[r].mp] /\ d = Dir[job[r].mp]'
        BY <2>1
      <4>4. Solo(d)' => Solo(d)
        BY Fewer
      <4>5. job[r].op = "unmount" /\ Solo(d)' => \A n \in mounts' : n[2] # d
        BY <3>3, <4>1, <4>3, <4>4
      <4>6. job'[r].op = "unmount" /\ Solo(Dir[job[r].mp])' => \A n \in mounts' : n[2] # (Dir[job[r].mp])'
        BY <2>1, <4>3, <4>5
      <4>7. QED
        BY <2>1, <4>2, <4>6 DEF Freed
    <3>6. VacantBy(r)'
      BY <2>1, <2>2, <2>3, <2>6, Fewer DEF InOrderBy, VacantBy, Empty, Mounting, About, LinePlace
    <3>7. QED
      BY <3>4, <3>5, <3>6 DEF InOrderBy
  <2>7. QED
    BY <2>1, <2>5, <2>6
<1>3. QED
  BY <1>1, <1>2

LEMMA RemoveReadKeeps ==
  ASSUME Typed, Typed', JobsStay, ~mishap', NEW r \in Requests, RemoveRead(r), Alone(r), AskedBy(r)
  PROVE  Alone(r)' /\ AskedBy(r)' /\ (InOrderBy(r) => InOrderBy(r)')
<1>1. /\ Alone(r)' /\ pc[r] = "remove_read" /\ pc'[r] = "truncate" /\ fstabRead'[r] = fstab
      /\ UNCHANGED <<name, fs, mounts, fstab, job, source, gone, mishap>>
  BY AloneStays DEF RemoveRead, At, Typed, TypeOK
<1>2. Progress(r)'
  BY <1>1 DEF Progress, Adding
<1>3. AskedBy(r)'
  BY <1>1, <1>2, AskedSame
<1>4. (\A d : r \notin Mounting(d)) /\ \A d : r \notin Mounting(d)'
  BY <1>1, RemovingJob DEF Removing, Mounting, About
<1>5. ASSUME InOrderBy(r) PROVE InOrderBy(r)'
  <2>1. ListedBy(r)'
    BY <1>1, <1>5, Fewer DEF InOrderBy, ListedBy, Leads, LeadsTo, Names_, Adding
  <2>2. Freed(r)'
    BY <1>1, <1>5, Fewer DEF InOrderBy, Freed, Removing
  <2>3. VacantBy(r)'
    BY <1>1, <1>4, <1>5, Fewer DEF InOrderBy, VacantBy, Empty
  <2>4. QED
    BY <2>1, <2>2, <2>3 DEF InOrderBy
<1>6. QED
  BY <1>1, <1>3, <1>5

LEMMA TruncateKeeps ==
  ASSUME Typed, Typed', JobsStay, NEW r \in Requests, Truncate(r), Alone(r), AskedBy(r)
  PROVE  Alone(r)' /\ AskedBy(r)' /\ (InOrderBy(r) => InOrderBy(r)')
<1>1. /\ Alone(r)' /\ pc[r] = "truncate" /\ pc'[r] = "rewrite" /\ fstab' = <<>>
      /\ UNCHANGED <<name, fs, mounts, job, source, fstabRead, gone, mishap>>
  BY AloneStays DEF Truncate, At
<1>2. fstabRead[r] = fstab
  BY <1>1 DEF AskedBy, AllWanted, Progress
<1>3. \A line : (\E i \in DOMAIN fstabRead[r] : fstabRead[r][i] = line) => LineOK(line)'
  BY <1>2, AskedStays
<1>4. Progress(r)'
  BY <1>1, <1>3 DEF Progress, Adding
<1>5. DOMAIN fstab' = {}
  BY <1>1
<1>6. AskedBy(r)'
  BY <1>1, <1>4, <1>5, AskedStays DEF AskedBy, AllWanted
<1>7. (\A d : r \notin Mounting(d)) /\ \A d : r \notin Mounting(d)'
  BY <1>1, RemovingJob DEF Removing, Mounting, About
<1>8. ASSUME InOrderBy(r) PROVE InOrderBy(r)'
  <2>1. ListedBy(r)'
    BY <1>1 DEF ListedBy
  <2>2. \A m \in mounts : Owned(m) => Leads(fstabRead[r], m)
    BY <1>1, <1>2, <1>8 DEF InOrderBy, ListedBy, Adding
  <2>3. Freed(r)'
    BY <1>1, <1>8, <2>2, Fewer DEF InOrderBy, Freed, Removing, Leads, LeadsTo, Names_
  <2>4. VacantBy(r)'
    BY <1>1, <1>2, <1>5, <1>7, <1>8, Fewer DEF InOrderBy, VacantBy, Empty
  <2>5. QED
    BY <2>1, <2>3, <2>4 DEF InOrderBy
<1>9. QED
  BY <1>1, <1>6, <1>8

LEMMA RewriteKeeps ==
  ASSUME Typed, Typed', JobsStay, NEW r \in Requests, Rewrite(r), Alone(r), AskedBy(r)
  PROVE  Alone(r)' /\ AskedBy(r)' /\ (InOrderBy(r) => InOrderBy(r)')
<1> DEFINE mp == job[r].mp
<1>1. /\ Alone(r)' /\ pc[r] = "rewrite" /\ pc'[r] \in {"ok", "wipefs", "stop"}
      /\ fstab' = Others(fstabRead[r], mp)
      /\ gone' = gone \/ (gone' = gone \cup {Dir[mp]} /\ job[r].op = "unmount")
      /\ UNCHANGED <<name, fs, mounts, job, source, mishap>>
  BY AloneStays DEF Rewrite, AfterRemove, At
<1>2. \A line : (\E i \in DOMAIN fstabRead[r] : fstabRead[r][i] = line) => LineOK(line)
  BY <1>1 DEF AskedBy, Progress
<1>3. fstabRead[r] \in Seq(Lines)
  BY DEF Typed, TypeOK
<1>4. \A line : (\E i \in DOMAIN fstab' : fstab'[i] = line)
           <=> (\E i \in DOMAIN fstabRead[r] : fstabRead[r][i] = line /\ Word[line[2]] # mp)
  <2>1. PICK place : place = mp
    OBVIOUS
  <2>2. PICK lines \in Seq(Lines) : lines = fstabRead[r]
    BY <1>3
  <2>3. Keeps(Others(lines, place), lines, place)
    BY OthersKept
  <2>4. Keeps(fstab', fstabRead[r], mp)
    BY <1>1, <2>1, <2>2, <2>3
  <2>5. QED
    BY <2>4 DEF Keeps
<1>5. Progress(r)'
  BY <1>1 DEF Progress, Adding
<1>6. AskedBy(r)'
  <2>1. \A line : (\E i \in DOMAIN fstab' : fstab'[i] = line) => line \in Lines /\ LineOK(line)
    <3>1. \A i \in DOMAIN fstabRead[r] : fstabRead[r][i] \in Lines /\ LineOK(fstabRead[r][i])
      BY <1>1, <1>3 DEF AskedBy, AllWanted, Progress
    <3>2. QED
      BY <1>4, <3>1
  <2>2. \A line : (\E i \in DOMAIN fstab' : fstab'[i] = line) => LineOK(line)'
    BY <2>1, LineStays
  <2>3. QED
    BY <1>1, <1>5, <2>2, AskedStays DEF AskedBy, AllWanted
<1>7. ASSUME InOrderBy(r) PROVE InOrderBy(r)'
  <2>1. \A m \in mounts : Owned(m) => Leads(fstabRead[r], m) /\ Shown[m[2]] # mp
    BY <1>1, <1>7 DEF InOrderBy, Freed, Removing
  <2>2. ASSUME NEW m \in mounts, Owned(m) PROVE Leads(fstab, m)'
    <3>1. PICK line : (\E i \in DOMAIN fstabRead[r] : fstabRead[r][i] = line) /\ LeadsTo(line, m)
      BY <2>1, <2>2 DEF Leads
    <3>2. LineOK(line) /\ LinePlace(line[2]) = m[2] /\ NamedPlainly(m[2])
      BY <1>2, <2>2, <3>1 DEF LeadsTo, Owned
    <3>3. Word[line[2]] = Shown[m[2]]
      BY <3>2, PlainLine
    <3>4. PICK j \in DOMAIN fstab' : fstab'[j] = line
      BY <1>4, <2>1, <2>2, <3>1, <3>3
    <3>5. QED
      BY <1>1, <3>1, <3>4 DEF Leads, LeadsTo, Names_
  <2>3. ListedBy(r)'
    BY <1>1, <2>2, Fewer DEF ListedBy
  <2>4. Freed(r)'
    BY <1>1 DEF Freed, Removing
  <2>5. \A d : Empty(fstabRead[r], d) => Empty(fstab, d)'
    BY <1>4 DEF Empty
  <2>6. ASSUME job[r].op = "unmount", NEW d, d = Dir[mp], Solo(d)
        PROVE  Empty(fstab, d)' /\ \A m \in mounts : m[2] # d
    <3>1. \A m \in mounts : m[2] # d
      BY <1>1, <1>7, <2>6 DEF InOrderBy, Freed, Removing
    <3>2. mp = Shown[d] /\ NamedPlainly(d)
      BY <2>6, PlainText DEF Solo
    <3>3. ASSUME NEW i \in DOMAIN fstab', LinePlace(fstab'[i][2]) = d PROVE FALSE
      <4>1. PICK line : line = fstab'[i]
        OBVIOUS
      <4>2. LineOK(line) /\ Word[line[2]] # mp
        BY <1>2, <1>4, <4>1
      <4>3. Word[line[2]] = mp
        BY <3>2, <3>3, <4>1, <4>2, PlainLine
      <4>4. QED
        BY <4>2, <4>3
    <3>4. Empty(fstab, d)'
      BY <3>3 DEF Empty, LinePlace
    <3>5. QED
      BY <3>1, <3>4
  <2>7. \A d : r \notin Mounting(d)'
    BY <1>1, RemovingJob DEF Removing, Mounting, About
  <2>8. VacantBy(r)'
    <3>1. ASSUME NEW d \in gone', Solo(d)' PROVE (\A m \in mounts : m[2] # d) /\ Empty(fstab, d)'
      <4>1. Solo(d)
        BY <3>1, Fewer
      <4>2. CASE d \in gone
        BY <1>1, <1>7, <2>5, <4>1, <4>2 DEF InOrderBy, VacantBy
      <4>3. CASE d \notin gone
        <5>1. d = Dir[mp] /\ job[r].op = "unmount"
          BY <1>1, <3>1, <4>3
        <5>2. QED
          BY <2>6, <4>1, <5>1
      <4>4. QED
        BY <4>2, <4>3
    <3>2. QED
      BY <1>1, <2>7, <3>1 DEF VacantBy
  <2>9. QED
    BY <2>3, <2>4, <2>8 DEF InOrderBy
<1>8. QED
  BY <1>1, <1>6, <1>7

\* A boot mounts what it finds a line for.
LEMMA BootKeeps ==
  ASSUME Typed, Typed', MadeBy, JobsStay, NEW ready \in SUBSET Arrays, NEW n \in [Arrays -> Names],
         Boot(ready, n), AllWanted
  PROVE  AsAsked' /\ (Vacant => InOrder')
<1>1. /\ \A q \in Requests : pc'[q] \notin Steps
      /\ name' = n
      /\ UNCHANGED <<fs, fstab, job, gone, mishap>>
  BY DEF Boot, Kill, Active, Steps
<1>2. \A q \in Requests : pc'[q] \notin Adding \cup Removing \cup {"umount"}
  BY <1>1 DEF Steps, Adding, Removing
<1>3. \A m \in mounts' : /\ m[1] \in Arrays /\ fs[m[1]] # None
                         /\ \E i \in DOMAIN fstab : /\ WellFormed(fstab[i]) /\ LinePlace(fstab[i][2]) = m[2]
                                                    /\ fstab[i][1] \in {fs[m[1]], n[m[1]]}
  BY DEF Boot
<1>4. ASSUME NEW m \in mounts' PROVE Wanted(m[1], m[2])'
  <2>1. PICK i \in DOMAIN fstab : LinePlace(fstab[i][2]) = m[2] /\ fstab[i][1] \in {fs[m[1]], n[m[1]]}
    BY <1>3
  <2>2. PICK line : line = fstab[i]
    OBVIOUS
  <2>3. line \in Lines /\ LineOK(line)
    BY <2>2, AllWantedStays DEF AllWanted
  <2>4. n[m[1]] \in Names
    BY <1>3 DEF Namings
  <2>5. line[1] = fs[m[1]] /\ LinePlace(line[2]) = m[2]
    BY <1>3, <2>1, <2>2, <2>3, <2>4, VolumesAssumption DEF LineOK
  <2>6. job[line[1]].array = m[1]
    BY <1>3, <2>5 DEF MadeBy
  <2>7. PICK q \in Requests : job[q].op \in {"create", "mount"} /\ job[q].array = m[1] /\ job[q].mp = line[2]
    BY <2>3, <2>6 DEF LineOK, Named
  <2>8. Wanted(m[1], m[2])
    BY <2>5, <2>7 DEF Wanted, Mounting, About
  <2>9. QED
    BY <2>8, WantedStays
<1>5. AsAsked'
  <2>1. \A line : (\E i \in DOMAIN fstab : fstab[i] = line) => LineOK(line)'
    BY AllWantedStays
  <2>2. (\A i \in DOMAIN fstab : LineOK(fstab[i]))'
    BY <1>1, <2>1
  <2>3. (\A q \in Requests : Progress(q))'
    BY <1>1, <1>2 DEF Progress, Removing, Adding
  <2>4. QED
    BY <1>1, <1>4, <2>2, <2>3 DEF AsAsked, AllWanted, Serial, Active
<1>6. ASSUME Vacant PROVE InOrder'
  <2>1. Listed'
    <3>1. ASSUME NEW m \in mounts' PROVE Leads(fstab, m)'
      <4>1. PICK i \in DOMAIN fstab : /\ WellFormed(fstab[i]) /\ LinePlace(fstab[i][2]) = m[2]
                                     /\ fstab[i][1] \in {fs[m[1]], n[m[1]]}
        BY <1>3
      <4>2. QED
        BY <1>1, <4>1 DEF Leads, LeadsTo, Names_
    <3>2. QED
      BY <3>1 DEF Listed
  <2>2. (\A q \in Requests : Freed(q))'
    BY <1>2 DEF Freed, Removing
  <2>3. Vacant'
    <3>1. ASSUME NEW d \in gone', Solo(d)' PROVE Empty(fstab, d)
      BY <1>1, <1>6, <3>1, Fewer DEF Vacant
    <3>2. \A d \in gone' : Solo(d)' => Empty(fstab, d)' /\ \A m \in mounts' : m[2] # d
      BY <1>1, <1>3, <3>1 DEF Empty
    <3>3. QED
      BY <1>1, <1>2, <3>2 DEF Vacant, Active, Removing
  <2>4. QED
    BY <2>1, <2>2, <2>3 DEF InOrder
<1>7. QED
  BY <1>5, <1>6

-----------------------------------------------------------------------------
(* The theorems                                                            *)

LEMMA VolumesInvStarts == Init => VolumesInv
<1> SUFFICES ASSUME Init PROVE VolumesInv
  OBVIOUS
<1>1. Typed
  BY VolumesInitTyped
<1>2. MadeBy
  BY DEF MadeBy, Init
<1>3. DOMAIN fstab = {} /\ mounts = {} /\ gone = {} /\ \A r \in Requests : pc[r] = "new"
  BY DEF Init
<1>4. AsAsked
  BY <1>3 DEF AsAsked, AllWanted, Serial, Active, Steps, Progress, Adding
<1>5. InOrder
  BY <1>3 DEF InOrder, Listed, Freed, Vacant, Removing
<1>6. QED
  BY <1>1, <1>2, <1>4, <1>5 DEF VolumesInv

LEMMA BeginAlone ==
  ASSUME NEW r \in Requests, NEW j \in Asks, Begin(r, j), ~mishap' PROVE Alone(r)
BY DEF Begin, Active, Alone

LEMMA ContinueAlone ==
  ASSUME NEW r \in Requests, Continue(r), Serial PROVE Alone(r)
<1>1. pc[r] \in Steps
  BY DEF Continue, Mkfs, Mount, Blkid, AddRead, AddLine, Find, Umount, RemoveRead, Truncate, Rewrite, Erase, At, Steps
<1>2. QED
  BY <1>1 DEF Serial, Active, Alone

LEMMA MishapStays == [Next]_vars /\ ~mishap' => ~mishap
BY DEF Next, Continue, Begin, Mkfs, Mount, Blkid, AddRead, AddLine, Find, Umount,
    RemoveRead, Truncate, Rewrite, Erase, Fails, Boot, Crash, vars, requestVars

LEMMA VolumesInvStays == VolumesInv /\ [Next]_vars => VolumesInv'
<1> SUFFICES ASSUME VolumesInv, [Next]_vars PROVE VolumesInv'
  OBVIOUS
<1>1. Typed /\ MadeBy /\ Typed' /\ MadeBy' /\ JobsStay
  BY StepTyped, MadeByStays, JobsStayInStep DEF VolumesInv
<1>2. ASSUME ~mishap' PROVE AsAsked' /\ InOrder'
  <2>1. ~mishap /\ AsAsked /\ AllWanted
    BY <1>2, MishapStays DEF VolumesInv, AsAsked
  <2>2. InOrder
    BY <2>1 DEF VolumesInv
  <2>3. ASSUME NEW r \in Requests, (\E j \in Asks : Begin(r, j)) \/ Continue(r)
        PROVE  AsAsked' /\ InOrder'
    <3>1. Alone(r)
      BY <1>2, <2>1, <2>3, BeginAlone, ContinueAlone DEF AsAsked
    <3>2. AskedBy(r) /\ (InOrder => InOrderBy(r))
      BY <2>1, <3>1, Singly
    <3>3. Alone(r)' /\ AskedBy(r)' /\ (InOrderBy(r) => InOrderBy(r)')
      BY <1>1, <1>2, <2>3, <3>1, <3>2, BeginKeeps, MkfsKeeps, MountKeeps, BlkidKeeps, AddReadKeeps,
         AddLineKeeps, FindKeeps, UmountKeeps, RemoveReadKeeps, TruncateKeeps, RewriteKeeps, EraseKeeps
         DEF Continue
    <3>4. QED
      BY <2>2, <3>2, <3>3, SinglyAfter
  <2>4. ASSUME NEW ready \in SUBSET Arrays, NEW n \in Namings, Boot(ready, n)
        PROVE  AsAsked' /\ InOrder'
    BY <1>1, <2>1, <2>2, <2>4, BootKeeps DEF InOrder, Namings
  <2>5. CASE Crash
    BY <1>2, <2>5 DEF Crash
  <2>6. CASE UNCHANGED vars
    <3>1. AsAsked'
      BY <2>1, <2>6 DEF vars, requestVars, AsAsked, AllWanted, Serial, Active, Progress, Task,
        Wanted, Named, LineOK, Mounting, About, LinePlace
    <3>2. InOrder'
      <4>1. Listed'
        BY <1>1, <2>2, <2>6, Fewer DEF vars, requestVars, InOrder, Listed, Leads, LeadsTo, Names_, Task
      <4>2. (\A r \in Requests : Freed(r))'
        BY <1>1, <2>2, <2>6, Fewer DEF vars, requestVars, InOrder, Freed, Leads, LeadsTo, Names_
      <4>3. Vacant'
        BY <1>1, <2>2, <2>6, Fewer DEF vars, requestVars, InOrder, Vacant, Empty, Active, Mounting,
          About, LinePlace
      <4>4. QED
        BY <4>1, <4>2, <4>3 DEF InOrder
    <3>3. QED
      BY <2>2, <3>1, <3>2
  <2>7. QED
    BY <2>3, <2>4, <2>5, <2>6 DEF Next
<1>3. QED
  BY <1>1, <1>2 DEF VolumesInv

\* The invariant above holds for any arrays, names, places and requests.
THEOREM VolumesInvariance == Spec => []VolumesInv
BY VolumesInvStarts, VolumesInvStays, PTL DEF Spec

\* The types of Volumes: every line of fstab has a source and a place, whatever
\* handlers read, truncate and write at a time.
THEOREM VolumesTypeCorrect == Spec => []TypeOK
<1>1. VolumesInv => TypeOK
  BY DEF VolumesInv, Typed
<1>2. QED
  BY <1>1, VolumesInvariance, PTL

\* raid.go:693-697: when no request is being served, every mount has a line that
\* leads to it.
THEOREM MountsListed == Spec => []MountsAreListed
<1>1. VolumesInv => MountsAreListed
  <2>1. ASSUME VolumesInv, Active = {}, ~mishap, NEW m \in mounts, Owned(m) PROVE Leads(fstab, m)
    <3>1. \A r \in Requests : pc[r] # "rewrite" /\ pc[r] \notin Adding
      BY <2>1 DEF Active, Steps, Adding
    <3>2. QED
      BY <2>1, <3>1 DEF VolumesInv, InOrder, Listed
  <2>2. QED
    BY <2>1 DEF MountsAreListed, Leads
<1>2. QED
  BY <1>1, VolumesInvariance, PTL

\* UnmountFilesystem: what was unmounted does not come back, at a boot either.
THEOREM UnmountedStays == Spec => []UnmountedStaysUnmounted
<1>1. VolumesInv => UnmountedStaysUnmounted
  BY DEF VolumesInv, InOrder, Vacant, Solo, UnmountedStaysUnmounted
<1>2. QED
  BY <1>1, VolumesInvariance, PTL
==============================================================================
