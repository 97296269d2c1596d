----------------------------- MODULE RaidProofs ------------------------------
(***************************************************************************)
(* Theorems about Raid, for any disks, names and requests: its types, that *)
(* the disks of an array carry its superblock, and that arrays share       *)
(* neither disks nor identities.                                           *)
(***************************************************************************)
EXTENDS Raid, TLAPS

\* What a request holds: only WipeDisk collects arrays, the others disks, and
\* only WipeDisk begins without the name of an array and only Create persists one.
RequestsHoldTheirKind ==
  \A r \in Requests :
    /\ pc[r] = "new" => local[r] = {} /\ job[r] = NoJob
    /\ pc[r] # "new" => job[r] \in Jobs
    /\ job[r].op = "wipe" => local[r] \subseteq Names
    /\ job[r].op # "wipe" => local[r] \subseteq Disks
    /\ pc[r] # "new" /\ job[r].op # "wipe" => job[r].dev \in Names
    /\ pc[r] \in {"wipe_stop", "conf_read", "conf_write"} =>
         job[r].op \in {"stop", "wipe"} /\ job[r].dev \in Names
    /\ pc[r] \in {"persist_read", "persist_write"} => job[r].op = "create"

\* The request u has been past mdadm --create.
Used(u) == pc[u] # "new" /\ ~At(u, "create", "command")
Identities == {u \in Requests : Used(u)}

\* An identity that a superblock or a running array has is never given again.
IdentitiesAreUsed ==
  /\ \A d \in Names : array[d] \in Identities \cup {None}
  /\ \A k \in Disks : superblock[k] \in Identities \cup {None}

Kinds == TypeOK /\ RequestsHoldTheirKind
Disjoint == MembersAreMarked /\ ArraysAreDisjoint /\ IdentitiesAreUsed
IInv == Kinds /\ Disjoint

-----------------------------------------------------------------------------
(* What holds without a mishap                                             *)

\* Requests are served one at a time.
Serial == ~mishap => \A q, r \in Active : q = r

\* A deletion that was answered is of an array that there was.
StoppedWere ==
  \A r \in Requests :
    /\ stopped[r] \in Identities \cup {None}
    /\ stopped[r] # None => pc[r] \in {"clear", "ok", "killed"}

Clean == ~mishap /\ \A r \in Requests : job[r].op # "remove"

\* Every disk that carries the superblock of a running array is in it.
Complete ==
  /\ stale = {}
  /\ \A d \in Names, k \in Disks :
       array[d] # None /\ superblock[k] = array[d] => k \in members[d]

\* How far a deletion is: it holds all disks of its array, then the array does not
\* run and its superblock is on disks only that are still to be cleared.
Halted(u) == \A d \in Names : array[d] # u
Gone(u) == Halted(u) /\ \A k \in Disks : superblock[k] # u
Deletion(r) ==
  /\ job[r].op = "stop" /\ pc[r] \in {"conf_read", "conf_write", "stop"}
       => local[r] = members[job[r].dev]
  /\ stopped[r] # None /\ pc[r] = "clear" =>
       Halted(stopped[r]) /\ \A k \in Disks : superblock[k] = stopped[r] => k \in local[r]
  /\ stopped[r] # None /\ pc[r] = "ok" => Gone(stopped[r])

Deletions == Clean => Complete /\ \A r \in Requests : Deletion(r)

\* What a request that writes mdadm.conf knows at each of its steps.
Writing(r) ==
  LET d == job[r].dev IN
  /\ pc[r] \in {"persist_read", "persist_write"} => array[d] = r
  /\ pc[r] = "persist_write" => confRead[r] = {<<d, r>>}
  /\ pc[r] = "conf_write" => confRead[r] = conf
  /\ job[r].op = "stop" /\ pc[r] \in {"conf_read", "conf_write", "stop"} => d \notin mounted
  /\ pc[r] = "wipe_stop" => d \notin mounted
  /\ job[r].op = "wipe" /\ pc[r] \in {"conf_read", "conf_write"} => array[d] = None

\* An array has its line, or a request is about to add it or to stop the array.
Named(d) == <<d, array[d]>> \in conf \/ \E e \in unlisted : <<e, d>> \in Shadows
Unfinished(d) ==
  \E r \in Requests :
    job[r].dev = d /\ (pc[r] \in {"persist_read", "persist_write"} \/ At(r, "stop", "stop"))

Listed ==
  ~mishap =>
    /\ \A d \in Devices : array[d] # None => Named(d) \/ Unfinished(d)
    /\ \A line \in conf : pc[line[2]] \in Answers
    /\ \A r \in Requests : Writing(r)

-----------------------------------------------------------------------------
LEMMA NoneIsNothing == None \notin Requests /\ None \notin Disks /\ None \notin Names
BY NamesAssumption DEF Names

LEMMA InitInv == Init => IInv
<1> SUFFICES ASSUME Init PROVE IInv
  OBVIOUS
<1>1. Kinds
  BY DEF Init, Kinds, TypeOK, RequestsHoldTheirKind, NoJob, Ops
<1>2. Disjoint
  BY DEF Init, Disjoint, MembersAreMarked, ArraysAreDisjoint, IdentitiesAreUsed
<1>3. QED
  BY <1>1, <1>2 DEF IInv

-----------------------------------------------------------------------------
(* Types                                                                   *)

LEMMA BeginKinds == ASSUME Kinds, NEW r \in Requests, NEW j \in Jobs, Begin(r, j) PROVE Kinds'
<1> USE DEF Kinds, TypeOK, RequestsHoldTheirKind, Begin, Goto, diskVars
<1>1. j.op \in Ops /\ FirstStep[j.op] \in Steps
  BY DEF Jobs, Ops, FirstStep, Steps
<1>2. FirstStep[j.op] \notin {"new", "persist_read", "persist_write", "wipe_stop", "conf_read",
                            "conf_write"}
  BY <1>1 DEF FirstStep, Ops
<1>3. j.op # "wipe" => j.dev \in Names
  BY <1>1 DEF Names, Ops
<1>4. pc' = [pc EXCEPT ![r] = FirstStep[j.op]] /\ job' = [job EXCEPT ![r] = j]
  OBVIOUS
<1>5. mishap' \in BOOLEAN
  OBVIOUS
<1>6. TypeOK'
  BY <1>1, <1>4, <1>5
<1>7. RequestsHoldTheirKind'
  BY <1>2, <1>3, <1>4
<1>8. QED
  BY <1>6, <1>7

LEMMA CreateKinds ==
  ASSUME Kinds, NEW r \in Requests, CreateArray(r) \/ PersistRead(r) \/ PersistWrite(r)
  PROVE  Kinds'
<1> USE DEF Kinds, TypeOK, RequestsHoldTheirKind, Goto, Answer, Smooth, Mishap, diskVars
<1>1. pc[r] # "new" /\ job[r] \in Jobs /\ job[r].disks \subseteq Disks
  BY DEF CreateArray, PersistRead, PersistWrite, At, Jobs
<1>2. CASE CreateArray(r)
  <2>1. /\ array' \in [Names -> UUIDs \cup {None}]
        /\ members' \in [Names -> SUBSET Disks]
        /\ superblock' \in [Disks -> UUIDs \cup {None}]
        /\ stale' \subseteq Disks
    BY <1>1, <1>2 DEF CreateArray, CommandFails, UUIDs
  <2>2. /\ \/ pc' = [pc EXCEPT ![r] = "persist_read"] /\ job[r].op = "create"
           \/ pc' = [pc EXCEPT ![r] = "error"]
        /\ mishap' \in BOOLEAN
        /\ UNCHANGED <<mounted, conf, job, local, confRead, stopped, unlisted>>
    BY <1>2 DEF CreateArray, CommandFails, At
  <2>3. QED
    BY <1>1, <2>1, <2>2 DEF Steps, Answers
<1>3. CASE PersistRead(r)
  <2>1. job[r].op = "create" /\ job[r].dev \in Names /\ array[job[r].dev] \in UUIDs \cup {None}
    BY <1>1, <1>3 DEF PersistRead
  <2> DEFINE read == IF array[job[r].dev] = None THEN {} ELSE {<<job[r].dev, array[job[r].dev]>>}
  <2>2. read \subseteq Names \X UUIDs
    BY <2>1
  <2>3. confRead' = [confRead EXCEPT ![r] = read]
    BY <1>3 DEF PersistRead
  <2>4. confRead' \in [Requests -> SUBSET (Names \X UUIDs)]
    BY <2>2, <2>3
  <2>5. /\ \E step \in {"persist_write", "ok"} : pc' = [pc EXCEPT ![r] = step]
        /\ mishap' \in BOOLEAN
        /\ UNCHANGED <<diskVars, conf, job, local, stopped, unlisted>>
    BY <1>3 DEF PersistRead
  <2>6. QED
    BY <1>1, <2>1, <2>4, <2>5 DEF Steps, Answers
<1>4. CASE PersistWrite(r)
  BY <1>1, <1>4 DEF PersistWrite, Answers
<1>5. QED
  BY <1>2, <1>3, <1>4

LEMMA StopKinds ==
  ASSUME Kinds, NEW r \in Requests,
         \/ ReadMembers(r) \/ ConfRead(r) \/ ConfWrite(r) \/ StopArray(r)
         \/ (\E k \in Disks : ClearMember(r, k)) \/ Stopped(r)
  PROVE  Kinds'
<1> USE DEF Kinds, TypeOK, RequestsHoldTheirKind, Goto, Answer, Smooth, Mishap, diskVars
<1>1. pc[r] # "new" /\ job[r] \in Jobs
  BY DEF ReadMembers, ConfRead, ConfWrite, StopArray, ClearMember, Stopped, At
<1>2. CASE ReadMembers(r)
  <2>1. job[r].op = "stop" /\ job[r].dev \in Names /\ members[job[r].dev] \subseteq Disks
    BY <1>1, <1>2 DEF ReadMembers, At
  <2>2. /\ \E S \in {{}, members[job[r].dev]} : local' = [local EXCEPT ![r] = S]
        /\ mounted' \subseteq mounted
        /\ pc' = [pc EXCEPT ![r] = "conf_read"]
        /\ mishap' \in BOOLEAN
        /\ UNCHANGED <<superblock, stale, array, members, conf, job, confRead, stopped, unlisted>>
    BY <1>2 DEF ReadMembers
  <2>3. QED
    BY <1>1, <2>1, <2>2 DEF Steps
<1>3. CASE ConfRead(r)
  BY <1>1, <1>3 DEF ConfRead, Steps
<1>4. CASE ConfWrite(r)
  <2>1. /\ \E step \in {"stop", "wipe", "check"} : pc' = [pc EXCEPT ![r] = step]
        /\ conf' \subseteq confRead[r] \cup conf
        /\ mishap' \in BOOLEAN
        /\ unlisted' = unlisted \cup {job[r].dev} /\ job[r].dev \in Names
        /\ UNCHANGED <<diskVars, job, local, confRead, stopped>>
    BY <1>1, <1>4 DEF ConfWrite
  <2>2. QED
    BY <1>1, <2>1 DEF Steps
<1>5. CASE StopArray(r)
  <2>1. job[r].dev \in Names
    BY <1>1, <1>5 DEF StopArray, At
  <2>2. /\ array' \in [Names -> UUIDs \cup {None}]
        /\ members' \in [Names -> SUBSET Disks]
        /\ stopped' \in [Requests -> UUIDs \cup {None}]
    BY <2>1, <1>5 DEF StopArray, Halt, CommandFails
  <2>3. /\ \E step \in {"clear", "error"} : pc' = [pc EXCEPT ![r] = step]
        /\ mishap' \in BOOLEAN
        /\ UNCHANGED <<superblock, stale, mounted, conf, job, local, confRead, unlisted>>
    BY <1>5 DEF StopArray, Halt, CommandFails
  <2>4. QED
    BY <1>1, <2>2, <2>3 DEF Steps, Answers
<1>6. CASE \E k \in Disks : ClearMember(r, k)
  <2>1. PICK k \in Disks : ClearMember(r, k)
    BY <1>6
  <2>2. local' = [local EXCEPT ![r] = @ \ {k}] /\ mishap' \in BOOLEAN
    BY <2>1 DEF ClearMember
  <2>3. superblock' \in [Disks -> UUIDs \cup {None}] /\ stale' \subseteq Disks
    BY <2>1 DEF ClearMember
  <2>4. UNCHANGED <<array, members, mounted, conf, pc, job, confRead, stopped, unlisted>>
    BY <2>1 DEF ClearMember
  <2>5. QED
    BY <1>1, <2>2, <2>3, <2>4
<1>7. CASE Stopped(r)
  BY <1>1, <1>7 DEF Stopped, Answers
<1>8. QED
  BY <1>2, <1>3, <1>4, <1>5, <1>6, <1>7

LEMMA WipeKinds ==
  ASSUME Kinds, NEW r \in Requests,
         ReadArrays(r) \/ CheckUnmounted(r) \/ WipeStop(r) \/ Wipe(r)
  PROVE  Kinds'
<1> USE DEF Kinds, TypeOK, RequestsHoldTheirKind, Goto, Answer, Smooth, Mishap, diskVars
<1>1. /\ pc[r] # "new" /\ job[r] \in Jobs /\ job[r].op = "wipe"
      /\ local[r] \subseteq Names /\ job[r].disks \subseteq Disks
  BY DEF ReadArrays, CheckUnmounted, WipeStop, Wipe, At, Jobs
<1>2. CASE ReadArrays(r)
  <2>1. UNION {ArraysForDisk(k) : k \in job[r].disks} \subseteq Names
    BY DEF ArraysForDisk
  <2>2. /\ \E S : S \subseteq Names /\ local' = [local EXCEPT ![r] = S]
        /\ \E step \in {"wipe", "check"} : pc' = [pc EXCEPT ![r] = step]
        /\ mishap' \in BOOLEAN
        /\ UNCHANGED <<diskVars, conf, job, confRead, stopped, unlisted>>
    BY <1>2, <2>1 DEF ReadArrays
  <2>3. QED
    BY <1>1, <2>2 DEF Steps
<1>3. CASE CheckUnmounted(r)
  <2>1. PICK d \in local[r] :
          \/ Answer(r, "error")
          \/ /\ job' = [job EXCEPT ![r].dev = d]
             /\ local' = [local EXCEPT ![r] = @ \ {d}]
             /\ pc' = [pc EXCEPT ![r] = "wipe_stop"]
             /\ UNCHANGED confRead
    BY <1>3 DEF CheckUnmounted
  <2>2. mishap' \in BOOLEAN /\ UNCHANGED <<diskVars, conf, stopped, unlisted>>
    BY <1>3 DEF CheckUnmounted
  <2>3. CASE Answer(r, "error")
    BY <1>1, <2>2, <2>3 DEF Answers
  <2>4. CASE /\ job' = [job EXCEPT ![r].dev = d]
             /\ local' = [local EXCEPT ![r] = @ \ {d}]
             /\ pc' = [pc EXCEPT ![r] = "wipe_stop"]
             /\ UNCHANGED confRead
    <3>1. [job[r] EXCEPT !.dev = d] \in Jobs /\ [job[r] EXCEPT !.dev = d].op = "wipe"
      BY <1>1 DEF Jobs
    <3>2. job' = [job EXCEPT ![r] = [job[r] EXCEPT !.dev = d]]
      BY <2>4
    <3>3. QED
      BY <1>1, <2>2, <2>4, <3>1, <3>2 DEF Steps
  <2>5. QED
    BY <2>1, <2>3, <2>4
<1>4. CASE WipeStop(r)
  <2>1. /\ array' \in [Names -> UUIDs \cup {None}] /\ members' \in [Names -> SUBSET Disks]
        /\ pc' = [pc EXCEPT ![r] = "conf_read"] /\ mishap' \in BOOLEAN
        /\ UNCHANGED <<superblock, stale, mounted, conf, job, local, confRead, stopped, unlisted>>
    BY <1>4 DEF WipeStop, Halt
  <2>2. job[r].dev \in Names
    BY <1>4 DEF WipeStop, At
  <2>3. QED
    BY <1>1, <2>1, <2>2 DEF Steps
<1>5. CASE Wipe(r)
  <2>1. /\ superblock' \in [Disks -> UUIDs \cup {None}] /\ stale' \subseteq stale
        /\ \E a \in {"ok", "error"} : pc' = [pc EXCEPT ![r] = a]
        /\ mishap' \in BOOLEAN
        /\ UNCHANGED <<array, members, mounted, conf, job, local, confRead, stopped, unlisted>>
    BY <1>1, <1>5 DEF Wipe, CommandFails
  <2>2. QED
    BY <1>1, <2>1 DEF Answers
<1>6. QED
  BY <1>2, <1>3, <1>4, <1>5

LEMMA CommandKinds ==
  ASSUME Kinds, NEW r \in Requests, Add(r) \/ FailDisk(r) \/ Remove(r) \/ Mount(r)
  PROVE  Kinds'
<1> USE DEF Kinds, TypeOK, RequestsHoldTheirKind, Goto, Answer, Smooth, Mishap, diskVars
<1>1. /\ pc[r] # "new" /\ job[r] \in Jobs /\ job[r].dev \in Names /\ job[r].disks \subseteq Disks
      /\ array[job[r].dev] \in UUIDs \cup {None} /\ members[job[r].dev] \subseteq Disks
  BY DEF Add, FailDisk, Remove, Mount, At, Jobs
<1>2. CASE Add(r)
  <2>1. /\ members' \in [Names -> SUBSET Disks]
        /\ superblock' \in [Disks -> UUIDs \cup {None}]
        /\ stale' \subseteq Disks
    BY <1>1, <1>2 DEF Add, CommandFails
  <2>2. /\ \E step \in {"ok", "error"} : pc' = [pc EXCEPT ![r] = step]
        /\ mishap' \in BOOLEAN
        /\ UNCHANGED <<array, mounted, conf, job, local, confRead, stopped, unlisted>>
    BY <1>2 DEF Add, CommandFails
  <2>3. QED
    BY <1>1, <2>1, <2>2 DEF Answers
<1>3. CASE FailDisk(r)
  BY <1>1, <1>3 DEF FailDisk, CommandFails, Steps, Answers
<1>4. CASE Remove(r)
  <2>1. members' \in [Names -> SUBSET Disks]
    BY <1>1, <1>4 DEF Remove, CommandFails
  <2>2. /\ \E step \in {"ok", "error"} : pc' = [pc EXCEPT ![r] = step]
        /\ mishap' \in BOOLEAN
        /\ UNCHANGED <<superblock, stale, array, mounted, conf, job, local, confRead, stopped, unlisted>>
    BY <1>4 DEF Remove, CommandFails
  <2>3. QED
    BY <1>1, <2>1, <2>2 DEF Answers
<1>5. CASE Mount(r)
  BY <1>1, <1>5 DEF Mount, CommandFails, Answers
<1>6. QED
  BY <1>2, <1>3, <1>4, <1>5

\* What the kernel assembles at boot.
Found == {u \in UUIDs : \E k \in Disks : superblock[k] = u}
DisksOf(u) ==
  IF {k \in Disks \ stale : superblock[k] = u} # {}
  THEN {k \in Disks \ stale : superblock[k] = u} ELSE {k \in stale : superblock[k] = u}

\* After a boot each array that was found runs under a name of its own or not at all, with
\* disks that carry its superblock.
LEMMA Assembled ==
  ASSUME Reboot
  PROVE  /\ UNCHANGED <<superblock, stale, conf, job, local, confRead, stopped, unlisted>>
         /\ mounted' = {} /\ mishap' = (mishap \/ Active # {})
         /\ pc' = [r \in Requests |-> IF r \in Active THEN "killed" ELSE pc[r]]
         /\ \E n \in [Found -> Names \cup {None}] :
              /\ \A u, v \in Found : u # v => n[u] # n[v] \/ n[u] = None
              /\ \A u \in Found : n[u] \in ForeignNames \cup {None} \/ <<n[u], u>> \in conf
              /\ array' = [d \in Names |-> IF \E u \in Found : n[u] = d
                                           THEN CHOOSE u \in Found : n[u] = d ELSE None]
              /\ members' = [d \in Names |->
                               UNION {DisksOf(u) : u \in {v \in Found : n[v] = d}}]
BY DEF Reboot, Found, DisksOf

\* After a boot each array that was found runs under a name of its own or not at all.
LEMMA Booted ==
  ASSUME Reboot
  PROVE  \E n \in [Found -> Names \cup {None}] :
           /\ \A u, v \in Found : u # v => n[u] # n[v] \/ n[u] = None
           /\ \A u \in Found : n[u] \in ForeignNames \cup {None} \/ <<n[u], u>> \in conf
           /\ \A d \in Names :
                \/ array'[d] = None /\ members'[d] = {}
                \/ \E u \in Found : n[u] = d /\ array'[d] = u /\ members'[d] = DisksOf(u)
<1>1. PICK n \in [Found -> Names \cup {None}] :
        /\ \A u, v \in Found : u # v => n[u] # n[v] \/ n[u] = None
        /\ \A u \in Found : n[u] \in ForeignNames \cup {None} \/ <<n[u], u>> \in conf
        /\ array' = [d \in Names |-> IF \E u \in Found : n[u] = d
                                     THEN CHOOSE u \in Found : n[u] = d ELSE None]
        /\ members' = [d \in Names |-> UNION {DisksOf(u) : u \in {v \in Found : n[v] = d}}]
  BY Assembled
<1>2. ASSUME NEW d \in Names
      PROVE  \/ array'[d] = None /\ members'[d] = {}
             \/ \E u \in Found : n[u] = d /\ array'[d] = u /\ members'[d] = DisksOf(u)
  <2>1. CASE ~ \E u \in Found : n[u] = d
    BY <1>1, <2>1
  <2>2. CASE \E u \in Found : n[u] = d
    <3>1. PICK u \in Found : n[u] = d
      BY <2>2
    <3>2. \A v \in Found : n[v] = d => v = u
      BY <1>1, <3>1, NoneIsNothing
    <3>3. array'[d] = u
      BY <1>1, <3>1, <3>2
    <3>4. {v \in Found : n[v] = d} = {u}
      BY <3>1, <3>2
    <3>5. members'[d] = DisksOf(u)
      BY <1>1, <3>4
    <3>6. QED
      BY <3>1, <3>3, <3>5
  <2>3. QED
    BY <2>1, <2>2
<1>3. QED
  BY <1>1, <1>2

LEMMA RebootKinds == ASSUME Kinds, Reboot PROVE Kinds'
<1> USE DEF Kinds, TypeOK, RequestsHoldTheirKind
<1>1. PICK n \in [Found -> Names \cup {None}] :
        /\ array' = [d \in Names |-> IF \E u \in Found : n[u] = d
                                     THEN CHOOSE u \in Found : n[u] = d ELSE None]
        /\ members' = [d \in Names |-> UNION {DisksOf(u) : u \in {v \in Found : n[v] = d}}]
  BY Assembled
<1>2. \A d \in Names : array'[d] \in UUIDs \cup {None}
  BY <1>1 DEF Found
<1>3. \A d \in Names : members'[d] \subseteq Disks
  BY <1>1 DEF DisksOf
<1>4. array' \in [Names -> UUIDs \cup {None}] /\ members' \in [Names -> SUBSET Disks]
  BY <1>1, <1>2, <1>3
<1>5. /\ UNCHANGED <<superblock, stale, conf, job, local, confRead, stopped, unlisted>>
      /\ mounted' = {} /\ mishap' \in BOOLEAN
      /\ pc' = [r \in Requests |-> IF r \in Active THEN "killed" ELSE pc[r]]
  BY Assembled
<1>6. pc' \in [Requests -> {"new"} \cup Steps \cup Answers]
  BY <1>5 DEF Answers
<1>7. TypeOK'
  BY <1>4, <1>5, <1>6
<1>8. RequestsHoldTheirKind'
  BY <1>5 DEF Active, Steps
<1>9. QED
  BY <1>7, <1>8

LEMMA NextKinds == Kinds /\ [Next]_vars => Kinds'
<1> SUFFICES ASSUME Kinds, [Next]_vars PROVE Kinds'
  OBVIOUS
<1>1. CASE \E r \in Requests, j \in Jobs : Begin(r, j)
  BY <1>1, BeginKinds
<1>2. CASE \E r \in Requests : Continue(r)
  BY <1>2, CreateKinds, StopKinds, WipeKinds, CommandKinds DEF Continue
<1>3. CASE Reboot
  BY <1>3, RebootKinds
<1>4. CASE UNCHANGED vars
  BY <1>4 DEF vars, diskVars, requestVars, Kinds, TypeOK, RequestsHoldTheirKind
<1>5. QED
  BY <1>1, <1>2, <1>3, <1>4 DEF Next

-----------------------------------------------------------------------------
(* Arrays and their disks                                                  *)

\* No request goes back before mdadm --create.
LEMMA UsedStays == ASSUME Kinds, [Next]_vars, NEW u \in Requests, Used(u) PROVE Used(u)'
<1> USE DEF Used, At, Kinds, TypeOK
<1>1. CASE \E r \in Requests, j \in Jobs : Begin(r, j)
  BY <1>1 DEF Begin, Goto
<1>2. CASE \E r \in Requests : Continue(r)
  <2>1. PICK r \in Requests : Continue(r)
    BY <1>2
  <2>2. CASE CreateArray(r) \/ PersistRead(r) \/ PersistWrite(r)
    BY <2>2 DEF CreateArray, PersistRead, PersistWrite, CommandFails, Answer, Goto
  <2>3. CASE \/ ReadMembers(r) \/ ConfRead(r) \/ StopArray(r)
             \/ (\E k \in Disks : ClearMember(r, k)) \/ Stopped(r)
    BY <2>3 DEF ReadMembers, ConfRead, StopArray, ClearMember, Stopped, CommandFails, Answer, Goto
  <2>4. CASE ConfWrite(r)
    BY <2>4 DEF ConfWrite, Goto
  <2>5. CASE ReadArrays(r) \/ WipeStop(r) \/ Wipe(r)
    BY <2>5 DEF ReadArrays, WipeStop, Wipe, CommandFails, Answer, Goto
  <2>6. CASE CheckUnmounted(r)
    <3>1. job'[u].op = job[u].op
      <4>1. CASE job' = job
        BY <4>1
      <4>2. CASE \E d \in local[r] : job' = [job EXCEPT ![r].dev = d]
        <5>1. PICK d \in local[r] : job' = [job EXCEPT ![r] = [job[r] EXCEPT !.dev = d]]
          BY <4>2
        <5>2. job[r] \in [op : Ops \cup {"none"}, dev : Names \cup {None}, disks : SUBSET Disks]
          BY DEF Jobs, NoJob
        <5>3. [job[r] EXCEPT !.dev = d].op = job[r].op
          BY <5>2
        <5>4. QED
          BY <5>1, <5>3
      <4>3. QED
        BY <2>6, <4>1, <4>2 DEF CheckUnmounted, Answer
    <3>2. pc'[u] \in {pc[u], "error", "wipe_stop"}
      BY <2>6 DEF CheckUnmounted, Answer, Goto
    <3>3. QED
      BY <3>1, <3>2
  <2>7. CASE Add(r) \/ FailDisk(r) \/ Remove(r) \/ Mount(r)
    BY <2>7 DEF Add, FailDisk, Remove, Mount, CommandFails, Answer, Goto, At
  <2>8. QED
    BY <2>1, <2>2, <2>3, <2>4, <2>5, <2>6, <2>7 DEF Continue
<1>3. CASE Reboot
  BY <1>3 DEF Reboot, Active
<1>4. CASE UNCHANGED vars
  BY <1>4 DEF vars, requestVars
<1>5. QED
  BY <1>1, <1>2, <1>3, <1>4 DEF Next

\* An identity in use stays in use, so that a step need only account for those
\* it writes.
LEMMA StillUsed ==
  ASSUME IInv, [Next]_vars
  PROVE  /\ \A d \in Names : array[d] \in Identities' \cup {None}
         /\ \A k \in Disks : superblock[k] \in Identities' \cup {None}
<1>1. Identities \subseteq Identities'
  BY UsedStays DEF Identities, IInv
<1>2. QED
  BY <1>1 DEF IInv, Disjoint, IdentitiesAreUsed

\* The steps that change neither a superblock nor an array.
LEMMA QuietDisjoint ==
  ASSUME IInv, [Next]_vars, UNCHANGED <<superblock, array, members>>
  PROVE  Disjoint'
<1>1. IdentitiesAreUsed'
  BY StillUsed DEF IdentitiesAreUsed
<1>2. MembersAreMarked' /\ ArraysAreDisjoint'
  BY DEF IInv, Disjoint, MembersAreMarked, ArraysAreDisjoint
<1>3. QED
  BY <1>1, <1>2 DEF Disjoint

\* mdadm --create takes disks that no array holds, and a request creates once.
LEMMA CreateDisjoint ==
  ASSUME IInv, [Next]_vars, NEW r \in Requests, CreateArray(r)
  PROVE  Disjoint'
<1> DEFINE d == job[r].dev
           S == job[r].disks
<1>1. CASE CommandFails(r, array[d] # None \/ \E k \in S : Busy(k))
  BY <1>1, QuietDisjoint DEF CommandFails, diskVars
<1>2. CASE /\ array[d] = None
           /\ \A k \in S : ~Busy(k)
           /\ array' = [array EXCEPT ![d] = r]
           /\ members' = [members EXCEPT ![d] = S]
           /\ superblock' = [k \in Disks |-> IF k \in S THEN r ELSE superblock[k]]
           /\ pc' = [pc EXCEPT ![r] = "persist_read"]
  <2>1. d \in Names /\ S \subseteq Disks /\ ~Used(r)
    BY DEF CreateArray, At, IInv, Kinds, RequestsHoldTheirKind, Jobs, Used
  <2>2. /\ array \in [Names -> Requests \cup {None}] /\ members \in [Names -> SUBSET Disks]
        /\ r # None
    BY NoneIsNothing DEF IInv, Kinds, TypeOK, UUIDs
  <2>3. /\ \A e \in Names : array[e] # r
        /\ \A e \in Names : members[e] \cap S = {}
    BY <1>2, <2>1, <2>2 DEF IInv, Disjoint, IdentitiesAreUsed, Identities, Busy
  <2>4. MembersAreMarked'
    BY <1>2, <2>1, <2>2, <2>3 DEF IInv, Disjoint, MembersAreMarked
  <2>5. ArraysAreDisjoint'
    BY <1>2, <2>1, <2>2, <2>3 DEF IInv, Disjoint, ArraysAreDisjoint
  <2>6. r \in Identities'
    BY <1>2 DEF Identities, Used, At, IInv, Kinds, TypeOK
  <2>7. IdentitiesAreUsed'
    BY <1>2, <2>1, <2>2, <2>6, StillUsed DEF IdentitiesAreUsed
  <2>8. QED
    BY <2>4, <2>5, <2>7 DEF Disjoint
<1>3. QED
  BY <1>1, <1>2 DEF CreateArray, Goto

\* An array that is stopped lets go of its disks.
LEMMA HaltDisjoint ==
  ASSUME IInv, [Next]_vars, NEW d, Halt(d)
  PROVE  Disjoint'
<1>1. /\ array \in [Names -> Requests \cup {None}] /\ members \in [Names -> SUBSET Disks]
      /\ MembersAreMarked /\ ArraysAreDisjoint
  BY DEF IInv, Disjoint, Kinds, TypeOK, UUIDs
<1>2. MembersAreMarked' /\ ArraysAreDisjoint'
  BY <1>1 DEF Halt, MembersAreMarked, ArraysAreDisjoint
<1>3. IdentitiesAreUsed'
  BY <1>1, StillUsed DEF Halt, IdentitiesAreUsed
<1>4. QED
  BY <1>2, <1>3 DEF Disjoint

\* A superblock is cleared only on a disk that no array holds.
LEMMA ClearDisjoint ==
  ASSUME IInv, [Next]_vars, NEW S \in SUBSET Disks, \A k \in S : ~Busy(k),
         superblock' = [k \in Disks |-> IF k \in S THEN None ELSE superblock[k]],
         UNCHANGED <<array, members>>
  PROVE  Disjoint'
<1>1. members \in [Names -> SUBSET Disks] /\ MembersAreMarked /\ ArraysAreDisjoint
  BY DEF IInv, Disjoint, Kinds, TypeOK
<1>2. MembersAreMarked' /\ ArraysAreDisjoint'
  BY <1>1 DEF MembersAreMarked, ArraysAreDisjoint, Busy
<1>3. IdentitiesAreUsed'
  BY StillUsed DEF IdentitiesAreUsed
<1>4. QED
  BY <1>2, <1>3 DEF Disjoint

LEMMA ClearMemberDisjoint ==
  ASSUME IInv, [Next]_vars, NEW r \in Requests, NEW k \in Disks, ClearMember(r, k)
  PROVE  Disjoint'
<1>1. superblock \in [Disks -> UUIDs \cup {None}]
  BY DEF IInv, Kinds, TypeOK
<1>2. CASE UNCHANGED superblock
  BY <1>2, QuietDisjoint DEF ClearMember
<1>3. CASE ~Busy(k) /\ superblock' = [superblock EXCEPT ![k] = None]
  <2>1. superblock' = [j \in Disks |-> IF j \in {k} THEN None ELSE superblock[j]]
    BY <1>1, <1>3
  <2>2. UNCHANGED <<array, members>>
    BY DEF ClearMember
  <2>3. QED
    BY <1>3, <2>1, <2>2, ClearDisjoint
<1>4. QED
  BY <1>2, <1>3 DEF ClearMember

LEMMA WipeDisjoint ==
  ASSUME IInv, [Next]_vars, NEW r \in Requests, Wipe(r) PROVE Disjoint'
<1>1. job[r].disks \subseteq Disks
  BY DEF Wipe, At, IInv, Kinds, RequestsHoldTheirKind, Jobs
<1>2. CASE UNCHANGED diskVars
  BY <1>2, QuietDisjoint DEF diskVars
<1>3. CASE /\ \A k \in job[r].disks : ~Busy(k)
           /\ superblock' = [k \in Disks |-> IF k \in job[r].disks THEN None ELSE superblock[k]]
           /\ UNCHANGED <<array, members>>
  BY <1>1, <1>3, ClearDisjoint
<1>4. QED
  BY <1>2, <1>3 DEF Wipe, CommandFails

\* A disk that no array holds becomes a member with the superblock of its array.
LEMMA AddDisjoint ==
  ASSUME IInv, [Next]_vars, NEW r \in Requests, Add(r) PROVE Disjoint'
<1> DEFINE d == job[r].dev
           S == job[r].disks
<1>1. CASE UNCHANGED diskVars
  BY <1>1, QuietDisjoint DEF diskVars
<1>2. CASE /\ array[d] # None
           /\ \A k \in S : ~Busy(k)
           /\ members' = [members EXCEPT ![d] = @ \cup S]
           /\ superblock' = [k \in Disks |-> IF k \in S THEN array[d] ELSE superblock[k]]
           /\ UNCHANGED array
  <2>1. d \in Names /\ S \subseteq Disks
    BY DEF Add, At, IInv, Kinds, RequestsHoldTheirKind, Jobs
  <2>2. /\ members \in [Names -> SUBSET Disks]
        /\ \A e \in Names : members[e] \cap S = {}
        /\ MembersAreMarked /\ ArraysAreDisjoint
    BY <1>2 DEF IInv, Disjoint, Kinds, TypeOK, Busy
  <2>3. MembersAreMarked'
    BY <1>2, <2>1, <2>2 DEF MembersAreMarked
  <2>4. ArraysAreDisjoint'
    BY <1>2, <2>1, <2>2 DEF ArraysAreDisjoint
  <2>5. IdentitiesAreUsed'
    BY <1>2, <2>1, StillUsed DEF IdentitiesAreUsed
  <2>6. QED
    BY <2>3, <2>4, <2>5 DEF Disjoint
<1>3. QED
  BY <1>1, <1>2 DEF Add, CommandFails

LEMMA RemoveDisjoint ==
  ASSUME IInv, [Next]_vars, NEW r \in Requests, Remove(r) PROVE Disjoint'
<1> DEFINE d == job[r].dev
           S == job[r].disks
<1>1. CASE UNCHANGED diskVars
  BY <1>1, QuietDisjoint DEF diskVars
<1>2. CASE members' = [members EXCEPT ![d] = @ \ S] /\ UNCHANGED <<superblock, array>>
  <2>1. members \in [Names -> SUBSET Disks] /\ MembersAreMarked /\ ArraysAreDisjoint
    BY DEF IInv, Disjoint, Kinds, TypeOK
  <2>2. MembersAreMarked' /\ ArraysAreDisjoint'
    BY <1>2, <2>1 DEF MembersAreMarked, ArraysAreDisjoint
  <2>3. IdentitiesAreUsed'
    BY <1>2, StillUsed DEF IdentitiesAreUsed
  <2>4. QED
    BY <2>2, <2>3 DEF Disjoint
<1>3. QED
  BY <1>1, <1>2 DEF Remove, CommandFails

\* The kernel assembles each array from the disks that name it, once.
LEMMA RebootDisjoint == ASSUME IInv, [Next]_vars, Reboot PROVE Disjoint'
<1>1. PICK n \in [Found -> Names \cup {None}] :
        /\ \A u, v \in Found : u # v => n[u] # n[v] \/ n[u] = None
        /\ \A d \in Names :
             \/ array'[d] = None /\ members'[d] = {}
             \/ \E u \in Found : n[u] = d /\ array'[d] = u /\ members'[d] = DisksOf(u)
  BY Booted
<1>2. /\ superblock' = superblock
      /\ \A u \in Found : u # None /\ \E k \in Disks : superblock[k] = u
  BY Assembled, NoneIsNothing DEF Found, UUIDs
<1>3. \A u : \A k \in DisksOf(u) : k \in Disks \cup stale /\ superblock[k] = u
  BY DEF DisksOf
<1>4. MembersAreMarked'
  BY <1>1, <1>2, <1>3 DEF MembersAreMarked
<1>5. ArraysAreDisjoint'
  BY <1>1, <1>3 DEF ArraysAreDisjoint
<1>6. \A d \in Names : array'[d] = None \/ \E k \in Disks : array'[d] = superblock[k]
  BY <1>1, <1>2
<1>7. IdentitiesAreUsed'
  BY <1>2, <1>6, StillUsed DEF IdentitiesAreUsed
<1>8. QED
  BY <1>4, <1>5, <1>7 DEF Disjoint

LEMMA NextDisjoint == IInv /\ [Next]_vars => Disjoint'
<1> SUFFICES ASSUME IInv, [Next]_vars PROVE Disjoint'
  OBVIOUS
<1>1. CASE \E r \in Requests : Continue(r)
  <2>1. PICK r \in Requests : Continue(r)
    BY <1>1
  <2>2. CASE \/ PersistRead(r) \/ PersistWrite(r) \/ ReadMembers(r) \/ ConfRead(r)
             \/ ConfWrite(r) \/ Stopped(r) \/ ReadArrays(r) \/ CheckUnmounted(r)
             \/ FailDisk(r) \/ Mount(r)
    <3>1. UNCHANGED <<superblock, array, members>>
      BY <2>2 DEF PersistRead, PersistWrite, ReadMembers, ConfRead, ConfWrite, Stopped,
                  ReadArrays, CheckUnmounted, FailDisk, Mount, CommandFails, diskVars
    <3>2. QED
      BY <3>1, QuietDisjoint
  <2>3. CASE StopArray(r) \/ WipeStop(r)
    <3>1. Halt(job[r].dev) \/ UNCHANGED diskVars
      BY <2>3 DEF StopArray, WipeStop, CommandFails
    <3>2. QED
      BY <3>1, HaltDisjoint, QuietDisjoint DEF diskVars
  <2>4. QED
    BY <2>1, <2>2, <2>3, CreateDisjoint, ClearMemberDisjoint, WipeDisjoint, AddDisjoint,
       RemoveDisjoint DEF Continue
<1>2. CASE Reboot
  BY <1>2, RebootDisjoint
<1>3. CASE (\E r \in Requests, j \in Jobs : Begin(r, j)) \/ UNCHANGED vars
  <2>1. UNCHANGED <<superblock, array, members>>
    BY <1>3 DEF Begin, vars, diskVars
  <2>2. QED
    BY <2>1, QuietDisjoint
<1>4. QED
  BY <1>1, <1>2, <1>3 DEF Next

-----------------------------------------------------------------------------
(* One request at a time                                                   *)

\* A step of a request is its own: it changes what the others hold in nothing.
LEMMA StepOfOne ==
  ASSUME Kinds, NEW r \in Requests, Continue(r)
  PROVE  /\ r \in Active /\ (mishap => mishap')
         /\ job'[r].op = job[r].op
         /\ \A q \in Requests \ {r} :
              /\ pc'[q] = pc[q] /\ job'[q] = job[q] /\ local'[q] = local[q]
              /\ confRead'[q] = confRead[q] /\ stopped'[q] = stopped[q]
<1> USE DEF Kinds, TypeOK, Active, Goto, Answer, CommandFails, Smooth, Mishap, At, Halt
<1>1. CASE CreateArray(r) \/ PersistRead(r) \/ PersistWrite(r)
  BY <1>1 DEF CreateArray, PersistRead, PersistWrite, Steps
<1>2. CASE ReadMembers(r) \/ ConfRead(r) \/ ConfWrite(r)
  BY <1>2 DEF ReadMembers, ConfRead, ConfWrite, Steps
<1>3. CASE StopArray(r) \/ (\E k \in Disks : ClearMember(r, k)) \/ Stopped(r)
  BY <1>3 DEF StopArray, ClearMember, Stopped, Steps
<1>4. CASE ReadArrays(r) \/ WipeStop(r) \/ Wipe(r)
  BY <1>4 DEF ReadArrays, WipeStop, Wipe, Steps
<1>5. CASE CheckUnmounted(r)
  <2>1. PICK d \in local[r] :
          \/ Answer(r, "error")
          \/ /\ job' = [job EXCEPT ![r] = [job[r] EXCEPT !.dev = d]]
             /\ local' = [local EXCEPT ![r] = @ \ {d}]
             /\ pc' = [pc EXCEPT ![r] = "wipe_stop"]
             /\ UNCHANGED confRead
    BY <1>5 DEF CheckUnmounted
  <2>2. job[r] \in [op : Ops \cup {"none"}, dev : Names \cup {None}, disks : SUBSET Disks]
    BY DEF Jobs, NoJob
  <2>3. [job[r] EXCEPT !.dev = d].op = job[r].op
    BY <2>2
  <2>4. pc[r] \in Steps /\ (mishap => mishap') /\ stopped' = stopped
    BY <1>5 DEF CheckUnmounted, Steps
  <2>5. QED
    BY <2>1, <2>3, <2>4
<1>6. CASE Add(r) \/ FailDisk(r) \/ Remove(r) \/ Mount(r)
  BY <1>6 DEF Add, FailDisk, Remove, Mount, Steps
<1>7. QED
  BY <1>1, <1>2, <1>3, <1>4, <1>5, <1>6 DEF Continue

\* Without a mishap, only one request is active when another one is not begun.
LEMMA NextSerial ==
  ASSUME Kinds, Serial, [Next]_vars, ~mishap'
  PROVE  ~mishap /\ Serial'
<1> USE DEF Serial, Active, Kinds, TypeOK
<1>1. CASE \E r \in Requests, j \in Jobs : Begin(r, j)
  BY <1>1 DEF Begin, Goto
<1>2. CASE \E r \in Requests : Continue(r)
  <2>1. PICK r \in Requests : Continue(r)
    BY <1>2
  <2>2. r \in Active /\ ~mishap /\ \A q \in Requests \ {r} : pc'[q] = pc[q]
    BY <2>1, StepOfOne
  <2>3. QED
    BY <2>2
<1>3. CASE Reboot
  BY <1>3 DEF Reboot, Steps
<1>4. CASE UNCHANGED vars
  BY <1>4 DEF vars, requestVars
<1>5. QED
  BY <1>1, <1>2, <1>3, <1>4 DEF Next

\* Nothing brings an identity back that no disk and no array has.
LEMMA GoneStays ==
  ASSUME IInv, [Next]_vars, NEW u \in Identities, Gone(u)
  PROVE  Gone(u)'
<1> USE DEF Gone, Halted
<1>1. /\ array \in [Names -> UUIDs \cup {None}] /\ superblock \in [Disks -> UUIDs \cup {None}]
      /\ u # None
  BY NoneIsNothing DEF IInv, Kinds, TypeOK, Identities
<1>2. CASE UNCHANGED <<superblock, array>>
  BY <1>2
<1>3. CASE \E r \in Requests : Continue(r)
  <2>1. PICK r \in Requests : Continue(r)
    BY <1>3
  <2>2. CASE CreateArray(r)
    <3>1. r # u
      BY <2>2 DEF CreateArray, Identities, Used
    <3>2. QED
      BY <1>1, <1>2, <2>2, <3>1 DEF CreateArray, CommandFails, diskVars
  <2>3. CASE Add(r)
    <3>1. job[r].dev \in Names
      BY <2>3 DEF Add, At, IInv, Kinds, RequestsHoldTheirKind
    <3>2. QED
      BY <1>1, <1>2, <2>3, <3>1 DEF Add, CommandFails, diskVars
  <2>4. CASE StopArray(r) \/ WipeStop(r)
    BY <1>1, <1>2, <2>4 DEF StopArray, WipeStop, Halt, CommandFails, diskVars
  <2>5. CASE (\E k \in Disks : ClearMember(r, k)) \/ Wipe(r)
    BY <1>1, <1>2, <2>5 DEF ClearMember, Wipe, CommandFails, diskVars
  <2>6. CASE \/ PersistRead(r) \/ PersistWrite(r) \/ ReadMembers(r) \/ ConfRead(r)
             \/ ConfWrite(r) \/ Stopped(r) \/ ReadArrays(r) \/ CheckUnmounted(r)
             \/ FailDisk(r) \/ Remove(r) \/ Mount(r)
    BY <1>2, <2>6 DEF PersistRead, PersistWrite, ReadMembers, ConfRead, ConfWrite, Stopped,
                      ReadArrays, CheckUnmounted, FailDisk, Remove, Mount, CommandFails, diskVars
  <2>7. QED
    BY <2>1, <2>2, <2>3, <2>4, <2>5, <2>6 DEF Continue
<1>4. CASE Reboot
  <2>1. /\ superblock' = superblock
        /\ \A d \in Names : array'[d] = None \/ array'[d] \in Found
    BY <1>4, Booted, Assembled
  <2>2. u \notin Found
    BY DEF Found
  <2>3. QED
    BY <1>1, <2>1, <2>2
<1>5. CASE (\E r \in Requests, j \in Jobs : Begin(r, j)) \/ UNCHANGED vars
  BY <1>2, <1>5 DEF Begin, vars, diskVars
<1>6. QED
  BY <1>3, <1>4, <1>5 DEF Next

LEMMA NextStoppedWere ==
  ASSUME IInv, StoppedWere, [Next]_vars
  PROVE  StoppedWere'
<1> USE DEF StoppedWere
<1>1. Identities \subseteq Identities'
  BY UsedStays DEF Identities, IInv
<1>2. pc \in [Requests -> {"new"} \cup Steps \cup Answers]
  BY DEF IInv, Kinds, TypeOK
<1>3. CASE \E r \in Requests, j \in Jobs : Begin(r, j)
  BY <1>1, <1>2, <1>3 DEF Begin, Goto
<1>4. CASE \E r \in Requests : Continue(r)
  <2>1. PICK r \in Requests : Continue(r)
    BY <1>4
  <2>2. \A q \in Requests \ {r} : pc'[q] = pc[q] /\ stopped'[q] = stopped[q]
    BY <2>1, StepOfOne DEF IInv
  <2>3. stopped'[r] \in Identities' \cup {None} /\ (stopped'[r] # None => pc'[r] \in {"clear", "ok"})
    <3>1. CASE StopArray(r)
      <4>1. job[r].dev \in Names /\ array[job[r].dev] \in Identities \cup {None}
        BY <3>1 DEF StopArray, At, IInv, Kinds, RequestsHoldTheirKind, Disjoint, IdentitiesAreUsed
      <4>2. stopped \in [Requests -> UUIDs \cup {None}] /\ stopped[r] = None
        BY <3>1 DEF StopArray, At, IInv, Kinds, TypeOK
      <4>3. QED
        BY <1>1, <1>2, <3>1, <4>1, <4>2 DEF StopArray, Goto, CommandFails, Answer
    <3>2. CASE (\E k \in Disks : ClearMember(r, k)) \/ Stopped(r)
      BY <1>1, <1>2, <3>2 DEF ClearMember, Stopped, Answer, Goto
    <3>3. CASE ~StopArray(r) /\ pc[r] # "clear"
      <4>1. pc[r] \in Steps /\ stopped[r] = None
        BY <2>1, <3>3, StepOfOne DEF IInv, Active, Steps
      <4>2. stopped'[r] = stopped[r]
        BY <2>1, <3>3 DEF Continue, CreateArray, PersistRead, PersistWrite, ReadMembers, ConfRead,
                  ConfWrite, ClearMember, Stopped, ReadArrays, CheckUnmounted, WipeStop, Wipe,
                  Add, FailDisk, Remove, Mount, CommandFails
      <4>3. QED
        BY <4>1, <4>2
    <3>4. QED
      <4>1. CASE pc[r] = "clear"
        BY <2>1, <3>2, <4>1 DEF Continue, CreateArray, PersistRead, PersistWrite, ReadMembers,
           ConfRead, ConfWrite, StopArray, ReadArrays, CheckUnmounted, WipeStop, Wipe, Add,
           FailDisk, Remove, Mount, At
      <4>2. QED
        BY <3>1, <3>3, <4>1
  <2>4. QED
    BY <1>1, <2>2, <2>3
<1>5. CASE Reboot
  BY <1>1, <1>2, <1>5, Assembled DEF Active, Steps
<1>6. CASE UNCHANGED vars
  BY <1>1, <1>6 DEF vars, requestVars
<1>7. QED
  BY <1>3, <1>4, <1>5, <1>6 DEF Next

-----------------------------------------------------------------------------
(* Deletions                                                               *)

\* Without a mishap and without a removal of a disk there was none before.
LEMMA CleanBefore ==
  ASSUME Kinds, Serial, [Next]_vars, Clean'
  PROVE  Clean
<1>1. ~mishap
  BY NextSerial DEF Clean
<1>2. ASSUME NEW r \in Requests, job[r].op = "remove" PROVE FALSE
  <2>1. pc[r] # "new"
    BY <1>2 DEF Kinds, RequestsHoldTheirKind, NoJob
  <2>2. job'[r].op = job[r].op
    <3>1. CASE \E q \in Requests, j \in Jobs : Begin(q, j)
      BY <2>1, <3>1 DEF Begin, Kinds, TypeOK
    <3>2. CASE \E q \in Requests : Continue(q)
      BY <3>2, StepOfOne
    <3>3. CASE Reboot \/ UNCHANGED vars
      BY <3>3, Assembled DEF vars, requestVars
    <3>4. QED
      BY <3>1, <3>2, <3>3 DEF Next
  <2>3. QED
    BY <1>2, <2>2 DEF Clean
<1>3. QED
  BY <1>1, <1>2 DEF Clean

\* The steps that change no superblock and no array.
LEMMA QuietDeletion ==
  ASSUME IInv, StoppedWere, Clean, Deletions, NEW r \in Requests, Continue(r), ~mishap',
         \/ PersistRead(r) \/ PersistWrite(r) \/ ReadMembers(r) \/ ConfRead(r)
         \/ ConfWrite(r) \/ Stopped(r) \/ ReadArrays(r) \/ CheckUnmounted(r)
         \/ FailDisk(r) \/ Mount(r)
  PROVE  Complete' /\ Deletion(r)'
<1> USE DEF Goto, Answer, CommandFails, Smooth, Mishap, diskVars
<1>1. /\ pc \in [Requests -> {"new"} \cup Steps \cup Answers] /\ local[r] \subseteq Disks \cup Names
      /\ local \in [Requests -> SUBSET (Disks \cup Names)]
      /\ Complete /\ Deletion(r) /\ job[r].op # "remove"
      /\ stopped[r] # None => pc[r] \in {"clear", "ok", "killed"}
  BY DEF IInv, Kinds, TypeOK, Deletions, Clean, StoppedWere
<1>2. UNCHANGED <<superblock, stale, array, members, stopped>>
  BY <1>1 DEF PersistRead, PersistWrite, ReadMembers, ConfRead, ConfWrite, Stopped,
              ReadArrays, CheckUnmounted, FailDisk, Mount, At
<1>3. Complete'
  BY <1>1, <1>2 DEF Complete
<1> SUFFICES Deletion(r)'
  BY <1>3
<1>4. CASE ReadMembers(r)
  BY <1>1, <1>2, <1>4 DEF ReadMembers, Deletion, At
<1>5. CASE ConfRead(r) \/ ConfWrite(r)
  BY <1>1, <1>2, <1>5 DEF ConfRead, ConfWrite, Deletion
<1>6. CASE Stopped(r)
  BY <1>1, <1>2, <1>6 DEF Stopped, Deletion, Gone, Halted
<1>7. CASE PersistRead(r) \/ PersistWrite(r) \/ Mount(r)
  BY <1>1, <1>2, <1>7 DEF PersistRead, PersistWrite, Mount, At, Deletion
<1>8. CASE ReadArrays(r)
  BY <1>1, <1>2, <1>8 DEF ReadArrays, At, Deletion
<1>9. CASE CheckUnmounted(r)
  <2>1. pc'[r] \in {"error", "wipe_stop"} /\ stopped[r] = None
    BY <1>1, <1>9 DEF CheckUnmounted, At
  <2>2. QED
    BY <1>2, <2>1 DEF Deletion
<1>10. CASE FailDisk(r)
  BY <1>1, <1>10 DEF FailDisk, At
<1>11. QED
  BY <1>4, <1>5, <1>6, <1>7, <1>8, <1>9, <1>10

\* The commands that change superblocks and arrays.
LEMMA CommandDeletion ==
  ASSUME IInv, StoppedWere, Clean, Deletions, NEW r \in Requests, Continue(r), ~mishap',
         \/ CreateArray(r) \/ StopArray(r) \/ (\E k \in Disks : ClearMember(r, k))
         \/ WipeStop(r) \/ Wipe(r) \/ Add(r) \/ Remove(r)
  PROVE  Complete' /\ Deletion(r)'
<1> USE DEF Goto, Answer, CommandFails, Smooth, Mishap, diskVars
<1>1. /\ pc \in [Requests -> {"new"} \cup Steps \cup Answers]
      /\ local \in [Requests -> SUBSET (Disks \cup Names)]
      /\ stopped \in [Requests -> UUIDs \cup {None}]
      /\ array \in [Names -> UUIDs \cup {None}] /\ members \in [Names -> SUBSET Disks]
      /\ superblock \in [Disks -> UUIDs \cup {None}]
      /\ Complete /\ Deletion(r) /\ job[r].op # "remove"
      /\ stopped[r] # None => pc[r] \in {"clear", "ok", "killed"}
      /\ job[r].op # "wipe" => job[r].dev \in Names
      /\ job[r].disks \subseteq Disks
      /\ MembersAreMarked /\ ArraysAreDisjoint
  BY StepOfOne DEF IInv, Kinds, TypeOK, Deletions, Clean, StoppedWere, RequestsHoldTheirKind, Disjoint,
                   Jobs, Active, Steps
<1>2. CASE UNCHANGED diskVars /\ pc'[r] \in {"error", "conf_read"} /\ job[r].op # "stop"
           /\ UNCHANGED <<stopped, job>>
  BY <1>1, <1>2 DEF Complete, Deletion
<1>3. CASE CreateArray(r)
  <2>1. CASE CommandFails(r, TRUE)
    BY <1>1, <1>2, <1>3, <2>1 DEF CreateArray, At
  <2>2. CASE /\ array' = [array EXCEPT ![job[r].dev] = r]
             /\ members' = [members EXCEPT ![job[r].dev] = job[r].disks]
             /\ superblock' = [k \in Disks |-> IF k \in job[r].disks THEN r ELSE superblock[k]]
             /\ stale' = stale \ job[r].disks
             /\ pc' = [pc EXCEPT ![r] = "persist_read"]
             /\ UNCHANGED stopped
    <3>1. job[r].dev \in Names /\ ~Used(r)
      BY <1>1, <1>3 DEF CreateArray, At, Used
    <3>2. (\A k \in Disks : superblock[k] # r) /\ (\A d \in Names : array[d] # r) /\ r # None
      BY <3>1, NoneIsNothing DEF IInv, Disjoint, IdentitiesAreUsed, Identities
    <3>3. \A k \in job[r].disks : ~Busy(k)
      BY <1>3, <2>2, <1>1, <3>2 DEF CreateArray
    <3>4. Complete'
      BY <1>1, <2>2, <3>1, <3>2, <3>3 DEF Complete, Busy
    <3>5. stopped[r] = None
      BY <1>1, <1>3 DEF CreateArray, At
    <3>6. Deletion(r)'
      BY <1>1, <2>2, <3>5 DEF Deletion
    <3>7. QED
      BY <3>4, <3>6
  <2>3. QED
    BY <1>3, <2>1, <2>2 DEF CreateArray
<1>4. CASE StopArray(r)
  <2> DEFINE d == job[r].dev
  <2>1. d \in Names /\ pc[r] = "stop" /\ job[r].op = "stop" /\ local[r] = members[d]
    BY <1>1, <1>4 DEF StopArray, At, Deletion
  <2>2. CASE UNCHANGED diskVars /\ pc'[r] = "error" /\ UNCHANGED stopped
    BY <1>1, <2>2 DEF Complete, Deletion
  <2>3. CASE /\ array[d] # None /\ Halt(d)
             /\ pc' = [pc EXCEPT ![r] = "clear"]
             /\ stopped' = [stopped EXCEPT ![r] = array[d]]
             /\ UNCHANGED <<job, local>>
    <3>1. Complete'
      BY <1>1, <2>1, <2>3 DEF Complete, Halt
    <3>2. \A e \in Names : array'[e] # array[d]
      BY <1>1, <2>1, <2>3 DEF Halt, ArraysAreDisjoint
    <3>3. \A k \in Disks : superblock'[k] = array[d] => k \in local'[r]
      BY <1>1, <2>1, <2>3 DEF Halt, Complete
    <3>4. stopped'[r] = array[d] /\ pc'[r] = "clear"
      BY <1>1, <2>3
    <3>5. QED
      BY <3>1, <3>2, <3>3, <3>4 DEF Deletion, Halted
  <2>4. QED
    BY <1>1, <1>4, <2>2, <2>3 DEF StopArray
<1>5. CASE \E k \in Disks : ClearMember(r, k)
  <2>1. PICK k \in Disks : ClearMember(r, k)
    BY <1>5
  <2>2. /\ pc[r] = "clear" /\ local' = [local EXCEPT ![r] = @ \ {k}]
        /\ UNCHANGED <<array, members, pc, job, stopped>>
    BY <2>1 DEF ClearMember
  <2>3. CASE superblock' = [superblock EXCEPT ![k] = None] /\ stale' = stale \ {k} /\ ~Busy(k)
    BY <1>1, <2>2, <2>3 DEF Complete, Deletion, Halted, Gone, Busy
  <2>4. CASE UNCHANGED <<superblock, stale>> /\ Busy(k)
    BY <1>1, <2>2, <2>4 DEF Complete, Deletion, Halted, Gone, Busy, MembersAreMarked
  <2>5. QED
    BY <2>1, <2>3, <2>4 DEF ClearMember
<1>6. CASE WipeStop(r)
  <2>1. CASE Halt(job[r].dev)
    <3>1. Complete'
      BY <1>1, <2>1 DEF Complete, Halt
    <3>2. stopped'[r] = None /\ job'[r].op = "wipe"
      BY <1>1, <1>6 DEF WipeStop, At
    <3>3. QED
      BY <3>1, <3>2 DEF Deletion
  <2>2. QED
    BY <1>1, <1>2, <1>6, <2>1 DEF WipeStop, At
<1>7. CASE Wipe(r)
  <2>1. CASE CommandFails(r, TRUE)
    BY <1>1, <1>2, <1>7, <2>1 DEF Wipe, At
  <2>2. CASE /\ \A k \in job[r].disks : ~Busy(k)
             /\ superblock' = [k \in Disks |-> IF k \in job[r].disks THEN None ELSE superblock[k]]
             /\ stale' = stale \ job[r].disks
             /\ pc' = [pc EXCEPT ![r] = "ok"]
             /\ UNCHANGED <<array, members, job, stopped>>
    BY <1>1, <1>7, <2>2 DEF Wipe, At, Complete, Deletion, Busy
  <2>3. QED
    BY <1>7, <2>1, <2>2 DEF Wipe
<1>8. CASE Add(r)
  <2>1. CASE CommandFails(r, TRUE)
    BY <1>1, <1>2, <1>8, <2>1 DEF Add, At
  <2>2. CASE /\ array[job[r].dev] # None
             /\ members' = [members EXCEPT ![job[r].dev] = @ \cup job[r].disks]
             /\ superblock' = [k \in Disks |-> IF k \in job[r].disks THEN array[job[r].dev]
                                               ELSE superblock[k]]
             /\ stale' = stale \ job[r].disks
             /\ pc' = [pc EXCEPT ![r] = "ok"]
             /\ UNCHANGED <<array, job, stopped>>
    <3>1. job[r].dev \in Names /\ job[r].op = "add" /\ stopped[r] = None
      BY <1>1, <1>8 DEF Add, At
    <3>2. Complete'
      BY <1>1, <2>2, <3>1 DEF Complete, ArraysAreDisjoint
    <3>3. QED
      BY <1>1, <2>2, <3>1, <3>2 DEF Deletion
  <2>3. QED
    BY <1>8, <2>1, <2>2 DEF Add
<1>9. CASE Remove(r)
  BY <1>1, <1>9 DEF Remove, At
<1>10. QED
  BY <1>3, <1>4, <1>5, <1>6, <1>7, <1>8, <1>9

\* A request that is not active has nothing on its way, and what it deleted stays
\* gone.
LEMMA IdleDeletion ==
  ASSUME IInv, StoppedWere, [Next]_vars, NEW q \in Requests, Deletion(q),
         q \notin Active, pc'[q] = pc[q], stopped'[q] = stopped[q]
  PROVE  Deletion(q)'
<1>1. pc'[q] \notin Steps
  BY DEF Active
<1>2. PICK u : u = stopped[q]
  OBVIOUS
<1>3. u # None /\ pc[q] = "ok" => Gone(u)'
  BY <1>2, GoneStays DEF StoppedWere, Deletion
<1>4. QED
  BY <1>1, <1>2, <1>3 DEF Deletion, Steps, Gone, Halted

LEMMA NextDeletions ==
  ASSUME IInv, Serial, StoppedWere, Deletions, [Next]_vars, Clean'
  PROVE  Complete' /\ \A q \in Requests : Deletion(q)'
<1>1. Clean /\ ~mishap' /\ Complete /\ \A q \in Requests : Deletion(q)
  BY CleanBefore DEF IInv, Clean, Deletions
<1>2. pc \in [Requests -> {"new"} \cup Steps \cup Answers]
  BY DEF IInv, Kinds, TypeOK
<1>3. CASE \E r \in Requests, j \in Jobs : Begin(r, j)
  <2>1. PICK r \in Requests, j \in Jobs : Begin(r, j)
    BY <1>3
  <2>2. Active = {} /\ UNCHANGED <<superblock, stale, array, members, stopped>>
    BY <1>1, <2>1 DEF Begin, diskVars
  <2>3. Complete'
    BY <1>1, <2>2 DEF Complete
  <2>4. pc[r] = "new" /\ stopped[r] = None
    BY <2>1 DEF Begin, StoppedWere
  <2>5. j.op \in Ops
    BY DEF Jobs
  <2>6. pc' = [pc EXCEPT ![r] = FirstStep[j.op]]
        /\ FirstStep[j.op] \notin {"conf_read", "conf_write", "stop"}
    BY <2>1, <2>5 DEF Begin, Goto, FirstStep, Ops
  <2>7. Deletion(r)'
    BY <1>2, <2>2, <2>4, <2>6 DEF Deletion
  <2>8. ASSUME NEW q \in Requests \ {r} PROVE Deletion(q)'
    BY <1>1, <1>2, <2>2, <2>6, <2>8, IdleDeletion
  <2>9. QED
    BY <2>3, <2>7, <2>8
<1>4. CASE \E r \in Requests : Continue(r)
  <2>1. PICK r \in Requests : Continue(r)
    BY <1>4
  <2>2. Complete' /\ Deletion(r)'
    BY <1>1, <2>1, QuietDeletion, CommandDeletion DEF Continue
  <2>3. r \in Active /\ \A q \in Requests \ {r} : pc'[q] = pc[q] /\ stopped'[q] = stopped[q]
    BY <2>1, StepOfOne DEF IInv
  <2>4. ASSUME NEW q \in Requests \ {r} PROVE Deletion(q)'
    <3>1. q \notin Active
      BY <1>1, <2>3 DEF Serial, Clean
    <3>2. QED
      BY <1>1, <2>3, <2>4, <3>1, IdleDeletion
  <2>5. QED
    BY <2>2, <2>4
<1>5. CASE Reboot
  <2>1. /\ mishap' = (mishap \/ Active # {})
        /\ pc' = [r \in Requests |-> IF r \in Active THEN "killed" ELSE pc[r]]
        /\ stopped' = stopped /\ superblock' = superblock /\ stale' = stale
    BY <1>5, Assembled
  <2>2. Active = {}
    BY <1>1, <2>1 DEF Clean
  <2>3. \A q \in Requests : q \notin Active /\ pc'[q] = pc[q]
    BY <2>1, <2>2
  <2>4. \A q \in Requests : Deletion(q)'
    BY <1>1, <2>1, <2>3, IdleDeletion
  <2>5. \A d \in Names : \/ array'[d] = None
                        \/ \E u \in Found : array'[d] = u /\ members'[d] = DisksOf(u)
    BY <1>5, Booted
  <2>6. \A u \in Found : \A k \in Disks : superblock[k] = u => k \in DisksOf(u)
    BY <1>1 DEF Complete, DisksOf
  <2>7. Complete'
    BY <1>1, <2>1, <2>5, <2>6 DEF Complete
  <2>8. QED
    BY <2>4, <2>7
<1>6. CASE UNCHANGED vars
  <2>1. Complete'
    BY <1>1, <1>6 DEF vars, diskVars, Complete
  <2>2. ASSUME NEW q \in Requests PROVE Deletion(q)'
    BY <1>1, <1>6 DEF vars, diskVars, requestVars, Deletion, Gone, Halted
  <2>3. QED
    BY <2>1, <2>2
<1>7. QED
  BY <1>3, <1>4, <1>5, <1>6 DEF Next

-----------------------------------------------------------------------------
(* The lines of mdadm.conf                                                 *)

\* A request that is not active is not about to write or to stop anything.
LEMMA IdleWriting == ASSUME NEW r \in Requests, r \notin Active PROVE Writing(r)
BY DEF Active, Steps, Writing

\* The request that is being served is the only one that anything is left to.
LEMMA NamedOrMine ==
  ASSUME Serial, Listed, ~mishap, NEW r \in Active, NEW d \in Devices, array[d] # None
  PROVE  \/ Named(d)
         \/ job[r].dev = d /\ (pc[r] \in {"persist_read", "persist_write"} \/ At(r, "stop", "stop"))
<1>1. \A q \in Requests : q = r \/ pc[q] \notin Steps
  BY DEF Serial, Active
<1>2. QED
  BY <1>1 DEF Listed, Unfinished, At, Steps

\* A step that leaves the arrays and the lines alone.
LEMMA QuietNames ==
  ASSUME Serial, Listed, ~mishap, NEW r \in Active, UNCHANGED <<array, conf, unlisted>>,
         pc[r] \notin {"persist_read", "persist_write"}, ~At(r, "stop", "stop")
  PROVE  \A d \in Devices : array'[d] # None => Named(d)'
BY NamedOrMine DEF Named

LEMMA LinesStay ==
  ASSUME IInv, [Next]_vars, NEW u \in Requests, pc[u] \in Answers
  PROVE  pc'[u] \in Answers
<1>1. u \notin Active /\ pc[u] # "new"
  BY DEF Active, Answers, Steps
<1>2. CASE \E r \in Requests, j \in Jobs : Begin(r, j)
  BY <1>1, <1>2 DEF Begin, Goto, IInv, Kinds, TypeOK
<1>3. CASE \E r \in Requests : Continue(r)
  BY <1>1, <1>3, StepOfOne DEF IInv
<1>4. CASE Reboot \/ UNCHANGED vars
  BY <1>1, <1>4, Assembled DEF vars, requestVars
<1>5. QED
  BY <1>2, <1>3, <1>4 DEF Next

\* What a step does to the lines and to what its request knows of them.
LEMMA StepListed ==
  ASSUME IInv, Serial, Listed, NEW r \in Requests, Continue(r), ~mishap'
  PROVE  /\ \A d \in Devices : array'[d] # None => Named(d)' \/ Unfinished(d)'
         /\ \A line \in conf' : line \in conf \/ (line[2] = r /\ pc'[r] = "ok")
         /\ Writing(r)'
<1> USE DEF Goto, Answer, CommandFails, Smooth, Mishap, diskVars
<1>1. /\ pc \in [Requests -> {"new"} \cup Steps \cup Answers]
      /\ local \in [Requests -> SUBSET (Disks \cup Names)]
      /\ confRead \in [Requests -> SUBSET (Names \X UUIDs)]
      /\ array \in [Names -> UUIDs \cup {None}] /\ r # None
      /\ r \in Active /\ ~mishap /\ Writing(r) /\ RequestsHoldTheirKind
      /\ \A line \in conf : pc[line[2]] \in Answers
  BY StepOfOne, NoneIsNothing DEF IInv, Kinds, TypeOK, Listed
<1>2. CASE /\ UNCHANGED <<array, conf, unlisted>> /\ Writing(r)'
           /\ pc[r] \notin {"persist_read", "persist_write"} /\ ~At(r, "stop", "stop")
  BY <1>1, <1>2, QuietNames
<1>3. CASE CreateArray(r)
  <2>1. job[r].dev \in Names /\ pc[r] = "command"
    BY <1>1, <1>3 DEF CreateArray, At, RequestsHoldTheirKind
  <2>2. CASE pc' = [pc EXCEPT ![r] = "error"] /\ UNCHANGED <<array, conf, unlisted>>
    <3>1. Writing(r)'
      BY <1>1, <2>2 DEF Writing
    <3>2. QED
      BY <1>2, <2>1, <2>2, <3>1 DEF At
  <2>3. CASE /\ array' = [array EXCEPT ![job[r].dev] = r]
             /\ pc' = [pc EXCEPT ![r] = "persist_read"]
             /\ UNCHANGED <<conf, job, unlisted>>
    <3>1. Writing(r)'
      BY <1>1, <2>1, <2>3 DEF Writing
    <3>2. ASSUME NEW d \in Devices, array'[d] # None PROVE Named(d)' \/ Unfinished(d)'
      <4>1. CASE d = job[r].dev
        BY <1>1, <2>3, <4>1 DEF Unfinished
      <4>2. CASE d # job[r].dev
        <5>1. array'[d] = array[d]
          BY <1>1, <2>3, <4>2 DEF Names
        <5>2. Named(d)
          BY <1>1, <2>1, <3>2, <5>1, NamedOrMine DEF At
        <5>3. QED
          BY <2>3, <5>1, <5>2 DEF Named
      <4>3. QED
        BY <4>1, <4>2
    <3>3. QED
      BY <2>3, <3>1, <3>2
  <2>4. QED
    BY <1>3, <2>2, <2>3 DEF CreateArray
<1>4. CASE PersistRead(r)
  <2>1. array[job[r].dev] = r /\ pc[r] = "persist_read"
    BY <1>1, <1>4 DEF PersistRead, Writing
  <2>2. ~ \E line \in conf : line[2] = r
    BY <1>1, <2>1 DEF Answers
  <2>3. /\ confRead' = [confRead EXCEPT ![r] = {<<job[r].dev, r>>}]
        /\ pc' = [pc EXCEPT ![r] = "persist_write"]
        /\ UNCHANGED <<array, conf, job, unlisted>>
    BY <1>1, <1>4, <2>1, <2>2 DEF PersistRead
  <2>4. Writing(r)'
    BY <1>1, <2>1, <2>3 DEF Writing
  <2>5. ASSUME NEW d \in Devices, array'[d] # None PROVE Named(d)' \/ Unfinished(d)'
    <3>1. Named(d) \/ job[r].dev = d
      BY <1>1, <2>3, <2>5, NamedOrMine
    <3>2. QED
      BY <1>1, <2>3, <3>1 DEF Named, Unfinished
  <2>6. QED
    BY <2>3, <2>4, <2>5
<1>5. CASE PersistWrite(r)
  <2>1. pc[r] = "persist_write" /\ array[job[r].dev] = r /\ confRead[r] = {<<job[r].dev, r>>}
    BY <1>1, <1>5 DEF PersistWrite, Writing
  <2>2. /\ conf' = conf \cup {<<job[r].dev, r>>} /\ pc' = [pc EXCEPT ![r] = "ok"]
        /\ UNCHANGED <<array, unlisted>>
    BY <1>1, <1>5, <2>1 DEF PersistWrite
  <2>3. Writing(r)'
    BY <1>1, <2>2 DEF Writing
  <2>4. ASSUME NEW d \in Devices, array'[d] # None PROVE Named(d)'
    <3>1. Named(d) \/ job[r].dev = d
      BY <1>1, <2>2, <2>4, NamedOrMine
    <3>2. QED
      BY <2>1, <2>2, <3>1 DEF Named
  <2>5. QED
    BY <1>1, <2>2, <2>3, <2>4
<1>6. CASE ReadMembers(r) \/ ConfRead(r)
  <2>1. UNCHANGED <<array, conf, unlisted>> /\ pc[r] \in {"members", "conf_read"}
    BY <1>6 DEF ReadMembers, ConfRead, At
  <2>2. Writing(r)'
    <3>1. CASE ReadMembers(r)
      BY <1>1, <3>1 DEF ReadMembers, At, Writing
    <3>2. CASE ConfRead(r)
      BY <1>1, <3>2 DEF ConfRead, Writing
    <3>3. QED
      BY <1>6, <3>1, <3>2
  <2>3. QED
    BY <1>2, <2>1, <2>2 DEF At
<1>7. CASE ConfWrite(r)
  <2>1. /\ pc[r] = "conf_write" /\ confRead[r] = conf
        /\ job[r].op = "stop" \/ (job[r].op = "wipe" /\ array[job[r].dev] = None)
        /\ job[r].op = "stop" => job[r].dev \notin mounted
    BY <1>1, <1>7 DEF ConfWrite, Writing, RequestsHoldTheirKind
  <2>2. /\ conf' = {line \in conf : ~Matches(line, job[r].dev)}
        /\ unlisted' = unlisted \cup {job[r].dev}
        /\ \E step \in {"stop", "wipe", "check"} :
             pc' = [pc EXCEPT ![r] = step] /\ (job[r].op = "stop" => step = "stop")
        /\ UNCHANGED <<array, mounted, job>>
    BY <1>1, <1>7, <2>1 DEF ConfWrite
  <2>3. Writing(r)'
    BY <1>1, <2>1, <2>2 DEF Writing
  <2>4. ASSUME NEW d \in Devices, array'[d] # None PROVE Named(d)' \/ Unfinished(d)'
    <3>1. Named(d)
      BY <1>1, <2>1, <2>2, <2>4, NamedOrMine DEF At
    <3>2. CASE d = job[r].dev
      BY <1>1, <2>1, <2>2, <2>4, <3>2 DEF Unfinished, At
    <3>3. CASE d # job[r].dev
      BY <2>2, <3>1, <3>3 DEF Named, Matches
    <3>4. QED
      BY <3>2, <3>3
  <2>5. QED
    BY <2>2, <2>3, <2>4
<1>8. CASE StopArray(r) \/ WipeStop(r)
  <2>1. /\ job[r].dev \in Names /\ job[r].dev \notin mounted
        /\ StopArray(r) => pc[r] = "stop"
        /\ WipeStop(r) => pc[r] = "wipe_stop" /\ job[r].op = "wipe"
    BY <1>1, <1>8 DEF StopArray, WipeStop, At, Writing, RequestsHoldTheirKind
  <2>2. array' = [array EXCEPT ![job[r].dev] = None] /\ UNCHANGED <<conf, job, unlisted>>
    BY <1>1, <1>8, <2>1 DEF StopArray, WipeStop, Halt
  <2>3. /\ StopArray(r) => pc'[r] \in {"clear", "error"}
        /\ WipeStop(r) => pc'[r] = "conf_read"
    BY <1>1, <1>8 DEF StopArray, WipeStop
  <2>4. Writing(r)'
    BY <1>1, <1>8, <2>1, <2>2, <2>3 DEF Writing
  <2>5. ASSUME NEW d \in Devices, array'[d] # None PROVE Named(d)'
    <3>1. d # job[r].dev /\ array'[d] = array[d]
      BY <1>1, <2>2, <2>5 DEF Names
    <3>2. Named(d)
      BY <1>1, <2>5, <3>1, NamedOrMine
    <3>3. QED
      BY <2>2, <3>1, <3>2 DEF Named
  <2>6. QED
    BY <2>2, <2>4, <2>5
<1>9. CASE (\E k \in Disks : ClearMember(r, k)) \/ Stopped(r) \/ ReadArrays(r) \/ Wipe(r)
  <2>1. /\ UNCHANGED <<array, conf, unlisted>>
        /\ pc[r] \in {"clear", "arrays", "wipe"} /\ pc'[r] \in {"clear", "ok", "wipe", "check", "error"}
    BY <1>1, <1>9 DEF ClearMember, Stopped, ReadArrays, Wipe, At
  <2>2. QED
    BY <1>2, <2>1 DEF Writing, At
<1>10. CASE CheckUnmounted(r)
  <2>1. /\ UNCHANGED <<array, mounted, conf, unlisted>> /\ pc[r] = "check"
        /\ job[r] \in [op : Ops, dev : Names \cup {None}, disks : SUBSET Disks]
        /\ job \in [Requests -> Jobs \cup {NoJob}]
    BY <1>1, <1>10 DEF CheckUnmounted, At, RequestsHoldTheirKind, Jobs, IInv, Kinds, TypeOK
  <2>2. CASE pc'[r] = "error"
    BY <1>2, <2>1, <2>2 DEF Writing, At
  <2>3. CASE \E d \in local[r] : /\ d \notin mounted /\ job' = [job EXCEPT ![r].dev = d]
                               /\ pc' = [pc EXCEPT ![r] = "wipe_stop"]
    <3>1. PICK d \in local[r] : d \notin mounted /\ job' = [job EXCEPT ![r].dev = d]
      BY <2>3
    <3>2. job'[r].dev = d
      BY <2>1, <3>1
    <3>3. Writing(r)'
      BY <1>1, <2>1, <2>3, <3>1, <3>2 DEF Writing
    <3>4. QED
      BY <1>2, <2>1, <3>3 DEF At
  <2>4. QED
    BY <1>1, <1>10, <2>2, <2>3 DEF CheckUnmounted
<1>11. CASE Add(r) \/ FailDisk(r) \/ Remove(r) \/ Mount(r)
  <2>1. /\ UNCHANGED <<array, conf, unlisted>>
        /\ pc[r] \in {"command", "fail"} /\ pc'[r] \in {"ok", "error", "command"}
    BY <1>1, <1>11 DEF Add, FailDisk, Remove, Mount, At
  <2>2. QED
    BY <1>2, <2>1 DEF Writing, At
<1>12. QED
  BY <1>3, <1>4, <1>5, <1>6, <1>7, <1>8, <1>9, <1>10, <1>11 DEF Continue

LEMMA NextListed ==
  ASSUME IInv, Serial, Listed, [Next]_vars, ~mishap'
  PROVE  /\ \A d \in Devices : array'[d] # None => Named(d)' \/ Unfinished(d)'
         /\ \A line \in conf' : pc'[line[2]] \in Answers
         /\ \A q \in Requests : Writing(q)'
<1>1. /\ ~mishap /\ \A q \in Requests : Writing(q)
      /\ \A d \in Devices : array[d] # None => Named(d) \/ Unfinished(d)
      /\ \A line \in conf : pc[line[2]] \in Answers
      /\ conf \in SUBSET (Names \X Requests)
      /\ pc \in [Requests -> {"new"} \cup Steps \cup Answers]
  BY NextSerial DEF IInv, Kinds, TypeOK, Listed, UUIDs
<1>2. \A line \in conf : pc'[line[2]] \in Answers
  BY <1>1, LinesStay
<1>3. ASSUME NEW q \in Requests, pc'[q] \notin Steps PROVE Writing(q)'
  BY <1>3 DEF Writing, Steps
<1>4. ASSUME Active = {} PROVE \A d \in Devices : array[d] # None => Named(d)
  BY <1>1, <1>4 DEF Unfinished, Active, At, Steps
<1>5. CASE \E r \in Requests, j \in Jobs : Begin(r, j)
  <2>1. PICK r \in Requests, j \in Jobs : Begin(r, j)
    BY <1>5
  <2>2. Active = {} /\ UNCHANGED <<array, conf, unlisted>> /\ j.op \in Ops
    BY <1>1, <2>1 DEF Begin, diskVars, Jobs
  <2>3. /\ pc' = [pc EXCEPT ![r] = FirstStep[j.op]]
        /\ FirstStep[j.op] \in {"command", "members", "fail", "arrays"}
    BY <2>1, <2>2 DEF Begin, Goto, FirstStep, Ops
  <2>4. Writing(r)'
    BY <1>1, <2>3 DEF Writing
  <2>5. \A q \in Requests \ {r} : pc'[q] \notin Steps
    BY <1>1, <2>2, <2>3 DEF Active
  <2>6. \A d \in Devices : array'[d] # None => Named(d)'
    BY <1>4, <2>2 DEF Named
  <2>7. QED
    BY <1>2, <1>3, <2>2, <2>4, <2>5, <2>6
<1>6. CASE \E r \in Requests : Continue(r)
  <2>1. PICK r \in Requests : Continue(r)
    BY <1>6
  <2>2. /\ \A d \in Devices : array'[d] # None => Named(d)' \/ Unfinished(d)'
        /\ \A line \in conf' : line \in conf \/ (line[2] = r /\ pc'[r] = "ok")
        /\ Writing(r)'
    BY <2>1, StepListed
  <2>3. r \in Active /\ \A q \in Requests \ {r} : pc'[q] = pc[q]
    BY <2>1, StepOfOne DEF IInv
  <2>4. \A q \in Requests \ {r} : pc'[q] \notin Steps
    BY <1>1, <2>3 DEF Serial, Active
  <2>5. QED
    BY <1>2, <1>3, <2>2, <2>4 DEF Answers
<1>7. CASE Reboot
  <2>1. /\ UNCHANGED <<conf, unlisted>> /\ mishap' = (mishap \/ Active # {})
        /\ pc' = [r \in Requests |-> IF r \in Active THEN "killed" ELSE pc[r]]
    BY <1>7, Assembled
  <2>2. \A q \in Requests : pc'[q] \notin Steps
    BY <2>1 DEF Active, Steps
  <2>3. PICK n \in [Found -> Names \cup {None}] :
          /\ \A u \in Found : n[u] \in ForeignNames \cup {None} \/ <<n[u], u>> \in conf
          /\ \A d \in Names : array'[d] = None \/ \E u \in Found : n[u] = d /\ array'[d] = u
    BY <1>7, Booted
  <2>4. ASSUME NEW d \in Devices, array'[d] # None PROVE Named(d)'
    <3>1. PICK u \in Found : n[u] = d /\ array'[d] = u
      BY <2>3, <2>4 DEF Names
    <3>2. <<d, u>> \in conf
      BY <2>3, <3>1, NamesAssumption
    <3>3. QED
      BY <2>1, <3>1, <3>2 DEF Named
  <2>5. QED
    BY <1>2, <1>3, <2>1, <2>2, <2>4
<1>8. CASE UNCHANGED vars
  <2>1. UNCHANGED <<array, conf, unlisted, mounted, pc, job, confRead>>
    BY <1>8 DEF vars, diskVars, requestVars
  <2>2. \A q \in Requests : Writing(q)'
    BY <1>1, <2>1 DEF Writing
  <2>3. \A d \in Devices : array'[d] # None => Named(d)' \/ Unfinished(d)'
    BY <1>1, <2>1 DEF Named, Unfinished, At
  <2>4. QED
    BY <1>2, <2>1, <2>2, <2>3
<1>9. QED
  BY <1>5, <1>6, <1>7, <1>8 DEF Next

-----------------------------------------------------------------------------
\* The inductive invariant: what requests hold, which identities are taken, and
\* the two properties below, each of which needs the other (raid.go Create,
\* Stop, WipeDisk, AddDisk).
THEOREM Invariance == Spec => []IInv
<1>1. IInv /\ [Next]_vars => IInv'
  BY NextKinds, NextDisjoint DEF IInv
<1>2. QED
  BY <1>1, InitInv, PTL DEF Spec

\* The variables of the disks, of mdadm.conf and of the requests keep their
\* types.
THEOREM TypeCorrect == Spec => []TypeOK
<1>1. IInv => TypeOK
  BY DEF IInv, Kinds
<1>2. QED
  BY <1>1, Invariance, PTL

\* Every disk of a running array carries its superblock, whatever requests
\* overlap, fail or are cut short by a restart (raid.go Stop, WipeDisk).
THEOREM MembersStayMarked == Spec => []MembersAreMarked
<1>1. IInv => MembersAreMarked
  BY DEF IInv, Disjoint
<1>2. QED
  BY <1>1, Invariance, PTL

\* No two arrays share a disk or an identity (raid.go Create, AddDisk).
THEOREM ArraysStayDisjoint == Spec => []ArraysAreDisjoint
<1>1. IInv => ArraysAreDisjoint
  BY DEF IInv, Disjoint
<1>2. QED
  BY <1>1, Invariance, PTL
-----------------------------------------------------------------------------
(* The two promises of the comments in raid.go                             *)

\* What holds besides IInv as long as requests come one at a time and no command
\* fails without a reason.
Undisturbed == Serial /\ StoppedWere /\ Deletions /\ Listed

LEMMA InitUndisturbed == Init => Undisturbed
<1> SUFFICES ASSUME Init PROVE Undisturbed
  OBVIOUS
<1>1. /\ \A r \in Requests : pc[r] = "new" /\ stopped[r] = None
      /\ \A d \in Names : array[d] = None
      /\ stale = {} /\ conf = {}
  BY DEF Init
<1>2. Serial /\ StoppedWere
  BY <1>1 DEF Serial, StoppedWere, Active, Steps
<1>3. Complete /\ \A r \in Requests : Deletion(r)
  BY <1>1 DEF Complete, Deletion
<1>4. Listed
  <2>1. \A d \in Devices : array[d] = None
    BY <1>1 DEF Names
  <2>2. \A r \in Requests : Writing(r)
    BY <1>1 DEF Writing
  <2>3. QED
    BY <1>1, <2>1, <2>2 DEF Listed
<1>5. QED
  BY <1>2, <1>3, <1>4 DEF Undisturbed, Deletions

\* The stronger inductive invariant: requests served one at a time, how far each
\* deletion is, and what the request that writes mdadm.conf knows (raid.go Stop,
\* WipeDisk, persistArray, mdadmConfRemove).
THEOREM UndisturbedInvariance == Spec => [](IInv /\ Undisturbed)
<1>1. Init => IInv /\ Undisturbed
  BY InitInv, InitUndisturbed
<1>2. IInv /\ Undisturbed /\ [Next]_vars => (IInv /\ Undisturbed)'
  <2> SUFFICES ASSUME IInv, Undisturbed, [Next]_vars PROVE IInv' /\ Undisturbed'
    OBVIOUS
  <2>1. Serial /\ StoppedWere /\ Deletions /\ Listed
    BY DEF Undisturbed
  <2>2. IInv'
    BY NextKinds, NextDisjoint DEF IInv
  <2>3. Serial'
    <3>1. CASE mishap'
      BY <3>1 DEF Serial
    <3>2. CASE ~mishap'
      BY <2>1, <3>2, NextSerial DEF IInv
    <3>3. QED
      BY <3>1, <3>2
  <2>4. StoppedWere'
    BY <2>1, NextStoppedWere
  <2>5. Deletions'
    <3>1. CASE Clean'
      BY <2>1, <3>1, NextDeletions DEF Deletions
    <3>2. CASE ~Clean'
      BY <3>2 DEF Deletions
    <3>3. QED
      BY <3>1, <3>2
  <2>6. Listed'
    <3>1. CASE mishap'
      BY <3>1 DEF Listed
    <3>2. CASE ~mishap'
      BY <2>1, <3>2, NextListed DEF Listed
    <3>3. QED
      BY <3>1, <3>2
  <2>7. QED
    BY <2>2, <2>3, <2>4, <2>5, <2>6 DEF Undisturbed
<1>3. QED
  BY <1>1, <1>2, PTL DEF Spec

\* An array whose deletion was answered with 200 never runs again under any name,
\* however often the machine restarts, unless a disk was removed from an array
\* or there was a mishap (raid.go:346-349).
THEOREM DeletionsLast == Spec => []DeletedStaysDeleted
<1>1. IInv /\ Undisturbed => DeletedStaysDeleted
  <2> SUFFICES ASSUME IInv, Undisturbed, Clean, NEW d \in Names PROVE array[d] \notin Deleted
    BY DEF DeletedStaysDeleted, Clean
  <2>1. ASSUME NEW r \in Requests, pc[r] = "ok", stopped[r] # None PROVE array[d] # stopped[r]
    BY <2>1 DEF Undisturbed, Deletions, Deletion, Gone, Halted
  <2>2. QED
    BY <2>1 DEF Deleted
<1>2. QED
  BY <1>1, UndisturbedInvariance, PTL

\* When no request is being served, each array that runs under a name of nasd has
\* its line in mdadm.conf, unless the lines of an array whose name is a prefix of
\* its name were removed or there was a mishap (raid.go:169-171).
THEOREM NamesLast == Spec => []NamesArePersistent
<1>1. IInv /\ Undisturbed => NamesArePersistent
  BY DEF NamesArePersistent, Undisturbed, Listed, Named, Unfinished, Active, At, Steps
<1>2. QED
  BY <1>1, UndisturbedInvariance, PTL
=============================================================================
