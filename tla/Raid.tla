-------------------------------- MODULE Raid --------------------------------
(***************************************************************************)
(* Arrays (raid/raid.go Create, Stop, WipeDisk, AddDisk, RemoveDisk and    *)
(* the handlers of api/handlers.go that call them): the superblocks on the *)
(* disks, the arrays the kernel runs, and the ARRAY lines of mdadm.conf    *)
(* that give an array its name at boot.                                    *)
(*                                                                         *)
(* A handler is a sequence of commands (mdadm, umount, wipefs) and of      *)
(* reads and writes of mdadm.conf; handlers run concurrently and nothing   *)
(* locks mdadm.conf.  mdadm, the kernel and the boot are external: they    *)
(* are modelled by what the handlers rely on.  The level of an array and   *)
(* the data on it are left out.                                            *)
(***************************************************************************)
EXTENDS Naturals, FiniteSets

CONSTANTS
  Requests,      \* the requests; each is served once
  Disks,
  Devices,       \* the names /dev/mdN that requests use for new arrays
  ForeignNames,  \* the names the kernel gives to arrays without a conf line
  Shadows,       \* the pairs <<d, e>> of device names such that d is a prefix of e
  None

ASSUME NamesAssumption ==
  /\ Devices \cap ForeignNames = {}
  /\ None \notin Requests \cup Disks \cup Devices \cup ForeignNames
ASSUME ShadowsAssumption == Shadows \subseteq (Devices \X Devices) \cup (Disks \X Disks)

VARIABLES
  superblock,  \* per disk, the UUID of the array its superblock names, or None
  stale,       \* the disks whose superblock is behind that of their array
  array,       \* per name, the UUID of the array that runs under it, or None
  members,     \* per name, the disks of that array
  mounted,     \* the names of the arrays whose filesystem is mounted
  conf,        \* the ARRAY lines of mdadm.conf: <<name, UUID>>
  pc,          \* per request: where it is, or its answer
  job,         \* per request: its operation and arguments
  local,       \* per request: the disks or arrays it read and still has to handle
  confRead,    \* per request: the lines it read from mdadm.conf
  stopped,     \* history: per request, the array it stopped, or None
  unlisted,    \* history: the names whose lines nasd has removed from mdadm.conf
  mishap       \* history: two requests overlapped, or a command failed that had
               \* no reason to (a timeout, an I/O error), or a request was killed

diskVars == <<superblock, stale, array, members, mounted>>
requestVars == <<pc, job, local, confRead>>
vars == <<diskVars, conf, requestVars, stopped, unlisted, mishap>>

Names == Devices \cup ForeignNames
\* An array is identified by the request that created it.
UUIDs == Requests
Ops == {"create", "stop", "wipe", "add", "remove", "mount"}
Jobs == [op: Ops, dev: Names \cup {None}, disks: SUBSET Disks]
NoJob == [op |-> "none", dev |-> None, disks |-> {}]

Steps == {"command", "persist_read", "persist_write", "members", "conf_read",
          "conf_write", "stop", "clear", "arrays", "check", "wipe_stop", "wipe", "fail"}
Answers == {"ok", "error", "killed"}
Active == {r \in Requests : pc[r] \in Steps}

\* A disk is held by a running array: mdadm and wipefs open it exclusively.
Busy(k) == \E d \in Names : k \in members[d]

\* strings.Contains(line, mdDevice): the line of another array whose name
\* begins with mdDevice matches too (/dev/md1 and /dev/md10).
Matches(line, d) == line[1] = d \/ <<d, line[1]>> \in Shadows

At(r, op, step) == pc[r] = step /\ job[r].op = op
Goto(r, step) == pc' = [pc EXCEPT ![r] = step]
Answer(r, a) == Goto(r, a) /\ UNCHANGED <<job, local, confRead>>

Smooth == UNCHANGED mishap
Mishap == mishap' = TRUE

\* A command of request r fails, because it is refused or for a reason of its
\* own, and its error ends the request.
CommandFails(r, refused) ==
  /\ Answer(r, "error")
  /\ (refused /\ Smooth) \/ Mishap
  /\ UNCHANGED <<diskVars, conf, stopped, unlisted>>

-----------------------------------------------------------------------------
(* A request arrives, confirmed, with arguments that validation accepts    *)

FirstStep == [create |-> "command", add |-> "command", mount |-> "command",
              remove |-> "fail", stop |-> "members", wipe |-> "arrays"]

Begin(r, j) ==
  /\ pc[r] = "new"
  /\ mishap' = (mishap \/ Active # {})
  /\ CASE j.op = "create" -> j.dev \in Devices /\ Cardinality(j.disks) >= 2
       [] j.op = "wipe" -> j.dev = None /\ Cardinality(j.disks) = 1
       [] j.op \in {"stop", "mount"} -> j.dev \in Names /\ j.disks = {}
       [] OTHER -> j.dev \in Names /\ Cardinality(j.disks) = 1
  /\ job' = [job EXCEPT ![r] = j]
  /\ Goto(r, FirstStep[j.op])
  /\ UNCHANGED <<diskVars, conf, local, confRead, stopped, unlisted>>

-----------------------------------------------------------------------------
(* Create                                                                  *)

\* Mutant: a disk in use is taken for the new array.
CreateArrayUnchecked(r) ==
  LET d == job[r].dev  S == job[r].disks IN
  /\ At(r, "create", "command")
  /\ array[d] = None
  /\ array' = [array EXCEPT ![d] = r]
  /\ members' = [members EXCEPT ![d] = S]
  /\ superblock' = [k \in Disks |-> IF k \in S THEN r ELSE superblock[k]]
  /\ stale' = stale \ S
  /\ Goto(r, "persist_read")
  /\ UNCHANGED <<mounted, conf, job, local, confRead, stopped, unlisted, mishap>>

\* mdadm --create --run: refused when the name or a disk is in use; a stale
\* superblock on a disk is overwritten.
CreateArray(r) ==
  LET d == job[r].dev  S == job[r].disks IN
  /\ At(r, "create", "command")
  /\ \/ /\ array[d] = None
        /\ \A k \in S : ~Busy(k)
        /\ array' = [array EXCEPT ![d] = r]
        /\ members' = [members EXCEPT ![d] = S]
        /\ superblock' = [k \in Disks |-> IF k \in S THEN r ELSE superblock[k]]
        /\ stale' = stale \ S
        /\ Goto(r, "persist_read")
        /\ UNCHANGED <<mounted, conf, job, local, confRead, stopped, unlisted, mishap>>
     \/ CommandFails(r, array[d] # None \/ \E k \in S : Busy(k))

\* Mutant: a line of mdadm.conf that begins with the device counts as its line,
\* whatever the UUID.
PersistReadByName(r) ==
  LET d == job[r].dev IN
  /\ pc[r] = "persist_read"
  /\ confRead' = [confRead EXCEPT ![r] = {<<d, array[d]>>}]
  /\ Goto(r, IF \E line \in conf : Matches(line, d) THEN "ok" ELSE "persist_write")
  /\ UNCHANGED <<diskVars, conf, job, local, stopped, unlisted, mishap>>

\* persistArray: mdadm --detail --scan names the array that runs under d; the
\* line is appended unless mdadm.conf already has one with its UUID.
PersistRead(r) ==
  LET d == job[r].dev IN
  /\ pc[r] = "persist_read"
  /\ confRead' = [confRead EXCEPT ![r] = IF array[d] = None THEN {} ELSE {<<d, array[d]>>}]
  /\ LET listed == array[d] = None \/ \E line \in conf : line[2] = array[d] IN
     \/ ~listed /\ Goto(r, "persist_write") /\ Smooth
     \/ listed /\ Goto(r, "ok") /\ Smooth
     \/ Goto(r, "ok") /\ Mishap
  /\ UNCHANGED <<diskVars, conf, job, local, stopped, unlisted>>

\* The append (O_APPEND), whose failure is ignored, then update-initramfs.
PersistWrite(r) ==
  /\ pc[r] = "persist_write"
  /\ \/ conf' = conf \cup confRead[r] /\ Smooth
     \/ UNCHANGED conf /\ Mishap
  /\ Answer(r, "ok")
  /\ UNCHANGED <<diskVars, stopped, unlisted>>

-----------------------------------------------------------------------------
(* Stop                                                                    *)

\* Mutant: the members are read when the array no longer runs.
ReadMembersLate(r) ==
  /\ At(r, "stop", "members")
  /\ mounted' = mounted \ {job[r].dev}
  /\ local' = [local EXCEPT ![r] = {}]
  /\ Goto(r, "conf_read")
  /\ UNCHANGED <<superblock, stale, array, members, conf, job, confRead, stopped, unlisted, mishap>>

\* Unmount (a failure is ignored), then read the members before the stop.
ReadMembers(r) ==
  LET d == job[r].dev IN
  /\ At(r, "stop", "members")
  /\ \/ /\ mounted' = mounted \ {d}
        /\ local' = [local EXCEPT ![r] = members[d]]
        /\ Smooth
     \/ /\ mounted' \in {mounted, mounted \ {d}}
        /\ \E S \in {{}, members[d]} : local' = [local EXCEPT ![r] = S]
        /\ Mishap
  /\ Goto(r, "conf_read")
  /\ UNCHANGED <<superblock, stale, array, members, conf, job, confRead, stopped, unlisted>>

\* mdadmConfRemove, first half: os.ReadFile.
ConfRead(r) ==
  /\ pc[r] = "conf_read"
  /\ confRead' = [confRead EXCEPT ![r] = conf]
  /\ Goto(r, "conf_write")
  /\ UNCHANGED <<diskVars, conf, job, local, stopped, unlisted, mishap>>

\* mdadmConfRemove, second half: os.WriteFile of the lines kept, errors ignored.
\* (That it truncates first is left to Volumes, where fstab is written so.)
ConfWrite(r) ==
  /\ pc[r] = "conf_write"
  /\ \/ conf' = {line \in confRead[r] : ~Matches(line, job[r].dev)} /\ Smooth
     \/ UNCHANGED conf /\ Mishap
  /\ Goto(r, IF job[r].op = "stop" THEN "stop"
             ELSE IF local[r] = {} THEN "wipe" ELSE "check")
  /\ unlisted' = unlisted \cup {job[r].dev}
  /\ UNCHANGED <<diskVars, job, local, confRead, stopped>>

Halt(d) ==
  /\ array' = [array EXCEPT ![d] = None]
  /\ members' = [members EXCEPT ![d] = {}]
  /\ UNCHANGED <<superblock, stale, mounted>>

\* mdadm --stop: refused when the array does not run or is mounted.
StopArray(r) ==
  LET d == job[r].dev IN
  /\ At(r, "stop", "stop")
  /\ \/ /\ array[d] # None /\ d \notin mounted
        /\ Halt(d)
        /\ Goto(r, "clear")
        /\ stopped' = [stopped EXCEPT ![r] = array[d]]
        /\ UNCHANGED <<conf, job, local, confRead, unlisted, mishap>>
     \/ CommandFails(r, array[d] = None \/ d \in mounted)

\* Mutant: a member is cleared even if it is busy.
ClearMemberForced(r, k) ==
  /\ pc[r] = "clear"
  /\ k \in local[r]
  /\ local' = [local EXCEPT ![r] = @ \ {k}]
  /\ superblock' = [superblock EXCEPT ![k] = None]
  /\ stale' = stale \ {k}
  /\ UNCHANGED <<array, members, mounted, conf, pc, job, confRead, stopped, unlisted, mishap>>

\* mdadm --zero-superblock and wipefs -a of one member read before; both are
\* refused while the disk is busy, and their errors are ignored.
ClearMember(r, k) ==
  /\ pc[r] = "clear"
  /\ k \in local[r]
  /\ local' = [local EXCEPT ![r] = @ \ {k}]
  /\ \/ /\ ~Busy(k)
        /\ superblock' = [superblock EXCEPT ![k] = None]
        /\ stale' = stale \ {k}
        /\ Smooth
     \/ UNCHANGED <<superblock, stale>> /\ ((Busy(k) /\ Smooth) \/ Mishap)
  /\ UNCHANGED <<array, members, mounted, conf, pc, job, confRead, stopped, unlisted>>

Stopped(r) ==
  /\ pc[r] = "clear"
  /\ local[r] = {}
  /\ Answer(r, "ok")
  /\ UNCHANGED <<diskVars, conf, stopped, unlisted, mishap>>

-----------------------------------------------------------------------------
(* WipeDisk, of a disk that carries no filesystem of its own: a mounted    *)
(* disk is refused before anything is done (isMounted)                     *)

\* arraysForDisk, from /proc/mdstat: the arrays with a member whose name is or
\* begins with the name of the disk (/dev/sda and /dev/sdaa).
ArraysForDisk(k) ==
  {d \in Names : \E m \in members[d] : m = k \/ <<k, m>> \in Shadows}

\* A failing read counts as "no arrays".
ReadArrays(r) ==
  LET found == UNION {ArraysForDisk(k) : k \in job[r].disks} IN
  /\ At(r, "wipe", "arrays")
  /\ \E S \in {found, {}} :
       /\ local' = [local EXCEPT ![r] = S]
       /\ Goto(r, IF S = {} THEN "wipe" ELSE "check")
       /\ IF S = found THEN Smooth ELSE Mishap
  /\ UNCHANGED <<diskVars, conf, job, confRead, stopped, unlisted>>

\* The loop takes one array; the wipe is refused only when it is mounted, which
\* a failing read of /proc/mounts denies.
CheckUnmounted(r) ==
  /\ At(r, "wipe", "check")
  /\ \E d \in local[r] :
       \/ d \in mounted /\ Answer(r, "error") /\ Smooth
       \/ /\ IF d \in mounted THEN Mishap ELSE Smooth
          /\ job' = [job EXCEPT ![r].dev = d]
          /\ local' = [local EXCEPT ![r] = @ \ {d}]
          /\ Goto(r, "wipe_stop")
          /\ UNCHANGED confRead
  /\ UNCHANGED <<diskVars, conf, stopped, unlisted>>

\* mdadm --stop, errors ignored.
WipeStop(r) ==
  LET d == job[r].dev IN
  /\ At(r, "wipe", "wipe_stop")
  /\ LET refused == array[d] = None \/ d \in mounted IN
     \/ ~refused /\ Halt(d) /\ Smooth
     \/ UNCHANGED diskVars /\ ((refused /\ Smooth) \/ Mishap)
  /\ Goto(r, "conf_read")
  /\ UNCHANGED <<conf, job, local, confRead, stopped, unlisted>>

\* mdadm --zero-superblock (ignored), then wipefs -a, whose error is reported.
Wipe(r) ==
  LET S == job[r].disks IN
  /\ At(r, "wipe", "wipe")
  /\ \/ /\ \A k \in S : ~Busy(k)
        /\ superblock' = [k \in Disks |-> IF k \in S THEN None ELSE superblock[k]]
        /\ stale' = stale \ S
        /\ Answer(r, "ok")
        /\ UNCHANGED <<array, members, mounted, conf, stopped, unlisted, mishap>>
     \/ CommandFails(r, \E k \in S : Busy(k))

-----------------------------------------------------------------------------
(* AddDisk, RemoveDisk, and the mount of an array's filesystem             *)

\* mdadm --add: the disk becomes a member and gets the array's superblock.
Add(r) ==
  LET d == job[r].dev  S == job[r].disks IN
  /\ At(r, "add", "command")
  /\ \/ /\ array[d] # None
        /\ \A k \in S : ~Busy(k)
        /\ members' = [members EXCEPT ![d] = @ \cup S]
        /\ superblock' = [k \in Disks |-> IF k \in S THEN array[d] ELSE superblock[k]]
        /\ stale' = stale \ S
        /\ Answer(r, "ok")
        /\ UNCHANGED <<array, mounted, conf, stopped, unlisted, mishap>>
     \/ CommandFails(r, array[d] = None \/ \E k \in S : Busy(k))

\* mdadm --fail: refused for a disk of another array and for the last member
\* that is up to date.
FailDisk(r) ==
  LET d == job[r].dev  S == job[r].disks IN
  /\ At(r, "remove", "fail")
  /\ \/ /\ S \subseteq members[d] /\ members[d] \ stale # S
        /\ stale' = stale \cup S
        /\ Goto(r, "command")
        /\ UNCHANGED <<superblock, array, members, mounted, conf, job, local, confRead, stopped,
                       unlisted, mishap>>
     \/ CommandFails(r, ~(S \subseteq members[d]) \/ members[d] \ stale = S)

\* mdadm --remove: the disk leaves the array and keeps its superblock.
Remove(r) ==
  LET d == job[r].dev  S == job[r].disks IN
  /\ At(r, "remove", "command")
  /\ \/ /\ S \subseteq members[d]
        /\ members' = [members EXCEPT ![d] = @ \ S]
        /\ Answer(r, "ok")
        /\ UNCHANGED <<superblock, stale, array, mounted, conf, stopped, unlisted, mishap>>
     \/ CommandFails(r, ~(S \subseteq members[d]))

\* mount of the array (CreateFilesystem, MountOnly; see Volumes for the rest).
Mount(r) ==
  LET d == job[r].dev IN
  /\ At(r, "mount", "command")
  /\ \/ /\ array[d] # None
        /\ mounted' = mounted \cup {d}
        /\ Answer(r, "ok")
        /\ UNCHANGED <<superblock, stale, array, members, conf, stopped, unlisted, mishap>>
     \/ CommandFails(r, array[d] = None)

-----------------------------------------------------------------------------
(* The machine restarts                                                    *)

\* The kernel assembles every array it finds a superblock of, from the disks
\* that are up to date if there are any.  A line of mdadm.conf gives the array
\* its name, unless another array has it, otherwise it gets a foreign one.  A
\* bound: an array for which no name of the model is left does not run.
Reboot ==
  LET fresh(u) == {k \in Disks \ stale : superblock[k] = u}
      disksOf(u) == IF fresh(u) # {} THEN fresh(u) ELSE {k \in stale : superblock[k] = u}
      found == {u \in UUIDs : \E k \in Disks : superblock[k] = u}
      AsConfigured(n, u) ==
        LET own == {d \in Names : <<d, u>> \in conf}
            taken == {n[v] : v \in found \ {u}}
        IN \/ n[u] \in own
           \/ own \subseteq taken /\ n[u] \in ForeignNames
           \/ own \cup ForeignNames \subseteq taken /\ n[u] = None
  IN
  /\ \E n \in [found -> Names \cup {None}] :
       /\ \A u, v \in found : u # v => n[u] # n[v] \/ n[u] = None
       /\ \A u \in found : AsConfigured(n, u)
       /\ array' = [d \in Names |-> IF \E u \in found : n[u] = d
                                    THEN CHOOSE u \in found : n[u] = d ELSE None]
       /\ members' = [d \in Names |-> UNION {disksOf(u) : u \in {v \in found : n[v] = d}}]
  /\ mounted' = {}
  /\ pc' = [r \in Requests |-> IF r \in Active THEN "killed" ELSE pc[r]]
  /\ mishap' = (mishap \/ Active # {})
  /\ UNCHANGED <<superblock, stale, conf, job, local, confRead, stopped, unlisted>>

Continue(r) ==
  \/ CreateArray(r) \/ PersistRead(r) \/ PersistWrite(r)
  \/ ReadMembers(r) \/ ConfRead(r) \/ ConfWrite(r) \/ StopArray(r)
  \/ (\E k \in Disks : ClearMember(r, k)) \/ Stopped(r)
  \/ ReadArrays(r) \/ CheckUnmounted(r) \/ WipeStop(r) \/ Wipe(r)
  \/ Add(r) \/ FailDisk(r) \/ Remove(r) \/ Mount(r)

Init ==
  /\ superblock = [k \in Disks |-> None]
  /\ stale = {}
  /\ array = [d \in Names |-> None]
  /\ members = [d \in Names |-> {}]
  /\ mounted = {}
  /\ conf = {}
  /\ pc = [r \in Requests |-> "new"]
  /\ job = [r \in Requests |-> NoJob]
  /\ local = [r \in Requests |-> {}]
  /\ confRead = [r \in Requests |-> {}]
  /\ stopped = [r \in Requests |-> None]
  /\ unlisted = {}
  /\ mishap = FALSE

Next ==
  \/ \E r \in Requests : (\E j \in Jobs : Begin(r, j)) \/ Continue(r)
  \/ Reboot

Spec == Init /\ [][Next]_vars

-----------------------------------------------------------------------------
(* Properties                                                              *)

TypeOK ==
  /\ superblock \in [Disks -> UUIDs \cup {None}]
  /\ stale \subseteq Disks
  /\ array \in [Names -> UUIDs \cup {None}]
  /\ members \in [Names -> SUBSET Disks]
  /\ mounted \subseteq Names
  /\ conf \subseteq Names \X UUIDs
  /\ pc \in [Requests -> {"new"} \cup Steps \cup Answers]
  /\ job \in [Requests -> Jobs \cup {NoJob}]
  /\ local \in [Requests -> SUBSET (Disks \cup Names)]
  /\ confRead \in [Requests -> SUBSET (Names \X UUIDs)]
  /\ stopped \in [Requests -> UUIDs \cup {None}]
  /\ unlisted \subseteq Names
  /\ mishap \in BOOLEAN

\* Whatever handlers overlap and whatever fails, every disk of a running array
\* carries that array's superblock, so no array that runs can lose a member at
\* the next boot: clearing a disk (Stop, WipeDisk) never hits an array that
\* was created on it in the meantime.
MembersAreMarked ==
  \A d \in Names : \A k \in members[d] : array[d] # None /\ superblock[k] = array[d]

\* No disk is a member of two arrays, and no array runs under two names.
ArraysAreDisjoint ==
  \A d, e \in Names : d # e =>
    /\ members[d] \cap members[e] = {}
    /\ array[d] # None => array[d] # array[e]

\* The arrays whose deletion was answered with 200.
Deleted == {stopped[r] : r \in {q \in Requests : pc[q] = "ok"}} \ {None}

\* raid.go:346-349: an array that was deleted does not come back at boot, under
\* its own name or under a foreign one - unless a disk was taken out of an array
\* (RemoveDisk leaves its superblock), or there was a mishap.
DeletedStaysDeleted ==
  (Active = {} /\ ~mishap /\ \A r \in Requests : job[r].op # "remove") =>
    \A d \in Names : array[d] \notin Deleted

\* raid.go:169-171: an array nasd created keeps its name: when no request is being
\* served, the line of mdadm.conf that names it at boot is there - unless the lines
\* of an array whose name is a prefix of its name were removed, or there was a mishap.
NamesArePersistent ==
  (Active = {} /\ ~mishap) =>
    \A d \in Devices : array[d] # None =>
      \/ <<d, array[d]>> \in conf
      \/ \E e \in unlisted : <<e, d>> \in Shadows
=============================================================================
