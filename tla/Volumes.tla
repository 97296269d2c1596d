------------------------------ MODULE Volumes -------------------------------
(***************************************************************************)
(* Filesystems (raid/raid.go CreateFilesystem, MountOnly,                  *)
(* UnmountFilesystem, WipeFilesystem and the part of Stop that unmounts):  *)
(* the filesystems on the arrays, what is mounted, and the lines of        *)
(* /etc/fstab that nasd adds and removes so that a boot mounts them again. *)
(*                                                                         *)
(* An array may come back from a boot under a foreign name (see Raid), or  *)
(* too late for its line, which is "nofail".  Nothing locks /etc/fstab:    *)
(* handlers read it, and append to it or truncate and rewrite it.  mount,  *)
(* umount, mkfs, wipefs, blkid and the boot are external.  Of the type of  *)
(* a filesystem it matters only whether a request gives one; sizes are     *)
(* left out.                                                               *)
(*                                                                         *)
(* A place has several texts: the one that a user types, with a slash at   *)
(* its end or a space in it, what a reader of fstab makes of its field, and *)
(* what /proc/mounts shows.  nasd compares them as they are.               *)
(***************************************************************************)
EXTENDS Naturals, Sequences, FiniteSets

CONSTANTS
  Requests,      \* the requests; each is served once
  Arrays,
  Own,           \* per array, the name it was created under
  ForeignNames,  \* the names an array may get at boot instead
  MountPoints,   \* the texts of mount points
  Directories,   \* what they stand for
  Dir,           \* per text, the directory that mkdir, mount and umount find
  Word,          \* per text, the second field of a line with it: up to a space
  Place,         \* per text, the directory that systemd reads in such a field
  Shown,         \* per directory, its text in /proc/mounts, spaces as \040
  DefaultMount,  \* per name, the mount point /srv/nas/<name>
  Targets,       \* the pairs <<array, mount point>> clients ask for
  None

Names == {Own[a] : a \in Arrays} \cup ForeignNames

ASSUME VolumesAssumption ==
  /\ Own \in [Arrays -> Names]
  /\ \A a, b \in Arrays : a # b => Own[a] # Own[b]
  /\ \A a \in Arrays : Own[a] \notin ForeignNames
  /\ Dir \in [MountPoints -> Directories] /\ Place \in [MountPoints -> Directories]
  /\ Word \in [MountPoints -> MountPoints] /\ Shown \in [Directories -> MountPoints]
  /\ \A d, e \in Directories : Shown[d] = Shown[e] => d = e
  /\ DefaultMount \in [Names -> MountPoints]
  /\ Targets \subseteq Arrays \X MountPoints
  /\ None \notin Requests \cup Names \cup MountPoints
  /\ Requests \cap Names = {}  \* UUIDs (see below) are no device names

VARIABLES
  name,     \* per array, the name it runs under
  fs,       \* per array, the UUID of the filesystem on it, or None
  mounts,   \* the set of <<array, directory>>
  fstab,    \* the lines of /etc/fstab: source, mount point, whether with a type
  pc,       \* per request: where it is, or its answer
  job,      \* per request: operation, array, mount point, whether with a type
  source,   \* per request: the source of the line it adds
  fstabRead,\* per request: the lines it read
  gone,     \* history: the directories whose unmount was answered with 200 and
            \* on which no later request asked to mount
  mishap    \* history: two requests overlapped, nasd was killed in one, or an
            \* error that nasd ignores happened

requestVars == <<pc, job, source, fstabRead>>
vars == <<name, fs, mounts, fstab, requestVars, gone, mishap>>

\* A filesystem is identified by the request that made it.
UUIDs == Requests
\* A source is UUID=... or a device name.
Sources == UUIDs \cup Names
Lines == Sources \X MountPoints \X BOOLEAN
Ops == {"create", "mount", "unmount", "wipe", "stop"}
Jobs == [op: Ops, array: Arrays \cup {None}, mp: MountPoints \cup {None}, typed: BOOLEAN]
\* What clients ask for.  The texts that are unmounted were typed, or are what
\* ListFilesystems shows; CreateFilesystem refuses to go without a type.
Asks == {j \in Jobs :
  /\ CASE j.op \in {"wipe", "stop"} -> j.array # None /\ j.mp = None
       [] j.op = "unmount" ->
            j.array = None /\ \E t \in Targets : j.mp \in {t[2], Shown[Dir[t[2]]]}
       [] OTHER -> <<j.array, j.mp>> \in Targets
  /\ j.op = "mount" \/ j.typed}
NoJob == [op |-> "none", array |-> None, mp |-> None, typed |-> TRUE]

\* The fields of a line are where they should be: its type is given, and its
\* mount point has no space.
WellFormed(line) == line[3] /\ Word[line[2]] = line[2]
LinePlace(mp) == Place[Word[mp]]

Steps == {"mkfs", "mount", "blkid", "add_read", "append", "find", "umount",
          "remove_read", "truncate", "rewrite", "wipefs", "stop"}
Answers == {"ok", "error", "killed"}
Active == {r \in Requests : pc[r] \in Steps}

At(r, step) == pc[r] = step
Goto(r, step) == pc' = [pc EXCEPT ![r] = step]
\* A command fails, refused or for a reason of its own, and ends the request.
Fails(r) ==
  /\ Goto(r, "error")
  /\ UNCHANGED <<name, fs, mounts, fstab, job, source, fstabRead, gone, mishap>>
Mounted(a) == \E m \in mounts : m[1] = a

-----------------------------------------------------------------------------
(* A request arrives                                                       *)

FirstStep == [create |-> "mkfs", mount |-> "mount", unmount |-> "umount",
              wipe |-> "find", stop |-> "find"]

Begin(r, j) ==
  /\ pc[r] = "new"
  /\ mishap' = (mishap \/ Active # {})
  /\ job' = [job EXCEPT ![r] = j]
  /\ gone' = IF j.op \in {"create", "mount"} THEN gone \ {Dir[j.mp]} ELSE gone
  /\ Goto(r, FirstStep[j.op])
  /\ UNCHANGED <<name, fs, mounts, fstab, source, fstabRead>>

-----------------------------------------------------------------------------
(* CreateFilesystem and MountOnly                                          *)

\* mkfs refuses a mounted device.
Mkfs(r) ==
  LET a == job[r].array IN
  /\ At(r, "mkfs")
  /\ \/ /\ ~Mounted(a)
        /\ fs' = [fs EXCEPT ![a] = r]
        /\ Goto(r, "mount")
        /\ UNCHANGED <<name, mounts, fstab, job, source, fstabRead, gone, mishap>>
     \/ Fails(r)

\* mount refuses an array without a filesystem, and to mount twice on a place.
Mount(r) ==
  LET a == job[r].array  m == <<a, Dir[job[r].mp]>> IN
  /\ At(r, "mount")
  /\ \/ /\ fs[a] # None /\ m \notin mounts
        /\ mounts' = mounts \cup {m}
        /\ Goto(r, "blkid")
        /\ UNCHANGED <<name, fs, fstab, job, source, fstabRead, gone, mishap>>
     \/ Fails(r)

\* fstabAdd: the UUID blkid prints, or the device when it fails or prints none.
Blkid(r) ==
  LET a == job[r].array IN
  /\ At(r, "blkid")
  /\ \/ fs[a] # None /\ source' = [source EXCEPT ![r] = fs[a]] /\ UNCHANGED mishap
     \/ source' = [source EXCEPT ![r] = name[a]] /\ mishap' = TRUE
  /\ Goto(r, "add_read")
  /\ UNCHANGED <<name, fs, mounts, fstab, job, fstabRead, gone>>

Entry(r) == <<source[r], job[r].mp, job[r].typed>>

\* Mutant: a line with the same place counts as the line, whatever its source.
AddReadByPlace(r) ==
  /\ At(r, "add_read")
  /\ Goto(r, IF \E i \in DOMAIN fstab : fstab[i][2] = job[r].mp THEN "ok" ELSE "append")
  /\ UNCHANGED <<name, fs, mounts, fstab, job, source, fstabRead, gone, mishap>>

\* The line is not added when it is there already; nor when the file cannot be
\* read or opened, which is ignored.
AddRead(r) ==
  LET listed == \E i \in DOMAIN fstab : fstab[i] = Entry(r) IN
  /\ At(r, "add_read")
  /\ \/ Goto(r, IF listed THEN "ok" ELSE "append") /\ UNCHANGED mishap
     \/ Goto(r, "ok") /\ mishap' = TRUE
  /\ UNCHANGED <<name, fs, mounts, fstab, job, source, fstabRead, gone>>

\* Mutant: the line is added without a source.
AddLineUnnamed(r) ==
  /\ At(r, "append")
  /\ fstab' = Append(fstab, <<None, job[r].mp, job[r].typed>>)
  /\ source' = [source EXCEPT ![r] = None]
  /\ Goto(r, "ok")
  /\ UNCHANGED <<name, fs, mounts, job, fstabRead, gone, mishap>>

\* What was typed goes into the line as it is.
AddLine(r) ==
  /\ At(r, "append")
  /\ fstab' = Append(fstab, Entry(r))
  /\ source' = [source EXCEPT ![r] = None]
  /\ Goto(r, "ok")
  /\ UNCHANGED <<name, fs, mounts, job, fstabRead, gone, mishap>>

-----------------------------------------------------------------------------
(* UnmountFilesystem, WipeFilesystem and Stop                              *)

\* Where WipeFilesystem and Stop take the mount point from: findMountPoint
\* (/proc/mounts, by device name), then for WipeFilesystem alone
\* fstabMountPoint (a line whose source is the device name), then the default.
\* A failing read of /proc/mounts counts as "not mounted".
MountPointsOf(a) == {Shown[m[2]] : m \in {n \in mounts : n[1] = a}}
FstabMountPoints(a) ==
  {Word[fstab[i][2]] : i \in {j \in DOMAIN fstab :
     fstab[j][1] = name[a] /\ \A k \in 1..(j - 1) : fstab[k][1] # name[a]}}

Find(r) ==
  LET a == job[r].array IN
  /\ At(r, "find")
  /\ \E mp \in MountPoints \cup {None} :
       /\ job' = [job EXCEPT ![r].mp = mp]
       /\ \/ mp \in MountPointsOf(a) /\ Goto(r, "umount") /\ UNCHANGED mishap
          \/ /\ mishap' = (mishap \/ MountPointsOf(a) # {})
             /\ \/ job[r].op = "stop" /\ mp = None /\ Goto(r, "stop")
                \/ /\ job[r].op = "wipe"
                   /\ mp \in IF FstabMountPoints(a) # {} THEN FstabMountPoints(a)
                             ELSE {DefaultMount[name[a]]}
                   /\ Goto(r, "remove_read")
  /\ UNCHANGED <<name, fs, mounts, fstab, source, fstabRead, gone>>

\* umount of the mount point, or of the device (wipe): one mount of it goes.
\* Stop ignores its failure.
Umount(r) ==
  LET found == {m \in mounts : IF job[r].op = "wipe" THEN m[1] = job[r].array
                                                     ELSE m[2] = Dir[job[r].mp]} IN
  /\ At(r, "umount")
  /\ \/ /\ \E m \in found : mounts' = mounts \ {m}
        /\ Goto(r, "remove_read")
        /\ UNCHANGED <<name, fs, fstab, job, source, fstabRead, gone, mishap>>
     \/ job[r].op # "stop" /\ Fails(r)
     \/ /\ job[r].op = "stop"
        /\ Goto(r, "remove_read")
        /\ mishap' = TRUE
        /\ UNCHANGED <<name, fs, mounts, fstab, job, source, fstabRead, gone>>

\* What a request does once the line is removed.
AfterRemove(r) ==
  \/ job[r].op = "unmount" /\ Goto(r, "ok") /\ gone' = gone \cup {Dir[job[r].mp]}
  \/ job[r].op = "wipe" /\ Goto(r, "wipefs") /\ UNCHANGED gone
  \/ job[r].op = "stop" /\ Goto(r, "stop") /\ UNCHANGED gone

\* fstabRemove: os.ReadFile, then os.WriteFile, which truncates and writes.  It
\* gives up silently when it cannot read or open the file.
RemoveRead(r) ==
  /\ At(r, "remove_read")
  /\ \/ /\ fstabRead' = [fstabRead EXCEPT ![r] = fstab]
        /\ Goto(r, "truncate")
        /\ UNCHANGED <<gone, mishap>>
     \/ AfterRemove(r) /\ mishap' = TRUE /\ UNCHANGED fstabRead
  /\ UNCHANGED <<name, fs, mounts, fstab, job, source>>

Truncate(r) ==
  /\ At(r, "truncate")
  /\ fstab' = <<>>
  /\ Goto(r, "rewrite")
  /\ UNCHANGED <<name, fs, mounts, job, source, fstabRead, gone, mishap>>

\* The lines whose second field is another text, in their order.
Others(lines, mp) ==
  LET kept[i \in 0 .. Len(lines)] ==
        IF i = 0 THEN <<>>
        ELSE IF Word[lines[i][2]] = mp THEN kept[i - 1] ELSE Append(kept[i - 1], lines[i])
  IN kept[Len(lines)]

\* Mutant: only lines that name a device are removed.
RewriteDevices(r) ==
  LET other(line) == Word[line[2]] # job[r].mp \/ line[1] \in UUIDs IN
  /\ At(r, "rewrite")
  /\ fstab' = SelectSeq(fstabRead[r], other)
  /\ fstabRead' = [fstabRead EXCEPT ![r] = <<>>]
  /\ AfterRemove(r)
  /\ UNCHANGED <<name, fs, mounts, job, source, mishap>>

Rewrite(r) ==
  /\ At(r, "rewrite")
  /\ fstab' = Others(fstabRead[r], job[r].mp)
  /\ fstabRead' = [fstabRead EXCEPT ![r] = <<>>]
  /\ AfterRemove(r)
  /\ UNCHANGED <<name, fs, mounts, job, source, mishap>>

\* wipefs -a of the array, or mdadm --stop and wipefs of its members: refused
\* while it is mounted.
Erase(r) ==
  LET a == job[r].array IN
  /\ At(r, "wipefs") \/ At(r, "stop")
  /\ \/ /\ ~Mounted(a)
        /\ fs' = [fs EXCEPT ![a] = None]
        /\ Goto(r, "ok")
        /\ UNCHANGED <<name, mounts, fstab, job, source, fstabRead, gone, mishap>>
     \/ Fails(r)

-----------------------------------------------------------------------------
(* The machine or nasd restarts                                            *)

\* The requests in flight die, and their local variables with them.
Kill ==
  /\ pc' = [r \in Requests |-> IF r \in Active THEN "killed" ELSE pc[r]]
  /\ source' = [r \in Requests |-> None]
  /\ fstabRead' = [r \in Requests |-> <<>>]

\* The line systemd takes for a place is the first one, and it mounts nothing
\* by a line whose fields are displaced.
Effective(i) == \A j \in 1..(i - 1) : LinePlace(fstab[j][2]) # LinePlace(fstab[i][2])

\* The names that the arrays may have after a boot.
Namings == {n \in [Arrays -> Names] :
  /\ \A a, b \in Arrays : a # b => n[a] # n[b]
  /\ \A a \in Arrays : n[a] \in {Own[a]} \cup ForeignNames}

\* The arrays in ready are there in time, under the names n.
Boot(ready, n) ==
  /\ name' = n
  /\ mounts' = {m \in ready \X Directories : \E i \in DOMAIN fstab :
                  /\ Effective(i) /\ WellFormed(fstab[i])
                  /\ LinePlace(fstab[i][2]) = m[2]
                  /\ fs[m[1]] # None
                  /\ fstab[i][1] \in {fs[m[1]], n[m[1]]}}
  /\ Kill
  /\ UNCHANGED <<fs, fstab, job, gone, mishap>>

\* nasd is killed and started again; what is mounted stays mounted.
Crash ==
  /\ Active # {}
  /\ Kill
  /\ mishap' = TRUE
  /\ UNCHANGED <<name, fs, mounts, fstab, job, gone>>

Continue(r) ==
  \/ Mkfs(r) \/ Mount(r) \/ Blkid(r) \/ AddRead(r) \/ AddLine(r)
  \/ Find(r) \/ Umount(r) \/ RemoveRead(r) \/ Truncate(r) \/ Rewrite(r) \/ Erase(r)

Init ==
  /\ name = Own
  /\ fs = [a \in Arrays |-> None]
  /\ mounts = {}
  /\ fstab = <<>>
  /\ pc = [r \in Requests |-> "new"]
  /\ job = [r \in Requests |-> NoJob]
  /\ source = [r \in Requests |-> None]
  /\ fstabRead = [r \in Requests |-> <<>>]
  /\ gone = {}
  /\ mishap = FALSE

Next ==
  \/ \E r \in Requests : (\E j \in Asks : Begin(r, j)) \/ Continue(r)
  \/ \E ready \in SUBSET Arrays, n \in Namings : Boot(ready, n)
  \/ Crash

Spec == Init /\ [][Next]_vars

-----------------------------------------------------------------------------
(* Properties                                                              *)

TypeOK ==
  /\ name \in [Arrays -> Names]
  /\ fs \in [Arrays -> UUIDs \cup {None}]
  /\ mounts \subseteq Arrays \X Directories
  /\ fstab \in Seq(Lines)
  /\ pc \in [Requests -> {"new"} \cup Steps \cup Answers]
  /\ job \in [Requests -> Jobs \cup {NoJob}]
  /\ source \in [Requests -> Sources \cup {None}]
  /\ fstabRead \in [Requests -> Seq(Lines)]
  /\ gone \subseteq Directories
  /\ mishap \in BOOLEAN

\* The lines that name the filesystem of array a, whatever name it runs under,
\* or the device it runs under now.
Names_(line, a) == line[1] \in {fs[a], name[a]}

\* The requests that are about directory d, as mount and umount or as a reader of
\* fstab understands what was typed.
About(d) == {r \in Requests : /\ job[r].op \in {"create", "mount", "unmount"}
                              /\ d \in {Dir[job[r].mp], LinePlace(job[r].mp)}}
Mounting(d) == {r \in About(d) : job[r].op # "unmount"}

\* Whoever named d typed it as /proc/mounts shows it, and everybody reads it so.
NamedPlainly(d) == \A r \in About(d) : /\ job[r].mp = Shown[d] /\ Word[job[r].mp] = job[r].mp
                                       /\ Dir[job[r].mp] = d /\ Place[job[r].mp] = d
NotShared(d) == \A q, r \in Mounting(d) : job[q].array = job[r].array

\* m is the only mount of its array and of its place that was asked for, by its
\* plain name and with a type, and no array was wiped whose place nasd took it for.
Owned(m) ==
  /\ NamedPlainly(m[2]) /\ \A r \in About(m[2]) : job[r].typed
  /\ \A r \in Requests :
       /\ job[r].op \in {"create", "mount", "wipe"} /\ job[r].mp = Shown[m[2]] => job[r].array = m[1]
       /\ job[r].op \in {"create", "mount"} /\ job[r].array = m[1] => job[r].mp = Shown[m[2]]

\* The line leads to mount m at a boot.
LeadsTo(line, m) == WellFormed(line) /\ LinePlace(line[2]) = m[2] /\ Names_(line, m[1])

\* raid.go:693-697: what is mounted will be found again: when no request is being
\* served, every mount has a line in /etc/fstab that leads to it, whatever commands
\* failed, unless there was a mishap.  The exceptions are what Owned rules out: a
\* text that fstab spells otherwise (a space, which raid.go:707 writes as it is), a
\* missing type (raid.go:655), a place that two arrays had, and an array with two.
MountsAreListed ==
  (Active = {} /\ ~mishap) => \A m \in mounts :
    Owned(m) => \E i \in DOMAIN fstab : LeadsTo(fstab[i], m)

\* UnmountFilesystem "removes it from fstab" (raid.go:630): a volume whose unmount
\* was answered with 200 does not come back, at a boot either, wherever its array is
\* mounted next, until someone asks to mount there again.  The exceptions are a
\* place that was typed otherwise than /proc/mounts shows it, whose line is not found
\* (raid.go:733), and a place on which two arrays were mounted.
UnmountedStaysUnmounted ==
  ~mishap => \A d \in gone : NamedPlainly(d) /\ NotShared(d) => \A m \in mounts : m[2] # d
=============================================================================
