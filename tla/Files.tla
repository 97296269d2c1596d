-------------------------------- MODULE Files --------------------------------
(***************************************************************************)
(* The file manager: filemgr.Manager and its handlers (api/handlers.go     *)
(* fileHandlers, progressReader) on a tree of files, and the FilesView of  *)
(* the browser (js/app.js), which loads a directory, asks for changes and  *)
(* shows the progress of uploads from the hub's events.                    *)
(*                                                                         *)
(* Requests run concurrently on one tree and nothing locks it.  A view     *)
(* does not wait either: the user walks to another directory or asks for   *)
(* the next change while loads and changes are under way, and answers come *)
(* in any order.  Permissions and times of files are left out.             *)
(***************************************************************************)
EXTENDS Naturals, Sequences, FiniteSets, Functions

CONSTANTS
  Requests,  \* the requests that may change the tree; each is served once
  Views,     \* the FilesViews
  Names,     \* the names of files and directories
  Given,     \* the directories that exist at the start
  Sizes,     \* per part of an upload, the number of its chunks
  Menu,      \* a bound: the changes that are asked for
  Tour,      \* a bound: the directories that are walked to
  Slots,     \* a bound: how many loads of a view are under way at a time
  None       \* who asks when no view does: another client

ASSUME FilesAssumption ==
  /\ Sizes \in Seq(Nat \ {0}) /\ Len(Sizes) >= 2
  /\ Given \subseteq Names
  /\ None \notin Views

VARIABLES
  tree,      \* per path that exists, Folder or the inode of the file
  data,      \* per inode, the part that opened it last and its chunks
  mixed,     \* history: the inodes two uploads had open at a time
  pc,        \* per request: where it is, or its answer
  job,       \* per request: what it does
  home,      \* per request: where its view was when it asked
  part,      \* per request: which of its names or parts it is at
  file,      \* per upload: the inode it has open, or Closed, and the next chunk
  path,      \* per view: the directory of its breadcrumb
  shown,     \* per view: the table: of which directory, and whether it is what the
             \* directory has now (which stands for its entries)
  loads,     \* per view: its loads under way, likewise
  events,    \* per view: the progress events on their way to it
  bar,       \* per view: the progress bar is shown
  missed,    \* history: per view, its connection was lost, or an upload was cut off
  disturbed  \* history: per view, what it shows may be out of date (see below)

requestVars == <<pc, job, home, part, file>>
treeVars == <<tree, data, mixed>>
viewVars == <<path, shown, loads>>
eventVars == <<events, bar, missed>>
filesVars == <<treeVars, requestVars, viewVars, eventVars, disturbed>>

Root == <<>>
Dirs == {Root} \cup {<<n>> : n \in Names}
\* A bound: the depth of the tree.
Paths == Dirs \cup {Append(d, n) : d \in Dirs, n \in Names}
Folder == <<>>

Parts == 1 .. Len(Sizes)
Chunks == UNION {1 .. Sizes[k] : k \in Parts}
\* A part of an upload names the file that it creates.
Inodes == Requests \X Parts

\* names: the entries to remove, the files of an upload, or old and new name.
\* to: where a rename moves the entry (its new name may be "b/c" or "../c").
\* view: the view that asks for the change.
Changes ==
  LET Lists == UNION {[1 .. k -> Names] : k \in 1 .. 2}
      Of(ops, lists) ==
        [op: ops, view: Views \cup {None}, dir: Dirs, to: Dirs, names: lists]
  IN Of({"mkdir", "chmod"}, {s \in Lists : Len(s) = 1})
     \cup {c \in Of({"rename"}, {s \in Lists : Len(s) = 2}) :
             c.to = c.dir => IsInjective(c.names)}
     \cup Of({"remove", "upload"}, {s \in Lists : IsInjective(s)})
ASSUME MenuAssumption == Menu \subseteq Changes /\ Tour \subseteq Dirs

Closed == <<>>
NoFile == [inode |-> Closed, next |-> 1]
NoJob == [op |-> "none", view |-> None, dir |-> Root, to |-> Root, names |-> <<>>]

Steps == {"serving", "writing"}
Active == {r \in Requests : pc[r] \in Steps}
Target(r) == Append(job[r].dir, job[r].names[part[r]])
Goto(r, step) == pc' = [pc EXCEPT ![r] = step]

Exists(p) == p \in DOMAIN tree
IsFolder(p) == Exists(p) /\ tree[p] = Folder
Under(p, q) == Len(q) >= Len(p) /\ \A n \in DOMAIN p : p[n] = q[n]
Children(p) == {n \in Names : Exists(Append(p, n))}

\* The positions of a file that hold data.
Filled(i) == {c[1] : c \in data[i].chunks}
\* List: what ReadDir finds.
Listing(d) ==
  {LET q == tree[Append(d, n)] IN
   [name |-> n, folder |-> q = Folder, size |-> IF q = Folder THEN 0 ELSE Cardinality(Filled(q))] :
     n \in Children(d)}

NoLoad == [stage |-> "none", dir |-> Root, fresh |-> FALSE]
\* What was listed before this step is fresh as long as the listing is the same.
Compare ==
  \E same \in {{d \in Dirs : Listing(d)' = Listing(d)}} :
    /\ shown' = [v \in Views |-> [shown[v] EXCEPT !.fresh = @ /\ shown[v].dir \in same]]
    /\ loads' = [v \in Views |-> [s \in Slots |->
         [loads[v][s] EXCEPT !.fresh = @ /\ loads[v][s].dir \in same]]]
    /\ UNCHANGED path

\* Nothing of the view is under way.
Quiet(v) ==
  /\ \A s \in Slots : loads[v][s] = NoLoad
  /\ \A r \in Requests : job[r].view # v

-----------------------------------------------------------------------------
(* The view                                                                *)

\* load(d)
Load(v, d) ==
  \E s \in Slots :
    /\ loads[v][s] = NoLoad
    /\ loads' = [loads EXCEPT ![v][s] = [NoLoad EXCEPT !.stage = "sent", !.dir = d]]

\* A click on a directory or on the breadcrumb.  A load that nothing interferes
\* with brings the view up to date.
Walk(v, d) ==
  /\ d # path[v]
  /\ path' = [path EXCEPT ![v] = d]
  /\ Load(v, d)
  /\ disturbed' = [disturbed EXCEPT ![v] = ~Quiet(v) \/ Active # {}]
  /\ UNCHANGED <<treeVars, requestVars, shown, eventVars>>

ServeLoad(v, s) ==
  LET l == loads[v][s] IN
  /\ l.stage = "sent"
  /\ IsFolder(l.dir)
  /\ loads' = [loads EXCEPT ![v][s] = [l EXCEPT !.stage = "answered", !.fresh = TRUE]]
  /\ UNCHANGED <<treeVars, requestVars, path, shown, eventVars, disturbed>>

ShowLoad(v, s) ==
  LET l == loads[v][s] IN
  /\ l.stage = "answered"
  /\ shown' = [shown EXCEPT ![v] = [dir |-> l.dir, fresh |-> l.fresh]]
  /\ loads' = [loads EXCEPT ![v][s] = NoLoad]
  /\ UNCHANGED <<treeVars, requestVars, path, eventVars, disturbed>>

\* The directory is gone, or the request or its answer is lost: the table stays.
LoadFails(v, s) ==
  /\ loads[v][s] # NoLoad
  /\ loads' = [loads EXCEPT ![v][s] = NoLoad]
  /\ disturbed' = [disturbed EXCEPT ![v] = TRUE]
  /\ UNCHANGED <<treeVars, requestVars, path, shown, eventVars>>

\* A change is asked for, by a view (which remembers its directory) or by
\* another client.  The table may be one of another directory than the
\* breadcrumb, so dir may be any.
Ask(r, c) ==
  /\ pc[r] = "new"
  /\ job' = [job EXCEPT ![r] = c]
  /\ home' = [home EXCEPT ![r] = IF c.view = None THEN Root ELSE path[c.view]]
  /\ Goto(r, "serving")
  /\ disturbed' = [v \in Views |-> disturbed[v] \/ v # c.view \/ ~Quiet(v) \/ Active # {}]
  /\ UNCHANGED <<treeVars, part, file, viewVars, eventVars>>

Forget(r) ==
  /\ Goto(r, "seen")
  /\ job' = [job EXCEPT ![r] = NoJob]
  /\ home' = [home EXCEPT ![r] = Root]

\* Mutant: the view does not load its directory after a change.
ReceiveOnly(r) ==
  LET v == job[r].view IN
  /\ pc[r] = "ok" /\ v # None
  /\ Forget(r)
  /\ UNCHANGED <<treeVars, part, file, viewVars, eventVars, disturbed>>

\* The change was made: the progress bar of an upload goes, and the view loads
\* the directory it was in when the change was asked for.
Receive(r) ==
  LET v == job[r].view IN
  /\ pc[r] = "ok" /\ v # None
  /\ Forget(r)
  /\ Load(v, home[r])
  /\ bar' = [bar EXCEPT ![v] = @ /\ job[r].op # "upload"]
  /\ UNCHANGED <<treeVars, part, file, path, shown, events, missed, disturbed>>

\* An error, or an answer that is lost: no load.  The change, or a part of it,
\* may have been made.
ReceiveError(r) ==
  LET v == job[r].view IN
  /\ pc[r] \in {"ok", "error"} /\ v # None
  /\ Forget(r)
  /\ bar' = [bar EXCEPT ![v] = @ /\ job[r].op # "upload"]
  /\ disturbed' = [disturbed EXCEPT
       ![v] = @ \/ pc[r] = "ok" \/ job[r].op \in {"mkdir", "remove", "upload"}]
  /\ UNCHANGED <<treeVars, part, file, viewVars, events, missed>>

\* The hub's events (see Hub): file.progress sets the bar, its "done" clears it.
Notice(v) ==
  /\ events[v] # <<>>
  /\ bar' = [bar EXCEPT ![v] = Head(events[v]) = "bytes"]
  /\ events' = [events EXCEPT ![v] = Tail(@)]
  /\ UNCHANGED <<treeVars, requestVars, viewVars, missed, disturbed>>

-----------------------------------------------------------------------------
(* mkdir, rename, chmod: one system call                                   *)

At(r, op) == pc[r] = "serving" /\ job[r].op = op
Answer(r, a) ==
  Goto(r, a) /\ UNCHANGED <<data, mixed, job, home, part, file, eventVars, disturbed>> /\ Compare

\* os.MkdirAll: the missing parents first; a directory that exists is fine.  When
\* it fails the parents may have been made.
Mkdir(r) ==
  /\ At(r, "mkdir")
  /\ \E last \in {Target(r), job[r].dir} :
       LET chain == {q \in Paths : Under(q, last)} IN
       /\ \A q \in chain : Exists(q) => IsFolder(q)
       /\ tree' = [q \in DOMAIN tree \cup chain |-> IF Exists(q) THEN tree[q] ELSE Folder]
       /\ Answer(r, IF last = Target(r) THEN "ok" ELSE "error")

\* os.Rename takes what is below along, but not into itself; it replaces a file by
\* a file, and an empty directory by a directory.  A bound: no tree of two levels
\* is moved down.
Rename(r) ==
  LET src == Append(job[r].dir, job[r].names[1])
      dst == Append(job[r].to, job[r].names[2])
      Origin(q) == IF Under(dst, q) THEN src \o SubSeq(q, Len(dst) + 1, Len(q)) ELSE q
  IN
  /\ At(r, "rename")
  /\ Exists(src) /\ IsFolder(job[r].to) /\ ~Under(src, dst)
  /\ Len(dst) > Len(src) => Children(src) = {}
  /\ Exists(dst) => (IsFolder(src) <=> IsFolder(dst)) /\ Children(dst) = {}
  /\ tree' = [q \in {p \in Paths : ~Under(src, p) /\ Exists(Origin(p))} |-> tree[Origin(q)]]
  /\ Answer(r, "ok")

Chmod(r) == At(r, "chmod") /\ Exists(Target(r)) /\ UNCHANGED tree /\ Answer(r, "ok")

\* Refused (400, 422), or failed before it did anything.
Refuse(r) ==
  /\ pc[r] = "serving" /\ job[r].op \in {"mkdir", "rename", "chmod"}
  /\ UNCHANGED tree
  /\ Answer(r, "error")

-----------------------------------------------------------------------------
(* remove; several entries are removed one after the other                 *)

\* Mutant: the entry is removed, what it holds is not.
RemoveOneShallow(r, q) ==
  /\ At(r, "remove")
  /\ q = Target(r) /\ Exists(q)
  /\ tree' = [p \in DOMAIN tree \ {q} |-> tree[p]]
  /\ UNCHANGED <<data, mixed, requestVars, eventVars, disturbed>>
  /\ Compare

\* os.RemoveAll works from the leaves up.
RemoveOne(r, q) ==
  /\ At(r, "remove")
  /\ Exists(q) /\ Under(Target(r), q) /\ Children(q) = {}
  /\ tree' = [p \in DOMAIN tree \ {q} |-> tree[p]]
  /\ UNCHANGED <<data, mixed, requestVars, eventVars, disturbed>>
  /\ Compare

\* Nothing is left of an entry: the next one.
Removed(r) ==
  /\ At(r, "remove")
  /\ ~Exists(Target(r))
  /\ IF part[r] < Len(job[r].names)
     THEN part' = [part EXCEPT ![r] = @ + 1] /\ UNCHANGED pc
     ELSE Goto(r, "ok") /\ UNCHANGED part
  /\ UNCHANGED <<treeVars, job, home, file, viewVars, eventVars, disturbed>>

RemoveFails(r) == At(r, "remove") /\ UNCHANGED tree /\ Answer(r, "error")

-----------------------------------------------------------------------------
(* upload: the parts of the body, one file after the other                 *)

\* Hub.Emit.  A view's connection may be lost with the events on it; what its bar
\* shows from then on is not followed.  Of events "bytes" in a row one counts.
Announce(e) ==
  \E lost \in SUBSET Views :
    /\ missed' = [v \in Views |-> missed[v] \/ v \in lost]
    /\ events' = [v \in Views |->
         IF missed[v] \/ v \in lost THEN <<>>
         ELSE IF e = "bytes" /\ events[v] # <<>> /\ events[v][Len(events[v])] = "bytes"
         THEN events[v] ELSE Append(events[v], e)]
    /\ UNCHANGED bar

\* Mutant: os.O_TRUNC is forgotten.
OpenUntruncated(r) ==
  LET p == Target(r)
      new == <<r, part[r]>>
      i == IF Exists(p) THEN tree[p] ELSE new
  IN
  /\ At(r, "upload")
  /\ IsFolder(job[r].dir) /\ ~IsFolder(p)
  /\ tree' = [q \in DOMAIN tree \cup {p} |-> IF q = p THEN i ELSE tree[q]]
  /\ data' = [data EXCEPT ![i].by = new]
  /\ file' = [file EXCEPT ![r] = [inode |-> i, next |-> 1]]
  /\ Goto(r, "writing")
  /\ UNCHANGED <<mixed, job, home, part, eventVars, disturbed>>
  /\ Compare

\* Save: os.OpenFile with O_CREATE and O_TRUNC.
Open(r) ==
  LET p == Target(r)
      new == <<r, part[r]>>
      i == IF Exists(p) THEN tree[p] ELSE new
  IN
  /\ At(r, "upload")
  /\ IsFolder(job[r].dir) /\ ~IsFolder(p)
  /\ tree' = [q \in DOMAIN tree \cup {p} |-> IF q = p THEN i ELSE tree[q]]
  /\ data' = [data EXCEPT ![i] = [by |-> new, chunks |-> {}]]
  /\ mixed' = IF \E q \in Requests : file[q].inode = i
              THEN mixed \cup {i} ELSE mixed
  /\ file' = [file EXCEPT ![r] = [inode |-> i, next |-> 1]]
  /\ Goto(r, "writing")
  /\ Compare
  /\ UNCHANGED <<job, home, part, eventVars, disturbed>>

\* io.Copy: a chunk (of 1 MiB, so that progressReader reports it).
WriteChunk(r) ==
  LET i == file[r].inode  k == file[r].next IN
  /\ pc[r] = "writing"
  /\ k <= Sizes[part[r]]
  /\ data' = [data EXCEPT ![i].chunks = {c \in @ : c[1] # k} \cup {<<k, <<r, part[r]>>>>}]
  /\ file' = [file EXCEPT ![r].next = k + 1]
  /\ Announce("bytes")
  /\ UNCHANGED <<tree, mixed, pc, job, home, part, disturbed>>
  /\ Compare

\* Mutant: no event reports the end of a file.
FinishQuietly(r) ==
  /\ pc[r] = "writing"
  /\ file[r].next > Sizes[part[r]]
  /\ part' = [part EXCEPT ![r] = @ + 1]
  /\ file' = [file EXCEPT ![r] = NoFile]
  /\ Goto(r, IF part[r] < Len(job[r].names) THEN "serving" ELSE "ok")
  /\ UNCHANGED <<treeVars, job, home, viewVars, eventVars, disturbed>>

\* The part is saved: "done", and the next part.
Finish(r) ==
  /\ pc[r] = "writing"
  /\ file[r].next > Sizes[part[r]]
  /\ Announce("done")
  /\ part' = [part EXCEPT ![r] = @ + 1]
  /\ file' = [file EXCEPT ![r] = NoFile]
  /\ Goto(r, IF part[r] < Len(job[r].names) THEN "serving" ELSE "ok")
  /\ UNCHANGED <<treeVars, job, home, viewVars, disturbed>>

\* Refused, cut off, or the disk is full: what was written stays, and no event
\* says that a file which was begun has ended.
UploadFails(r) ==
  /\ pc[r] \in Steps /\ job[r].op = "upload"
  /\ Goto(r, "error")
  /\ file' = [file EXCEPT ![r] = NoFile]
  /\ IF pc[r] = "writing"
     THEN missed' = [v \in Views |-> TRUE] /\ events' = [v \in Views |-> <<>>]
     ELSE UNCHANGED <<events, missed>>
  /\ UNCHANGED <<treeVars, job, home, part, viewVars, bar, disturbed>>

-----------------------------------------------------------------------------
FilesInit ==
  /\ tree = [p \in {Root} \cup {<<n>> : n \in Given} |-> Folder]
  /\ data = [i \in Inodes |-> [by |-> i, chunks |-> {}]]
  /\ mixed = {}
  /\ pc = [r \in Requests |-> "new"]
  /\ job = [r \in Requests |-> NoJob]
  /\ home = [r \in Requests |-> Root]
  /\ part = [r \in Requests |-> 1]
  /\ file = [r \in Requests |-> NoFile]
  /\ path = [v \in Views |-> Root]
  /\ shown = [v \in Views |-> [dir |-> Root, fresh |-> FALSE]]
  /\ \E s \in Slots : loads = [v \in Views |-> [t \in Slots |->
       IF t = s THEN [NoLoad EXCEPT !.stage = "sent"] ELSE NoLoad]]
  /\ events = [v \in Views |-> <<>>]
  /\ bar = [v \in Views |-> FALSE]
  /\ missed = [v \in Views |-> FALSE]
  /\ disturbed = [v \in Views |-> FALSE]

View(v) ==
  \/ \E d \in Tour : Walk(v, d)
  \/ \E s \in Slots : ServeLoad(v, s) \/ ShowLoad(v, s) \/ LoadFails(v, s)
  \/ Notice(v)

Serve(r) ==
  \/ Mkdir(r) \/ Rename(r) \/ Chmod(r) \/ Refuse(r)
  \/ (\E q \in Paths : RemoveOne(r, q)) \/ Removed(r) \/ RemoveFails(r)
  \/ Open(r) \/ WriteChunk(r) \/ Finish(r) \/ UploadFails(r)

FilesNext ==
  \/ \E v \in Views : View(v)
  \/ \E r \in Requests : (\E c \in Menu : Ask(r, c)) \/ Serve(r) \/ Receive(r) \/ ReceiveError(r)

FilesSpec == FilesInit /\ [][FilesNext]_filesVars

-----------------------------------------------------------------------------
(* Properties                                                              *)

FilesTypeOK ==
  /\ DOMAIN tree \subseteq Paths
  /\ \A p \in DOMAIN tree : tree[p] \in {Folder} \cup Inodes
  /\ IsFolder(Root) /\ \A p \in DOMAIN tree \ {Root} : IsFolder(SubSeq(p, 1, Len(p) - 1))
  /\ data \in [Inodes -> [by: Inodes, chunks: SUBSET (Chunks \X Inodes)]]
  /\ mixed \subseteq Inodes
  /\ pc \in [Requests -> {"new"} \cup Steps \cup {"ok", "error", "seen"}]
  /\ job \in [Requests -> Menu \cup {NoJob}]
  /\ home \in [Requests -> Dirs]
  /\ part \in [Requests -> 1 .. Len(Sizes) + 1]
  /\ file \in [Requests -> [inode: {Closed} \cup Inodes, next: {1} \cup {k + 1 : k \in Chunks}]]
  /\ path \in [Views -> Dirs]
  /\ shown \in [Views -> [dir: Dirs, fresh: BOOLEAN]]
  /\ loads \in [Views -> [Slots -> [stage: {"none", "sent", "answered"}, dir: Dirs, fresh: BOOLEAN]]]
  /\ events \in [Views -> Seq({"bytes", "done"})]
  /\ bar \in [Views -> BOOLEAN] /\ missed \in [Views -> BOOLEAN]
  /\ disturbed \in [Views -> BOOLEAN]

\* The part of an upload was saved.
Saved(u) == part[u[1]] > u[2]

\* filemgr.go Save: a file holds data of one upload only, the last one that opened
\* it, and all of it once that was saved: also when it was uploaded over an older,
\* longer file or one that a failed upload left, and renamed, removed or moved with
\* its directory in the meantime.  Only two uploads that have the same file open at
\* a time may mix their data.
LoneUploadsAreWhole ==
  \A p \in DOMAIN tree : ~IsFolder(p) /\ tree[p] \notin mixed =>
    LET f == data[tree[p]] IN
    /\ \A c \in f.chunks : c[2] = f.by
    /\ Saved(f.by) => Filled(tree[p]) = 1 .. Sizes[f.by[2]]

\* app.js FilesView: a view with nothing under way shows the entries that its
\* directory has - after every change it asked for and after every walk - unless
\* it was disturbed: someone else changed the tree, the user did not wait for
\* answers, or an answer was an error or was lost.
CalmViewIsUpToDate ==
  \A v \in Views : Quiet(v) /\ Active = {} /\ ~disturbed[v] =>
    shown[v] = [dir |-> path[v], fresh |-> TRUE]

\* app.js FilesView with handlers.go upload: no progress bar is left when no upload
\* is under way, whatever order the answer of the upload and its events come in -
\* unless an upload was cut off in a file (no event says so) or events were lost.
ProgressEnds ==
  \A v \in Views : Active = {} /\ events[v] = <<>> /\ ~missed[v] => ~bar[v]
=============================================================================
