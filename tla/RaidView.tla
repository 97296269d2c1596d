------------------------------ MODULE RaidView ------------------------------
(***************************************************************************)
(* The storage page (app.js RaidView with its five modals, and             *)
(* FilesystemSection with its two): the lists of arrays, disks and         *)
(* filesystems that it shows, the overlays that it lays over them (disks   *)
(* marked as failed, disks added, progress bars), the events of the hub    *)
(* that make it load, and the requests behind its buttons.  volume stands  *)
(* for the storage of the server; a level is one of the three classes that *)
(* the page treats differently; sizes, capacities and SMART are left out.  *)
(* The disks themselves never change and are known from the start: before  *)
(* listDisks has answered the page offers none of them.  An array that      *)
(* somebody else has made may be on partitions.                            *)
(***************************************************************************)
EXTENDS App

CONSTANTS
  Arrays, Disks,
  Partitions,
  Begins  \* <<d, x>>: the text of x begins with d, as that of its partitions does

VARIABLE volume   \* the server's arrays: their disks, level and filesystem

NoArray == [disks |-> {}, level |-> None, fs |-> "absent"]
Levels == {"fixed", "any", "pairs"}   \* RAID 0 and 1; 5 and 6; 10
FsStates == {"absent", "none", "made", "mounted"}
Pieces == Disks \cup Partitions
Volumes == {NoArray} \cup
  [disks: {S \in SUBSET Pieces : Cardinality(S) >= 2}, level: Levels, fs: FsStates \ {"absent"}]

\* What List and ListFilesystems would answer if every command worked.
ArrayRows == [a \in Arrays |-> [disks |-> volume[a].disks, level |-> volume[a].level]]
FsRows == [a \in Arrays |-> volume[a].fs]

NoRow == [disks |-> {}, level |-> None]
NoRows == [a \in Arrays |-> NoRow]
NoFs == [a \in Arrays |-> "absent"]

\* What they answer with 200.  List leaves out an array whose mdadm --detail
\* fails; ListFilesystems as well, or says less of it: not mounted when
\* /proc/mounts cannot be read, without a filesystem when blkid fails.
ArrayAnswers == {rows \in [Arrays -> {NoRow} \cup {ArrayRows[a] : a \in Arrays}] :
                   \A a \in Arrays : rows[a] \in {NoRow, ArrayRows[a]}}
Less(fs) == {"absent"} \cup CASE fs = "absent" -> {}
                               [] fs = "none" -> {"none"}
                               [] fs = "made" -> {"none", "made"}
                               [] fs = "mounted" -> {"none", "made", "mounted"}
FsAnswers == {rows \in [Arrays -> FsStates] : \A a \in Arrays : rows[a] \in Less(volume[a].fs)}

raidLists == {"arrays", "filesystems"}
ShownArrays == Rows(lists["arrays"], NoRows)
ShownFs == Rows(lists["filesystems"], NoFs)

NoModal == [type |-> "none"]
RaidFresh ==
  [failed |-> [a \in Arrays |-> {}], added |-> [a \in Arrays |-> {}],
   busy |-> {},       \* statusMap: the arrays with a progress bar
   modal |-> NoModal,
   silent |-> FALSE,  \* history: a filesystem was created since the last load
   news |-> 0]        \* raid.status events on their way

Here == route = "raid"

-----------------------------------------------------------------------------
(* What the page shows                                                     *)

Listed == {a \in Arrays : ShownArrays[a].disks # {}}
Devices(a) == ShownArrays[a].disks \cup view.added[a]

\* Mutant: only the disks added here count as used.
AvailableUnchecked == Disks \ UNION {view.added[a] : a \in Listed}

\* availableDisks: every disk that no listed array has and none is failed in.
Available ==
  Disks \ (UNION {Devices(a) : a \in Listed} \cup UNION {view.failed[a] : a \in Arrays})

HasFailed(a) == view.failed[a] # {}
IsBusy(a) == a \in view.busy

\* All that this view was told to load has arrived, whole and in order, and
\* nothing has changed since: what is on the screen should be so.  A confirmation
\* carries rev then, and None otherwise.
Informed ==
  /\ \A n \in DOMAIN lists : /\ Settled(lists[n]) /\ ~lists[n].spoilt
                             /\ lists[n].shown # None /\ lists[n].shown.whole
  /\ told = rev /\ ~view.silent
Basis == IF Informed THEN rev ELSE None

-----------------------------------------------------------------------------
(* The events and the loads                                                *)

Others(v) == UNCHANGED <<route, visits, changes, rev, sent, volume>> /\ v

\* load(), in a step that makes the view v.
Reload(v) == told' = rev /\ Load /\ view' = [v EXCEPT !.silent = FALSE]

\* The hub drops an event, or the socket is not open when it is sent: onclose
\* connects again and does not load.
LoseEvent ==
  /\ Here /\ view.news > 0
  /\ view' = [view EXCEPT !.news = @ - 1]
  /\ Others(UNCHANGED <<told, lists>>)

OnStatus ==
  /\ Here /\ view.news > 0
  /\ Others(Reload([view EXCEPT !.news = @ - 1]))

Emitted == IF Here THEN [view EXCEPT !.news = @ + 1] ELSE view

ServeRaidList ==
  /\ Here
  /\ \/ \E rows \in ArrayAnswers : ServeList("arrays", rows, rows = ArrayRows)
     \/ \E rows \in FsAnswers : ServeList("filesystems", rows, rows = FsRows)
  /\ Others(UNCHANGED <<told, view>>)

\* A list of arrays that fails leaves what was shown; a list of filesystems
\* that fails shows none.
FailRaidList ==
  /\ Here
  /\ \/ FailList("arrays", lists["arrays"].shown)
     \/ FailList("filesystems", [rev |-> rev, rows |-> NoFs, whole |-> FALSE])
  /\ Others(UNCHANGED <<told, view>>)

ShowRaidList ==
  /\ Here
  /\ \E n \in raidLists : ShowAnswer(n)
  /\ Others(UNCHANGED <<told, view>>)

-----------------------------------------------------------------------------
(* Modals: each keeps what it was opened with.  RaidView keeps one of five,  *)
(* FilesystemSection one of two; each covers the page.                     *)

raidModals == {"create", "wipe", "expand", "markFailed", "rebuild"}
fsModals == {"createFS", "mountFS", "created"}

\* What can be ticked or chosen in a modal: what it offers now, and what it
\* offered when it was opened, since a tick stays.
Choosable == Available \cup view.modal.offered

Open(m) == view' = [view EXCEPT !.modal = m]
Only(v) == UNCHANGED <<route, visits, changes, rev, told, lists, sent, volume>> /\ v

OpenModal ==
  /\ Here /\ view.modal.type = "none"
  /\ \/ Open([type |-> "create", offered |-> Available])
     \/ \E d \in Available : Open([type |-> "wipe", disk |-> d, basis |-> Basis])
     \/ \E a \in Listed :
          \/ /\ ~IsBusy(a)
             /\ Open([type |-> "expand", array |-> a, level |-> ShownArrays[a].level,
                      offered |-> Available])
          \/ /\ ~IsBusy(a) /\ ~HasFailed(a)
             /\ Open([type |-> "markFailed", array |-> a, devices |-> Devices(a)])
          \/ /\ ~IsBusy(a) /\ HasFailed(a)
             /\ Open([type |-> "rebuild", array |-> a, failed |-> view.failed[a],
                      offered |-> Available])
     \/ \E a \in Arrays :
          \/ ShownFs[a] = "none" /\ Open([type |-> "createFS", array |-> a, basis |-> Basis])
          \/ ShownFs[a] = "made" /\ Open([type |-> "mountFS", array |-> a])
  /\ Only(TRUE)

\* Esc, the cross or Cancel.  The answer of createFilesystem then finds its
\* modal gone (left); the other requests do not ask for it.
CloseModal ==
  /\ Here /\ view.modal.type # "none"
  /\ Open(NoModal)
  /\ IF sent.at # "idle" /\ view.modal.type = "createFS" /\ sent.kind = "createFS"
     THEN sent' = [sent EXCEPT !.what.left = TRUE]
     ELSE UNCHANGED sent
  /\ UNCHANGED <<route, visits, changes, rev, told, lists, volume>>

-----------------------------------------------------------------------------
(* Requests                                                                *)

Quietly(v) == UNCHANGED <<told, lists, volume>> /\ v

LevelOptions(n) ==
  IF n < 2 THEN {} ELSE IF n = 2 THEN {"fixed"} ELSE IF n = 3 THEN {"fixed", "any"} ELSE Levels

\* The disks are ticked in the modal, in the same step here.
SubmitCreate ==
  /\ Here /\ view.modal.type = "create"
  /\ \E a \in Arrays, T \in SUBSET Choosable : \E l \in LevelOptions(Cardinality(T)) :
       Send("create", [array |-> a, disks |-> T, level |-> l])
  /\ Quietly(UNCHANGED view)

ConfirmWipe ==
  /\ Here /\ view.modal.type = "wipe"
  /\ Send("wipe", [disk |-> view.modal.disk, basis |-> view.modal.basis])
  /\ Quietly(UNCHANGED view)

\* The confirmation names what the list of filesystems says of the array.
HandleDelete ==
  /\ Here /\ view.modal.type = "none"
  /\ \E a \in Listed :
       ~IsBusy(a) /\ Send("delete", [array |-> a, named |-> ShownFs[a], basis |-> Basis])
  /\ Quietly(UNCHANGED view)

\* handleExpand and the three below change the overlays at once and do not wait
\* for the answer.
HandleExpand ==
  LET m == view.modal IN
  /\ Here /\ m.type = "expand" /\ m.level # "fixed"
  /\ Send("member", [array |-> m.array])
  /\ \E T \in (SUBSET Choosable) \ {{}} :
       /\ m.level = "pairs" => Cardinality(T) % 2 = 0
       /\ Quietly(view' = [view EXCEPT !.modal = NoModal, !.added[m.array] = @ \cup T,
                                       !.busy = @ \cup {m.array}])

HandleMarkFailed ==
  LET m == view.modal IN
  /\ Here /\ m.type = "markFailed"
  /\ Send("member", [array |-> m.array])
  /\ \E d \in m.devices :
       Quietly(view' = [view EXCEPT !.modal = NoModal, !.failed[m.array] = @ \cup {d}])

HandleRebuild ==
  LET m == view.modal IN
  /\ Here /\ m.type = "rebuild"
  /\ Send("member", [array |-> m.array])
  /\ \E f \in m.failed, d \in Choosable :
       Quietly(view' = [view EXCEPT !.modal = NoModal, !.failed[m.array] = @ \ {f},
                                    !.added[m.array] = @ \cup {d}, !.busy = @ \cup {m.array}])

\* FilesystemSection: the buttons of a row, after window.confirm.
HandleFs ==
  /\ Here /\ view.modal.type = "none"
  /\ \E a \in Arrays :
       \/ ShownFs[a] = "mounted" /\ Send("unmount", [array |-> a])
       \/ ShownFs[a] = "mounted" /\ Send("grow", [array |-> a])
       \/ /\ ShownFs[a] \in {"made", "mounted"}
          /\ Send("deleteFS", [array |-> a, named |-> ShownFs[a], basis |-> Basis])
  /\ Quietly(UNCHANGED view)

SubmitFs ==
  LET m == view.modal IN
  /\ Here
  /\ \/ m.type = "createFS" /\ Send("createFS", [array |-> m.array, basis |-> m.basis, left |-> FALSE])
     \/ m.type = "mountFS" /\ Send("mountFS", [array |-> m.array])
  /\ Quietly(UNCHANGED view)

\* The end of a progress bar: a timer, whatever became of the request.
ProgressEnds ==
  /\ Here
  /\ \E a \in Arrays : IsBusy(a) /\ Reload([view EXCEPT !.busy = @ \ {a}])
  /\ UNCHANGED <<route, visits, changes, rev, sent, volume>>

-----------------------------------------------------------------------------
(* The server carries a request out (the handlers of raid.go, in one step) *)

\* The table becomes v, and an event says so.
Done(v) == volume' = v /\ Committed("ok") /\ view' = Emitted
\* The request fails after a part of its work: no event.
Half(v) == volume' = v /\ Committed("error") /\ UNCHANGED view
\* It is refused, or its first command fails.
Fail == Refused /\ UNCHANGED <<volume, view>>

With(a, fs) == [volume EXCEPT ![a].fs = fs]
Without(K) == [a \in Arrays |-> IF a \in K THEN NoArray ELSE volume[a]]
Free(S) == \A a \in Arrays : \A x \in volume[a].disks, y \in S :
             x # y /\ <<x, y>> \notin Begins /\ <<y, x>> \notin Begins
Holding(d) == {a \in Arrays : \E x \in volume[a].disks : <<d, x>> \in Begins}
Exists(a) == volume[a].disks # {}

ServeCreate ==
  /\ AtServer("create")
  /\ \/ /\ ~Exists(sent.what.array) /\ Free(sent.what.disks)
        /\ Done([volume EXCEPT ![sent.what.array] =
                   [disks |-> sent.what.disks, level |-> sent.what.level, fs |-> "none"]])
     \/ Fail

\* WipeDisk stops the arrays of the disk in turn, until one is mounted, and then
\* clears the disk, which may fail.
ServeWipe ==
  LET found == Holding(sent.what.disk)
      unused == {a \in found : volume[a].fs # "mounted"} IN
  /\ AtServer("wipe")
  /\ \/ found = unused /\ Done(Without(found))
     \/ \E K \in (SUBSET unused) \ {{}} : Half(Without(K))
     \/ Fail

\* Stop unmounts the filesystem, then stops the array, which may fail.
ServeDelete ==
  /\ AtServer("delete")
  /\ \/ Exists(sent.what.array) /\ Done([volume EXCEPT ![sent.what.array] = NoArray])
     \/ volume[sent.what.array].fs = "mounted" /\ Half(With(sent.what.array, "made"))
     \/ Fail

\* api.addDisk and api.removeDisk put the device with its /dev/ in the path,
\* encoded; the router leaves it encoded and the handlers put /dev/ before it,
\* so ValidMDDevice refuses every request of the page.
ServeMember == AtServer("member") /\ Fail

ServeFs ==
  LET a == sent.what.array  fs == volume[a].fs IN
  \/ /\ AtServer("createFS")
     /\ \/ fs \in {"none", "made"} /\ (Done(With(a, "mounted")) \/ Half(With(a, "made")))
        \/ Fail
  \/ AtServer("mountFS") /\ ((fs = "made" /\ Done(With(a, "mounted"))) \/ Fail)
  \/ AtServer("unmount") /\ ((fs = "mounted" /\ Done(With(a, "made"))) \/ Fail)
  \/ AtServer("grow") /\ ((fs = "mounted" /\ Done(volume)) \/ Fail)
  \/ /\ AtServer("deleteFS")
     /\ \/ Exists(a) /\ Done(With(a, "none"))
        \/ fs = "mounted" /\ Half(With(a, "made"))
        \/ Fail

ServeRaid ==
  /\ ServeCreate \/ ServeWipe \/ ServeDelete \/ ServeMember \/ ServeFs
  /\ UNCHANGED <<route, visits, changes, told, lists>>

\* Somebody else creates, deletes or formats; the handlers emit the event.
OtherStorage ==
  /\ Other
  /\ \E a \in Arrays :
       \/ \E S \in (SUBSET Disks) \cup (SUBSET Partitions) :
            /\ ~Exists(a) /\ Cardinality(S) = 2 /\ Free(S)
            /\ volume' = [volume EXCEPT ![a] = [disks |-> S, level |-> "fixed", fs |-> "none"]]
       \/ Exists(a) /\ volume' = [volume EXCEPT ![a] = NoArray]
       \/ volume[a].fs = "none" /\ volume' = With(a, "mounted")
  /\ view' = Emitted

-----------------------------------------------------------------------------
(* The answer                                                              *)

\* The modals that an answer closes: those of the component that sent the
\* request, whichever of them is open now.
ClosedBy(kind) ==
  CASE kind \in {"create", "wipe"} -> raidModals
    [] kind = "mountFS" -> fsModals
    [] OTHER -> {}
AfterOk == IF view.modal.type \in ClosedBy(sent.kind) THEN [view EXCEPT !.modal = NoModal] ELSE view

\* Mutant: a wipe that succeeds closes its modal and does not load.
OnOkWithoutLoad ==
  /\ Here /\ Answered("ok") /\ ForThisView
  /\ IF sent.kind = "wipe" THEN told' = rev /\ view' = AfterOk /\ UNCHANGED lists
                           ELSE Reload(AfterOk)
  /\ UNCHANGED <<route, visits, changes, rev, volume>>

\* onCreated, handleWipeDisk and onDone close the modal and load.  A created
\* filesystem is announced in its modal, whose button Done loads; when the modal
\* was left nobody loads.
OnRaidOk ==
  /\ Here /\ Answered("ok") /\ ForThisView
  /\ IF sent.kind = "createFS"
     THEN /\ told' = rev
          /\ view' = [view EXCEPT !.silent = TRUE,
                                  !.modal = IF sent.what.left THEN @ ELSE [type |-> "created"]]
          /\ UNCHANGED lists
     ELSE Reload(AfterOk)
  /\ UNCHANGED <<route, visits, changes, rev, volume>>

DoneCreated ==
  /\ Here /\ view.modal.type = "created"
  /\ Reload([view EXCEPT !.modal = NoModal])
  /\ UNCHANGED <<route, visits, changes, rev, sent, volume>>

\* setErr and no more: the lists stay as they are.
OnRaidError ==
  /\ Here /\ Answered("error") /\ ForThisView
  /\ UNCHANGED <<route, visits, changes, rev, told, lists, view, volume>>

-----------------------------------------------------------------------------
RaidNext ==
  \/ LoseEvent \/ OnStatus
  \/ ServeRaidList \/ FailRaidList \/ ShowRaidList
  \/ OpenModal \/ CloseModal \/ ProgressEnds
  \/ SubmitCreate \/ ConfirmWipe \/ HandleDelete
  \/ HandleExpand \/ HandleMarkFailed \/ HandleRebuild \/ HandleFs \/ SubmitFs
  \/ ServeRaid \/ OtherStorage \/ OnRaidOk \/ DoneCreated \/ OnRaidError

RaidTypeOK ==
  /\ volume \in [Arrays -> Volumes]
  /\ Here =>
       /\ DOMAIN lists = raidLists
       /\ view.failed \in [Arrays -> SUBSET Pieces] /\ view.added \in [Arrays -> SUBSET Disks]
       /\ view.busy \subseteq Arrays
       /\ view.news \in 0..rev /\ view.silent \in BOOLEAN
=============================================================================
