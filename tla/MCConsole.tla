------------------------------ MODULE MCConsole ------------------------------
(***************************************************************************)
(* A small server for Console: an array or none, a disk to spare, a Samba  *)
(* share and an export, written by the page or by an older client, and two *)
(* accounts.  A run of it looks at one page at a time: the tables of the   *)
(* other pages have one value.                                             *)
(***************************************************************************)
EXTENDS Console

CONSTANTS a1, d1, d2, d3, p1, p2, p3, s1, n1, u1, everyone, c1, guest

\* Each disk has a partition.
PartOf == [d \in Disks |-> CASE d = d1 -> p1 [] d = d2 -> p2 [] d = d3 -> p3]
Beginnings == {<<d, x>> \in Disks \X (Disks \cup Partitions) : x \in {d, PartOf[d]}}

VolumesStart ==
  {[a \in Arrays |-> R!NoArray]} \cup
  {[a \in Arrays |-> [disks |-> {d1, d2}, level |-> l, fs |-> f]] :
     l \in {"any"}, f \in {"none", "mounted"}}

Sharing(smb, nfs) == [id \in Smb \cup Nfs |-> IF id \in Smb THEN smb ELSE nfs]
SharesStart ==
  {Sharing(S!Row(TRUE, TRUE, {u1}, None, 0), S!Row(TRUE, FALSE, {}, None, 0)),
   Sharing(S!NoRow, S!Row(FALSE, TRUE, {c1}, None, 0))}

AccountsStart ==
  {[u \in Accounts |-> "Admin"], [u \in Accounts |-> IF u = Root THEN "Admin" ELSE "User"]}

\* What the server has of the pages that a behaviour does not begin on.
NoStorage == [a \in Arrays |-> R!NoArray]
NothingShared == [id \in Smb \cup Nfs |-> S!NoRow]
OnlyRoot == [u \in Accounts |-> IF u = Root THEN "Admin" ELSE "gone"]

MCInit ==
  /\ volume \in VolumesStart
  /\ shares \in SharesStart \cup {NothingShared}
  /\ accounts \in AccountsStart \cup {OnlyRoot}
  /\ Init
  /\ IF route = "raid" THEN TRUE ELSE volume = NoStorage
  /\ IF route = "shares" THEN shares # NothingShared ELSE shares = NothingShared
  /\ IF route = "users" THEN accounts # OnlyRoot ELSE accounts = OnlyRoot
MCSpec == MCInit /\ [][Next]_vars

\* bounds: a page is left for one that is not modelled here.  Loads overlap on the
\* page of the users, and on the storage page up to the last change.  A storage
\* page is not followed further when a list is spoilt or both leave something out;
\* when one does, only while nothing has changed or a request of the page is at the
\* server, without the modals that destroy nothing; nor, with an array on
\* partitions, after the last change was carried out.
UnderWay(l) == l.unread + Len(l.read)
LeavesOut(l) == (l.shown # None /\ ~l.shown.whole) \/ \E i \in DOMAIN l.read : ~l.read[i].whole
OnPartitions == \E a \in Arrays : volume[a].disks \cap Partitions # {}
RaidBounds ==
  LET less == {n \in DOMAIN lists : LeavesOut(lists[n])} IN
  /\ \A n \in DOMAIN lists : ~lists[n].spoilt
  /\ changes = MaxChanges \/ less # {} => \A n \in DOMAIN lists : UnderWay(lists[n]) <= 1
  /\ OnPartitions => changes < MaxChanges \/ sent.at = "server"
  /\ less # {} => /\ less # DOMAIN lists
                  /\ changes = 0 \/ sent.at = "server"
                  /\ view.modal.type \in {"none", "wipe", "createFS"}
Bounds ==
  CASE route = "raid" -> visits = 0 /\ RaidBounds
    [] route = "shares" -> visits = 0 /\ UnderWay(lists["shares"]) <= 1
    [] route = "users" -> visits = 0
    [] OTHER -> TRUE
Symmetric == {[x \in Disks \cup Partitions |->
                 IF x \in Disks THEN f[x] ELSE PartOf[f[CHOOSE d \in Disks : PartOf[d] = x]]] :
               f \in Permutations(Disks)}
=============================================================================
