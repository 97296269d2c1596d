---------------------------- MODULE ConsoleProofs -----------------------------
(***************************************************************************)
(* Theorems about Console, for any arrays, disks, shares, clients and      *)
(* accounts and any bounds: what a page shows when all that it asked for   *)
(* has arrived, and what its copies are worth when a request that was made *)
(* from them is carried out.                                               *)
(***************************************************************************)
EXTENDS Console, SequenceTheorems, FiniteSetTheorems, TLAPS

-----------------------------------------------------------------------------
(* A list, whatever it holds: the answers on their way are in A, the one    *)
(* that is shown in B.                                                     *)

ListsOver(A, B) == [unread: Nat, read: Seq(A), shown: B \cup {None}, spoilt: BOOLEAN]

IsList(m) == m = [unread |-> m.unread, read |-> m.read, shown |-> m.shown, spoilt |-> m.spoilt]

\* A load that will end no older than t has not ended, or what is shown is that
\* new, or the list is spoilt.
Arrives(l, t) ==
  \/ l.spoilt
  \/ l.unread > 0
  \/ \E i \in DOMAIN l.read : l.read[i].rev >= t
  \/ (l.shown # None /\ l.shown.rev >= t)

\* What follows for a list that nobody is waiting for.
LEMMA ArrivedIsShown ==
  ASSUME NEW A, NEW B, NEW l \in ListsOver(A, B), NEW t, Arrives(l, t), Settled(l), ~l.spoilt
  PROVE  l.shown # None /\ l.shown.rev >= t
BY EmptySeq DEF ListsOver, Arrives, Settled

\* A list that is asked for again will bring something as new as anything.
LEMMA AskKeeps ==
  ASSUME NEW A, NEW B, NEW l \in ListsOver(A, B), NEW t
  PROVE  /\ Ask(l) \in ListsOver(A, B)
         /\ Arrives(Ask(l), t)
         /\ Ask(l).shown = l.shown /\ Ask(l).spoilt = l.spoilt /\ Ask(l).read = l.read
         /\ Ask(l).unread = l.unread + 1
BY DEF ListsOver, Arrives, Ask

\* What the answers are drawn from may only grow.
LEMMA ListMonotonic ==
  ASSUME NEW A, NEW B, NEW C, NEW D, A \subseteq C, B \subseteq D, NEW l \in ListsOver(A, B)
  PROVE  l \in ListsOver(C, D)
<1>1. l.read \in Seq(C)
  BY SeqMonotonic DEF ListsOver
<1>2. QED
  BY <1>1 DEF ListsOver

\* The handler of the GET has read.
LEMMA ServeKeeps ==
  ASSUME NEW A, NEW B, NEW l \in ListsOver(A, B), NEW a \in A, l.unread > 0,
         NEW t, a.rev >= t,
         NEW m, IsList(m), m.unread = l.unread - 1, m.read = Append(l.read, a),
         m.shown = l.shown, m.spoilt = l.spoilt
  PROVE  /\ m \in ListsOver(A, B) /\ Arrives(m, t)
         /\ m.shown = l.shown /\ m.spoilt = l.spoilt
         /\ m.unread + Len(m.read) = l.unread + Len(l.read)
<1>1. m = [unread |-> m.unread, read |-> m.read, shown |-> m.shown, spoilt |-> m.spoilt]
  BY DEF IsList
<1>2. /\ l.read \in Seq(A) /\ l.unread \in Nat /\ l.unread - 1 \in Nat
      /\ l.shown \in B \cup {None} /\ l.spoilt \in BOOLEAN
  BY DEF ListsOver
<1>3. /\ m.read \in Seq(A) /\ Len(m.read) = Len(l.read) + 1
      /\ m.read[Len(l.read) + 1] = a
  BY <1>1, <1>2, AppendProperties
<1>4. Len(l.read) + 1 \in DOMAIN m.read
  BY <1>2, <1>3, LenProperties
<1>5. m \in ListsOver(A, B)
  BY <1>1, <1>2, <1>3 DEF ListsOver
<1>6. Arrives(m, t)
  BY <1>3, <1>4 DEF Arrives
<1>7. QED
  BY <1>1, <1>2, <1>3, <1>5, <1>6, LenProperties DEF ListsOver

\* What is left of a sequence when an element of it is taken out.
LEMMA Removed ==
  ASSUME NEW A, NEW s \in Seq(A), NEW i \in DOMAIN s
  PROVE  /\ RemoveAt(s, i) \in Seq(A)
         /\ Len(RemoveAt(s, i)) = Len(s) - 1
         /\ \A j \in (DOMAIN s) \ {i} : \E k \in DOMAIN RemoveAt(s, i) : RemoveAt(s, i)[k] = s[j]
<1> DEFINE u == SubSeq(s, 1, i - 1)
           v == SubSeq(s, i + 1, Len(s))
<1>1. /\ Len(s) \in Nat /\ DOMAIN s = 1..Len(s) /\ i \in 1..Len(s)
      /\ \A j \in 1..Len(s) : s[j] \in A
  BY LenProperties, ElementOfSeq
<1>2. /\ u \in Seq(A) /\ Len(u) = i - 1
      /\ \A j \in 1..i-1 : u[j] = s[j]
  BY <1>1, SubSeqProperties
<1>3. /\ v \in Seq(A) /\ Len(v) = Len(s) - i
      /\ \A j \in 1..Len(s)-i : v[j] = s[i + j]
  BY <1>1, SubSeqProperties
<1>4. RemoveAt(s, i) = u \o v
  BY DEF RemoveAt
<1> HIDE DEF u, v
<1>5. i - 1 + (Len(s) - i) = Len(s) - 1 /\ i - 1 \in Nat /\ Len(s) - i \in Nat
  BY <1>1
<1>6. /\ u \o v \in Seq(A) /\ Len(u \o v) = Len(u) + Len(v)
       /\ \A k \in 1..Len(u)+Len(v) : (u \o v)[k] = IF k <= Len(u) THEN u[k] ELSE v[k - Len(u)]
  BY <1>2, <1>3, ConcatProperties
<1>7. /\ u \o v \in Seq(A) /\ Len(u \o v) = Len(s) - 1
      /\ \A k \in 1..Len(s)-1 : (u \o v)[k] = IF k <= i - 1 THEN u[k] ELSE v[k - (i - 1)]
  BY <1>2, <1>3, <1>5, <1>6
<1>8. DOMAIN (u \o v) = 1..Len(s)-1
  BY <1>7, LenProperties
<1>9. ASSUME NEW j \in (DOMAIN s) \ {i} PROVE \E k \in DOMAIN (u \o v) : (u \o v)[k] = s[j]
  <2>1. CASE j < i
    <3>1. j \in 1..Len(s)-1 /\ j \in 1..i-1
      BY <1>1, <2>1
    <3>2. (u \o v)[j] = s[j]
      BY <1>2, <1>7, <3>1
    <3>3. QED
      BY <1>8, <3>1, <3>2
  <2>2. CASE j > i
    <3>1. j - 1 \in 1..Len(s)-1 /\ j - i \in 1..Len(s)-i /\ ~(j - 1 <= i - 1)
      BY <1>1, <2>2
    <3>2. (u \o v)[j - 1] = v[j - 1 - (i - 1)]
      BY <1>7, <3>1
    <3>3. j - 1 - (i - 1) = j - i /\ i + (j - i) = j
      BY <1>1, <2>2
    <3>4. v[j - i] = s[j]
      BY <1>3, <3>1, <3>3
    <3>5. QED
      BY <1>8, <3>1, <3>2, <3>3, <3>4
  <2>3. QED
    BY <1>1, <2>1, <2>2
<1>10. QED
  BY <1>4, <1>7, <1>9

\* An answer has been shown, whichever it was.
LEMMA ShowKeeps ==
  ASSUME NEW A, NEW B, A \subseteq B, NEW l \in ListsOver(A, B), NEW i \in DOMAIN l.read,
         \A a \in B : a.rev \in Nat,
         NEW t \in Nat, None \notin A,
         NEW m, IsList(m), m.unread = l.unread, m.read = RemoveAt(l.read, i), m.shown = l.read[i],
         m.spoilt = (l.spoilt \/ (l.shown # None /\ l.shown.rev > l.read[i].rev))
  PROVE  /\ m \in ListsOver(A, B) /\ (Arrives(l, t) => Arrives(m, t))
         /\ m.shown = l.read[i] /\ m.shown \in A /\ m.shown # None
         /\ m.unread = l.unread /\ Len(m.read) = Len(l.read) - 1
<1>1. l.read \in Seq(A) /\ l.spoilt \in BOOLEAN /\ l.unread \in Nat /\ l.shown \in B \cup {None}
  BY DEF ListsOver
<1>2. /\ l.read[i] \in A
      /\ RemoveAt(l.read, i) \in Seq(A) /\ Len(RemoveAt(l.read, i)) = Len(l.read) - 1
      /\ \A j \in (DOMAIN l.read) \ {i} :
           \E k \in DOMAIN RemoveAt(l.read, i) : RemoveAt(l.read, i)[k] = l.read[j]
  BY <1>1, Removed, ElementOfSeq, LenProperties
<1>3. m = [unread |-> m.unread, read |-> m.read, shown |-> m.shown, spoilt |-> m.spoilt]
  BY DEF IsList
<1>4. m \in ListsOver(A, B)
  BY <1>1, <1>2, <1>3 DEF ListsOver
<1>5. ASSUME Arrives(l, t) PROVE Arrives(m, t)
  <2>1. CASE l.spoilt \/ l.unread > 0
    BY <1>3, <2>1 DEF Arrives
  <2>2. CASE \E j \in DOMAIN l.read : l.read[j].rev >= t
    <3>1. PICK j \in DOMAIN l.read : l.read[j].rev >= t
      BY <2>2
    <3>2. CASE j = i
      BY <1>2, <1>3, <3>1, <3>2 DEF Arrives
    <3>3. CASE j # i
      <4>1. PICK k \in DOMAIN m.read : m.read[k] = l.read[j]
        BY <1>2, <1>3, <3>3
      <4>2. QED
        BY <3>1, <4>1 DEF Arrives
    <3>4. QED
      BY <3>2, <3>3
  <2>3. CASE l.shown # None /\ l.shown.rev >= t
    <3>1. l.shown.rev \in Nat /\ l.read[i].rev \in Nat
      BY <1>1, <1>2, <2>3
    <3>2. CASE l.shown.rev > l.read[i].rev
      BY <1>3, <2>3, <3>2 DEF Arrives
    <3>3. CASE ~(l.shown.rev > l.read[i].rev)
      <4>1. l.read[i].rev >= t
        BY <2>3, <3>1, <3>3
      <4>2. QED
        BY <1>2, <1>3, <4>1 DEF Arrives
    <3>4. QED
      BY <3>2, <3>3
  <2>4. QED
    BY <1>5, <2>1, <2>2, <2>3 DEF Arrives
<1>6. QED
  BY <1>2, <1>3, <1>4, <1>5

\* A GET has failed.
LEMMA FailKeeps ==
  ASSUME NEW A, NEW B, NEW l \in ListsOver(A, B), l.unread > 0, NEW t,
         NEW m, IsList(m), m.unread = l.unread - 1, m.read = l.read, m.shown \in B \cup {None},
         m.spoilt \in BOOLEAN, m.spoilt
  PROVE  m \in ListsOver(A, B) /\ Arrives(m, t)
<1>1. m = [unread |-> m.unread, read |-> m.read, shown |-> m.shown, spoilt |-> m.spoilt]
  BY DEF IsList
<1>2. l.read \in Seq(A) /\ l.unread \in Nat /\ l.unread - 1 \in Nat
  BY DEF ListsOver
<1>3. m \in ListsOver(A, B)
  BY <1>1, <1>2 DEF ListsOver
<1>4. QED
  BY <1>1, <1>3 DEF Arrives

-----------------------------------------------------------------------------
(* What the answers are worth                                              *)

ListNames == {"arrays", "filesystems", "shares", "users"}

\* What the server would answer now, if it left nothing out.
ShareRows == [id \in S!Ids |-> IF shares[id].is THEN S!MapShareFromAPI(id, shares[id]) ELSE None]
Truth(n) == CASE n = "arrays" -> R!ArrayRows
              [] n = "filesystems" -> R!FsRows
              [] n = "shares" -> ShareRows
              [] n = "users" -> accounts

\* The form that was read of a share is the form of its row, unless the row has
\* changed since.
FormHolds(id, form, at) ==
  form # None /\ shares[id].is /\ shares[id].at <= at => form = S!MapShareFromAPI(id, shares[id])

\* The role that was read of an account is its role, unless it is gone.
RoleHolds(u, role) == role \in U!Roles => accounts[u] \in {role, "gone"}

\* What an answer that the server has given says of the tables as they are now.
Valid(n) ==
  {a \in Answers(n) :
     /\ a.rev <= rev
     /\ a.rev = rev /\ a.whole => a.rows = Truth(n)
     /\ n \in R!raidLists \/ a.whole
     /\ n = "shares" => \A id \in S!Ids : FormHolds(id, a.rows[id], a.rev)
                                       /\ a.rows[id] \in S!Forms(id) \cup {None}
     /\ n = "users" => \A u \in Accounts : RoleHolds(u, a.rows[u])}

\* What may be shown instead: a list of filesystems that failed, accounts whose
\* roles were changed in the copy.
Plausible(n) == {a \in Answers(n) : a.rev <= rev}
Unaltered(n) ==
  CASE n \in R!raidLists -> ~lists[n].spoilt
    [] n = "shares" -> TRUE
    [] n = "users" -> ~view.edited

ListOK(n) ==
  /\ lists[n] \in ListsOver(Valid(n), Plausible(n))
  /\ Silent \/ Arrives(lists[n], told)
  /\ lists[n].unread + Len(lists[n].read) <= MaxLoads
  /\ lists[n].shown # None /\ Unaltered(n) => lists[n].shown \in Valid(n)

ListsOK == lists = [n \in ListsOf(route) |-> lists[n]] /\ \A n \in ListsOf(route) : ListOK(n)

-----------------------------------------------------------------------------
(* The tables, and what a step makes of them                               *)

TablesOK ==
  /\ volume \in [Arrays -> R!Volumes]
  /\ DOMAIN shares = S!Ids
  /\ \A id \in S!Ids : S!IsRow(id, shares[id]) /\ shares[id].at <= rev
  /\ accounts \in [Accounts -> U!States]

KeepTables == rev' = rev /\ UNCHANGED tables

\* A change counts, and the rows of shares remember it; ids of shares are not
\* used again, nor are accounts.
MoveTables ==
  /\ rev' = rev + 1
  /\ TablesOK'
  /\ \A id \in S!Ids : shares'[id] = shares[id] \/ shares'[id].at = rev + 1
  /\ \A u \in Accounts :
       \/ accounts'[u] = accounts[u]
       \/ accounts[u] = "no"
       \/ (accounts[u] \in U!Roles /\ accounts'[u] = "gone")

Counters ==
  /\ visits \in 0..MaxVisits /\ changes \in 0..MaxChanges
  /\ rev \in 0..changes /\ told \in 0..rev
  /\ sent.at = "server" => rev < changes
  /\ route \in Routes

-----------------------------------------------------------------------------
(* Requests, and the copies that they are made from                        *)

Bases == (0..rev) \cup {None}
Destroying == {"wipe", "delete", "createFS", "deleteFS"}

\* What a confirmation said of the storage is so.
Named(kind, what) ==
  CASE kind = "wipe" -> \A a \in Arrays : what.disk \notin volume[a].disks
    [] kind \in {"delete", "deleteFS"} -> volume[what.array].fs = what.named
    [] kind = "createFS" -> volume[what.array].fs = "none"

\* A form, and the state that goes along with it, that differ from the row of
\* the share in one part.
OneChange(id, form, on, part) ==
  LET was == S!MapShareFromAPI(id, shares[id]) IN
  \/ part = "on" /\ form = was
  \/ on = was.on /\ \E e \in S!Edits(id, was) : e.form = form /\ e.part = part

\* There is another administrator, or none at all.
NotTheLast(u) == U!Admins(accounts) \subseteq {u} => U!Admins(accounts) = {}

\* The facts that a request was made from, as far as they are still so.
Backed(kind, what) ==
  /\ kind \in Destroying => what.basis \in Bases /\ (what.basis = rev => Named(kind, what))
  /\ kind = "updateShare" =>
       /\ what.basis \in 0..rev
       /\ shares[what.id].is /\ shares[what.id].at <= what.basis =>
            OneChange(what.id, what.form, what.on, what.part)
       /\ what.says # None /\ what.says.calm => what.on = what.says.on
  /\ kind = "deleteUser" =>
       what.basis \in Bases /\ (~what.edited /\ what.basis = rev => NotTheLast(what.user))

WellFormed(kind, what) ==
  /\ kind \in {"create", "delete", "member", "mountFS", "unmount", "grow", "deleteFS", "createFS"} =>
       what.array \in Arrays
  /\ kind = "create" =>
       what.disks \in {T \in SUBSET Disks : Cardinality(T) >= 2} /\ what.level \in R!Levels
  /\ kind \in {"createShare", "updateShare"} =>
       what.id \in S!Ids /\ what.form \in S!Forms(what.id)
  /\ kind = "createFS" => what = [array |-> what.array, basis |-> what.basis, left |-> what.left]
  /\ kind = "updateShare" => what.on \in BOOLEAN
  /\ kind = "deleteShare" => what.id \in S!Ids
  /\ kind \in {"addUser", "setPassword"} => what.user \in Accounts /\ what.role \in U!Roles
  /\ kind = "deleteUser" => what.user \in Accounts

SentOK ==
  \/ sent = Idle
  \/ /\ sent = [at |-> sent.at, visit |-> sent.visit, kind |-> sent.kind, what |-> sent.what]
     /\ sent.at \in {"server", "ok", "error"}
     /\ WellFormed(sent.kind, sent.what)
     /\ sent.at = "server" => Backed(sent.kind, sent.what)

-----------------------------------------------------------------------------
(* The views                                                               *)

RaidModalOK(m) ==
  /\ m.type \in {"create", "expand", "rebuild"} => m.offered \subseteq Disks
  /\ m.type \in {"expand", "rebuild", "markFailed", "mountFS", "createFS"} => m.array \in Arrays
  /\ m.type = "markFailed" => m.devices \subseteq R!Pieces
  /\ m.type = "rebuild" => m.failed \subseteq R!Pieces
  /\ m.type \in {"wipe", "createFS"} => Backed(m.type, m)

RaidViewOK ==
  /\ view = [failed |-> view.failed, added |-> view.added, busy |-> view.busy,
             modal |-> view.modal, silent |-> view.silent, news |-> view.news]
  /\ view.silent \in BOOLEAN
  /\ view.failed \in [Arrays -> SUBSET R!Pieces] /\ view.added \in [Arrays -> SUBSET Disks]
  /\ view.busy \subseteq Arrays
  /\ view.news \in 0..rev
  /\ RaidModalOK(view.modal)

CopyOK(c) ==
  /\ c.id \in S!Ids /\ c.form \in S!Forms(c.id) /\ c.basis \in 0..rev
  /\ FormHolds(c.id, c.form, c.basis)

\* While the panel is open there is no modal.
SharesViewOK ==
  /\ view = [modal |-> view.modal, panel |-> view.panel, err |-> view.err, loading |-> view.loading]
  /\ view.modal.type = "create" => view.modal.id \in S!Ids
  /\ view.modal.type \in {"edit", "delete"} => CopyOK(view.modal.copy)
  /\ view.panel # None => view.modal.type = "none" /\ CopyOK(view.panel.copy)

\* A panel that was opened while nothing was under way shows what the list shows.
PanelAgrees ==
  route = "shares" /\ view.panel # None /\ view.panel.calm =>
    S!Calm /\ S!Shown[view.panel.copy.id] = view.panel.copy.form

UserModalOK(m) ==
  m.type \in {"edit", "delete"} =>
    /\ m.user \in Accounts /\ m.role \in U!Roles /\ m.edited \in BOOLEAN
    /\ ~m.edited => RoleHolds(m.user, m.role)

UsersViewOK ==
  /\ view = [modal |-> view.modal, locked |-> view.locked, edited |-> view.edited]
  /\ view.locked \subseteq Accounts \ {Root} /\ view.edited \in BOOLEAN
  /\ UserModalOK(view.modal)

ViewOK ==
  /\ route = "raid" => RaidViewOK
  /\ route = "shares" => SharesViewOK
  /\ route = "users" => UsersViewOK

IInv == Counters /\ TablesOK /\ ListsOK /\ SentOK /\ ViewOK /\ PanelAgrees

-----------------------------------------------------------------------------
(* The beginning, and the mounting of a view                               *)

\* No answer is the null that stands for none.
LEMMA AnswersAreNotNone == \A n \in ListNames : None \notin Answers(n)
BY ConsoleAssumption DEF ListNames, R!raidLists

\* The lists of every page are among the four.
LEMMA ListsAreNamed == \A v \in Routes : ListsOf(v) \subseteq ListNames
BY DEF Routes, ListsOf, ListNames, R!raidLists

\* A list that has just been asked for, on a page that has just been mounted.
LEMMA FreshList ==
  ASSUME NEW A, NEW B, NEW t
  PROVE  /\ Ask(Unloaded) \in ListsOver(A, B)
         /\ Arrives(Ask(Unloaded), t)
         /\ Ask(Unloaded).unread + Len(Ask(Unloaded).read) <= MaxLoads
         /\ Ask(Unloaded).shown = None
<1>1. Unloaded.unread + 1 = 1
  BY DEF Unloaded
<1>2. Ask(Unloaded) = [Unloaded EXCEPT !.unread = 1]
  BY <1>1 DEF Ask
<1>3. Ask(Unloaded) = [unread |-> 1, read |-> <<>>, shown |-> None, spoilt |-> FALSE]
  BY <1>2 DEF Unloaded
<1>4. <<>> \in Seq(A) /\ Len(<<>>) = 0
  BY EmptySeq
<1>5. 1 <= MaxLoads
  BY BoundsAssumption
<1>6. QED
  BY <1>3, <1>4, <1>5 DEF ListsOver, Arrives

\* A view begins without a modal, and nothing in it claims anything.
LEMMA FreshView ==
  ASSUME route \in Routes, rev \in Nat, view = FreshOf(route)
  PROVE  ViewOK /\ PanelAgrees
<1>1. CASE route = "raid"
  <2>1. view = [failed |-> [a \in Arrays |-> {}], added |-> [a \in Arrays |-> {}], busy |-> {},
                modal |-> [type |-> "none"], silent |-> FALSE, news |-> 0]
    BY <1>1 DEF FreshOf, R!RaidFresh, R!NoModal
  <2>2. RaidModalOK(view.modal)
    BY <2>1 DEF RaidModalOK
  <2>3. RaidViewOK
    BY <2>1, <2>2 DEF RaidViewOK
  <2>4. QED
    BY <1>1, <2>3 DEF ViewOK, PanelAgrees
<1>2. CASE route = "shares"
  BY <1>2 DEF FreshOf, S!SharesFresh, ViewOK, SharesViewOK, PanelAgrees
<1>3. CASE route = "users"
  BY <1>3 DEF FreshOf, U!UsersFresh, ViewOK, UsersViewOK, UserModalOK, PanelAgrees
<1>4. CASE route = "other"
  BY <1>4 DEF ViewOK, PanelAgrees
<1>5. QED
  BY <1>1, <1>2, <1>3, <1>4 DEF Routes

\* The console begins with the invariant.
LEMMA InitInv == Init => IInv
<1> SUFFICES ASSUME Init PROVE IInv
  OBVIOUS
<1>1. PICK v \in Routes \ {"other"} : AppInit(v, ListsOf(v), FreshOf(v))
  BY DEF Init
<1>2. /\ route \in Routes /\ rev = 0 /\ told = 0 /\ visits = 0 /\ changes = 0
      /\ view = FreshOf(route) /\ sent = Idle
      /\ lists = [n \in ListsOf(route) |-> Ask(Unloaded)]
  BY <1>1 DEF AppInit
<1>3. Counters
  BY <1>2, BoundsAssumption DEF Counters, Idle
<1>4. TablesOK
  BY <1>2 DEF Init, TablesOK
<1>5. ListsOK
  <2>1. ASSUME NEW n \in ListsOf(route) PROVE ListOK(n)
    <3>1. lists[n] = Ask(Unloaded)
      BY <1>2
    <3>2. QED
      BY <3>1, FreshList DEF ListOK
  <2>2. QED
    BY <1>2, <2>1 DEF ListsOK
<1>6. SentOK
  BY <1>2 DEF SentOK
<1>7. ViewOK /\ PanelAgrees
  BY <1>2, FreshView
<1>8. QED
  BY <1>3, <1>4, <1>5, <1>6, <1>7 DEF IInv

-----------------------------------------------------------------------------
(* What stays so when the tables move                                      *)

\* The form that was read of a share is worth as much after a change: either the
\* row is the same, or it is newer than the form.
LEMMA FormHoldsOn ==
  ASSUME TablesOK, rev \in Nat, KeepTables \/ MoveTables,
         NEW id \in S!Ids, NEW form, NEW at \in 0..rev, FormHolds(id, form, at)
  PROVE  FormHolds(id, form, at)'
<1>1. CASE shares' = shares
  BY <1>1 DEF FormHolds, S!MapShareFromAPI, S!FormOf, S!Perm
<1>2. CASE MoveTables /\ shares'[id] = shares[id]
  BY <1>2 DEF FormHolds, S!MapShareFromAPI, S!FormOf, S!Perm
<1>3. CASE MoveTables /\ shares'[id].at = rev + 1
  BY <1>3 DEF FormHolds
<1>4. QED
  BY <1>1, <1>2, <1>3 DEF KeepTables, MoveTables, tables

\* The role that was read of an account is worth as much after a change.
LEMMA RoleHoldsOn ==
  ASSUME KeepTables \/ MoveTables, NEW u \in Accounts, NEW role, RoleHolds(u, role)
  PROVE  RoleHolds(u, role)'
<1>1. CASE KeepTables
  BY <1>1 DEF KeepTables, tables, RoleHolds, U!Roles
<1>2. CASE MoveTables
  BY <1>2 DEF MoveTables, RoleHolds, U!Roles
<1>3. QED
  BY <1>1, <1>2

\* So is the copy that a modal or a panel keeps.
LEMMA CopyOKOn ==
  ASSUME TablesOK, rev \in Nat, KeepTables \/ MoveTables, NEW c, CopyOK(c)
  PROVE  CopyOK(c)'
<1>1. FormHolds(c.id, c.form, c.basis)'
  BY FormHoldsOn DEF CopyOK
<1>2. rev' = rev \/ rev' = rev + 1
  BY DEF KeepTables, MoveTables
<1>3. QED
  BY <1>1, <1>2 DEF CopyOK, S!Ids, S!Forms, S!SmbForms, S!NfsForms

\* So are the facts that a request was made from.
LEMMA BackedOn ==
  ASSUME TablesOK, rev \in Nat, KeepTables \/ MoveTables, NEW kind, NEW what,
         WellFormed(kind, what) \/ kind # "updateShare", Backed(kind, what)
  PROVE  Backed(kind, what)'
<1>1. CASE KeepTables
  <2>1. rev' = rev /\ volume' = volume /\ shares' = shares /\ accounts' = accounts
    BY <1>1 DEF KeepTables, tables
  <2>2. Named(kind, what)' <=> Named(kind, what)
    BY <2>1 DEF Named
  <2>3. OneChange(what.id, what.form, what.on, what.part)' <=>
          OneChange(what.id, what.form, what.on, what.part)
    BY <2>1 DEF OneChange
  <2>4. NotTheLast(what.user)' <=> NotTheLast(what.user)
    BY <2>1 DEF NotTheLast, U!Admins
  <2>5. QED
    BY <2>1, <2>2, <2>3, <2>4 DEF Backed, Bases
<1>2. CASE MoveTables
  <2>1. rev' = rev + 1 /\ \A id \in S!Ids : shares'[id] = shares[id] \/ shares'[id].at = rev + 1
    BY <1>2 DEF MoveTables
  <2>2. ASSUME kind \in Destroying
        PROVE  what.basis \in Bases' /\ (what.basis = rev' => Named(kind, what)')
    BY <2>1, <2>2, BoundsAssumption DEF Backed, Bases
  <2>3. ASSUME kind = "updateShare"
        PROVE  /\ what.basis \in 0..rev'
               /\ shares'[what.id].is /\ shares'[what.id].at <= what.basis =>
                    OneChange(what.id, what.form, what.on, what.part)'
               /\ what.says # None /\ what.says.calm => what.on = what.says.on
    <3>1. what.id \in S!Ids
      BY <2>3 DEF WellFormed
    <3>2. what.basis \in 0..rev
      BY <2>3 DEF Backed
    <3>3. CASE shares'[what.id] = shares[what.id]
      <4>1. OneChange(what.id, what.form, what.on, what.part)' <=>
              OneChange(what.id, what.form, what.on, what.part)
        BY <3>3 DEF OneChange
      <4>2. QED
        BY <2>1, <2>3, <3>2, <3>3, <4>1 DEF Backed
    <3>4. CASE shares'[what.id].at = rev + 1
      BY <2>1, <2>3, <3>2, <3>4 DEF Backed
    <3>5. QED
      BY <2>1, <3>1, <3>3, <3>4
  <2>4. ASSUME kind = "deleteUser"
        PROVE  what.basis \in Bases' /\ (~what.edited /\ what.basis = rev' => NotTheLast(what.user)')
    BY <2>1, <2>4, BoundsAssumption DEF Backed, Bases
  <2>5. QED
    BY <2>2, <2>3, <2>4 DEF Backed
<1>3. QED
  BY <1>1, <1>2

\* So is an answer that is on its way, or shown.
LEMMA ValidOn ==
  ASSUME TablesOK, rev \in Nat, KeepTables \/ MoveTables, NEW n \in ListNames
  PROVE  Valid(n) \subseteq Valid(n)' /\ Plausible(n) \subseteq Plausible(n)'
<1>1. CASE KeepTables
  <2>1. rev' = rev /\ volume' = volume /\ shares' = shares /\ accounts' = accounts
    BY <1>1 DEF KeepTables, tables
  <2>2. Truth(n)' = Truth(n)
    BY <2>1 DEF Truth, R!ArrayRows, R!FsRows, ShareRows
  <2>3. ASSUME NEW a \in Valid(n) PROVE a \in Valid(n)'
    <3>1. /\ a \in Answers(n) /\ a.rev <= rev /\ (a.rev = rev /\ a.whole => a.rows = Truth(n))
          /\ a.rev \in Nat /\ (n \in R!raidLists \/ a.whole)
      BY DEF Valid, Answers
    <3>2. ASSUME n = "shares", NEW id \in S!Ids
          PROVE  FormHolds(id, a.rows[id], a.rev)' /\ a.rows[id] \in S!Forms(id) \cup {None}
      BY <3>1, <3>2, FormHoldsOn DEF Valid
    <3>3. ASSUME n = "users", NEW u \in Accounts PROVE RoleHolds(u, a.rows[u])'
      BY <3>3, RoleHoldsOn DEF Valid
    <3>4. QED
      BY <2>1, <2>2, <3>1, <3>2, <3>3 DEF Valid
  <2>4. QED
    BY <2>1, <2>3 DEF Plausible
<1>2. CASE MoveTables
  <2>1. rev' = rev + 1
    BY <1>2 DEF MoveTables
  <2>2. ASSUME NEW a \in Valid(n) PROVE a \in Valid(n)'
    <3>1. /\ a \in Answers(n) /\ a.rev <= rev /\ a.rev <= rev' /\ a.rev # rev'
          /\ a.rev \in Nat /\ (n \in R!raidLists \/ a.whole)
      BY <2>1 DEF Valid, Answers
    <3>2. ASSUME n = "shares", NEW id \in S!Ids
          PROVE  FormHolds(id, a.rows[id], a.rev)' /\ a.rows[id] \in S!Forms(id) \cup {None}
      BY <3>1, <3>2, FormHoldsOn DEF Valid
    <3>3. ASSUME n = "users", NEW u \in Accounts PROVE RoleHolds(u, a.rows[u])'
      BY <3>3, RoleHoldsOn DEF Valid
    <3>4. QED
      BY <3>1, <3>2, <3>3 DEF Valid
  <2>3. ASSUME NEW a \in Plausible(n) PROVE a \in Plausible(n)'
    BY <2>1 DEF Plausible, Answers
  <2>4. QED
    BY <2>2, <2>3
<1>3. QED
  BY <1>1, <1>2

-----------------------------------------------------------------------------
(* What the server answers                                                 *)

\* A row is taken for a form of its share, in the state that the row has.
LEMMA RowIsForm ==
  ASSUME NEW id, NEW row, S!IsRow(id, row)
  PROVE  /\ S!MapShareFromAPI(id, row) \in S!Forms(id)
         /\ S!MapShareFromAPI(id, row).on = row.on
<1>1. row.on \in BOOLEAN /\ row.config \in S!Forms(id) \cup {None}
  BY DEF S!IsRow
<1>2. CASE row.config # None
  <2>1. S!MapShareFromAPI(id, row) = [row.config EXCEPT !.on = row.on]
    BY <1>2 DEF S!MapShareFromAPI
  <2>2. CASE id \in Smb
    BY <1>1, <1>2, <2>1, <2>2 DEF S!Forms, S!SmbForms
  <2>3. CASE id \notin Smb
    BY <1>1, <1>2, <2>1, <2>3 DEF S!Forms, S!NfsForms
  <2>4. QED
    BY <2>2, <2>3
<1>3. CASE row.config = None
  <2>1. S!MapShareFromAPI(id, row) = S!FormOf(id, row)
    BY <1>3 DEF S!MapShareFromAPI
  <2>2. CASE id \in Smb
    BY <1>1, <2>1, <2>2 DEF S!FormOf, S!Forms, S!SmbForms, S!Perm, S!Perms, S!Access
  <2>3. CASE id \notin Smb
    <3>1. row.who \subseteq Clients
      BY <2>3 DEF S!IsRow
    <3> DEFINE hosts == IF row.who = {} THEN {All} ELSE row.who
               rules == {[client |-> c, perm |-> S!Perm(row.ro)] : c \in hosts}
    <3>2. hosts \subseteq Clients /\ hosts # {}
      BY <3>1, ConsoleAssumption
    <3>3. rules \in (SUBSET S!Rules) \ {{}}
      <4>1. S!Perm(row.ro) \in S!Perms
        BY DEF S!Perm, S!Perms
      <4>2. \A c \in hosts : [client |-> c, perm |-> S!Perm(row.ro)] \in S!Rules
        BY <3>2, <4>1 DEF S!Rules
      <4> HIDE DEF hosts
      <4>3. PICK c : c \in hosts
        BY <3>2
      <4>4. [client |-> c, perm |-> S!Perm(row.ro)] \in rules
        BY <4>3
      <4>5. rules \subseteq S!Rules
        BY <4>2
      <4> HIDE DEF rules
      <4>6. QED
        BY <4>4, <4>5
    <3>4. S!FormOf(id, row) = [on |-> row.on, rules |-> rules]
      BY <2>3 DEF S!FormOf
    <3> HIDE DEF rules
    <3>5. QED
      BY <1>1, <2>1, <2>3, <3>3, <3>4 DEF S!Forms, S!NfsForms
  <2>4. QED
    BY <2>2, <2>3
<1>4. QED
  BY <1>2, <1>3

\* What the server answers now is true now, if it leaves nothing out.
LEMMA TruthIsValid ==
  ASSUME TablesOK, rev \in Nat, NEW n \in ListNames
  PROVE  [rev |-> rev, rows |-> Truth(n), whole |-> TRUE] \in Valid(n)
<1>1. CASE n = "arrays"
  <2>1. Truth(n) \in RowsOf(n)
    BY <1>1 DEF Truth, RowsOf, TablesOK, R!ArrayRows, R!Volumes, R!NoArray, R!Levels
  <2>2. QED
    BY <1>1, <2>1 DEF Valid, Answers
<1>2. CASE n = "filesystems"
  <2>1. Truth(n) \in RowsOf(n)
    BY <1>2 DEF Truth, RowsOf, TablesOK, R!FsRows, R!Volumes, R!NoArray, R!FsStates
  <2>2. QED
    BY <1>2, <2>1 DEF Valid, Answers
<1>3. CASE n = "shares"
  <2>1. Truth(n) = ShareRows
    BY <1>3 DEF Truth
  <2>2. ASSUME NEW id \in S!Ids
        PROVE  /\ ShareRows[id] \in S!Forms(id) \cup {None}
               /\ FormHolds(id, ShareRows[id], rev)
    BY RowIsForm DEF TablesOK, ShareRows, FormHolds
  <2>3. ShareRows \in RowsOf(n)
    <3>1. \A id \in S!Ids : S!Forms(id) \subseteq S!SmbForms \cup S!NfsForms
      BY DEF S!Forms
    <3>2. \A id \in S!Ids : ShareRows[id] \in S!SmbForms \cup S!NfsForms \cup {None}
      BY <2>2, <3>1
    <3>3. ShareRows = [id \in S!Ids |-> ShareRows[id]]
      BY DEF ShareRows
    <3>4. ShareRows \in [S!Ids -> S!SmbForms \cup S!NfsForms \cup {None}]
      BY <3>2, <3>3
    <3>5. QED
      BY <1>3, <3>4 DEF RowsOf
  <2>4. QED
    BY <1>3, <2>1, <2>2, <2>3 DEF Valid, Answers
<1>4. CASE n = "users"
  BY <1>4 DEF Truth, RowsOf, TablesOK, Valid, Answers, RoleHolds
<1>5. QED
  BY <1>1, <1>2, <1>3, <1>4 DEF ListNames

\* An answer about the storage may leave something out, and then says so.
LEMMA LessIsValid ==
  ASSUME TablesOK, rev \in Nat
  PROVE  /\ \A rows \in R!ArrayAnswers :
              [rev |-> rev, rows |-> rows, whole |-> (rows = R!ArrayRows)] \in Valid("arrays")
         /\ \A rows \in R!FsAnswers :
              [rev |-> rev, rows |-> rows, whole |-> (rows = R!FsRows)] \in Valid("filesystems")
<1>1. R!ArrayRows = Truth("arrays") /\ R!FsRows = Truth("filesystems")
  BY DEF Truth
<1>2. R!ArrayRows \in RowsOf("arrays")
  BY DEF RowsOf, TablesOK, R!ArrayRows, R!Volumes, R!NoArray, R!Levels
<1>3. ASSUME NEW rows \in R!ArrayAnswers
      PROVE  [rev |-> rev, rows |-> rows, whole |-> (rows = R!ArrayRows)] \in Valid("arrays")
  <2>1. /\ rows = [a \in Arrays |-> rows[a]]
        /\ \A a \in Arrays : rows[a] = R!NoRow \/ rows[a] = R!ArrayRows[a]
    BY DEF R!ArrayAnswers
  <2>2. R!NoRow \in [disks: SUBSET R!Pieces, level: R!Levels \cup {None}]
    BY DEF R!NoRow
  <2>3. \A a \in Arrays : rows[a] \in [disks: SUBSET R!Pieces, level: R!Levels \cup {None}]
    BY <1>2, <2>1, <2>2 DEF RowsOf
  <2>4. rows \in RowsOf("arrays")
    BY <2>1, <2>3 DEF RowsOf
  <2>5. PICK w \in BOOLEAN : w = (rows = R!ArrayRows)
    BY Zenon
  <2>6. PICK a : a = [rev |-> rev, rows |-> rows, whole |-> w]
    OBVIOUS
  <2>7. a \in Answers("arrays") /\ a.rev = rev /\ a.rows = rows /\ a.whole = w
    BY <2>4, <2>6 DEF Answers
  <2>8. a.whole => a.rows = Truth("arrays")
    BY <1>1, <2>5, <2>7
  <2>9. a \in Valid("arrays")
    BY <2>7, <2>8 DEF Valid, R!raidLists
  <2>10. QED
    BY <2>5, <2>6, <2>9, Zenon
<1>4. ASSUME NEW rows \in R!FsAnswers
      PROVE  [rev |-> rev, rows |-> rows, whole |-> (rows = R!FsRows)] \in Valid("filesystems")
  <2>1. rows \in RowsOf("filesystems")
    BY DEF R!FsAnswers, RowsOf
  <2>2. PICK w \in BOOLEAN : w = (rows = R!FsRows)
    BY Zenon
  <2>3. PICK a : a = [rev |-> rev, rows |-> rows, whole |-> w]
    OBVIOUS
  <2>4. a \in Answers("filesystems") /\ a.rev = rev /\ a.rows = rows /\ a.whole = w
    BY <2>1, <2>3 DEF Answers
  <2>5. a.whole => a.rows = Truth("filesystems")
    BY <1>1, <2>2, <2>4
  <2>6. a \in Valid("filesystems")
    BY <2>4, <2>5 DEF Valid, R!raidLists
  <2>7. QED
    BY <2>2, <2>3, <2>6, Zenon
<1>5. QED
  BY <1>3, <1>4

-----------------------------------------------------------------------------
(* What the steps make of the lists                                        *)

\* An alteration of the copy is forgotten only when a new list is shown, and a
\* filesystem that was created only when the page loads.
StaysEdited ==
  /\ route = "users" /\ ~view'.edited => ~view.edited
  /\ route = "raid" /\ ~view'.silent => ~view.silent

\* A list that a step does not touch.
LEMMA ListStays ==
  ASSUME IInv, KeepTables \/ MoveTables, NEW n \in ListsOf(route),
         lists'[n] = lists[n], told' = told \/ Silent', route' = route, StaysEdited
  PROVE  ListOK(n)'
<1>1. ListOK(n) /\ n \in ListNames /\ TablesOK /\ rev \in Nat
  BY ListsAreNamed DEF IInv, ListsOK, Counters
<1>2. Valid(n) \subseteq Valid(n)' /\ Plausible(n) \subseteq Plausible(n)'
  BY <1>1, ValidOn
<1>3. lists[n] \in ListsOver(Valid(n)', Plausible(n)')
  BY <1>1, <1>2, ListMonotonic DEF ListOK
<1>4. Unaltered(n)' => Unaltered(n)
  BY <1>1 DEF Unaltered, StaysEdited, ListsOf, ListNames, R!raidLists, IInv, Counters, Routes
<1>5. Silent => Silent'
  BY DEF Silent, StaysEdited
<1>6. Silent' \/ Arrives(lists[n], told)'
  <2>1. CASE Silent
    BY <1>5, <2>1
  <2>2. CASE ~Silent /\ told' = told
    BY <1>1, <2>2 DEF ListOK, Arrives
  <2>3. QED
    BY <2>1, <2>2
<1>7. QED
  BY <1>1, <1>2, <1>3, <1>4, <1>6 DEF ListOK

\* A step that touches no list.
LEMMA ListsSame ==
  ASSUME IInv, KeepTables \/ MoveTables, lists' = lists, told' = told \/ Silent', route' = route,
         StaysEdited
  PROVE  ListsOK'
<1>1. ASSUME NEW n \in ListsOf(route) PROVE ListOK(n)'
  BY <1>1, ListStays
<1>2. QED
  BY <1>1 DEF IInv, ListsOK

\* The lists after a step that changes one of them.
LEMMA ListsBut ==
  ASSUME IInv, KeepTables, NEW n \in ListsOf(route), NEW m, lists' = [lists EXCEPT ![n] = m],
         told' = told, route' = route, StaysEdited, ListOK(n)'
  PROVE  ListsOK'
<1>1. lists = [k \in ListsOf(route) |-> lists[k]]
  BY DEF IInv, ListsOK
<1>2. DOMAIN lists = ListsOf(route)
  BY <1>1
<1>3. /\ lists' = [k \in ListsOf(route) |-> lists'[k]]
      /\ \A k \in ListsOf(route) : k # n => lists'[k] = lists[k]
  BY <1>1, <1>2
<1>4. ASSUME NEW k \in ListsOf(route) PROVE ListOK(k)'
  BY <1>3, ListStays
<1>5. QED
  BY <1>3, <1>4 DEF ListsOK

\* A step that loads: load(), and what the thens of the requests do.
LEMMA ListsLoad ==
  ASSUME IInv, KeepTables, Load, told' = rev, route' = route, route = "raid" \/ StaysEdited
  PROVE  ListsOK'
<1>1. /\ lists = [n \in ListsOf(route) |-> lists[n]]
      /\ lists' = [n \in DOMAIN lists |-> Ask(lists[n])]
      /\ \A n \in DOMAIN lists : CanAsk(lists[n])
  BY DEF IInv, ListsOK, Load, CanLoad, Loaded
<1>2. DOMAIN lists = ListsOf(route)
  BY <1>1
<1>3. ASSUME NEW n \in ListsOf(route) PROVE ListOK(n)'
  <2>1. ListOK(n) /\ n \in ListNames /\ TablesOK /\ rev \in Nat
    BY ListsAreNamed DEF IInv, ListsOK, Counters
  <2>2. Valid(n) \subseteq Valid(n)' /\ Plausible(n) \subseteq Plausible(n)'
    BY <2>1, ValidOn
  <2>3. lists'[n] = Ask(lists[n])
    BY <1>1, <1>2
  <2>4. lists[n] \in ListsOver(Valid(n)', Plausible(n)')
    BY <2>1, <2>2, ListMonotonic DEF ListOK
  <2>5. /\ Ask(lists[n]) \in ListsOver(Valid(n)', Plausible(n)')
        /\ Arrives(Ask(lists[n]), rev)
        /\ Ask(lists[n]).shown = lists[n].shown /\ Ask(lists[n]).spoilt = lists[n].spoilt
        /\ Ask(lists[n]).read = lists[n].read /\ Ask(lists[n]).unread = lists[n].unread + 1
    BY <2>4, AskKeeps
  <2>6. lists[n].unread + 1 + Len(lists[n].read) <= MaxLoads
    <3>1. lists[n].unread \in Nat /\ Len(lists[n].read) \in Nat
      BY <2>1, LenProperties DEF ListOK, ListsOver
    <3>2. lists[n].unread + Len(lists[n].read) < MaxLoads
      BY <1>1, <1>2 DEF CanAsk
    <3>3. QED
      BY <3>1, <3>2, BoundsAssumption
  <2>7. Unaltered(n)' => Unaltered(n)
    BY <2>1, <2>3, <2>5 DEF Unaltered, StaysEdited, ListsOf, ListNames, R!raidLists, IInv, Counters,
                            Routes
  <2>8. QED
    BY <2>1, <2>2, <2>3, <2>5, <2>6, <2>7 DEF ListOK
<1>4. QED
  BY <1>1, <1>2, <1>3 DEF ListsOK

\* The server reads its tables for a GET.
LEMMA ListsServe ==
  ASSUME IInv, KeepTables, NEW n \in ListsOf(route), NEW rows, NEW whole,
         [rev |-> rev, rows |-> rows, whole |-> whole] \in Valid(n), ServeList(n, rows, whole),
         told' = told, route' = route, StaysEdited
  PROVE  ListsOK'
<1>1. PICK a : a = [rev |-> rev, rows |-> rows, whole |-> whole]
  OBVIOUS
<1>2. PICK l : l = lists[n]
  OBVIOUS
<1>3. PICK m : m = [l EXCEPT !.unread = @ - 1, !.read = Append(@, a)]
  OBVIOUS
<1>4. /\ ListOK(n) /\ n \in ListNames /\ TablesOK /\ rev \in Nat /\ told \in Nat /\ told <= rev
      /\ DOMAIN lists = ListsOf(route)
  BY ListsAreNamed DEF IInv, ListsOK, Counters
<1>5. a \in Valid(n) /\ a.rev = rev
  BY <1>1
<1>6. Valid(n) \subseteq Valid(n)' /\ Plausible(n) \subseteq Plausible(n)'
  BY <1>4, ValidOn
<1>7. l \in ListsOver(Valid(n)', Plausible(n)')
  BY <1>2, <1>4, <1>6, ListMonotonic DEF ListOK
<1>8. l.unread > 0 /\ lists' = [lists EXCEPT ![n].unread = @ - 1, ![n].read = Append(@, a)]
  BY <1>1, <1>2 DEF ServeList
<1>9. a \in Valid(n)' /\ a.rev >= told
  BY <1>4, <1>5, <1>6
<1>10. lists' = [lists EXCEPT ![n] = m] /\ lists'[n] = m
  BY <1>2, <1>3, <1>4, <1>8
<1>11. /\ m \in ListsOver(Valid(n)', Plausible(n)') /\ Arrives(m, told)
      /\ m.shown = l.shown /\ m.spoilt = l.spoilt
      /\ m.unread + Len(m.read) = l.unread + Len(l.read)
  <2>1. /\ IsList(m) /\ m.unread = l.unread - 1 /\ m.read = Append(l.read, a)
        /\ m.shown = l.shown /\ m.spoilt = l.spoilt
    BY <1>3, <1>7 DEF ListsOver, IsList
  <2>2. QED
    BY <1>7, <1>8, <1>9, <2>1, ServeKeeps
<1>12. Unaltered(n)' => Unaltered(n)
  BY <1>2, <1>4, <1>10, <1>11 DEF Unaltered, StaysEdited, ListsOf, ListNames, R!raidLists, IInv,
                                  Counters, Routes
<1>13. ListOK(n)'
  BY <1>2, <1>4, <1>6, <1>10, <1>11, <1>12 DEF ListOK
<1>14. QED
  BY <1>10, <1>13, ListsBut

\* An answer arrives, in any order.
LEMMA ListsShow ==
  ASSUME IInv, KeepTables, NEW n \in ListsOf(route), ShowAnswer(n),
         told' = told, route' = route, n = "users" \/ StaysEdited
  PROVE  ListsOK'
<1>1. /\ ListOK(n) /\ n \in ListNames /\ TablesOK /\ rev \in Nat /\ told \in Nat
      /\ DOMAIN lists = ListsOf(route) /\ lists = [k \in ListsOf(route) |-> lists[k]]
  BY ListsAreNamed DEF IInv, ListsOK, Counters
<1>2. PICK i \in DOMAIN lists[n].read :
        lists' = [lists EXCEPT ![n].read = RemoveAt(@, i),
                               ![n].shown = lists[n].read[i],
                               ![n].spoilt = @ \/ (lists[n].shown # None
                                                   /\ lists[n].shown.rev > lists[n].read[i].rev)]
  BY DEF ShowAnswer
<1>3. PICK l : l = lists[n]
  OBVIOUS
<1>4. PICK m : m = [l EXCEPT !.read = RemoveAt(@, i), !.shown = l.read[i],
                             !.spoilt = @ \/ (l.shown # None /\ l.shown.rev > l.read[i].rev)]
  OBVIOUS
<1>5. /\ Valid(n) \subseteq Valid(n)' /\ Plausible(n) \subseteq Plausible(n)'
      /\ Valid(n) \subseteq Plausible(n)
  BY <1>1, ValidOn DEF Valid, Plausible
<1>6. l \in ListsOver(Valid(n), Plausible(n)) /\ (Silent \/ Arrives(l, told))
  BY <1>1, <1>3 DEF ListOK
<1>7. lists' = [lists EXCEPT ![n] = m] /\ lists'[n] = m
  BY <1>1, <1>2, <1>3, <1>4
<1>8. (\A a \in Plausible(n) : a.rev \in Nat) /\ None \notin Valid(n)
  BY <1>1, AnswersAreNotNone DEF Valid, Plausible, Answers
<1>9. /\ m \in ListsOver(Valid(n), Plausible(n)) /\ (Arrives(l, told) => Arrives(m, told))
      /\ m.shown \in Valid(n)
      /\ m.unread = l.unread /\ Len(m.read) = Len(l.read) - 1
  <2>1. i \in DOMAIN l.read
    BY <1>3
  <2>2. /\ IsList(m) /\ m.unread = l.unread /\ m.read = RemoveAt(l.read, i)
        /\ m.shown = l.read[i]
        /\ m.spoilt = (l.spoilt \/ (l.shown # None /\ l.shown.rev > l.read[i].rev))
    BY <1>4, <1>6 DEF ListsOver, IsList
  <2>3. QED
    BY <1>1, <1>5, <1>6, <1>8, <2>1, <2>2, ShowKeeps
<1>10. l.unread \in Nat /\ Len(l.read) \in Nat /\ l.unread + Len(l.read) <= MaxLoads
  BY <1>1, <1>3, LenProperties DEF ListOK, ListsOver
<1>11. m \in ListsOver(Valid(n)', Plausible(n)')
  BY <1>5, <1>9, ListMonotonic
<1>12. m.unread + Len(m.read) <= MaxLoads
  BY <1>9, <1>10, BoundsAssumption
<1>13. ListOK(n)'
  <2>1. Silent => Silent'
    BY <1>1 DEF Silent, StaysEdited, ListsOf, R!raidLists, IInv, Counters, Routes
  <2>2. Silent' \/ Arrives(m, told')
    BY <1>6, <1>9, <2>1
  <2>3. QED
    BY <1>5, <1>7, <1>9, <1>11, <1>12, <2>2 DEF ListOK
<1>14. CASE n = "users"
  <2>1. ListsOf(route) = {"users"} /\ lists' = [k \in ListsOf(route) |-> lists'[k]]
    BY <1>1, <1>7, <1>14 DEF ListsOf, R!raidLists, IInv, Counters, Routes
  <2>2. QED
    BY <1>13, <1>14, <2>1 DEF ListsOK
<1>15. CASE StaysEdited
  BY <1>7, <1>13, <1>15, ListsBut
<1>16. QED
  BY <1>14, <1>15

\* A GET fails.
LEMMA ListsFail ==
  ASSUME IInv, KeepTables, NEW n \in ListsOf(route), NEW instead \in Plausible(n) \cup {None},
         FailList(n, instead), instead = lists[n].shown \/ n = "filesystems",
         told' = told, route' = route, StaysEdited
  PROVE  ListsOK'
<1>1. PICK l : l = lists[n]
  OBVIOUS
<1>2. PICK m : m = [l EXCEPT !.unread = @ - 1, !.shown = instead, !.spoilt = TRUE]
  OBVIOUS
<1>3. /\ ListOK(n) /\ n \in ListNames /\ TablesOK /\ rev \in Nat
      /\ DOMAIN lists = ListsOf(route)
  BY ListsAreNamed DEF IInv, ListsOK, Counters
<1>4. Valid(n) \subseteq Valid(n)' /\ Plausible(n) \subseteq Plausible(n)'
  BY <1>3, ValidOn
<1>5. l \in ListsOver(Valid(n)', Plausible(n)') /\ instead \in Plausible(n)' \cup {None}
  BY <1>1, <1>3, <1>4, ListMonotonic DEF ListOK
<1>6. l.unread > 0 /\ lists' = [lists EXCEPT ![n] = m] /\ lists'[n] = m
  BY <1>1, <1>2, <1>3 DEF FailList
<1>7. /\ IsList(m) /\ m.unread = l.unread - 1 /\ m.read = l.read /\ m.shown = instead
       /\ m.spoilt \in BOOLEAN /\ m.spoilt
  BY <1>2, <1>5 DEF ListsOver, IsList
<1>8. m.shown \in Plausible(n)' \cup {None}
  BY <1>5, <1>7
<1>9. m \in ListsOver(Valid(n)', Plausible(n)') /\ Arrives(m, told)
  BY <1>5, <1>6, <1>7, <1>8, FailKeeps
<1>10. /\ m \in ListsOver(Valid(n)', Plausible(n)') /\ Arrives(m, told)
      /\ m.shown = instead /\ m.spoilt /\ m.read = l.read /\ m.unread = l.unread - 1
  BY <1>7, <1>9
<1>11. l.unread \in Nat /\ Len(l.read) \in Nat /\ l.unread + Len(l.read) <= MaxLoads
  BY <1>1, <1>3, LenProperties DEF ListOK, ListsOver
<1>12. m.unread + Len(m.read) <= MaxLoads
  BY <1>10, <1>11, BoundsAssumption
<1>13. Unaltered(n)' => instead = lists[n].shown /\ Unaltered(n)
  BY <1>1, <1>3, <1>6, <1>10 DEF Unaltered, StaysEdited, ListsOf, ListNames, R!raidLists, IInv,
                                 Counters, Routes
<1>14. ListOK(n)'
  BY <1>1, <1>3, <1>4, <1>6, <1>10, <1>12, <1>13 DEF ListOK
<1>15. QED
  BY <1>6, <1>14, ListsBut

\* A role is changed in the copy.
LEMMA ListsEdit ==
  ASSUME IInv, KeepTables, route = "users", NEW u \in Accounts, NEW role \in U!Roles,
         U!DoEdit(u, role), told' = told, route' = route
  PROVE  ListsOK'
<1>1. /\ UsersViewOK /\ ListsOf(route) = {"users"} /\ "users" \in ListNames
      /\ TablesOK /\ rev \in Nat /\ ListOK("users")
      /\ lists = [n \in {"users"} |-> lists[n]]
  BY DEF IInv, ViewOK, ListsOf, ListNames, Counters, ListsOK
<1>2. /\ view' = [view EXCEPT !.modal = [type |-> "none"],
                              !.edited = @ \/ (u \in U!ShownUsers /\ role # U!Shown[u])]
      /\ lists' = IF lists["users"].shown = None \/ u \notin U!ShownUsers THEN lists
                  ELSE [lists EXCEPT !["users"].shown.rows[u] = role]
  BY DEF U!DoEdit
<1>3. view'.edited = (view.edited \/ (u \in U!ShownUsers /\ role # U!Shown[u]))
  BY <1>1, <1>2 DEF UsersViewOK
<1>4. StaysEdited
  BY <1>3 DEF StaysEdited
<1>5. CASE lists["users"].shown = None \/ u \notin U!ShownUsers
  BY <1>2, <1>4, <1>5, ListsSame
<1>6. CASE lists["users"].shown # None /\ u \in U!ShownUsers
  <2>1. PICK l : l = lists["users"]
    OBVIOUS
  <2>2. /\ l \in ListsOver(Valid("users"), Plausible("users"))
        /\ l.shown \in Plausible("users")
        /\ Arrives(l, told) /\ l.unread + Len(l.read) <= MaxLoads
    BY <1>1, <1>6, <2>1 DEF ListOK, ListsOver, Silent
  <2>3. PICK a : a = [l.shown EXCEPT !.rows[u] = role]
    OBVIOUS
  <2>4. /\ l.shown.rev \in Nat /\ l.shown.rev <= rev /\ l.shown.rows \in [Accounts -> U!States]
        /\ l.shown.whole \in BOOLEAN
        /\ l.shown = [rev |-> l.shown.rev, rows |-> l.shown.rows, whole |-> l.shown.whole]
    BY <2>2 DEF Plausible, Answers, RowsOf
  <2>5. a = [rev |-> l.shown.rev, rows |-> [l.shown.rows EXCEPT ![u] = role],
              whole |-> l.shown.whole]
    BY <2>3, <2>4
  <2>6. role \in U!States
    BY DEF U!States
  <2>7. a \in Plausible("users")
    BY <2>4, <2>5, <2>6 DEF Plausible, Answers, RowsOf
  <2>8. PICK m : m = [l EXCEPT !.shown = a]
    OBVIOUS
  <2>9. lists' = [lists EXCEPT !["users"] = m] /\ lists'["users"] = m
    BY <1>1, <1>2, <1>6, <2>1, <2>3, <2>8
  <2>10. /\ m.shown = a /\ m.unread = l.unread /\ m.read = l.read /\ m.spoilt = l.spoilt
         /\ m = [unread |-> l.unread, read |-> l.read, shown |-> a, spoilt |-> l.spoilt]
    BY <2>2, <2>8 DEF ListsOver
  <2>11. a # None
    BY <1>1, <2>7, AnswersAreNotNone DEF Plausible
  <2>12. m \in ListsOver(Valid("users"), Plausible("users"))
    BY <2>2, <2>7, <2>10 DEF ListsOver
  <2>13. Arrives(m, told)
    BY <2>2, <2>5, <2>10, <2>11 DEF Arrives
  <2>14. Valid("users") \subseteq Valid("users")' /\ Plausible("users") \subseteq Plausible("users")'
    BY <1>1, ValidOn
  <2>15. m \in ListsOver(Valid("users")', Plausible("users")')
    BY <2>12, <2>14, ListMonotonic
  <2>16. ASSUME Unaltered("users")' PROVE a \in Valid("users")'
    <3>1. ~view'.edited
      BY <2>16 DEF Unaltered, R!raidLists
    <3>2. ~view.edited /\ role = U!Shown[u]
      BY <1>3, <1>6, <3>1
    <3>3. role = l.shown.rows[u]
      BY <1>6, <2>1, <3>2 DEF U!Shown, U!Rows
    <3>4. [l.shown.rows EXCEPT ![u] = role] = l.shown.rows
      BY <2>4, <3>3
    <3>5. a = l.shown
      BY <2>4, <2>5, <3>4
    <3>6. Unaltered("users")
      BY <3>2 DEF Unaltered, R!raidLists
    <3>7. QED
      BY <1>1, <1>6, <2>1, <2>14, <3>5, <3>6 DEF ListOK
  <2>17. ListOK("users")'
    BY <2>2, <2>9, <2>10, <2>13, <2>15, <2>16 DEF ListOK
  <2>18. QED
    BY <1>1, <1>4, <2>9, <2>17, ListsBut
<1>7. QED
  BY <1>5, <1>6

-----------------------------------------------------------------------------
(* The storage page: the tables and the lists                              *)

\* The operators of the library are the same in the views.
LEMMA SameCardinality ==
  \A T : R!Cardinality(T) = Cardinality(T) /\ S!Cardinality(T) = Cardinality(T) /\ U!Cardinality(T) = Cardinality(T)
BY DEF R!Cardinality, S!Cardinality, U!Cardinality, Cardinality

Made == R!FsStates \ {"absent"}

\* Two disks or more, a level and a filesystem are an array.
LEMMA ArrayIsVolume ==
  ASSUME NEW T \in SUBSET R!Pieces, Cardinality(T) >= 2, NEW level \in R!Levels, NEW fs \in Made
  PROVE  [disks |-> T, level |-> level, fs |-> fs] \in R!Volumes
<1>1. R!Cardinality(T) >= 2
  BY SameCardinality
<1>2. T \in {X \in SUBSET R!Pieces : R!Cardinality(X) >= 2}
  BY <1>1
<1>3. QED
  BY <1>2 DEF R!Volumes, Made

\* And whatever has a disk or a filesystem is one.
LEMMA VolumeIsArray ==
  ASSUME NEW v \in R!Volumes, v.disks # {} \/ v.fs # "absent"
  PROVE  /\ v = [disks |-> v.disks, level |-> v.level, fs |-> v.fs]
         /\ v.disks \in SUBSET R!Pieces /\ Cardinality(v.disks) >= 2
         /\ v.level \in R!Levels /\ v.fs \in Made
<1>1. v # R!NoArray
  BY DEF R!NoArray
<1> DEFINE Pairs == {X \in SUBSET R!Pieces : R!Cardinality(X) >= 2}
<1>2. v \in [disks: Pairs, level: R!Levels, fs: Made]
  BY <1>1 DEF R!Volumes, Made
<1>3. v.disks \in Pairs
  <2> HIDE DEF Pairs
  <2>1. QED
    BY <1>2
<1>4. v.disks \in SUBSET R!Pieces /\ Cardinality(v.disks) >= 2
  BY <1>3, SameCardinality
<1> HIDE DEF Pairs
<1>5. QED
  BY <1>2, <1>4

\* What is done to the filesystem of an array that exists leaves arrays.
LEMMA WithIsVolume ==
  ASSUME volume \in [Arrays -> R!Volumes], NEW a \in Arrays, NEW fs \in Made,
         volume[a].disks # {} \/ volume[a].fs # "absent"
  PROVE  R!With(a, fs) \in [Arrays -> R!Volumes]
<1>1. PICK v : v = volume[a]
  OBVIOUS
<1>2. /\ v = [disks |-> v.disks, level |-> v.level, fs |-> v.fs]
      /\ v.disks \in SUBSET R!Pieces /\ Cardinality(v.disks) >= 2
      /\ v.level \in R!Levels
  BY <1>1, VolumeIsArray
<1>3. [v EXCEPT !.fs = fs] = [disks |-> v.disks, level |-> v.level, fs |-> fs]
  BY <1>2
<1>4. [v EXCEPT !.fs = fs] \in R!Volumes
  BY <1>2, <1>3, ArrayIsVolume
<1>5. R!With(a, fs) = [volume EXCEPT ![a] = [v EXCEPT !.fs = fs]]
  BY <1>1 DEF R!With
<1>6. QED
  BY <1>4, <1>5

\* A change of the arrays leaves the other tables alone.
LEMMA VolumesMove ==
  ASSUME IInv, UNCHANGED <<shares, accounts>>, rev' = rev + 1, volume' \in [Arrays -> R!Volumes]
  PROVE  MoveTables
<1>1. shares' = shares /\ accounts' = accounts /\ TablesOK /\ rev \in Nat
  BY DEF IInv, Counters
<1>2. \A id \in S!Ids : shares[id].at \in Nat /\ shares[id].at <= rev + 1
  BY <1>1 DEF TablesOK, S!IsRow
<1>3. TablesOK'
  <2>1. \A id \in S!Ids : S!IsRow(id, shares[id])'
    BY <1>1 DEF TablesOK
  <2>2. \A id \in S!Ids : shares'[id].at <= rev'
    BY <1>1, <1>2
  <2>3. QED
    BY <1>1, <2>1, <2>2 DEF TablesOK
<1>4. QED
  BY <1>1, <1>3 DEF MoveTables

\* What the handlers of raid.go do to the arrays.
LEMMA ServedVolumes ==
  ASSUME IInv, R!ServeRaid, UNCHANGED <<shares, accounts>>
  PROVE  KeepTables \/ MoveTables
<1>1. /\ volume \in [Arrays -> R!Volumes] /\ R!NoArray \in R!Volumes
      /\ sent.at = "server" => WellFormed(sent.kind, sent.what)
  BY DEF IInv, TablesOK, R!Volumes, SentOK, Idle
<1>2. CASE R!ServeCreate
  <2>1. CASE R!Fail
    BY <2>1 DEF R!Fail, R!Refused, KeepTables, tables
  <2>2. CASE /\ volume' = [volume EXCEPT ![sent.what.array] = [disks |-> sent.what.disks,
                                                               level |-> sent.what.level, fs |-> "none"]]
             /\ rev' = rev + 1
    <3>1. [disks |-> sent.what.disks, level |-> sent.what.level, fs |-> "none"] \in R!Volumes
      BY <1>1, <1>2, ArrayIsVolume DEF R!ServeCreate, R!AtServer, WellFormed, Made, R!FsStates, R!Pieces
    <3>2. QED
      BY <1>1, <2>2, <3>1, VolumesMove
  <2>3. QED
    BY <1>2, <2>1, <2>2 DEF R!ServeCreate, R!Done, R!Committed
<1>3. CASE R!ServeWipe
  <2>1. CASE R!Fail
    BY <2>1 DEF R!Fail, R!Refused, KeepTables, tables
  <2>2. ASSUME NEW K, volume' = R!Without(K), rev' = rev + 1 PROVE MoveTables
    BY <1>1, <2>2, VolumesMove DEF R!Without
  <2>3. QED
    BY <1>3, <2>1, <2>2 DEF R!ServeWipe, R!Done, R!Half, R!Committed
<1>4. CASE R!ServeDelete
  <2>1. sent.what.array \in Arrays
    BY <1>1, <1>4 DEF R!ServeDelete, R!AtServer, WellFormed
  <2>2. CASE R!Fail
    BY <2>2 DEF R!Fail, R!Refused, KeepTables, tables
  <2>3. CASE volume' = [volume EXCEPT ![sent.what.array] = R!NoArray] /\ rev' = rev + 1
    BY <1>1, <2>3, VolumesMove
  <2>4. CASE /\ volume[sent.what.array].fs = "mounted"
             /\ volume' = R!With(sent.what.array, "made") /\ rev' = rev + 1
    BY <1>1, <2>1, <2>4, WithIsVolume, VolumesMove DEF Made, R!FsStates
  <2>5. QED
    BY <1>4, <2>2, <2>3, <2>4 DEF R!ServeDelete, R!Done, R!Half, R!Committed
<1>5. CASE R!ServeMember
  BY <1>5 DEF R!ServeMember, R!Fail, R!Refused, KeepTables, tables
<1>6. CASE R!ServeFs
  <2>1. sent.what.array \in Arrays
    BY <1>1, <1>6 DEF R!ServeFs, R!AtServer, WellFormed
  <2>2. CASE R!Fail
    BY <2>2 DEF R!Fail, R!Refused, KeepTables, tables
  <2>3. CASE volume' = volume /\ rev' = rev + 1
    BY <1>1, <2>3, VolumesMove
  <2>4. ASSUME NEW fs \in {"none", "made", "mounted"},
               volume[sent.what.array].disks # {} \/ volume[sent.what.array].fs # "absent",
               volume' = R!With(sent.what.array, fs), rev' = rev + 1
        PROVE  MoveTables
    BY <1>1, <2>1, <2>4, WithIsVolume, VolumesMove DEF Made, R!FsStates
  <2>5. QED
    BY <1>6, <2>2, <2>3, <2>4 DEF R!ServeFs, R!Done, R!Half, R!Committed, R!Exists
<1>7. QED
  BY <1>2, <1>3, <1>4, <1>5, <1>6 DEF R!ServeRaid

\* What another administrator does to them.
LEMMA OtherVolumes ==
  ASSUME IInv, R!OtherStorage, UNCHANGED <<shares, accounts>>
  PROVE  MoveTables
<1>1. volume \in [Arrays -> R!Volumes] /\ R!NoArray \in R!Volumes /\ rev' = rev + 1
  BY DEF IInv, TablesOK, R!Volumes, R!OtherStorage, R!Other
<1>2. PICK a \in Arrays :
       \/ \E T \in SUBSET R!Pieces :
            /\ R!Cardinality(T) = 2
            /\ volume' = [volume EXCEPT ![a] = [disks |-> T, level |-> "fixed", fs |-> "none"]]
       \/ volume' = [volume EXCEPT ![a] = R!NoArray]
       \/ volume[a].fs = "none" /\ volume' = R!With(a, "mounted")
  BY DEF R!OtherStorage, R!Pieces
<1>3. ASSUME NEW T \in SUBSET R!Pieces, R!Cardinality(T) = 2,
             volume' = [volume EXCEPT ![a] = [disks |-> T, level |-> "fixed", fs |-> "none"]]
      PROVE  MoveTables
  <2>1. [disks |-> T, level |-> "fixed", fs |-> "none"] \in R!Volumes
    BY <1>3, SameCardinality, ArrayIsVolume DEF Made, R!Levels, R!FsStates
  <2>2. QED
    BY <1>1, <1>3, <2>1, VolumesMove
<1>4. CASE volume' = [volume EXCEPT ![a] = R!NoArray]
  BY <1>1, <1>4, VolumesMove
<1>5. CASE volume[a].fs = "none" /\ volume' = R!With(a, "mounted")
  BY <1>1, <1>5, WithIsVolume, VolumesMove DEF Made, R!FsStates
<1>6. QED
  BY <1>2, <1>3, <1>4, <1>5

\* The steps of the page that change no table.
RaidQuiet ==
  \/ R!LoseEvent \/ R!OnStatus \/ R!ServeRaidList \/ R!FailRaidList \/ R!ShowRaidList
  \/ R!OpenModal \/ R!CloseModal \/ R!ProgressEnds
  \/ R!SubmitCreate \/ R!ConfirmWipe \/ R!HandleDelete
  \/ R!HandleExpand \/ R!HandleMarkFailed \/ R!HandleRebuild \/ R!HandleFs \/ R!SubmitFs
  \/ R!OnRaidOk \/ R!DoneCreated \/ R!OnRaidError

\* What the steps of the storage page do to the tables of the server.
LEMMA RaidTables ==
  ASSUME IInv, R!RaidNext, UNCHANGED <<shares, accounts>>
  PROVE  /\ RaidQuiet => KeepTables
         /\ KeepTables \/ MoveTables
         /\ route' = route
<1>1. ASSUME R!LoseEvent \/ R!OnStatus \/ R!ServeRaidList \/ R!FailRaidList \/ R!ShowRaidList
      PROVE  KeepTables /\ route' = route
  BY <1>1 DEF R!LoseEvent, R!OnStatus, R!ServeRaidList, R!FailRaidList, R!ShowRaidList, R!Others,
              KeepTables, tables
<1>2. ASSUME \/ R!OpenModal \/ R!CloseModal \/ R!ProgressEnds
             \/ R!OnRaidOk \/ R!DoneCreated \/ R!OnRaidError
      PROVE  KeepTables /\ route' = route
  BY <1>2 DEF R!OpenModal, R!CloseModal, R!ProgressEnds, R!OnRaidOk, R!DoneCreated, R!OnRaidError,
              R!Only, R!Reload, KeepTables, tables
<1>3. ASSUME \/ R!SubmitCreate \/ R!ConfirmWipe \/ R!HandleDelete
             \/ R!HandleExpand \/ R!HandleMarkFailed \/ R!HandleRebuild \/ R!HandleFs \/ R!SubmitFs
      PROVE  KeepTables /\ route' = route
  BY <1>3 DEF R!SubmitCreate, R!ConfirmWipe, R!HandleDelete, R!HandleExpand, R!HandleMarkFailed,
              R!HandleRebuild, R!HandleFs, R!SubmitFs, R!Quietly, R!Send, KeepTables, tables
<1>4. ASSUME R!ServeRaid PROVE (KeepTables \/ MoveTables) /\ route' = route
  BY <1>4, ServedVolumes DEF R!ServeRaid
<1>5. ASSUME R!OtherStorage PROVE MoveTables /\ route' = route
  BY <1>5, OtherVolumes DEF R!OtherStorage, R!Other
<1>6. QED
  BY <1>1, <1>2, <1>3, <1>4, <1>5 DEF R!RaidNext, RaidQuiet

\* The frame is the same in each view.
LEMMA RaidFrame ==
  /\ R!Load => Load
  /\ \A n, rows, whole : R!ServeList(n, rows, whole) => ServeList(n, rows, whole)
  /\ \A n : R!ShowAnswer(n) => ShowAnswer(n)
  /\ \A n, instead : R!FailList(n, instead) => FailList(n, instead)
BY DEF Load, CanLoad, CanAsk, Loaded, Ask, ServeList, ShowAnswer, FailList,
       R!Load, R!CanLoad, R!CanAsk, R!Loaded, R!Ask, R!ServeList, R!ShowAnswer, R!FailList, RemoveAt,
       R!RemoveAt

\* The steps of the page that do not load.
RaidBetweenLoads ==
  \/ R!LoseEvent \/ R!ServeRaidList \/ R!FailRaidList \/ R!ShowRaidList
  \/ R!OpenModal \/ R!CloseModal
  \/ R!SubmitCreate \/ R!ConfirmWipe \/ R!HandleDelete
  \/ R!HandleExpand \/ R!HandleMarkFailed \/ R!HandleRebuild \/ R!HandleFs \/ R!SubmitFs
  \/ R!ServeRaid \/ R!OtherStorage \/ R!OnRaidError

\* Only a load forgets that a filesystem was created.
LEMMA RaidStaysSilent ==
  ASSUME IInv, RaidBetweenLoads
  PROVE  StaysEdited
<1>1. route = "raid" => view = [failed |-> view.failed, added |-> view.added, busy |-> view.busy,
                                modal |-> view.modal, silent |-> view.silent, news |-> view.news]
  BY DEF IInv, ViewOK, RaidViewOK
<1>2. CASE \/ R!ServeRaidList \/ R!FailRaidList \/ R!ShowRaidList
           \/ R!SubmitCreate \/ R!ConfirmWipe \/ R!HandleDelete \/ R!HandleFs \/ R!SubmitFs
           \/ R!OnRaidError
  <2>1. view' = view
    BY <1>2 DEF R!ServeRaidList, R!FailRaidList, R!ShowRaidList, R!SubmitCreate, R!ConfirmWipe,
                R!HandleDelete, R!HandleFs, R!SubmitFs, R!OnRaidError, R!Others, R!Quietly
  <2>2. QED
    BY <2>1 DEF StaysEdited
<1>3. CASE R!LoseEvent \/ R!OpenModal \/ R!CloseModal
  <2>1. /\ route = "raid"
        /\ (\E x : view' = [view EXCEPT !.news = x]) \/ (\E m : view' = [view EXCEPT !.modal = m])
    BY <1>3 DEF R!LoseEvent, R!OpenModal, R!CloseModal, R!Open, R!Here
  <2>2. view'.silent = view.silent
    BY <1>1, <2>1
  <2>3. QED
    BY <2>1, <2>2 DEF StaysEdited
<1>4. CASE R!HandleExpand \/ R!HandleMarkFailed \/ R!HandleRebuild
  <2>1. route = "raid"
    BY <1>4 DEF R!HandleExpand, R!HandleMarkFailed, R!HandleRebuild, R!Here
  <2>2. view'.silent = view.silent
    BY <1>1, <1>4, <2>1 DEF R!HandleExpand, R!HandleMarkFailed, R!HandleRebuild, R!Quietly
  <2>3. QED
    BY <2>1, <2>2 DEF StaysEdited
<1>5. CASE R!ServeRaid \/ R!OtherStorage
  <2>1. view' = view \/ view' = R!Emitted
    BY <1>5 DEF R!ServeRaid, R!OtherStorage, R!ServeCreate, R!ServeWipe, R!ServeDelete, R!ServeMember,
                R!ServeFs, R!Fail, R!Done, R!Half
  <2>2. view' = view \/ (route = "raid" /\ view'.silent = view.silent)
    BY <1>1, <2>1 DEF R!Emitted, R!Here
  <2>3. QED
    BY <2>2 DEF StaysEdited
<1>6. QED
  BY <1>2, <1>3, <1>4, <1>5 DEF RaidBetweenLoads

\* What the steps of the storage page do to the lists.
LEMMA RaidLists ==
  ASSUME IInv, R!RaidNext, UNCHANGED <<shares, accounts>>
  PROVE  ListsOK'
<1>1. /\ KeepTables \/ MoveTables
      /\ RaidQuiet => KeepTables
      /\ route' = route
  BY RaidTables
<1>2. route = "raid" => ListsOf(route) = R!raidLists /\ RaidViewOK
  BY DEF ListsOf, IInv, ViewOK
<1>3. CASE \/ R!LoseEvent \/ R!OpenModal \/ R!CloseModal \/ R!OnRaidError
           \/ R!SubmitCreate \/ R!ConfirmWipe \/ R!HandleDelete
           \/ R!HandleExpand \/ R!HandleMarkFailed \/ R!HandleRebuild \/ R!HandleFs \/ R!SubmitFs
  <2>1. route = "raid" /\ lists' = lists /\ told' = told
    BY <1>3 DEF R!LoseEvent, R!OpenModal, R!CloseModal, R!OnRaidError, R!SubmitCreate, R!ConfirmWipe,
                R!HandleDelete, R!HandleExpand, R!HandleMarkFailed, R!HandleRebuild, R!HandleFs,
                R!SubmitFs, R!Here, R!Others, R!Only, R!Quietly
  <2>2. StaysEdited
    BY <1>3, RaidStaysSilent DEF RaidBetweenLoads
  <2>3. QED
    BY <1>1, <1>2, <2>1, <2>2, ListsSame
<1>4. CASE R!OnStatus \/ R!ProgressEnds \/ R!DoneCreated \/ (R!OnRaidOk /\ sent.kind # "createFS")
  <2>1. route = "raid" /\ told' = rev /\ Load /\ KeepTables
    BY <1>1, <1>4, RaidFrame DEF R!OnStatus, R!ProgressEnds, R!DoneCreated, R!OnRaidOk, R!Here,
                                 R!Others, R!Reload, RaidQuiet
  <2>2. QED
    BY <1>1, <1>2, <2>1, ListsLoad
<1>5. CASE R!OnRaidOk /\ sent.kind = "createFS"
  <2>1. /\ route = "raid" /\ lists' = lists
        /\ \E m : view' = [view EXCEPT !.silent = TRUE, !.modal = m]
    BY <1>5 DEF R!OnRaidOk, R!Here
  <2>2. view'.silent = TRUE
    BY <1>2, <2>1 DEF RaidViewOK
  <2>3. StaysEdited /\ Silent'
    BY <1>1, <2>1, <2>2 DEF StaysEdited, Silent
  <2>4. QED
    BY <1>1, <2>1, <2>3, ListsSame
<1>6. CASE R!ServeRaidList
  <2>1. /\ route = "raid" /\ told' = told /\ KeepTables /\ StaysEdited
        /\ TablesOK /\ rev \in Nat
    BY <1>1, <1>6, RaidStaysSilent DEF R!ServeRaidList, R!Here, R!Others, RaidQuiet,
                                       RaidBetweenLoads, IInv, Counters
  <2>2. ASSUME NEW rows \in R!ArrayAnswers, ServeList("arrays", rows, rows = R!ArrayRows)
        PROVE  ListsOK'
    <3>1. [rev |-> rev, rows |-> rows, whole |-> (rows = R!ArrayRows)] \in Valid("arrays")
      BY <2>1, LessIsValid
    <3>2. "arrays" \in ListsOf(route)
      BY <1>2, <2>1 DEF R!raidLists
    <3>3. QED
      BY <1>1, <2>1, <2>2, <3>1, <3>2, ListsServe
  <2>3. ASSUME NEW rows \in R!FsAnswers, ServeList("filesystems", rows, rows = R!FsRows)
        PROVE  ListsOK'
    <3>1. [rev |-> rev, rows |-> rows, whole |-> (rows = R!FsRows)] \in Valid("filesystems")
      BY <2>1, LessIsValid
    <3>2. "filesystems" \in ListsOf(route)
      BY <1>2, <2>1 DEF R!raidLists
    <3>3. QED
      BY <1>1, <2>1, <2>3, <3>1, <3>2, ListsServe
  <2>4. QED
    BY <1>6, <2>2, <2>3, RaidFrame DEF R!ServeRaidList
<1>7. CASE R!FailRaidList
  <2>1. route = "raid" /\ told' = told /\ KeepTables /\ StaysEdited
    BY <1>1, <1>7, RaidStaysSilent DEF R!FailRaidList, R!Here, R!Others, RaidQuiet, RaidBetweenLoads
  <2>2. CASE FailList("arrays", lists["arrays"].shown)
    <3>1. "arrays" \in ListsOf(route)
      BY <1>2, <2>1 DEF R!raidLists
    <3>2. lists["arrays"].shown \in Plausible("arrays") \cup {None}
      BY <3>1 DEF IInv, ListsOK, ListOK, ListsOver
    <3>3. QED
      BY <1>1, <1>2, <2>1, <2>2, <3>1, <3>2, ListsFail
  <2>3. CASE FailList("filesystems", [rev |-> rev, rows |-> R!NoFs, whole |-> FALSE])
    <3>1. "filesystems" \in ListsOf(route)
      BY <1>2, <2>1 DEF R!raidLists
    <3>2. [rev |-> rev, rows |-> R!NoFs, whole |-> FALSE] \in Plausible("filesystems")
      BY DEF IInv, Counters, Plausible, Answers, RowsOf, R!NoFs, R!FsStates
    <3>3. QED
      BY <1>1, <1>2, <2>1, <2>3, <3>1, <3>2, ListsFail
  <2>4. QED
    BY <1>7, <2>2, <2>3, RaidFrame DEF R!FailRaidList
<1>8. CASE R!ShowRaidList
  <2>1. route = "raid" /\ told' = told /\ KeepTables /\ StaysEdited
    BY <1>1, <1>8, RaidStaysSilent DEF R!ShowRaidList, R!Here, R!Others, RaidQuiet, RaidBetweenLoads
  <2>2. PICK n \in R!raidLists : ShowAnswer(n)
    BY <1>8, RaidFrame DEF R!ShowRaidList
  <2>3. QED
    BY <1>1, <1>2, <2>1, <2>2, ListsShow
<1>9. CASE R!ServeRaid \/ R!OtherStorage
  <2>1. lists' = lists /\ told' = told
    BY <1>9 DEF R!ServeRaid, R!OtherStorage, R!Other
  <2>2. StaysEdited
    BY <1>9, RaidStaysSilent DEF RaidBetweenLoads
  <2>3. QED
    BY <1>1, <2>1, <2>2, ListsSame
<1>10. QED
  BY <1>3, <1>4, <1>5, <1>6, <1>7, <1>8, <1>9 DEF R!RaidNext

-----------------------------------------------------------------------------
(* What the steps make of the request                                      *)

\* A request that a step leaves alone, while the tables may move.
LEMMA SentSame ==
  ASSUME IInv, KeepTables \/ MoveTables, sent' = sent
  PROVE  SentOK'
<1>1. TablesOK /\ rev \in Nat
  BY DEF IInv, Counters
<1>2. CASE sent = Idle
  BY <1>2 DEF SentOK, Idle
<1>3. CASE /\ sent = [at |-> sent.at, visit |-> sent.visit, kind |-> sent.kind, what |-> sent.what]
           /\ sent.at \in {"server", "ok", "error"}
           /\ WellFormed(sent.kind, sent.what)
           /\ sent.at = "server" => Backed(sent.kind, sent.what)
  <2>1. PICK kind : kind = sent.kind
    OBVIOUS
  <2>2. PICK what : what = sent.what
    OBVIOUS
  <2>3. sent'.kind = kind /\ sent'.what = what /\ WellFormed(kind, what)
    BY <1>3, <2>1, <2>2
  <2>4. sent'.at = "server" => Backed(kind, what)'
    BY <1>1, <1>3, <2>1, <2>2, <2>3, BackedOn
  <2>5. WellFormed(kind, what)'
    BY <2>3
  <2>6. Backed(kind, what)' => Backed(sent.kind, sent.what)'
    BY <2>3 DEF Backed, Named, OneChange, NotTheLast, Bases
  <2>7. WellFormed(sent.kind, sent.what)'
    BY <2>3, <2>5
  <2>8. QED
    BY <1>3, <2>4, <2>6, <2>7 DEF SentOK
<1>4. QED
  BY <1>2, <1>3 DEF IInv, SentOK

\* A request that has been carried out: nothing is claimed of it any more.
LEMMA SentAnswered ==
  ASSUME IInv, sent.at = "server", NEW answer \in {"ok", "error"},
         sent' = [sent EXCEPT !.at = answer]
  PROVE  SentOK'
<1>1. /\ sent = [at |-> sent.at, visit |-> sent.visit, kind |-> sent.kind, what |-> sent.what]
      /\ WellFormed(sent.kind, sent.what)
  BY DEF IInv, SentOK, Idle
<1>2. sent' = [at |-> answer, visit |-> sent.visit, kind |-> sent.kind, what |-> sent.what]
  BY <1>1
<1>3. sent'.kind = sent.kind /\ sent'.what = sent.what /\ sent'.at = answer
  BY <1>2
<1>4. WellFormed(sent'.kind, sent'.what)
  BY <1>1, <1>3
<1>5. QED
  BY <1>2, <1>3, <1>4 DEF SentOK

\* A request whose modal is gone.
LEMMA SentElsewhere ==
  ASSUME IInv, KeepTables, sent.at # "idle", sent.kind = "createFS",
         sent' = [sent EXCEPT !.what.left = TRUE]
  PROVE  SentOK'
<1>1. /\ sent = [at |-> sent.at, visit |-> sent.visit, kind |-> "createFS", what |-> sent.what]
      /\ sent.at \in {"server", "ok", "error"}
      /\ WellFormed("createFS", sent.what)
      /\ sent.at = "server" => Backed("createFS", sent.what)
      /\ TablesOK /\ rev \in Nat
  BY DEF IInv, Counters, SentOK, Idle
<1>2. PICK old : old = sent.what
  OBVIOUS
<1>3. PICK what : what = [array |-> old.array, basis |-> old.basis, left |-> TRUE]
  OBVIOUS
<1>4. old = [array |-> old.array, basis |-> old.basis, left |-> old.left] /\ old.array \in Arrays
  BY <1>1, <1>2 DEF WellFormed
<1>5. sent' = [at |-> sent.at, visit |-> sent.visit, kind |-> "createFS", what |-> what]
  BY <1>1, <1>2, <1>3, <1>4
<1>6. sent'.kind = "createFS" /\ sent'.what = what /\ sent'.at = sent.at
  BY <1>5
<1>7. WellFormed("createFS", what)
  BY <1>3, <1>4 DEF WellFormed
<1>8. sent.at = "server" => Backed("createFS", what)
  BY <1>1, <1>2, <1>3 DEF Backed, Named, Destroying
<1>9. sent'.at = "server" => Backed("createFS", what)'
  BY <1>1, <1>6, <1>7, <1>8, BackedOn
<1>10. Backed("createFS", what)' => Backed(sent.kind, sent.what)'
  BY <1>6 DEF Backed, Named, OneChange, NotTheLast, Bases
<1>11. WellFormed(sent.kind, sent.what)'
  BY <1>6, <1>7
<1>12. QED
  BY <1>1, <1>5, <1>6, <1>9, <1>10, <1>11 DEF SentOK

\* A request that has just been sent.
LEMMA SentNew ==
  ASSUME IInv, KeepTables, NEW kind, NEW what, WellFormed(kind, what), Backed(kind, what), NEW v,
         sent' = [at |-> "server", visit |-> v, kind |-> kind, what |-> what]
  PROVE  SentOK'
<1>1. TablesOK /\ rev \in Nat
  BY DEF IInv, Counters
<1>2. Backed(kind, what)'
  BY <1>1, BackedOn
<1>3. sent'.kind = kind /\ sent'.what = what /\ sent'.at = "server"
  OBVIOUS
<1>4. Backed(kind, what)' => Backed(sent.kind, sent.what)'
  BY <1>3 DEF Backed, Named, OneChange, NotTheLast, Bases
<1>5. WellFormed(sent.kind, sent.what)'
  BY <1>3
<1>6. QED
  BY <1>2, <1>3, <1>4, <1>5 DEF SentOK

-----------------------------------------------------------------------------
(* The storage page: what it shows, its requests and its view              *)

\* Whatever is shown of arrays consists of disks and partitions.
LEMMA ShownStorage ==
  ASSUME IInv, route = "raid"
  PROVE  /\ \A a \in Arrays : R!ShownArrays[a].disks \subseteq R!Pieces /\ R!ShownFs[a] \in R!FsStates
         /\ \A a \in Arrays : R!Devices(a) \subseteq R!Pieces
         /\ R!Available \subseteq Disks
         /\ \A d \in R!Available, a \in Arrays : d \notin R!ShownArrays[a].disks
<1>1. /\ ListOK("arrays") /\ ListOK("filesystems") /\ RaidViewOK
  BY DEF IInv, ListsOK, ListsOf, R!raidLists, ViewOK
<1>2. lists["arrays"].shown # None => lists["arrays"].shown.rows \in RowsOf("arrays")
  BY <1>1 DEF ListOK, ListsOver, Plausible, Answers
<1>3. lists["filesystems"].shown # None => lists["filesystems"].shown.rows \in RowsOf("filesystems")
  BY <1>1 DEF ListOK, ListsOver, Plausible, Answers
<1>4. \A a \in Arrays : R!ShownArrays[a].disks \subseteq R!Pieces
  <2>1. CASE lists["arrays"].shown = None
    BY <2>1 DEF R!ShownArrays, R!Rows, R!NoRows, R!NoRow
  <2>2. CASE lists["arrays"].shown # None
    <3>1. R!ShownArrays \in [Arrays -> [disks: SUBSET R!Pieces, level: R!Levels \cup {None}]]
      BY <1>2, <2>2 DEF R!ShownArrays, R!Rows, RowsOf
    <3>2. QED
      BY <3>1
  <2>3. QED
    BY <2>1, <2>2
<1>5. \A a \in Arrays : R!ShownFs[a] \in R!FsStates
  BY <1>3 DEF R!ShownFs, R!Rows, R!NoFs, RowsOf, R!FsStates
<1>6. \A a \in Arrays : R!Devices(a) \subseteq R!Pieces
  BY <1>1, <1>4 DEF R!Devices, RaidViewOK, R!Pieces
<1>7. R!Available \subseteq Disks
  BY DEF R!Available
<1>8. ASSUME NEW d \in R!Available, NEW a \in Arrays PROVE d \notin R!ShownArrays[a].disks
  <2>1. CASE a \in R!Listed
    <3>1. d \notin UNION {R!Devices(x) : x \in R!Listed}
      BY DEF R!Available
    <3>2. d \notin R!Devices(a)
      BY <2>1, <3>1
    <3>3. QED
      BY <3>2 DEF R!Devices
  <2>2. CASE a \notin R!Listed
    BY <2>2 DEF R!Listed
  <2>3. QED
    BY <2>1, <2>2
<1>9. QED
  BY <1>4, <1>5, <1>6, <1>7, <1>8

\* A page that is informed shows the storage as it is.
LEMMA InformedIsTrue ==
  ASSUME IInv, route = "raid", R!Informed
  PROVE  R!ShownArrays = R!ArrayRows /\ R!ShownFs = R!FsRows
<1>1. ASSUME NEW n \in R!raidLists
      PROVE  lists[n].shown # None /\ lists[n].shown.rows = Truth(n)
  <2>1. ListOK(n) /\ told \in Nat /\ rev \in Nat /\ lists = [k \in R!raidLists |-> lists[k]]
    BY DEF IInv, ListsOK, ListsOf, Counters
  <2>2. n \in DOMAIN lists
    BY <2>1
  <2>3. /\ Settled(lists[n]) /\ ~lists[n].spoilt /\ lists[n].shown.whole /\ told = rev /\ ~Silent
    BY <2>2 DEF R!Informed, R!Settled, Settled, Silent
  <2>4. lists[n].shown # None /\ lists[n].shown.rev >= rev
    BY <2>1, <2>3, ArrivedIsShown DEF ListOK
  <2>5. lists[n].shown \in Valid(n)
    BY <2>1, <2>3, <2>4 DEF ListOK, Unaltered, R!raidLists
  <2>6. lists[n].shown.rev \in Nat /\ lists[n].shown.rev <= rev
    BY <2>5 DEF Valid, Answers
  <2>7. lists[n].shown.rev = rev
    BY <2>1, <2>4, <2>6
  <2>8. QED
    BY <2>3, <2>4, <2>5, <2>7 DEF Valid
<1>2. QED
  BY <1>1 DEF R!raidLists, R!ShownArrays, R!ShownFs, R!Rows, Truth

\* What a confirmation carries along as its basis.
LEMMA BasisIsInformed ==
  ASSUME IInv
  PROVE  R!Basis \in Bases /\ (R!Basis = rev => R!Informed)
BY BoundsAssumption DEF IInv, Counters, R!Basis, Bases

\* A disk that an informed page offers to wipe is in no array.
LEMMA WipeIsBacked ==
  ASSUME IInv, route = "raid", NEW d \in R!Available, NEW what, what.disk = d, what.basis = R!Basis
  PROVE  Backed("wipe", what)
<1>1. ASSUME R!Basis = rev PROVE \A a \in Arrays : d \notin volume[a].disks
  <2>1. R!ShownArrays = R!ArrayRows
    BY <1>1, BasisIsInformed, InformedIsTrue
  <2>2. QED
    BY <2>1, ShownStorage DEF R!ArrayRows
<1>2. R!Basis \in Bases
  BY BasisIsInformed
<1>3. R!Basis = rev => Named("wipe", what)
  BY <1>1 DEF Named
<1>4. QED
  BY <1>2, <1>3 DEF Backed, Destroying

\* The filesystem that an informed page names is the one that there is.
LEMMA FsIsBacked ==
  ASSUME IInv, route = "raid", NEW a \in Arrays, NEW kind \in {"delete", "deleteFS", "createFS"},
         NEW what, what.array = a, what.basis = R!Basis,
         kind = "createFS" => R!ShownFs[a] = "none",
         kind # "createFS" => what.named = R!ShownFs[a]
  PROVE  Backed(kind, what)
<1>1. ASSUME R!Basis = rev PROVE volume[a].fs = R!ShownFs[a]
  BY <1>1, BasisIsInformed, InformedIsTrue DEF R!FsRows
<1>2. R!Basis \in Bases
  BY BasisIsInformed
<1>3. R!Basis = rev => Named(kind, what)
  BY <1>1 DEF Named
<1>4. QED
  BY <1>2, <1>3 DEF Backed, Destroying

\* A level can be chosen for two disks or more.
LEMMA LevelsOfMany ==
  ASSUME NEW T \in SUBSET Disks, NEW l \in R!LevelOptions(R!Cardinality(T))
  PROVE  Cardinality(T) >= 2 /\ l \in R!Levels
<1>1. Cardinality(T) \in Nat /\ R!Cardinality(T) = Cardinality(T)
  BY FS_Subset, FS_CardinalityType, SameCardinality, ConsoleAssumption
<1>2. QED
  BY <1>1 DEF R!LevelOptions, R!Levels

\* The server's part of the requests of the page.
LEMMA RaidServed ==
  ASSUME IInv, R!ServeRaid
  PROVE  /\ sent.at = "server"
         /\ \E answer \in {"ok", "error"} : sent' = [sent EXCEPT !.at = answer]
         /\ \/ rev' = rev /\ view' = view
            \/ rev' = rev + 1 /\ view' = view
            \/ rev' = rev + 1 /\ view' = R!Emitted
BY DEF R!ServeRaid, R!ServeCreate, R!ServeWipe, R!ServeDelete, R!ServeMember, R!ServeFs, R!Fail, R!Done,
       R!Half, R!Refused, R!Committed, R!AtServer

\* What the steps of the storage page do to the request.
LEMMA RaidSent ==
  ASSUME IInv, R!RaidNext, UNCHANGED <<shares, accounts>>
  PROVE  SentOK'
<1>1. /\ KeepTables \/ MoveTables
      /\ RaidQuiet => KeepTables
      /\ TablesOK /\ rev \in Nat
      /\ route = "raid" => RaidViewOK
  BY RaidTables DEF IInv, Counters, ViewOK
<1>2. CASE \/ R!LoseEvent \/ R!OnStatus \/ R!ServeRaidList \/ R!FailRaidList \/ R!ShowRaidList
           \/ R!OpenModal \/ R!ProgressEnds \/ R!DoneCreated \/ R!OtherStorage
  <2>1. sent' = sent
    BY <1>2 DEF R!LoseEvent, R!OnStatus, R!ServeRaidList, R!FailRaidList, R!ShowRaidList, R!OpenModal,
                R!ProgressEnds, R!DoneCreated, R!OtherStorage, R!Other, R!Others, R!Only, R!Reload
  <2>2. QED
    BY <1>1, <2>1, SentSame
<1>3. CASE R!CloseModal
  <2>1. KeepTables
    BY <1>1, <1>3 DEF RaidQuiet
  <2>2. \/ sent' = sent
        \/ sent.at # "idle" /\ sent.kind = "createFS" /\ sent' = [sent EXCEPT !.what.left = TRUE]
    BY <1>3 DEF R!CloseModal
  <2>3. QED
    BY <2>1, <2>2, SentSame, SentElsewhere
<1>4. CASE R!ServeRaid
  BY <1>4, RaidServed, SentAnswered
<1>5. CASE R!OnRaidOk \/ R!OnRaidError
  BY <1>5 DEF R!OnRaidOk, R!OnRaidError, R!Answered, R!Idle, Idle, SentOK
<1>6. ASSUME NEW kind, NEW what, R!Send(kind, what), WellFormed(kind, what), Backed(kind, what), KeepTables
      PROVE  SentOK'
  BY <1>6, SentNew DEF R!Send
<1>7. CASE R!SubmitCreate
  <2>1. /\ route = "raid" /\ view.modal.type = "create" /\ KeepTables
        /\ R!Choosable \subseteq Disks
    BY <1>1, <1>7, ShownStorage DEF R!SubmitCreate, R!Here, RaidQuiet, RaidViewOK, RaidModalOK,
                                    R!Choosable
  <2>2. PICK a \in Arrays, T \in SUBSET R!Choosable : \E l \in R!LevelOptions(R!Cardinality(T)) :
          R!Send("create", [array |-> a, disks |-> T, level |-> l])
    BY <1>7 DEF R!SubmitCreate
  <2>3. PICK l \in R!LevelOptions(R!Cardinality(T)) :
          R!Send("create", [array |-> a, disks |-> T, level |-> l])
    BY <2>2
  <2>4. T \in SUBSET Disks /\ Cardinality(T) >= 2 /\ l \in R!Levels
    BY <2>1, LevelsOfMany
  <2>5. WellFormed("create", [array |-> a, disks |-> T, level |-> l])
    BY <2>4 DEF WellFormed
  <2>6. Backed("create", [array |-> a, disks |-> T, level |-> l])
    BY DEF Backed, Destroying
  <2>7. QED
    BY <1>6, <2>1, <2>3, <2>5, <2>6
<1>8. CASE R!ConfirmWipe
  <2>1. PICK m : m = view.modal
    OBVIOUS
  <2>2. /\ m.type = "wipe" /\ KeepTables /\ Backed("wipe", m)
        /\ R!Send("wipe", [disk |-> m.disk, basis |-> m.basis])
    BY <1>1, <1>8, <2>1 DEF R!ConfirmWipe, R!Here, RaidQuiet, RaidViewOK, RaidModalOK
  <2>3. Backed("wipe", [disk |-> m.disk, basis |-> m.basis])
    BY <2>2 DEF Backed, Named, Destroying
  <2>4. WellFormed("wipe", [disk |-> m.disk, basis |-> m.basis])
    BY DEF WellFormed
  <2>5. QED
    BY <1>6, <2>2, <2>3, <2>4
<1>9. CASE R!HandleDelete
  <2>1. route = "raid" /\ KeepTables
    BY <1>1, <1>9 DEF R!HandleDelete, R!Here, RaidQuiet
  <2>2. PICK a \in R!Listed :
          R!Send("delete", [array |-> a, named |-> R!ShownFs[a], basis |-> R!Basis])
    BY <1>9 DEF R!HandleDelete
  <2>3. a \in Arrays
    BY DEF R!Listed
  <2>4. PICK what : what = [array |-> a, named |-> R!ShownFs[a], basis |-> R!Basis]
    OBVIOUS
  <2>5. Backed("delete", what)
    BY <2>1, <2>3, <2>4, FsIsBacked
  <2>6. WellFormed("delete", what)
    BY <2>3, <2>4 DEF WellFormed
  <2>7. QED
    BY <1>6, <2>1, <2>2, <2>4, <2>5, <2>6
<1>10. CASE R!HandleExpand \/ R!HandleMarkFailed \/ R!HandleRebuild
  <2>1. PICK a : a = view.modal.array
    OBVIOUS
  <2>2. /\ KeepTables /\ a \in Arrays
        /\ R!Send("member", [array |-> a])
    BY <1>1, <1>10, <2>1 DEF R!HandleExpand, R!HandleMarkFailed, R!HandleRebuild, R!Here, RaidQuiet,
                             RaidViewOK, RaidModalOK
  <2>3. Backed("member", [array |-> a]) /\ WellFormed("member", [array |-> a])
    BY <2>2 DEF Backed, Destroying, WellFormed
  <2>4. QED
    BY <1>6, <2>2, <2>3
<1>11. CASE R!HandleFs
  <2>1. route = "raid" /\ KeepTables
    BY <1>1, <1>11 DEF R!HandleFs, R!Here, RaidQuiet
  <2>2. PICK a \in Arrays :
          \/ R!Send("unmount", [array |-> a])
          \/ R!Send("grow", [array |-> a])
          \/ R!Send("deleteFS", [array |-> a, named |-> R!ShownFs[a], basis |-> R!Basis])
    BY <1>11 DEF R!HandleFs
  <2>3. CASE R!Send("unmount", [array |-> a]) \/ R!Send("grow", [array |-> a])
    <3>1. \A kind \in {"unmount", "grow"} : Backed(kind, [array |-> a]) /\ WellFormed(kind, [array |-> a])
      BY DEF Backed, Destroying, WellFormed
    <3>2. QED
      BY <1>6, <2>1, <2>3, <3>1
  <2>4. CASE R!Send("deleteFS", [array |-> a, named |-> R!ShownFs[a], basis |-> R!Basis])
    <3>1. PICK what : what = [array |-> a, named |-> R!ShownFs[a], basis |-> R!Basis]
      OBVIOUS
    <3>2. Backed("deleteFS", what)
      BY <2>1, <3>1, FsIsBacked
    <3>3. WellFormed("deleteFS", what)
      BY <3>1 DEF WellFormed
    <3>4. QED
      BY <1>6, <2>1, <2>4, <3>1, <3>2, <3>3
  <2>5. QED
    BY <2>2, <2>3, <2>4
<1>12. CASE R!SubmitFs
  <2>1. PICK m : m = view.modal
    OBVIOUS
  <2>2. /\ KeepTables /\ RaidModalOK(m)
        /\ \/ m.type = "createFS" /\ R!Send("createFS", [array |-> m.array, basis |-> m.basis, left |-> FALSE])
           \/ m.type = "mountFS" /\ R!Send("mountFS", [array |-> m.array])
    BY <1>1, <1>12, <2>1 DEF R!SubmitFs, R!Here, RaidQuiet, RaidViewOK
  <2>3. CASE m.type = "createFS" /\ R!Send("createFS", [array |-> m.array, basis |-> m.basis, left |-> FALSE])
    <3>1. m.array \in Arrays /\ Backed("createFS", m)
      BY <2>2, <2>3 DEF RaidModalOK
    <3>2. Backed("createFS", [array |-> m.array, basis |-> m.basis, left |-> FALSE])
      BY <3>1 DEF Backed, Named, Destroying
    <3>3. WellFormed("createFS", [array |-> m.array, basis |-> m.basis, left |-> FALSE])
      BY <3>1 DEF WellFormed
    <3>4. QED
      BY <1>6, <2>2, <2>3, <3>2, <3>3
  <2>4. CASE m.type = "mountFS" /\ R!Send("mountFS", [array |-> m.array])
    <3>1. m.array \in Arrays
      BY <2>2, <2>4 DEF RaidModalOK
    <3>2. Backed("mountFS", [array |-> m.array]) /\ WellFormed("mountFS", [array |-> m.array])
      BY <3>1 DEF Backed, Destroying, WellFormed
    <3>3. QED
      BY <1>6, <2>2, <2>4, <3>2
  <2>5. QED
    BY <2>2, <2>3, <2>4
<1>13. QED
  BY <1>2, <1>3, <1>4, <1>5, <1>7, <1>8, <1>9, <1>10, <1>11, <1>12 DEF R!RaidNext

-----------------------------------------------------------------------------
(* What the steps make of the view                                         *)

\* A panel that agrees with the list goes on doing so: while it is calm nothing
\* is under way that could change the list.
LEMMA PanelKept ==
  ASSUME IInv, route' = route, route = "shares" => view' = view,
         (lists' = lists /\ sent' = sent) \/ sent.at # "idle"
  PROVE  PanelAgrees'
<1>1. CASE route = "shares" /\ view.panel # None /\ view.panel.calm
  <2>1. S!Calm /\ S!Shown[view.panel.copy.id] = view.panel.copy.form
    BY <1>1 DEF IInv, PanelAgrees
  <2>2. lists' = lists /\ sent' = sent /\ view' = view
    BY <1>1, <2>1 DEF S!Calm
  <2>3. S!Calm' /\ S!Shown' = S!Shown
    BY <2>1, <2>2 DEF S!Calm, S!Shown
  <2>4. QED
    BY <2>1, <2>2, <2>3 DEF PanelAgrees
<1>2. CASE ~(route = "shares" /\ view.panel # None /\ view.panel.calm)
  BY <1>2 DEF PanelAgrees
<1>3. QED
  BY <1>1, <1>2

\* A modal that claims something of the storage does so still.
LEMMA RaidModalOn ==
  ASSUME IInv, KeepTables \/ MoveTables, NEW m, RaidModalOK(m)
  PROVE  RaidModalOK(m)'
<1>1. TablesOK /\ rev \in Nat
  BY DEF IInv, Counters
<1>2. ASSUME m.type \in {"wipe", "createFS"} PROVE Backed(m.type, m)'
  <2>1. m.type # "updateShare" /\ Backed(m.type, m)
    BY <1>2 DEF RaidModalOK
  <2>2. QED
    BY <1>1, <2>1, BackedOn
<1>3. QED
  BY <1>2 DEF RaidModalOK

\* A modal that claims something of an account does so still.
LEMMA UserModalOn ==
  ASSUME IInv, KeepTables \/ MoveTables, NEW m, UserModalOK(m)
  PROVE  UserModalOK(m)'
<1>1. ASSUME m.type \in {"edit", "delete"}, ~m.edited PROVE RoleHolds(m.user, m.role)'
  BY <1>1, RoleHoldsOn DEF UserModalOK
<1>2. QED
  BY <1>1 DEF UserModalOK, U!Roles

\* The tables move under a view that stays as it is.
LEMMA ViewSame ==
  ASSUME IInv, KeepTables \/ MoveTables, view' = view, route' = route
  PROVE  ViewOK'
<1>1. PICK v : v = view
  OBVIOUS
<1>2. TablesOK /\ rev \in Nat /\ (rev' = rev \/ rev' = rev + 1) /\ ViewOK /\ v = view'
  BY <1>1 DEF IInv, Counters, KeepTables, MoveTables
<1>3. ASSUME route = "raid" PROVE RaidViewOK'
  <2>1. RaidViewOK /\ RaidModalOK(v.modal)
    BY <1>1, <1>2, <1>3 DEF ViewOK, RaidViewOK
  <2>2. RaidModalOK(v.modal)'
    BY <2>1, RaidModalOn
  <2>3. RaidModalOK(view.modal)'
    BY <1>2, <2>2
  <2>4. view'.news \in 0..rev'
    BY <1>1, <1>2, <2>1 DEF RaidViewOK
  <2>5. QED
    BY <1>1, <1>2, <2>1, <2>3, <2>4 DEF RaidViewOK
<1>4. ASSUME route = "shares" PROVE SharesViewOK'
  <2>1. SharesViewOK
    BY <1>2, <1>4 DEF ViewOK
  <2>2. v.modal.type \in {"edit", "delete"} => CopyOK(v.modal.copy)'
    BY <1>1, <1>2, <2>1, CopyOKOn DEF SharesViewOK
  <2>3. v.panel # None => CopyOK(v.panel.copy)'
    BY <1>1, <1>2, <2>1, CopyOKOn DEF SharesViewOK
  <2>4. QED
    BY <1>1, <1>2, <2>1, <2>2, <2>3 DEF SharesViewOK, S!Ids
<1>5. ASSUME route = "users" PROVE UsersViewOK'
  <2>1. UsersViewOK /\ UserModalOK(v.modal)
    BY <1>1, <1>2, <1>5 DEF ViewOK, UsersViewOK
  <2>2. UserModalOK(v.modal)'
    BY <2>1, UserModalOn
  <2>3. UserModalOK(view.modal)'
    BY <1>2, <2>2
  <2>4. QED
    BY <1>1, <1>2, <2>1, <2>3 DEF UsersViewOK
<1>6. QED
  BY <1>3, <1>4, <1>5 DEF ViewOK

\* A view of the storage page, put together.
LEMMA RaidViewIs ==
  ASSUME IInv, KeepTables \/ MoveTables, route = "raid", route' = route,
         NEW failed \in [Arrays -> SUBSET R!Pieces], NEW added \in [Arrays -> SUBSET Disks],
         NEW busy \in SUBSET Arrays, NEW m, RaidModalOK(m), NEW news \in Nat, news <= rev',
         NEW silent \in BOOLEAN,
         view' = [failed |-> failed, added |-> added, busy |-> busy, modal |-> m,
                  silent |-> silent, news |-> news]
  PROVE  ViewOK'
<1>1. RaidModalOK(m)'
  BY RaidModalOn
<1>2. view'.modal = m
  OBVIOUS
<1>3. RaidModalOK(view.modal)'
  BY <1>1, <1>2
<1>4. news \in 0..rev'
  BY DEF IInv, Counters, KeepTables, MoveTables
<1>5. RaidViewOK'
  BY <1>3, <1>4 DEF RaidViewOK
<1>6. QED
  BY <1>5 DEF ViewOK

\* Whatever modal is opened on the storage page, its claims are true.
LEMMA RaidOpens ==
  ASSUME IInv, R!OpenModal
  PROVE  \E m : RaidModalOK(m) /\ view' = [view EXCEPT !.modal = m]
<1>1. route = "raid" /\ RaidViewOK
  BY DEF R!OpenModal, R!Here, IInv, ViewOK
<1>2. /\ R!Available \subseteq Disks
      /\ \A a \in Arrays : R!Devices(a) \subseteq R!Pieces /\ view.failed[a] \subseteq R!Pieces
      /\ R!Listed \subseteq Arrays
  BY <1>1, ShownStorage DEF R!Listed, RaidViewOK
<1>3. PICK m : /\ view' = [view EXCEPT !.modal = m]
               /\ \/ m = [type |-> "create", offered |-> R!Available]
                  \/ \E d \in R!Available : m = [type |-> "wipe", disk |-> d, basis |-> R!Basis]
                  \/ \E a \in Arrays :
                       \/ m = [type |-> "expand", array |-> a, level |-> R!ShownArrays[a].level,
                               offered |-> R!Available]
                       \/ m = [type |-> "markFailed", array |-> a, devices |-> R!Devices(a)]
                       \/ m = [type |-> "rebuild", array |-> a, failed |-> view.failed[a],
                               offered |-> R!Available]
                       \/ /\ R!ShownFs[a] = "none"
                          /\ m = [type |-> "createFS", array |-> a, basis |-> R!Basis]
                       \/ m = [type |-> "mountFS", array |-> a]
  BY <1>2 DEF R!OpenModal, R!Open
<1>4. CASE m = [type |-> "create", offered |-> R!Available]
  BY <1>2, <1>3, <1>4 DEF RaidModalOK
<1>5. ASSUME NEW d \in R!Available, m = [type |-> "wipe", disk |-> d, basis |-> R!Basis]
      PROVE  RaidModalOK(m)
  <2>1. Backed("wipe", m)
    BY <1>1, <1>5, WipeIsBacked
  <2>2. QED
    BY <1>5, <2>1 DEF RaidModalOK
<1>6. ASSUME NEW a \in Arrays, R!ShownFs[a] = "none",
             m = [type |-> "createFS", array |-> a, basis |-> R!Basis]
      PROVE  RaidModalOK(m)
  <2>1. Backed("createFS", m)
    BY <1>1, <1>6, FsIsBacked
  <2>2. QED
    BY <1>6, <2>1 DEF RaidModalOK
<1>7. ASSUME NEW a \in Arrays,
             \/ m = [type |-> "expand", array |-> a, level |-> R!ShownArrays[a].level,
                     offered |-> R!Available]
             \/ m = [type |-> "markFailed", array |-> a, devices |-> R!Devices(a)]
             \/ m = [type |-> "rebuild", array |-> a, failed |-> view.failed[a], offered |-> R!Available]
             \/ m = [type |-> "mountFS", array |-> a]
      PROVE  RaidModalOK(m)
  BY <1>2, <1>7 DEF RaidModalOK
<1>8. QED
  BY <1>3, <1>4, <1>5, <1>6, <1>7

\* What the steps of the storage page do to its view.
LEMMA RaidView ==
  ASSUME IInv, R!RaidNext, UNCHANGED <<shares, accounts>>
  PROVE  ViewOK' /\ PanelAgrees'
<1>1. /\ KeepTables \/ MoveTables
      /\ RaidQuiet => KeepTables
      /\ route' = route
      /\ rev \in Nat
  BY RaidTables DEF IInv, Counters
<1>2. ASSUME route = "raid"
      PROVE  /\ view = [failed |-> view.failed, added |-> view.added, busy |-> view.busy,
                        modal |-> view.modal, silent |-> view.silent, news |-> view.news]
             /\ view.silent \in BOOLEAN
             /\ view.failed \in [Arrays -> SUBSET R!Pieces] /\ view.added \in [Arrays -> SUBSET Disks]
             /\ view.busy \in SUBSET Arrays /\ view.news \in Nat /\ view.news <= rev
             /\ RaidModalOK(view.modal)
             /\ PanelAgrees'
  BY <1>1, <1>2 DEF IInv, ViewOK, RaidViewOK, PanelAgrees
<1>3. RaidModalOK([type |-> "none"]) /\ RaidModalOK([type |-> "created"])
  BY DEF RaidModalOK
<1>4. CASE \/ R!ServeRaidList \/ R!FailRaidList \/ R!ShowRaidList
           \/ R!SubmitCreate \/ R!ConfirmWipe \/ R!HandleDelete \/ R!HandleFs \/ R!SubmitFs
           \/ R!OnRaidError
  <2>1. view' = view /\ route = "raid"
    BY <1>4 DEF R!ServeRaidList, R!FailRaidList, R!ShowRaidList, R!SubmitCreate, R!ConfirmWipe,
                R!HandleDelete, R!HandleFs, R!SubmitFs, R!OnRaidError, R!Others, R!Quietly, R!Here
  <2>2. QED
    BY <1>1, <1>2, <2>1, ViewSame
<1>5. CASE R!LoseEvent \/ R!OnStatus
  <2>1. /\ route = "raid" /\ view.news > 0
        /\ \/ view' = [view EXCEPT !.news = @ - 1]
           \/ view' = [[view EXCEPT !.news = @ - 1] EXCEPT !.silent = FALSE]
    BY <1>5 DEF R!LoseEvent, R!OnStatus, R!Here, R!Others, R!Reload
  <2>2. PICK silent \in BOOLEAN :
          view' = [failed |-> view.failed, added |-> view.added, busy |-> view.busy,
                   modal |-> view.modal, silent |-> silent, news |-> view.news - 1]
    BY <1>2, <2>1
  <2>3. view.news - 1 \in Nat /\ view.news - 1 <= rev'
    BY <1>1, <1>2, <2>1 DEF KeepTables, MoveTables
  <2>4. QED
    BY <1>1, <1>2, <2>1, <2>2, <2>3, RaidViewIs
<1>6. ASSUME route = "raid", NEW m, RaidModalOK(m), NEW silent \in BOOLEAN,
             view' = [failed |-> view.failed, added |-> view.added, busy |-> view.busy,
                      modal |-> m, silent |-> silent, news |-> view.news]
      PROVE  ViewOK'
  <2>1. RaidModalOK(m) /\ silent \in BOOLEAN
    BY <1>6
  <2>2. view.news <= rev'
    BY <1>1, <1>2, <1>6 DEF KeepTables, MoveTables
  <2>3. QED
    BY <1>1, <1>2, <1>6, <2>1, <2>2, RaidViewIs
<1>7. CASE R!OpenModal
  <2>1. route = "raid"
    BY <1>7 DEF R!OpenModal, R!Here
  <2>2. PICK m : RaidModalOK(m) /\ view' = [view EXCEPT !.modal = m]
    BY <1>7, RaidOpens
  <2>3. view' = [failed |-> view.failed, added |-> view.added, busy |-> view.busy,
                 modal |-> m, silent |-> view.silent, news |-> view.news]
    BY <1>2, <2>1, <2>2
  <2>4. QED
    BY <1>2, <1>6, <2>1, <2>2, <2>3
<1>8. CASE R!CloseModal \/ R!DoneCreated \/ R!OnRaidOk
  <2>1. /\ route = "raid"
        /\ \E m \in {view.modal, [type |-> "none"], [type |-> "created"]},
              silent \in {view.silent, TRUE, FALSE} :
             view' = [view EXCEPT !.modal = m, !.silent = silent]
    <3>1. CASE R!CloseModal
      BY <1>2, <3>1 DEF R!CloseModal, R!Open, R!NoModal, R!Here
    <3>2. CASE R!DoneCreated
      BY <1>2, <3>2 DEF R!DoneCreated, R!Reload, R!NoModal, R!Here
    <3>3. CASE R!OnRaidOk
      BY <1>2, <3>3 DEF R!OnRaidOk, R!AfterOk, R!Reload, R!NoModal, R!Here
    <3>4. QED
      BY <1>8, <3>1, <3>2, <3>3
  <2>2. PICK m \in {view.modal, [type |-> "none"], [type |-> "created"]},
             silent \in {view.silent, TRUE, FALSE} :
          view' = [view EXCEPT !.modal = m, !.silent = silent]
    BY <2>1
  <2>3. RaidModalOK(m) /\ silent \in BOOLEAN
    BY <1>2, <1>3, <2>1
  <2>4. view' = [failed |-> view.failed, added |-> view.added, busy |-> view.busy,
                 modal |-> m, silent |-> silent, news |-> view.news]
    BY <1>2, <2>1, <2>2
  <2>5. QED
    BY <1>2, <1>6, <2>1, <2>3, <2>4
<1>10. CASE R!ProgressEnds
  <2>1. /\ route = "raid"
        /\ \E a \in Arrays : view' = [[view EXCEPT !.busy = @ \ {a}] EXCEPT !.silent = FALSE]
    BY <1>10 DEF R!ProgressEnds, R!Reload, R!Here
  <2>2. PICK busy \in SUBSET Arrays :
          view' = [failed |-> view.failed, added |-> view.added, busy |-> busy,
                   modal |-> view.modal, silent |-> FALSE, news |-> view.news]
    BY <1>2, <2>1
  <2>3. view.news <= rev'
    BY <1>1, <1>2, <2>1 DEF KeepTables, MoveTables
  <2>4. QED
    BY <1>1, <1>2, <2>1, <2>2, <2>3, RaidViewIs
<1>11. CASE R!HandleExpand \/ R!HandleMarkFailed \/ R!HandleRebuild
  <2>1. /\ route = "raid"
        /\ view.modal.type \in {"expand", "markFailed", "rebuild"}
        /\ view.modal.type \in {"expand", "rebuild"} => R!Choosable \subseteq Disks
        /\ view.modal.array \in Arrays
    BY <1>2, <1>11, ShownStorage DEF R!HandleExpand, R!HandleMarkFailed, R!HandleRebuild, R!Here,
                                     R!Choosable,
                                     RaidModalOK
  <2>2. PICK a : a = view.modal.array
    OBVIOUS
  <2>3. PICK failed \in [Arrays -> SUBSET R!Pieces], added \in [Arrays -> SUBSET Disks], busy \in SUBSET Arrays :
          view' = [failed |-> failed, added |-> added, busy |-> busy,
                   modal |-> [type |-> "none"], silent |-> view.silent, news |-> view.news]
    <3>1. CASE R!HandleExpand
      <4>1. PICK T \in SUBSET Disks :
              view' = [view EXCEPT !.modal = R!NoModal, !.added[a] = @ \cup T, !.busy = @ \cup {a}]
        BY <2>1, <2>2, <3>1 DEF R!HandleExpand, R!Quietly
      <4>2. view' = [failed |-> view.failed, added |-> [view.added EXCEPT ![a] = @ \cup T],
                     busy |-> view.busy \cup {a}, modal |-> [type |-> "none"], silent |-> view.silent, news |-> view.news]
        BY <1>2, <2>1, <4>1 DEF R!NoModal
      <4>3. [view.added EXCEPT ![a] = @ \cup T] \in [Arrays -> SUBSET Disks]
        BY <1>2, <2>1, <2>2
      <4>4. view.busy \cup {a} \in SUBSET Arrays
        BY <1>2, <2>1, <2>2
      <4>5. QED
        BY <1>2, <2>1, <4>2, <4>3, <4>4
    <3>2. CASE R!HandleMarkFailed
      <4>1. PICK d \in R!Pieces : view' = [view EXCEPT !.modal = R!NoModal, !.failed[a] = @ \cup {d}]
        BY <1>2, <2>1, <2>2, <3>2 DEF R!HandleMarkFailed, R!Quietly, RaidModalOK
      <4>2. view' = [failed |-> [view.failed EXCEPT ![a] = @ \cup {d}], added |-> view.added,
                     busy |-> view.busy, modal |-> [type |-> "none"], silent |-> view.silent, news |-> view.news]
        BY <1>2, <2>1, <4>1 DEF R!NoModal
      <4>3. [view.failed EXCEPT ![a] = @ \cup {d}] \in [Arrays -> SUBSET R!Pieces]
        BY <1>2, <2>1, <2>2
      <4>4. QED
        BY <1>2, <2>1, <4>2, <4>3
    <3>3. CASE R!HandleRebuild
      <4>1. view.modal.type = "rebuild" /\ R!Choosable \subseteq Disks
        BY <2>1, <3>3 DEF R!HandleRebuild
      <4>2. \E f \in view.modal.failed, d \in R!Choosable :
              view' = [view EXCEPT !.modal = R!NoModal, !.failed[a] = @ \ {f},
                                   !.added[a] = @ \cup {d}, !.busy = @ \cup {a}]
        BY <2>2, <3>3, Zenon DEF R!HandleRebuild, R!Quietly
      <4>3. PICK f \in view.modal.failed, d \in R!Choosable :
              view' = [view EXCEPT !.modal = R!NoModal, !.failed[a] = @ \ {f},
                                   !.added[a] = @ \cup {d}, !.busy = @ \cup {a}]
        BY <4>2, Zenon
      <4>4. d \in Disks
        BY <4>1
      <4>5. view' = [failed |-> [view.failed EXCEPT ![a] = @ \ {f}],
                     added |-> [view.added EXCEPT ![a] = @ \cup {d}],
                     busy |-> view.busy \cup {a}, modal |-> [type |-> "none"], silent |-> view.silent, news |-> view.news]
        BY <1>2, <2>1, <4>3 DEF R!NoModal
      <4>6. [view.failed EXCEPT ![a] = @ \ {f}] \in [Arrays -> SUBSET R!Pieces]
        BY <1>2, <2>1, <2>2
      <4>7. [view.added EXCEPT ![a] = @ \cup {d}] \in [Arrays -> SUBSET Disks]
        BY <1>2, <2>1, <2>2, <4>4
      <4>8. view.busy \cup {a} \in SUBSET Arrays
        BY <1>2, <2>1, <2>2
      <4>9. QED
        BY <4>5, <4>6, <4>7, <4>8
    <3>4. QED
      BY <1>11, <3>1, <3>2, <3>3
  <2>4. view.news \in Nat /\ view.news <= rev'
    BY <1>1, <1>2, <2>1 DEF KeepTables, MoveTables
  <2>5. QED
    BY <1>1, <1>2, <1>3, <2>1, <2>3, <2>4, RaidViewIs
<1>12. ASSUME rev' = rev + 1, view' = R!Emitted PROVE ViewOK'
  <2>1. CASE route # "raid"
    BY <1>1, <1>12, <2>1, ViewSame DEF R!Emitted, R!Here
  <2>2. CASE route = "raid"
    <3>1. view' = [failed |-> view.failed, added |-> view.added, busy |-> view.busy,
                   modal |-> view.modal, silent |-> view.silent, news |-> view.news + 1]
      BY <1>2, <1>12, <2>2 DEF R!Emitted, R!Here
    <3>2. view.news + 1 \in Nat /\ view.news + 1 <= rev'
      BY <1>1, <1>2, <1>12, <2>2
    <3>3. QED
      BY <1>1, <1>2, <2>2, <3>1, <3>2, RaidViewIs
  <2>3. QED
    BY <2>1, <2>2
<1>13. CASE R!ServeRaid
  <2>1. sent.at # "idle" /\ (view' = view \/ (rev' = rev + 1 /\ view' = R!Emitted))
    BY <1>13, RaidServed
  <2>2. route = "shares" => view' = view
    BY <2>1 DEF R!Emitted, R!Here
  <2>3. QED
    BY <1>1, <1>12, <2>1, <2>2, ViewSame, PanelKept
<1>14. CASE R!OtherStorage
  <2>1. lists' = lists /\ sent' = sent /\ rev' = rev + 1 /\ view' = R!Emitted
    BY <1>14 DEF R!OtherStorage, R!Other
  <2>2. route = "shares" => view' = view
    BY <2>1 DEF R!Emitted, R!Here
  <2>3. QED
    BY <1>1, <1>12, <2>1, <2>2, PanelKept
<1>15. ASSUME \/ R!LoseEvent \/ R!OnStatus \/ R!OpenModal \/ R!CloseModal \/ R!DoneCreated \/ R!OnRaidOk
              \/ R!ProgressEnds \/ R!HandleExpand \/ R!HandleMarkFailed \/ R!HandleRebuild
       PROVE  PanelAgrees'
  BY <1>2, <1>15 DEF R!LoseEvent, R!OnStatus, R!OpenModal, R!CloseModal, R!DoneCreated, R!OnRaidOk,
                     R!ProgressEnds, R!HandleExpand, R!HandleMarkFailed, R!HandleRebuild, R!Here
<1>16. QED
  BY <1>4, <1>5, <1>7, <1>8, <1>10, <1>11, <1>13, <1>14, <1>15 DEF R!RaidNext

-----------------------------------------------------------------------------
(* The page of the shares                                                  *)

\* What a form is written as is a row.
LEMMA FormIsRow ==
  ASSUME NEW id, NEW form \in S!Forms(id), NEW on \in BOOLEAN, NEW at \in Nat
  PROVE  LET row == S!ToAPI(id, form, on, at) IN
         S!IsRow(id, row) /\ row.at = at /\ row.config = form /\ row.on = on
<1>1. PICK row : row = S!ToAPI(id, form, on, at)
  OBVIOUS
<1>2. CASE id \in Smb
  <2>1. row = [on |-> on, ro |-> form.dflt = "ro",
               who |-> IF form.guest THEN {} ELSE {u \in Members : form.users[u] = "some"},
               config |-> form, at |-> at, is |-> TRUE]
    BY <1>1, <1>2 DEF S!ToAPI, S!MapCIFSToAPI, S!Row
  <2>2. row.who \in SUBSET Members
    BY <2>1
  <2>3. /\ row \in [on: BOOLEAN, ro: BOOLEAN, who: SUBSET Members,
                    config: S!Forms(id) \cup {None}, at: Nat, is: BOOLEAN]
        /\ row.at = at /\ row.config = form /\ row.on = on
    BY <2>1, <2>2
  <2>4. QED
    BY <1>1, <1>2, <2>3 DEF S!IsRow
<1>3. CASE id \notin Smb
  <2>1. row = [on |-> on, ro |-> \A r \in form.rules : r.perm = "ro",
               who |-> {r.client : r \in form.rules} \ {Blank},
               config |-> form, at |-> at, is |-> TRUE]
    BY <1>1, <1>3 DEF S!ToAPI, S!MapNFSToAPI, S!Row
  <2>2. row.who \in SUBSET Clients
    <3>1. form.rules \subseteq S!Rules
      BY <1>3 DEF S!Forms, S!NfsForms
    <3>2. \A r \in form.rules : r.client \in Clients \cup {Blank}
      BY <3>1 DEF S!Rules
    <3>3. row.who = {r.client : r \in form.rules} \ {Blank}
      BY <2>1
    <3>4. QED
      BY <3>2, <3>3
  <2>3. /\ row \in [on: BOOLEAN, ro: BOOLEAN, who: SUBSET Clients,
                    config: S!Forms(id) \cup {None}, at: Nat, is: BOOLEAN]
        /\ row.at = at /\ row.config = form /\ row.on = on
    BY <2>1, <2>2
  <2>4. QED
    BY <1>1, <1>3, <2>3 DEF S!IsRow
<1>4. QED
  BY <1>1, <1>2, <1>3

\* A row that is deleted remembers when.
LEMMA GoneIsRow ==
  ASSUME NEW id, rev \in Nat
  PROVE  S!IsRow(id, S!Gone) /\ S!Gone.at = rev + 1
<1>1. S!Gone = [on |-> FALSE, ro |-> FALSE, who |-> {}, config |-> None, at |-> rev + 1, is |-> FALSE]
  <2>1. PICK at : at = rev + 1
    OBVIOUS
  <2>2. S!Gone = [S!NoRow EXCEPT !.at = at]
    BY <2>1 DEF S!Gone
  <2>3. S!Gone = [on |-> FALSE, ro |-> FALSE, who |-> {}, config |-> None, at |-> at, is |-> FALSE]
    BY <2>2 DEF S!NoRow
  <2>4. QED
    BY <2>1, <2>3
<1> DEFINE names == IF id \in Smb THEN Members ELSE Clients
           forms == S!Forms(id) \cup {None}
<1>2. {} \in SUBSET names /\ None \in forms /\ rev + 1 \in Nat
  OBVIOUS
<1>3. S!Gone \in [on: BOOLEAN, ro: BOOLEAN, who: SUBSET names, config: forms, at: Nat, is: BOOLEAN]
  <2> HIDE DEF names, forms
  <2>1. QED
    BY <1>1, <1>2
<1>4. S!Gone.config = None /\ S!Gone.at = rev + 1
  BY <1>1
<1>5. QED
  BY <1>3, <1>4 DEF S!IsRow

\* A change of one share leaves the other tables alone.
LEMMA RowMoves ==
  ASSUME IInv, UNCHANGED <<volume, accounts>>, rev' = rev + 1,
         NEW id \in S!Ids, NEW row, S!IsRow(id, row), row.at = rev + 1,
         shares' = [shares EXCEPT ![id] = row]
  PROVE  MoveTables
<1>1. /\ volume' = volume /\ accounts' = accounts /\ rev \in Nat
      /\ TablesOK
  BY DEF IInv, Counters
<1>2. /\ DOMAIN shares' = S!Ids
      /\ \A x \in S!Ids : shares'[x] = IF x = id THEN row ELSE shares[x]
  BY <1>1 DEF TablesOK
<1>3. \A x \in S!Ids : shares[x].at \in Nat /\ shares[x].at <= rev
  BY <1>1 DEF TablesOK, S!IsRow
<1>4. ASSUME NEW x \in S!Ids PROVE S!IsRow(x, shares'[x]) /\ shares'[x].at <= rev'
  <2>1. CASE x = id
    BY <1>1, <1>2, <2>1
  <2>2. CASE x # id
    BY <1>1, <1>2, <1>3, <2>2 DEF TablesOK
  <2>3. QED
    BY <2>1, <2>2
<1>5. TablesOK'
  <2>1. \A x \in S!Ids : S!IsRow(x, shares[x])'
    BY <1>4
  <2>2. QED
    BY <1>1, <1>2, <1>4, <2>1 DEF TablesOK
<1>6. QED
  BY <1>1, <1>2, <1>5 DEF MoveTables

\* The steps of the page that change no table.
SharesQuiet ==
  \/ S!ServeShares \/ S!ShowShares \/ S!FailShares \/ S!Retry
  \/ S!OpenShare \/ S!OpenPanel \/ S!PanelEdit \/ S!CloseShare
  \/ S!HandleSave \/ S!HandleToggle \/ S!PanelToggle \/ S!HandleDelete
  \/ S!OnShareOk \/ S!OnShareError

\* What the steps of the page of the shares do to the tables.
LEMMA SharesTables ==
  ASSUME IInv, S!SharesNext, UNCHANGED <<volume, accounts>>
  PROVE  /\ SharesQuiet => KeepTables
         /\ KeepTables \/ MoveTables
         /\ route' = route
<1>1. ASSUME S!ServeShares \/ S!ShowShares \/ S!FailShares \/ S!Retry \/ S!OpenShare \/ S!OpenPanel
      PROVE  KeepTables /\ route' = route
  BY <1>1 DEF S!ServeShares, S!ShowShares, S!FailShares, S!Retry, S!OpenShare, S!OpenPanel, S!Rest,
              S!Alone, S!Quiet, KeepTables, tables
<1>2. ASSUME S!PanelEdit \/ S!CloseShare \/ S!OnShareOk \/ S!OnShareError
      PROVE  KeepTables /\ route' = route
  BY <1>2 DEF S!PanelEdit, S!CloseShare, S!OnShareOk, S!OnShareError, S!Alone, S!Quiet, KeepTables,
              tables
<1>3. ASSUME S!HandleSave \/ S!HandleToggle \/ S!PanelToggle \/ S!HandleDelete
      PROVE  KeepTables /\ route' = route
  BY <1>3 DEF S!HandleSave, S!HandleToggle, S!PanelToggle, S!HandleDelete, S!Toggle, S!Send, S!Quiet,
              KeepTables, tables
<1>4. ASSUME NEW id \in S!Ids, NEW form \in S!Forms(id), NEW on \in BOOLEAN, rev' = rev + 1,
             shares' = [shares EXCEPT ![id] = S!ToAPI(id, form, on, rev + 1)]
      PROVE  MoveTables
  <2>1. PICK row : row = S!ToAPI(id, form, on, rev + 1)
    OBVIOUS
  <2>2. rev + 1 \in Nat
    BY DEF IInv, Counters
  <2>3. S!IsRow(id, row) /\ row.at = rev + 1
    BY <2>1, <2>2, FormIsRow
  <2>4. shares' = [shares EXCEPT ![id] = row]
    BY <1>4, <2>1
  <2>5. QED
    BY <1>4, <2>3, <2>4, RowMoves
<1>5. ASSUME NEW id \in S!Ids, rev' = rev + 1, shares' = [shares EXCEPT ![id] = S!Gone]
      PROVE  MoveTables
  <2>1. PICK row : row = S!Gone
    OBVIOUS
  <2>2. S!IsRow(id, row) /\ row.at = rev + 1
    BY <2>1, GoneIsRow DEF IInv, Counters
  <2>3. QED
    BY <1>5, <2>1, <2>2, RowMoves
<1>6. ASSUME S!ServeShareRequest PROVE (KeepTables \/ MoveTables) /\ route' = route
  <2>1. route' = route
    BY <1>6 DEF S!ServeShareRequest
  <2>2. sent.at = "server" => WellFormed(sent.kind, sent.what)
    BY DEF IInv, SentOK, Idle
  <2>3. PICK id : id = sent.what.id
    OBVIOUS
  <2>4. PICK form : form = sent.what.form
    OBVIOUS
  <2>5. CASE S!AtServer("createShare") /\ S!Write(id, S!ToAPI(id, form, form.on, rev + 1))
    <3>1. id \in S!Ids /\ form \in S!Forms(id)
      BY <2>2, <2>3, <2>4, <2>5 DEF S!AtServer, WellFormed
    <3>2. form.on \in BOOLEAN
      BY <3>1 DEF S!Forms, S!SmbForms, S!NfsForms
    <3>3. QED
      BY <1>4, <2>1, <2>5, <3>1, <3>2 DEF S!Write, S!Committed
  <2>6. CASE S!AtServer("updateShare") /\ S!Write(id, S!ToAPI(id, form, sent.what.on, rev + 1))
    <3>1. id \in S!Ids /\ form \in S!Forms(id) /\ sent.what.on \in BOOLEAN
      BY <2>2, <2>3, <2>4, <2>6 DEF S!AtServer, WellFormed
    <3>2. QED
      BY <1>4, <2>1, <2>6, <3>1 DEF S!Write, S!Committed
  <2>7. CASE S!AtServer("deleteShare") /\ S!Write(id, S!Gone)
    <3>1. id \in S!Ids
      BY <2>2, <2>3, <2>7 DEF S!AtServer, WellFormed
    <3>2. QED
      BY <1>5, <2>1, <2>7, <3>1 DEF S!Write, S!Committed
  <2>8. CASE S!Refused /\ UNCHANGED shares
    BY <2>1, <2>8 DEF S!Refused, KeepTables, tables
  <2>9. QED
    BY <1>6, <2>3, <2>4, <2>5, <2>6, <2>7, <2>8 DEF S!ServeShareRequest
<1>7. ASSUME S!OtherShares PROVE MoveTables /\ route' = route
  <2>1. rev' = rev + 1 /\ route' = route
    BY <1>7 DEF S!OtherShares, S!Other
  <2>2. PICK id \in S!Ids :
          \/ shares' = [shares EXCEPT ![id] = S!Gone]
          \/ shares' = [shares EXCEPT ![id] =
               S!ToAPI(id, S!MapShareFromAPI(id, shares[id]), ~S!MapShareFromAPI(id, shares[id]).on, rev + 1)]
    BY <1>7 DEF S!OtherShares, S!Present
  <2>3. S!IsRow(id, shares[id])
    BY DEF IInv, TablesOK
  <2>4. S!MapShareFromAPI(id, shares[id]) \in S!Forms(id)
    BY <2>3, RowIsForm
  <2>5. QED
    BY <1>4, <1>5, <2>1, <2>2, <2>4
<1>8. QED
  BY <1>1, <1>2, <1>3, <1>6, <1>7 DEF S!SharesNext, SharesQuiet

\* The frame is the same here.
LEMMA SharesFrame ==
  /\ S!Load => Load
  /\ \A n, rows, whole : S!ServeList(n, rows, whole) => ServeList(n, rows, whole)
  /\ \A n : S!ShowAnswer(n) => ShowAnswer(n)
  /\ \A n, instead : S!FailList(n, instead) => FailList(n, instead)
BY DEF Load, CanLoad, CanAsk, Loaded, Ask, ServeList, ShowAnswer, FailList,
       S!Load, S!CanLoad, S!CanAsk, S!Loaded, S!Ask, S!ServeList, S!ShowAnswer, S!FailList, RemoveAt,
       S!RemoveAt

\* What they do to the lists.
LEMMA SharesLists ==
  ASSUME IInv, S!SharesNext, UNCHANGED <<volume, accounts>>
  PROVE  ListsOK'
<1>1. /\ KeepTables \/ MoveTables
      /\ SharesQuiet => KeepTables
      /\ route' = route
  BY SharesTables
<1>2. route = "shares" => ListsOf(route) = {"shares"} /\ StaysEdited
  BY DEF ListsOf, StaysEdited
<1>3. CASE \/ S!OpenShare \/ S!OpenPanel \/ S!PanelEdit \/ S!CloseShare
           \/ S!HandleSave \/ S!HandleToggle \/ S!PanelToggle \/ S!HandleDelete \/ S!OnShareError
  <2>1. route = "shares" /\ lists' = lists /\ told' = told
    BY <1>3 DEF S!OpenShare, S!OpenPanel, S!PanelEdit, S!CloseShare, S!HandleSave, S!HandleToggle,
                S!PanelToggle, S!HandleDelete, S!OnShareError, S!Here, S!Uncovered, S!Usable, S!Quiet,
                S!Alone
  <2>2. QED
    BY <1>1, <1>2, <2>1, ListsSame
<1>4. CASE S!Retry \/ S!OnShareOk
  <2>1. route = "shares" /\ told' = rev /\ Load /\ KeepTables
    BY <1>1, <1>4, SharesFrame DEF S!Retry, S!OnShareOk, S!Here, S!Uncovered, S!Usable, S!Rest,
                                   SharesQuiet
  <2>2. QED
    BY <1>1, <1>2, <2>1, ListsLoad
<1>5. CASE S!ServeShares
  <2>1. route = "shares" /\ told' = told /\ KeepTables
    BY <1>1, <1>5 DEF S!ServeShares, S!Here, S!Rest, SharesQuiet
  <2>2. ServeList("shares", ShareRows, TRUE)
    BY <1>5, SharesFrame DEF S!ServeShares, ShareRows
  <2>3. [rev |-> rev, rows |-> ShareRows, whole |-> TRUE] \in Valid("shares")
    BY TruthIsValid DEF Truth, IInv, Counters, ListNames
  <2>4. QED
    BY <1>1, <1>2, <2>1, <2>2, <2>3, ListsServe
<1>6. CASE S!ShowShares
  <2>1. route = "shares" /\ told' = told /\ KeepTables /\ ShowAnswer("shares")
    BY <1>1, <1>6, SharesFrame DEF S!ShowShares, S!Here, S!Rest, SharesQuiet
  <2>2. QED
    BY <1>1, <1>2, <2>1, ListsShow
<1>7. CASE S!FailShares
  <2>1. route = "shares" /\ told' = told /\ KeepTables /\ FailList("shares", lists["shares"].shown)
    BY <1>1, <1>7, SharesFrame DEF S!FailShares, S!Here, S!Rest, SharesQuiet
  <2>2. lists["shares"].shown \in Plausible("shares") \cup {None}
    BY <1>2, <2>1 DEF IInv, ListsOK, ListOK, ListsOver
  <2>3. QED
    BY <1>1, <1>2, <2>1, <2>2, ListsFail
<1>8. CASE S!ServeShareRequest \/ S!OtherShares
  <2>1. lists' = lists /\ told' = told /\ view' = view
    BY <1>8 DEF S!ServeShareRequest, S!OtherShares, S!Other
  <2>2. StaysEdited
    BY <2>1 DEF StaysEdited
  <2>3. QED
    BY <1>1, <2>1, <2>2, ListsSame
<1>9. QED
  BY <1>3, <1>4, <1>5, <1>6, <1>7, <1>8 DEF S!SharesNext

\* Each form of a share that the page shows is a form of its row, unless the
\* row has changed since.
LEMMA ShownShares ==
  ASSUME IInv, route = "shares", NEW id \in S!ShownIds
  PROVE  /\ id \in S!Ids /\ S!Shown[id] \in S!Forms(id)
         /\ lists["shares"].shown.rev \in 0..rev
         /\ FormHolds(id, S!Shown[id], lists["shares"].shown.rev)
         /\ CopyOK(S!Copy(id))
<1>1. ListOK("shares") /\ id \in S!Ids /\ S!Shown[id] # None /\ rev \in Nat
  BY DEF IInv, ListsOK, ListsOf, S!ShownIds, Counters
<1>2. PICK a : a = lists["shares"].shown
  OBVIOUS
<1>3. a # None
  BY <1>1, <1>2 DEF S!Shown, S!Rows, S!NoShares
<1>4. a \in Valid("shares")
  BY <1>1, <1>2, <1>3 DEF ListOK, Unaltered, R!raidLists
<1>5. S!Shown = a.rows
  BY <1>2, <1>3 DEF S!Shown, S!Rows
<1>6. /\ S!Shown[id] \in S!Forms(id)
      /\ a.rev \in 0..rev
      /\ FormHolds(id, S!Shown[id], a.rev)
  BY <1>1, <1>4, <1>5 DEF Valid, Answers
<1>7. CopyOK(S!Copy(id))
  BY <1>1, <1>2, <1>6 DEF CopyOK, S!Copy
<1>8. QED
  BY <1>1, <1>2, <1>6, <1>7

\* A form is no null, has a state, and a new one is a form.
LEMMA FormsAreForms ==
  ASSUME NEW id
  PROVE  /\ \A form \in S!Forms(id) : form # None /\ form.on \in BOOLEAN
         /\ S!NewForm(id) \in S!Forms(id)
<1>1. ASSUME NEW form \in S!Forms(id) PROVE form # None /\ form.on \in BOOLEAN
  BY ConsoleAssumption DEF S!Forms, S!SmbForms, S!NfsForms
<1>2. CASE id \in Smb
  BY <1>1, <1>2 DEF S!NewForm, S!Forms, S!SmbForms, S!Perms, S!Access
<1>3. CASE id \notin Smb
  <2>1. [client |-> Blank, perm |-> "rw"] \in S!Rules
    BY DEF S!Rules, S!Perms
  <2>2. {[client |-> Blank, perm |-> "rw"]} \in (SUBSET S!Rules) \ {{}}
    BY <2>1
  <2>3. QED
    BY <1>1, <1>3, <2>2 DEF S!NewForm, S!Forms, S!NfsForms
<1>4. QED
  BY <1>1, <1>2, <1>3

\* A form is edited into a form, in the same state.
LEMMA EditsAreForms ==
  ASSUME NEW id, NEW form \in S!Forms(id), NEW e \in S!Edits(id, form)
  PROVE  e.form \in S!Forms(id) /\ e.form.on = form.on
<1>1. CASE id \in Smb
  <2>1. form \in [on: BOOLEAN, dflt: S!Perms, users: [Members -> S!Access], guest: BOOLEAN]
    BY <1>1 DEF S!Forms, S!SmbForms
  <2>2. \/ \E p \in S!Perms : e = [form |-> [form EXCEPT !.dflt = p], part |-> "mode"]
        \/ \E u \in Members, x \in S!Access :
             e = [form |-> [form EXCEPT !.users[u] = x], part |-> "who"]
        \/ e = [form |-> [form EXCEPT !.guest = ~@], part |-> "who"]
    BY <1>1 DEF S!Edits, S!SmbEdits
  <2>3. ASSUME NEW p \in S!Perms, e = [form |-> [form EXCEPT !.dflt = p], part |-> "mode"]
        PROVE  e.form \in S!SmbForms /\ e.form.on = form.on
    BY <2>1, <2>3 DEF S!SmbForms
  <2>4. ASSUME NEW u \in Members, NEW x \in S!Access,
               e = [form |-> [form EXCEPT !.users[u] = x], part |-> "who"]
        PROVE  e.form \in S!SmbForms /\ e.form.on = form.on
    BY <2>1, <2>4 DEF S!SmbForms
  <2>5. ASSUME e = [form |-> [form EXCEPT !.guest = ~@], part |-> "who"]
        PROVE  e.form \in S!SmbForms /\ e.form.on = form.on
    BY <2>1, <2>5 DEF S!SmbForms
  <2>6. QED
    BY <1>1, <2>2, <2>3, <2>4, <2>5 DEF S!Forms
<1>2. CASE id \notin Smb
  <2>1. /\ form = [on |-> form.on, rules |-> form.rules] /\ form.on \in BOOLEAN
        /\ form.rules \in SUBSET S!Rules /\ form.rules # {}
    BY <1>2 DEF S!Forms, S!NfsForms
  <2>2. PICK rules : /\ e.form = [form EXCEPT !.rules = rules]
                     /\ \/ \E r \in S!Rules : rules = form.rules \cup {r}
                        \/ \E r \in form.rules : rules = form.rules \ {r} /\ S!Cardinality(form.rules) > 1
    <3> DEFINE removable == IF S!Cardinality(form.rules) > 1 THEN form.rules ELSE {}
    <3>1. \/ e \in {[form |-> [form EXCEPT !.rules = @ \cup {r}], part |-> S!Host(r)] : r \in S!Rules}
          \/ e \in {[form |-> [form EXCEPT !.rules = @ \ {r}], part |-> S!Host(r)] : r \in removable}
      BY <1>2 DEF S!Edits, S!NfsEdits
    <3>2. ASSUME NEW r \in S!Rules, e = [form |-> [form EXCEPT !.rules = @ \cup {r}], part |-> S!Host(r)]
          PROVE  e.form = [form EXCEPT !.rules = form.rules \cup {r}]
      BY <3>2
    <3>3. ASSUME NEW r \in removable, e = [form |-> [form EXCEPT !.rules = @ \ {r}], part |-> S!Host(r)]
          PROVE  /\ e.form = [form EXCEPT !.rules = form.rules \ {r}]
                 /\ r \in form.rules /\ S!Cardinality(form.rules) > 1
      BY <3>3
    <3> HIDE DEF removable
    <3>4. QED
      BY <3>1, <3>2, <3>3
  <2>3. rules \in SUBSET S!Rules
    BY <2>1, <2>2
  <2>4. rules # {}
    <3>1. ASSUME NEW r \in form.rules, form.rules \ {r} = {}, S!Cardinality(form.rules) > 1 PROVE FALSE
      <4>1. form.rules = {r}
        BY <3>1
      <4>2. Cardinality({r}) = 1
        BY FS_Singleton
      <4>3. QED
        BY <3>1, <4>1, <4>2, SameCardinality
    <3>2. QED
      BY <2>2, <3>1
  <2>5. e.form = [on |-> form.on, rules |-> rules]
    BY <2>1, <2>2
  <2>6. QED
    BY <1>2, <2>1, <2>3, <2>4, <2>5 DEF S!Forms, S!NfsForms
<1>3. QED
  BY <1>1, <1>2

\* The copy that an edit or a toggle begins from is worth what it claims.
LEMMA SaveIsBacked ==
  ASSUME IInv, NEW id \in S!Ids, NEW form \in S!Forms(id), NEW basis \in 0..rev,
         FormHolds(id, form, basis), NEW what, what.id = id, what.basis = basis,
         \/ what.part = "on" /\ what.form = form
         \/ what.on = form.on /\ \E e \in S!Edits(id, form) : e.form = what.form /\ e.part = what.part,
         what.says # None /\ what.says.calm => what.on = what.says.on
  PROVE  Backed("updateShare", what)
<1>1. form # None
  BY FormsAreForms
<1>2. ASSUME shares[id].is, shares[id].at <= basis
      PROVE  OneChange(id, what.form, what.on, what.part)
  <2>1. form = S!MapShareFromAPI(id, shares[id])
    BY <1>1, <1>2 DEF FormHolds
  <2>2. QED
    BY <2>1 DEF OneChange
<1>3. QED
  BY <1>2 DEF Backed, Destroying

\* A toggle begins from what the list shows.
LEMMA ToggleIsBacked ==
  ASSUME IInv, route = "shares", NEW id, NEW says, S!Toggle(id, says),
         says.calm => says.on = ~S!Shown[id].on
  PROVE  \E what : /\ S!Send("updateShare", what)
                   /\ WellFormed("updateShare", what) /\ Backed("updateShare", what)
<1>1. id \in S!ShownIds
  BY DEF S!Toggle
<1>2. /\ id \in S!Ids /\ S!Shown[id] \in S!Forms(id) /\ S!Shown[id].on \in BOOLEAN
      /\ lists["shares"].shown.rev \in 0..rev
      /\ FormHolds(id, S!Shown[id], lists["shares"].shown.rev)
  BY <1>1, ShownShares, FormsAreForms
<1>3. PICK what : what = [id |-> id, form |-> S!Shown[id], on |-> ~S!Shown[id].on, part |-> "on",
                          basis |-> lists["shares"].shown.rev, says |-> says]
  OBVIOUS
<1>4. S!Send("updateShare", what)
  BY <1>3 DEF S!Toggle
<1>5. WellFormed("updateShare", what)
  BY <1>2, <1>3 DEF WellFormed
<1>6. what.id = id /\ what.basis = lists["shares"].shown.rev /\ what.part = "on" /\ what.form = S!Shown[id]
  BY <1>3
<1>7. what.says # None /\ what.says.calm => what.on = what.says.on
  BY <1>2, <1>3
<1>8. Backed("updateShare", what)
  BY <1>2, <1>6, <1>7, SaveIsBacked
<1>9. QED
  BY <1>4, <1>5, <1>8

\* What the steps of the page of the shares do to the request.
LEMMA SharesSent ==
  ASSUME IInv, S!SharesNext, UNCHANGED <<volume, accounts>>
  PROVE  SentOK'
<1>1. /\ KeepTables \/ MoveTables
      /\ SharesQuiet => KeepTables
      /\ route = "shares" => SharesViewOK
  BY SharesTables DEF IInv, ViewOK
<1>2. CASE \/ S!ServeShares \/ S!ShowShares \/ S!FailShares \/ S!Retry
           \/ S!OpenShare \/ S!OpenPanel \/ S!PanelEdit \/ S!CloseShare \/ S!OtherShares
  <2>1. sent' = sent
    BY <1>2 DEF S!ServeShares, S!ShowShares, S!FailShares, S!Retry, S!OpenShare, S!OpenPanel,
                S!PanelEdit,
                S!CloseShare, S!OtherShares, S!Other, S!Rest, S!Alone
  <2>2. QED
    BY <1>1, <2>1, SentSame
<1>3. CASE S!ServeShareRequest
  <2>1. sent.at = "server" /\ \E answer \in {"ok", "error"} : sent' = [sent EXCEPT !.at = answer]
    BY <1>3 DEF S!ServeShareRequest, S!Write, S!Committed, S!Refused, S!AtServer
  <2>2. QED
    BY <2>1, SentAnswered
<1>4. CASE S!OnShareOk \/ S!OnShareError
  BY <1>4 DEF S!OnShareOk, S!OnShareError, S!Answered, S!Idle, Idle, SentOK
<1>5. ASSUME NEW kind, NEW what, S!Send(kind, what), WellFormed(kind, what), Backed(kind, what), KeepTables
      PROVE  SentOK'
  BY <1>5, SentNew DEF S!Send
<1>6. CASE S!HandleSave
  <2>1. SharesViewOK /\ KeepTables /\ route = "shares"
    BY <1>1, <1>6 DEF S!HandleSave, S!Usable, S!Here, SharesQuiet
  <2>2. CASE /\ view.modal.type = "create"
             /\ S!Send("createShare", [id |-> view.modal.id, form |-> S!NewForm(view.modal.id)])
    <3>1. PICK what : what = [id |-> view.modal.id, form |-> S!NewForm(view.modal.id)]
      OBVIOUS
    <3>2. what.id \in S!Ids /\ what.form \in S!Forms(what.id)
      BY <2>1, <2>2, <3>1, FormsAreForms DEF SharesViewOK
    <3>3. WellFormed("createShare", what) /\ Backed("createShare", what)
      BY <3>2 DEF WellFormed, Backed, Destroying
    <3>4. QED
      BY <1>5, <2>1, <2>2, <3>1, <3>3
  <2>3. CASE /\ view.modal.type = "edit"
             /\ \E e \in S!Edits(view.modal.copy.id, view.modal.copy.form) :
                  S!Send("updateShare",
                    [id |-> view.modal.copy.id, form |-> e.form, on |-> view.modal.copy.form.on,
                     part |-> e.part, basis |-> view.modal.copy.basis, says |-> None])
    <3>1. PICK c : c = view.modal.copy
      OBVIOUS
    <3>2. CopyOK(c)
      BY <2>1, <2>3, <3>1 DEF SharesViewOK
    <3>3. PICK e \in S!Edits(c.id, c.form) :
            S!Send("updateShare", [id |-> c.id, form |-> e.form, on |-> c.form.on,
                                   part |-> e.part, basis |-> c.basis, says |-> None])
      BY <2>3, <3>1
    <3>4. PICK what : what = [id |-> c.id, form |-> e.form, on |-> c.form.on,
                              part |-> e.part, basis |-> c.basis, says |-> None]
      OBVIOUS
    <3>5. /\ c.id \in S!Ids /\ c.form \in S!Forms(c.id) /\ c.form.on \in BOOLEAN
          /\ e.form \in S!Forms(c.id) /\ c.basis \in 0..rev /\ FormHolds(c.id, c.form, c.basis)
      BY <3>2, EditsAreForms, FormsAreForms DEF CopyOK
    <3>6. WellFormed("updateShare", what)
      BY <3>4, <3>5 DEF WellFormed
    <3>7. /\ what.id = c.id /\ what.basis = c.basis /\ what.on = c.form.on /\ what.says = None
          /\ e.form = what.form /\ e.part = what.part
      BY <3>4
    <3>8. Backed("updateShare", what)
      BY <3>5, <3>7, SaveIsBacked
    <3>9. QED
      BY <1>5, <2>1, <3>3, <3>4, <3>6, <3>8
  <2>4. QED
    BY <1>6, <2>2, <2>3 DEF S!HandleSave
<1>7. CASE S!HandleToggle
  <2>1. KeepTables /\ route = "shares"
    BY <1>1, <1>7 DEF S!HandleToggle, S!Uncovered, S!Usable, S!Here, SharesQuiet
  <2>2. PICK id : S!Toggle(id, [on |-> ~S!Shown[id].on, calm |-> TRUE])
    BY <1>7 DEF S!HandleToggle
  <2>3. PICK says : says = [on |-> ~S!Shown[id].on, calm |-> TRUE]
    OBVIOUS
  <2>4. S!Toggle(id, says) /\ says.on = ~S!Shown[id].on
    BY <2>2, <2>3
  <2>5. QED
    BY <1>5, <2>1, <2>4, ToggleIsBacked
<1>8. CASE S!PanelToggle
  <2>1. KeepTables /\ route = "shares" /\ view.panel # None
    BY <1>1, <1>8 DEF S!PanelToggle, S!Usable, S!Here, SharesQuiet
  <2>2. PICK p : p = view.panel
    OBVIOUS
  <2>3. CASE sent' = sent
    BY <1>1, <2>3, SentSame
  <2>4. CASE S!Toggle(p.copy.id, [on |-> ~p.copy.form.on, calm |-> p.calm])
    <3>1. p.calm => S!Shown[p.copy.id] = p.copy.form
      BY <2>1, <2>2 DEF IInv, PanelAgrees
    <3>2. PICK says : says = [on |-> ~p.copy.form.on, calm |-> p.calm]
      OBVIOUS
    <3>3. S!Toggle(p.copy.id, says) /\ (says.calm => says.on = ~S!Shown[p.copy.id].on)
      BY <2>4, <3>1, <3>2
    <3>4. QED
      BY <1>5, <2>1, <3>3, ToggleIsBacked
  <2>5. QED
    BY <1>8, <2>2, <2>3, <2>4 DEF S!PanelToggle
<1>9. CASE S!HandleDelete
  <2>1. SharesViewOK /\ KeepTables /\ view.modal.type = "delete"
    BY <1>1, <1>9 DEF S!HandleDelete, S!Usable, S!Here, SharesQuiet
  <2>2. PICK what : what = [id |-> view.modal.copy.id]
    OBVIOUS
  <2>3. what.id \in S!Ids
    BY <2>1, <2>2 DEF SharesViewOK, CopyOK
  <2>4. WellFormed("deleteShare", what) /\ Backed("deleteShare", what)
    BY <2>3 DEF WellFormed, Backed, Destroying
  <2>5. QED
    BY <1>5, <1>9, <2>1, <2>2, <2>4 DEF S!HandleDelete
<1>10. QED
  BY <1>2, <1>3, <1>4, <1>6, <1>7, <1>8, <1>9 DEF S!SharesNext

\* A view of the page of the shares, put together.
LEMMA SharesViewIs ==
  ASSUME IInv, KeepTables, route = "shares", route' = route, NEW m, NEW p, NEW err, NEW loading,
         m.type = "create" => m.id \in S!Ids,
         m.type \in {"edit", "delete"} => CopyOK(m.copy),
         p # None => m.type = "none" /\ CopyOK(p.copy),
         view' = [modal |-> m, panel |-> p, err |-> err, loading |-> loading]
  PROVE  ViewOK'
<1>1. TablesOK /\ rev \in Nat
  BY DEF IInv, Counters
<1>2. view'.modal = m /\ view'.panel = p
  OBVIOUS
<1>3. m.type \in {"edit", "delete"} => CopyOK(m.copy)'
  BY <1>1, CopyOKOn
<1>4. p # None => CopyOK(p.copy)'
  BY <1>1, CopyOKOn
<1>5. SharesViewOK'
  BY <1>2, <1>3, <1>4 DEF SharesViewOK, S!Ids
<1>6. QED
  BY <1>5 DEF ViewOK

\* What they do to its view.
LEMMA SharesView ==
  ASSUME IInv, S!SharesNext, UNCHANGED <<volume, accounts>>
  PROVE  ViewOK' /\ PanelAgrees'
<1>1. /\ KeepTables \/ MoveTables
      /\ SharesQuiet => KeepTables
      /\ route' = route
  BY SharesTables
<1>2. ASSUME route = "shares"
      PROVE  /\ view = [modal |-> view.modal, panel |-> view.panel, err |-> view.err, loading |-> view.loading]
             /\ view.modal.type = "create" => view.modal.id \in S!Ids
             /\ view.modal.type \in {"edit", "delete"} => CopyOK(view.modal.copy)
             /\ view.panel # None => view.modal.type = "none" /\ CopyOK(view.panel.copy)
  BY <1>2 DEF IInv, ViewOK, SharesViewOK
\* The panel stays as it is, or closes.
<1>3. ASSUME route = "shares", view'.panel = None PROVE PanelAgrees'
  BY <1>3 DEF PanelAgrees
<1>4. ASSUME route = "shares", KeepTables, NEW err, NEW loading,
             view' = [view EXCEPT !.err = err, !.loading = loading]
      PROVE  ViewOK' /\ view'.panel = view.panel
  <2>1. view' = [modal |-> view.modal, panel |-> view.panel, err |-> err, loading |-> loading]
    BY <1>2, <1>4
  <2>2. ViewOK'
    BY <1>1, <1>2, <1>4, <2>1, SharesViewIs
  <2>3. QED
    BY <2>1, <2>2
\* A step that a calm panel does not allow.
<1>5. ASSUME route = "shares", view'.panel = view.panel, ~S!Calm PROVE PanelAgrees'
  BY <1>1, <1>5 DEF IInv, PanelAgrees
<1>6. CASE S!ServeShareRequest \/ S!OtherShares
  <2>1. view' = view /\ ((lists' = lists /\ sent' = sent) \/ sent.at # "idle")
    BY <1>6 DEF S!ServeShareRequest, S!OtherShares, S!Other, S!AtServer
  <2>2. QED
    BY <1>1, <2>1, ViewSame, PanelKept
<1>7. CASE S!OnShareError
  <2>1. route = "shares" /\ view' = view /\ sent.at # "idle"
    BY <1>7 DEF S!OnShareError, S!Here, S!Answered
  <2>2. QED
    BY <1>1, <2>1, ViewSame, PanelKept
<1>8. CASE S!ServeShares
  <2>1. route = "shares" /\ view' = view /\ ~S!Calm
    BY <1>8 DEF S!ServeShares, S!Here, S!Rest, S!ServeList, S!Calm, S!Settled, IInv, ListsOK, ListOK,
                ListsOver
  <2>2. QED
    BY <1>1, <1>5, <2>1, ViewSame
<1>9. CASE S!ShowShares
  <2>1. /\ route = "shares" /\ KeepTables /\ S!ShowAnswer("shares")
        /\ view' = [view EXCEPT !.err = FALSE, !.loading = FALSE]
    BY <1>1, <1>9 DEF S!ShowShares, S!Here, SharesQuiet
  <2>2. ~S!Calm
    <3>1. \E i : i \in DOMAIN lists["shares"].read
      BY <2>1 DEF S!ShowAnswer
    <3>2. lists["shares"].read # <<>>
      BY <3>1, EmptySeq, LenProperties
    <3>3. QED
      BY <3>2 DEF S!Calm, S!Settled
  <2>3. QED
    BY <1>4, <1>5, <2>1, <2>2
<1>10. CASE S!FailShares
  <2>1. /\ route = "shares" /\ KeepTables /\ lists["shares"].unread > 0
        /\ view' = [view EXCEPT !.err = TRUE, !.loading = FALSE]
    BY <1>1, <1>10 DEF S!FailShares, S!FailList, S!Here, SharesQuiet
  <2>2. ~S!Calm
    BY <2>1 DEF S!Calm, S!Settled
  <2>3. QED
    BY <1>4, <1>5, <2>1, <2>2
<1>11. CASE S!Retry
  <2>1. route = "shares" /\ KeepTables /\ view.panel = None /\ view' = [view EXCEPT !.loading = TRUE]
    BY <1>1, <1>11 DEF S!Retry, S!Uncovered, S!Usable, S!Here, SharesQuiet
  <2>2. view' = [view EXCEPT !.err = view.err, !.loading = TRUE]
    BY <1>2, <2>1
  <2>3. QED
    BY <1>3, <1>4, <2>1, <2>2
\* Another modal, or none, over the page.
<1>12. ASSUME route = "shares", KeepTables, NEW m, view' = [view EXCEPT !.modal = m], view.panel = None,
              m.type = "create" => m.id \in S!Ids,
              m.type \in {"edit", "delete"} => CopyOK(m.copy)
       PROVE  ViewOK' /\ PanelAgrees'
  <2>1. view' = [modal |-> m, panel |-> None, err |-> view.err, loading |-> view.loading]
    BY <1>2, <1>12
  <2>2. ViewOK'
    BY <1>1, <1>12, <2>1, SharesViewIs
  <2>3. QED
    BY <1>3, <1>12, <2>1, <2>2
<1>13. CASE S!OpenShare
  <2>1. route = "shares" /\ KeepTables /\ view.panel = None
    BY <1>1, <1>13 DEF S!OpenShare, S!Uncovered, S!Usable, S!Here, SharesQuiet
  <2>2. CASE \E id \in S!Unused : S!Open([type |-> "create", id |-> id])
    <3>1. PICK id \in S!Ids : view' = [view EXCEPT !.modal = [type |-> "create", id |-> id]]
      BY <2>2 DEF S!Open, S!Unused
    <3>2. QED
      BY <1>12, <2>1, <3>1
  <2>3. CASE \E id \in S!ShownIds, t \in {"edit", "delete"} : S!Open([type |-> t, copy |-> S!Copy(id)])
    <3>1. PICK id \in S!ShownIds, t \in {"edit", "delete"} :
            view' = [view EXCEPT !.modal = [type |-> t, copy |-> S!Copy(id)]]
      BY <2>3 DEF S!Open
    <3>2. CopyOK(S!Copy(id))
      BY <2>1, ShownShares
    <3>3. QED
      BY <1>12, <2>1, <3>1, <3>2
  <2>4. QED
    BY <1>13, <2>2, <2>3 DEF S!OpenShare
<1>14. CASE S!OpenPanel
  <2>1. route = "shares" /\ KeepTables /\ view.modal.type = "none" /\ lists' = lists /\ sent' = sent
    BY <1>1, <1>14 DEF S!OpenPanel, S!Uncovered, S!Usable, S!Here, SharesQuiet, S!Alone, S!Quiet
  <2>2. PICK id \in S!ShownIds : view' = [view EXCEPT !.panel = [copy |-> S!Copy(id), calm |-> S!Calm]]
    BY <1>14 DEF S!OpenPanel
  <2>3. PICK p : p = [copy |-> S!Copy(id), calm |-> S!Calm]
    OBVIOUS
  <2>4. CopyOK(p.copy) /\ p.copy = S!Copy(id) /\ p.calm = S!Calm
    BY <2>1, <2>3, ShownShares
  <2>5. view' = [modal |-> view.modal, panel |-> p, err |-> view.err, loading |-> view.loading]
    BY <1>2, <2>1, <2>2, <2>3
  <2>6. ViewOK'
    BY <1>1, <1>2, <2>1, <2>4, <2>5, SharesViewIs
  <2>7. S!Calm' = S!Calm /\ S!Shown' = S!Shown
    BY <2>1 DEF S!Calm, S!Shown
  <2>8. S!Shown[p.copy.id] = p.copy.form
    BY <2>4 DEF S!Copy
  <2>9. PanelAgrees'
    BY <2>4, <2>5, <2>7, <2>8 DEF PanelAgrees
  <2>10. QED
    BY <2>6, <2>9
\* The panel closes.
<1>15. ASSUME route = "shares", KeepTables, NEW m, view' = [view EXCEPT !.modal = m, !.panel = None],
              m.type \in {"edit", "none"}, m.type = "edit" => CopyOK(m.copy)
       PROVE  ViewOK' /\ PanelAgrees'
  <2>1. view' = [modal |-> m, panel |-> None, err |-> view.err, loading |-> view.loading]
    BY <1>2, <1>15
  <2>2. ViewOK'
    BY <1>1, <1>15, <2>1, SharesViewIs
  <2>3. QED
    BY <1>3, <1>15, <2>1, <2>2
<1>16. CASE S!PanelEdit
  <2>1. /\ route = "shares" /\ KeepTables /\ view.panel # None
        /\ view' = [view EXCEPT !.modal = [type |-> "edit", copy |-> view.panel.copy], !.panel = None]
    BY <1>1, <1>16 DEF S!PanelEdit, S!Usable, S!Here, SharesQuiet
  <2>2. PICK m : m = [type |-> "edit", copy |-> view.panel.copy]
    OBVIOUS
  <2>3. m.type = "edit" /\ CopyOK(m.copy) /\ view' = [view EXCEPT !.modal = m, !.panel = None]
    BY <1>2, <2>1, <2>2
  <2>4. QED
    BY <1>15, <2>1, <2>3
<1>17. CASE S!CloseShare
  <2>1. route = "shares" /\ KeepTables
    BY <1>1, <1>17 DEF S!CloseShare, S!Usable, S!Here, SharesQuiet
  <2>2. CASE view.modal.type # "none" /\ view' = [view EXCEPT !.modal = [type |-> "none"]]
    BY <1>2, <1>12, <2>1, <2>2
  <2>3. CASE view.modal.type = "none" /\ view' = [view EXCEPT !.panel = None]
    <3>1. view' = [view EXCEPT !.modal = view.modal, !.panel = None]
      BY <1>2, <2>1, <2>3
    <3>2. QED
      BY <1>15, <2>1, <2>3, <3>1
  <2>4. QED
    BY <1>17, <2>2, <2>3 DEF S!CloseShare, S!Open
<1>18. CASE S!HandleSave \/ S!HandleDelete
  <2>1. route = "shares" /\ KeepTables /\ view' = view /\ view.modal.type # "none"
    BY <1>1, <1>18 DEF S!HandleSave, S!HandleDelete, S!Usable, S!Here, S!Quiet, SharesQuiet
  <2>2. QED
    BY <1>1, <1>2, <1>3, <2>1, ViewSame
<1>19. CASE S!HandleToggle
  <2>1. route = "shares" /\ view' = view /\ view.panel = None
    BY <1>19 DEF S!HandleToggle, S!Uncovered, S!Usable, S!Here, S!Quiet
  <2>2. QED
    BY <1>1, <1>3, <2>1, ViewSame
<1>20. CASE S!PanelToggle
  <2>1. route = "shares" /\ KeepTables /\ view' = [view EXCEPT !.panel = None] /\ view.panel # None
    BY <1>1, <1>20 DEF S!PanelToggle, S!Usable, S!Here, S!Quiet, SharesQuiet
  <2>2. view' = [view EXCEPT !.modal = view.modal, !.panel = None] /\ view.modal.type = "none"
    BY <1>2, <2>1
  <2>3. QED
    BY <1>15, <2>1, <2>2
<1>21. CASE S!OnShareOk
  <2>1. /\ route = "shares" /\ KeepTables /\ ~S!Calm
        /\ \/ view' = [view EXCEPT !.loading = TRUE]
           \/ view' = [view EXCEPT !.loading = TRUE, !.modal = [type |-> "none"]]
    BY <1>1, <1>21 DEF S!OnShareOk, S!Here, S!Answered, S!Calm, SharesQuiet
  <2>2. CASE view' = [view EXCEPT !.loading = TRUE]
    <3>1. view' = [view EXCEPT !.err = view.err, !.loading = TRUE]
      BY <1>2, <2>1, <2>2
    <3>2. QED
      BY <1>4, <1>5, <2>1, <3>1
  <2>3. CASE view' = [view EXCEPT !.loading = TRUE, !.modal = [type |-> "none"]]
    <3>1. view' = [modal |-> [type |-> "none"], panel |-> view.panel, err |-> view.err, loading |-> TRUE]
      BY <1>2, <2>1, <2>3
    <3>2. ViewOK'
      BY <1>1, <1>2, <2>1, <3>1, SharesViewIs
    <3>3. QED
      BY <1>5, <2>1, <3>1, <3>2
  <2>4. QED
    BY <2>1, <2>2, <2>3
<1>22. QED
  BY <1>6, <1>7, <1>8, <1>9, <1>10, <1>11, <1>13, <1>14, <1>16, <1>17, <1>18, <1>19, <1>20, <1>21
     DEF S!SharesNext

-----------------------------------------------------------------------------
(* The page of the users                                                   *)

\* A change of one account leaves the other tables alone.
LEMMA AccountsMove ==
  ASSUME IInv, UNCHANGED <<volume, shares>>, rev' = rev + 1, NEW u \in Accounts, NEW state,
         \/ accounts[u] = "no" /\ state \in U!Roles
         \/ accounts[u] \in U!Roles /\ state = "gone"
         \/ state = accounts[u],
         accounts' = [accounts EXCEPT ![u] = state]
  PROVE  MoveTables
<1>1. /\ volume' = volume /\ shares' = shares /\ rev \in Nat
      /\ TablesOK
  BY DEF IInv, Counters
<1>2. accounts \in [Accounts -> U!States] /\ state \in U!States
  BY <1>1 DEF TablesOK, U!States, U!Roles
<1>3. accounts' \in [Accounts -> U!States]
  BY <1>2
<1>4. \A id \in S!Ids : S!IsRow(id, shares[id]) /\ shares[id].at \in Nat /\ shares[id].at <= rev
  BY <1>1 DEF TablesOK, S!IsRow
<1>5. TablesOK'
  <2>1. \A id \in S!Ids : S!IsRow(id, shares[id])'
    BY <1>1, <1>4
  <2>2. \A id \in S!Ids : shares'[id].at <= rev'
    BY <1>1, <1>4
  <2>3. QED
    BY <1>1, <1>3, <2>1, <2>2 DEF TablesOK
<1>6. ASSUME NEW x \in Accounts
      PROVE  \/ accounts'[x] = accounts[x]
             \/ accounts[x] = "no"
             \/ (accounts[x] \in U!Roles /\ accounts'[x] = "gone")
  BY <1>2
<1>7. QED
  BY <1>1, <1>5, <1>6 DEF MoveTables

\* So does its deletion.
LEMMA WithoutMoves ==
  ASSUME IInv, UNCHANGED <<volume, shares>>, rev' = rev + 1, NEW u \in Accounts, accounts' = U!Without(u)
  PROVE  MoveTables
<1>1. PICK state : state = IF accounts[u] \in U!Roles THEN "gone" ELSE accounts[u]
  OBVIOUS
<1>2. accounts' = [accounts EXCEPT ![u] = state]
  BY <1>1 DEF U!Without
<1>3. (accounts[u] \in U!Roles /\ state = "gone") \/ state = accounts[u]
  BY <1>1
<1>4. QED
  BY <1>2, <1>3, AccountsMove

\* The steps of the page that change no table.
UsersQuiet ==
  \/ U!ServeUsers \/ U!ShowUsers \/ U!FailUsers
  \/ U!OpenUser \/ U!CloseUser \/ U!ToggleLock \/ U!EditUser
  \/ U!SubmitUser \/ U!ConfirmDelete \/ U!OnUserOk \/ U!OnUserError

\* What the steps of the page of the users do to the tables.
LEMMA UsersTables ==
  ASSUME IInv, U!UsersNext, UNCHANGED <<volume, shares>>
  PROVE  /\ UsersQuiet => KeepTables
         /\ KeepTables \/ MoveTables
         /\ route' = route
<1>1. ASSUME \/ U!ServeUsers \/ U!ShowUsers \/ U!FailUsers
             \/ U!OpenUser \/ U!CloseUser \/ U!ToggleLock \/ U!EditUser
      PROVE  KeepTables /\ route' = route
  BY <1>1 DEF U!ServeUsers, U!ShowUsers, U!FailUsers, U!OpenUser, U!CloseUser, U!ToggleLock, U!EditUser,
              U!Rest, U!Alone, KeepTables, tables
<1>2. ASSUME U!SubmitUser \/ U!ConfirmDelete PROVE KeepTables /\ route' = route
  BY <1>2 DEF U!SubmitUser, U!ConfirmDelete, U!Send, U!Quiet, KeepTables, tables
<1>3. ASSUME U!OnUserOk \/ U!OnUserError PROVE KeepTables /\ route' = route
  BY <1>3 DEF U!OnUserOk, U!OnUserError, KeepTables, tables
<1>4. ASSUME U!ServeUserRequest PROVE (KeepTables \/ MoveTables) /\ route' = route
  <2>1. route' = route /\ (sent.at = "server" => WellFormed(sent.kind, sent.what))
    BY <1>4 DEF U!ServeUserRequest, IInv, SentOK, Idle
  <2>2. PICK u : u = sent.what.user
    OBVIOUS
  <2>3. CASE /\ U!AtServer("addUser") /\ accounts[u] = "no"
             /\ accounts' = [accounts EXCEPT ![u] = sent.what.role] /\ U!Committed("ok")
    <3>1. u \in Accounts /\ sent.what.role \in U!Roles /\ rev' = rev + 1
      BY <2>1, <2>2, <2>3 DEF U!AtServer, WellFormed, U!Committed
    <3>2. QED
      BY <2>1, <2>3, <3>1, AccountsMove
  <2>4. CASE accounts' = accounts /\ (U!Accepted \/ U!Refused)
    BY <2>1, <2>4 DEF U!Accepted, U!Refused, KeepTables, tables
  <2>5. CASE U!AtServer("deleteUser") /\ accounts' = U!Without(u) /\ U!Committed("ok")
    <3>1. u \in Accounts /\ rev' = rev + 1
      BY <2>1, <2>2, <2>5 DEF U!AtServer, WellFormed, U!Committed
    <3>2. QED
      BY <2>1, <2>5, <3>1, WithoutMoves
  <2>6. QED
    BY <1>4, <2>2, <2>3, <2>4, <2>5 DEF U!ServeUserRequest
<1>5. ASSUME U!OtherAccounts PROVE MoveTables /\ route' = route
  <2>1. rev' = rev + 1 /\ route' = route
    BY <1>5 DEF U!OtherAccounts, U!Other
  <2>2. PICK u \in Accounts :
          \/ accounts[u] = "no" /\ \E role \in U!Roles : accounts' = [accounts EXCEPT ![u] = role]
          \/ accounts' = U!Without(u)
    BY <1>5 DEF U!OtherAccounts
  <2>3. QED
    BY <2>1, <2>2, AccountsMove, WithoutMoves
<1>6. QED
  BY <1>1, <1>2, <1>3, <1>4, <1>5 DEF U!UsersNext, UsersQuiet

\* The frame is the same here.
LEMMA UsersFrame ==
  /\ U!Load => Load
  /\ \A n, rows, whole : U!ServeList(n, rows, whole) => ServeList(n, rows, whole)
  /\ \A n : U!ShowAnswer(n) => ShowAnswer(n)
  /\ \A n, instead : U!FailList(n, instead) => FailList(n, instead)
BY DEF Load, CanLoad, CanAsk, Loaded, Ask, ServeList, ShowAnswer, FailList,
       U!Load, U!CanLoad, U!CanAsk, U!Loaded, U!Ask, U!ServeList, U!ShowAnswer, U!FailList, RemoveAt,
       U!RemoveAt

\* An edit of the copy, of an account that the modal or the request names.
LEMMA EditIsOf ==
  ASSUME IInv, U!EditUser \/ (U!OnUserOk /\ sent.kind = "setPassword")
  PROVE  \E u \in Accounts, role \in U!Roles : U!DoEdit(u, role)
<1>1. CASE U!EditUser
  <2>1. view.modal.user \in Accounts
    BY <1>1 DEF U!EditUser, U!Here, IInv, ViewOK, UsersViewOK, UserModalOK
  <2>2. QED
    BY <1>1, <2>1 DEF U!EditUser
<1>2. CASE U!OnUserOk /\ sent.kind = "setPassword"
  <2>1. sent.what.user \in Accounts /\ sent.what.role \in U!Roles
    BY <1>2 DEF U!OnUserOk, U!Answered, IInv, SentOK, Idle, WellFormed
  <2>2. QED
    BY <1>2, <2>1 DEF U!OnUserOk
<1>3. QED
  BY <1>1, <1>2

\* What they do to the lists.
LEMMA UsersLists ==
  ASSUME IInv, U!UsersNext, UNCHANGED <<volume, shares>>
  PROVE  ListsOK'
<1>1. /\ KeepTables \/ MoveTables
      /\ UsersQuiet => KeepTables
      /\ route' = route
  BY UsersTables
<1>2. route = "users" => ListsOf(route) = {"users"} /\ UsersViewOK
  BY DEF ListsOf, IInv, ViewOK
<1>3. CASE \/ U!OpenUser \/ U!CloseUser \/ U!ToggleLock
           \/ U!SubmitUser \/ U!ConfirmDelete \/ U!OnUserError
  <2>1. route = "users" /\ lists' = lists /\ told' = told
    BY <1>3 DEF U!OpenUser, U!CloseUser, U!ToggleLock, U!SubmitUser, U!ConfirmDelete, U!OnUserError,
                U!Here, U!Alone, U!Quiet
  <2>2. \/ view' = view
        \/ \E m : view' = [view EXCEPT !.modal = m]
        \/ \E locked : view' = [view EXCEPT !.locked = locked]
    BY <1>3 DEF U!OpenUser, U!CloseUser, U!ToggleLock, U!SubmitUser, U!ConfirmDelete, U!OnUserError,
                U!Open, U!Quiet
  <2>3. StaysEdited
    BY <1>2, <2>1, <2>2 DEF StaysEdited, UsersViewOK
  <2>4. QED
    BY <1>1, <2>1, <2>3, ListsSame
<1>4. CASE U!EditUser \/ (U!OnUserOk /\ sent.kind = "setPassword")
  <2>1. route = "users" /\ told' = told /\ KeepTables
    BY <1>1, <1>4 DEF U!EditUser, U!OnUserOk, U!Here, U!Alone, UsersQuiet
  <2>2. QED
    BY <1>1, <1>4, <2>1, EditIsOf, ListsEdit
<1>5. CASE U!OnUserOk /\ sent.kind # "setPassword"
  <2>1. /\ route = "users" /\ told' = rev /\ Load /\ KeepTables
        /\ view' = [view EXCEPT !.modal = [type |-> "none"]]
    BY <1>1, <1>5, UsersFrame DEF U!OnUserOk, U!Here, UsersQuiet
  <2>2. StaysEdited
    BY <1>2, <2>1 DEF StaysEdited, UsersViewOK
  <2>3. QED
    BY <1>1, <2>1, <2>2, ListsLoad
<1>6. CASE U!ServeUsers
  <2>1. route = "users" /\ told' = told /\ KeepTables /\ view' = view /\ ServeList("users", accounts, TRUE)
    BY <1>1, <1>6, UsersFrame DEF U!ServeUsers, U!Here, U!Rest, UsersQuiet
  <2>2. /\ StaysEdited
        /\ [rev |-> rev, rows |-> accounts, whole |-> TRUE] \in Valid("users")
    BY <2>1, TruthIsValid DEF StaysEdited, Truth, IInv, Counters, ListNames
  <2>3. QED
    BY <1>1, <1>2, <2>1, <2>2, ListsServe
<1>7. CASE U!ShowUsers
  <2>1. route = "users" /\ told' = told /\ KeepTables /\ ShowAnswer("users")
    BY <1>1, <1>7, UsersFrame DEF U!ShowUsers, U!Here, U!Rest, UsersQuiet
  <2>2. QED
    BY <1>1, <1>2, <2>1, ListsShow
<1>8. CASE U!FailUsers
  <2>1. /\ route = "users" /\ told' = told /\ KeepTables /\ view' = view
        /\ FailList("users", lists["users"].shown)
    BY <1>1, <1>8, UsersFrame DEF U!FailUsers, U!Here, U!Rest, UsersQuiet
  <2>2. lists["users"].shown \in Plausible("users") \cup {None}
    BY <1>2, <2>1 DEF IInv, ListsOK, ListOK, ListsOver
  <2>3. StaysEdited
    BY <2>1 DEF StaysEdited
  <2>4. QED
    BY <1>1, <1>2, <2>1, <2>2, <2>3, ListsFail
<1>9. CASE U!ServeUserRequest \/ U!OtherAccounts
  <2>1. lists' = lists /\ told' = told /\ view' = view
    BY <1>9 DEF U!ServeUserRequest, U!OtherAccounts, U!Other
  <2>2. StaysEdited
    BY <2>1 DEF StaysEdited
  <2>3. QED
    BY <1>1, <2>1, <2>2, ListsSame
<1>10. QED
  BY <1>3, <1>4, <1>5, <1>6, <1>7, <1>8, <1>9 DEF U!UsersNext

\* A copy that was not altered is what the server said.
LEMMA ShownUsersHold ==
  ASSUME IInv, route = "users"
  PROVE  /\ U!Shown \in [Accounts -> U!States]
         /\ U!ReadAt \in Bases
         /\ ~view.edited => \A u \in Accounts : RoleHolds(u, U!Shown[u])
         /\ ~view.edited /\ U!ReadAt = rev => U!Shown = accounts
<1>1. ListOK("users") /\ rev \in Nat /\ None \notin Nat
  BY BoundsAssumption DEF IInv, ListsOK, ListsOf, Counters
<1>2. PICK a : a = lists["users"].shown
  OBVIOUS
<1>3. CASE a = None
  <2>1. U!Shown = [u \in Accounts |-> "no"] /\ U!ReadAt = None
    BY <1>2, <1>3 DEF U!Shown, U!Rows, U!Nobody, U!ReadAt
  <2>2. QED
    BY <1>1, <2>1 DEF U!States, RoleHolds, U!Roles, Bases
<1>4. CASE a # None
  <2>1. U!Shown = a.rows /\ U!ReadAt = a.rev
    BY <1>2, <1>4 DEF U!Shown, U!Rows, U!ReadAt
  <2>2. a.rows \in [Accounts -> U!States] /\ a.rev \in 0..rev
    <3>1. a \in Plausible("users")
      BY <1>1, <1>2, <1>4 DEF ListOK, ListsOver
    <3>2. QED
      BY <1>1, <3>1 DEF Plausible, Answers, RowsOf
  <2>3. ~view.edited => a \in Valid("users")
    BY <1>1, <1>2, <1>4 DEF ListOK, Unaltered, R!raidLists
  <2>4. ~view.edited => \A u \in Accounts : RoleHolds(u, U!Shown[u])
    BY <2>1, <2>3 DEF Valid
  <2>5. ~view.edited /\ U!ReadAt = rev => U!Shown = accounts
    BY <2>1, <2>3 DEF Valid, Truth, R!raidLists
  <2>6. QED
    BY <2>1, <2>2, <2>4, <2>5 DEF Bases
<1>5. QED
  BY <1>3, <1>4

\* The check of the modal is worth what its two halves are worth.
LEMMA DeleteIsBacked ==
  ASSUME IInv, route = "users", NEW m, UserModalOK(m), m.type = "delete",
         ~(m.role = "Admin" /\ U!AdminCount <= 1),
         NEW what, what.user = m.user, what.basis = U!ReadAt, what.edited = (view.edited \/ m.edited)
  PROVE  Backed("deleteUser", what)
<1>1. ASSUME ~what.edited, what.basis = rev, U!Admins(accounts) \subseteq {what.user}
      PROVE  U!Admins(accounts) = {}
  <2>1. U!Shown = accounts /\ ~m.edited
    BY <1>1, ShownUsersHold
  <2>2. CASE m.role # "Admin"
    <3>1. accounts[m.user] # "Admin"
      BY <2>1, <2>2 DEF UserModalOK, RoleHolds
    <3>2. QED
      BY <1>1, <3>1 DEF U!Admins
  <2>3. CASE ~(U!AdminCount <= 1)
    <3>1. SUFFICES ASSUME U!Admins(accounts) = {what.user} PROVE FALSE
      BY <1>1
    <3>2. U!AdminCount = 1
      BY <2>1, <3>1, FS_Singleton, SameCardinality DEF U!AdminCount
    <3>3. QED
      BY <2>3, <3>2
  <2>4. QED
    BY <2>2, <2>3
<1>2. what.basis \in Bases
  BY ShownUsersHold
<1>3. QED
  BY <1>1, <1>2 DEF Backed, Destroying, NotTheLast

\* What they do to the request.
LEMMA UsersSent ==
  ASSUME IInv, U!UsersNext, UNCHANGED <<volume, shares>>
  PROVE  SentOK'
<1>1. /\ KeepTables \/ MoveTables
      /\ UsersQuiet => KeepTables
      /\ route = "users" => UsersViewOK
  BY UsersTables DEF IInv, ViewOK
<1>2. CASE \/ U!ServeUsers \/ U!ShowUsers \/ U!FailUsers \/ U!OpenUser \/ U!CloseUser \/ U!ToggleLock
           \/ U!EditUser \/ U!OtherAccounts
  <2>1. sent' = sent
    BY <1>2 DEF U!ServeUsers, U!ShowUsers, U!FailUsers, U!OpenUser, U!CloseUser, U!ToggleLock,
                U!EditUser,
                U!OtherAccounts, U!Other, U!Rest, U!Alone
  <2>2. QED
    BY <1>1, <2>1, SentSame
<1>3. CASE U!ServeUserRequest
  <2>1. sent.at = "server" /\ \E answer \in {"ok", "error"} : sent' = [sent EXCEPT !.at = answer]
    BY <1>3 DEF U!ServeUserRequest, U!Committed, U!Accepted, U!Refused, U!AtServer
  <2>2. QED
    BY <2>1, SentAnswered
<1>4. CASE U!OnUserOk \/ U!OnUserError
  BY <1>4 DEF U!OnUserOk, U!OnUserError, U!Answered, U!Idle, Idle, SentOK
<1>5. ASSUME NEW kind, NEW what, U!Send(kind, what), WellFormed(kind, what), Backed(kind, what), KeepTables
      PROVE  SentOK'
  BY <1>5, SentNew DEF U!Send
<1>6. CASE U!SubmitUser
  <2>1. UsersViewOK /\ KeepTables
    BY <1>1, <1>6 DEF U!SubmitUser, U!Here, UsersQuiet
  <2>2. PICK kind \in {"addUser", "setPassword"}, u \in Accounts, role \in U!Roles :
          U!Send(kind, [user |-> u, role |-> role])
    <3>1. CASE \E u \in {x \in Accounts : U!Shown[x] = "no"}, role \in U!Roles :
                 U!Send("addUser", [user |-> u, role |-> role])
      BY <3>1
    <3>2. CASE /\ view.modal.type = "edit"
               /\ \E role \in U!Roles : U!Send("setPassword", [user |-> view.modal.user, role |-> role])
      <4>1. view.modal.user \in Accounts
        BY <2>1, <3>2 DEF UsersViewOK, UserModalOK
      <4>2. QED
        BY <3>2, <4>1
    <3>3. QED
      BY <1>6, <3>1, <3>2 DEF U!SubmitUser
  <2>3. PICK what : what = [user |-> u, role |-> role]
    OBVIOUS
  <2>4. WellFormed(kind, what) /\ Backed(kind, what)
    BY <2>3 DEF WellFormed, Backed, Destroying
  <2>5. QED
    BY <1>5, <2>1, <2>2, <2>3, <2>4
<1>7. CASE U!ConfirmDelete
  <2>1. PICK m : m = view.modal
    OBVIOUS
  <2>2. /\ route = "users" /\ UserModalOK(m) /\ m.type = "delete" /\ KeepTables
        /\ ~(m.role = "Admin" /\ U!AdminCount <= 1)
        /\ U!Send("deleteUser", [user |-> m.user, basis |-> U!ReadAt, edited |-> view.edited \/ m.edited])
    BY <1>1, <1>7, <2>1 DEF U!ConfirmDelete, U!Here, UsersViewOK, UsersQuiet
  <2>3. PICK what : what = [user |-> m.user, basis |-> U!ReadAt, edited |-> view.edited \/ m.edited]
    OBVIOUS
  <2>4. Backed("deleteUser", what)
    BY <2>2, <2>3, DeleteIsBacked
  <2>5. WellFormed("deleteUser", what)
    BY <2>2, <2>3 DEF WellFormed, UserModalOK
  <2>6. QED
    BY <1>5, <2>2, <2>3, <2>4, <2>5
<1>8. QED
  BY <1>2, <1>3, <1>4, <1>6, <1>7 DEF U!UsersNext

\* A view of the page of the users, put together.
LEMMA UsersViewIs ==
  ASSUME IInv, KeepTables, route = "users", route' = route, NEW m, UserModalOK(m),
         NEW locked \in SUBSET (Accounts \ {Root}), NEW edited \in BOOLEAN,
         view' = [modal |-> m, locked |-> locked, edited |-> edited]
  PROVE  ViewOK'
<1>1. UserModalOK(m)' /\ view'.modal = m
  BY UserModalOn
<1>2. UserModalOK(view.modal)'
  BY <1>1
<1>3. UsersViewOK'
  BY <1>2 DEF UsersViewOK
<1>4. QED
  BY <1>3 DEF ViewOK

\* What they do to the view.
LEMMA UsersView ==
  ASSUME IInv, U!UsersNext, UNCHANGED <<volume, shares>>
  PROVE  ViewOK' /\ PanelAgrees'
<1>1. /\ KeepTables \/ MoveTables
      /\ UsersQuiet => KeepTables
      /\ route' = route
  BY UsersTables
<1>2. ASSUME route = "users"
      PROVE  /\ view = [modal |-> view.modal, locked |-> view.locked, edited |-> view.edited]
             /\ view.locked \in SUBSET (Accounts \ {Root}) /\ view.edited \in BOOLEAN
             /\ UserModalOK(view.modal)
             /\ PanelAgrees'
  BY <1>1, <1>2 DEF IInv, ViewOK, UsersViewOK, PanelAgrees
<1>3. UserModalOK([type |-> "none"]) /\ UserModalOK([type |-> "add"])
  BY DEF UserModalOK
<1>4. CASE U!ServeUsers \/ U!FailUsers \/ U!SubmitUser \/ U!ConfirmDelete \/ U!OnUserError
  <2>1. route = "users" /\ view' = view
    BY <1>4 DEF U!ServeUsers, U!FailUsers, U!SubmitUser, U!ConfirmDelete, U!OnUserError, U!Here,
                U!Rest, U!Quiet
  <2>2. QED
    BY <1>1, <1>2, <2>1, ViewSame
<1>5. CASE U!ServeUserRequest \/ U!OtherAccounts
  <2>1. view' = view /\ ((lists' = lists /\ sent' = sent) \/ sent.at # "idle")
    BY <1>5 DEF U!ServeUserRequest, U!OtherAccounts, U!Other, U!AtServer
  <2>2. QED
    BY <1>1, <2>1, ViewSame, PanelKept
<1>6. ASSUME route = "users", KeepTables, NEW m, UserModalOK(m), view' = [view EXCEPT !.modal = m]
      PROVE  ViewOK'
  <2>1. view' = [modal |-> m, locked |-> view.locked, edited |-> view.edited]
    BY <1>2, <1>6
  <2>2. QED
    BY <1>1, <1>2, <1>6, <2>1, UsersViewIs
<1>7. CASE U!OpenUser
  <2>1. route = "users" /\ KeepTables
    BY <1>1, <1>7 DEF U!OpenUser, U!Here, UsersQuiet
  <2>2. CASE U!Open([type |-> "add"])
    BY <1>2, <1>3, <1>6, <2>1, <2>2 DEF U!Open
  <2>3. CASE \E u \in U!ShownUsers, t \in {"edit", "delete"} :
               U!Open([type |-> t, user |-> u, role |-> U!Shown[u], edited |-> view.edited])
    <3>1. PICK u \in U!ShownUsers, t \in {"edit", "delete"} :
            U!Open([type |-> t, user |-> u, role |-> U!Shown[u], edited |-> view.edited])
      BY <2>3
    <3>2. PICK m : m = [type |-> t, user |-> u, role |-> U!Shown[u], edited |-> view.edited]
      OBVIOUS
    <3>3. /\ u \in Accounts /\ U!Shown[u] \in U!Roles
          /\ ~view.edited => RoleHolds(u, U!Shown[u])
      BY <2>1, ShownUsersHold DEF U!ShownUsers
    <3>4. UserModalOK(m)
      BY <1>2, <2>1, <3>2, <3>3 DEF UserModalOK
    <3>5. QED
      BY <1>2, <1>6, <2>1, <3>1, <3>2, <3>4 DEF U!Open
  <2>4. QED
    BY <1>7, <2>2, <2>3 DEF U!OpenUser
<1>8. CASE U!CloseUser \/ (U!OnUserOk /\ sent.kind # "setPassword")
  <2>1. route = "users" /\ KeepTables /\ view' = [view EXCEPT !.modal = [type |-> "none"]]
    BY <1>1, <1>8 DEF U!CloseUser, U!OnUserOk, U!Here, U!Open, UsersQuiet
  <2>2. QED
    BY <1>2, <1>3, <1>6, <2>1
<1>9. CASE U!ShowUsers
  <2>1. route = "users" /\ KeepTables /\ view' = [view EXCEPT !.locked = {}, !.edited = FALSE]
    BY <1>1, <1>9 DEF U!ShowUsers, U!Here, UsersQuiet
  <2>2. view' = [modal |-> view.modal, locked |-> {}, edited |-> FALSE]
    BY <1>2, <2>1
  <2>3. QED
    BY <1>1, <1>2, <2>1, <2>2, UsersViewIs
<1>10. CASE U!ToggleLock
  <2>1. route = "users" /\ KeepTables
    BY <1>1, <1>10 DEF U!ToggleLock, U!Here, UsersQuiet
  <2>2. PICK u \in U!ShownUsers \ {Root} :
          view' = [view EXCEPT !.locked = IF u \in @ THEN @ \ {u} ELSE @ \cup {u}]
    BY <1>10 DEF U!ToggleLock
  <2>3. PICK locked : locked = IF u \in view.locked THEN view.locked \ {u} ELSE view.locked \cup {u}
    OBVIOUS
  <2>4. u \in Accounts \ {Root}
    BY DEF U!ShownUsers
  <2>5. locked \in SUBSET (Accounts \ {Root})
    BY <1>2, <2>1, <2>3, <2>4
  <2>6. view' = [view EXCEPT !.locked = locked]
    BY <2>2, <2>3
  <2>7. view' = [modal |-> view.modal, locked |-> locked, edited |-> view.edited]
    BY <1>2, <2>1, <2>6
  <2>8. QED
    BY <1>1, <1>2, <2>1, <2>5, <2>7, UsersViewIs
<1>11. CASE U!EditUser \/ (U!OnUserOk /\ sent.kind = "setPassword")
  <2>1. route = "users" /\ KeepTables
    BY <1>1, <1>11 DEF U!EditUser, U!OnUserOk, U!Here, UsersQuiet
  <2>2. PICK u \in Accounts, role \in U!Roles : U!DoEdit(u, role)
    BY <1>11, EditIsOf
  <2>3. PICK edited \in BOOLEAN :
          view' = [modal |-> [type |-> "none"], locked |-> view.locked, edited |-> edited]
    BY <1>2, <2>1, <2>2 DEF U!DoEdit
  <2>4. QED
    BY <1>1, <1>2, <1>3, <2>1, <2>3, UsersViewIs
<1>12. ASSUME U!OpenUser \/ U!CloseUser \/ U!OnUserOk \/ U!ShowUsers \/ U!ToggleLock \/ U!EditUser
       PROVE  PanelAgrees'
  BY <1>2, <1>12 DEF U!OpenUser, U!CloseUser, U!OnUserOk, U!ShowUsers, U!ToggleLock, U!EditUser, U!Here
<1>13. QED
  BY <1>4, <1>5, <1>7, <1>8, <1>9, <1>10, <1>11, <1>12 DEF U!UsersNext

-----------------------------------------------------------------------------
(* The counters, the frame, and the invariant                              *)

\* A request at the server is one that the server has not counted yet.
LEMMA CountersOn ==
  ASSUME IInv, visits' = visits, route' = route, told' \in {told, rev},
         \/ rev' = rev /\ changes' = changes /\ (sent'.at = "server" => sent.at = "server")
         \/ rev' = rev /\ changes < MaxChanges /\ changes' = changes + 1
         \/ rev' = rev + 1 /\ changes < MaxChanges /\ changes' = changes + 1 /\ sent' = sent
         \/ /\ sent.at = "server" /\ sent'.at # "server"
            /\ rev' \in {rev, rev + 1} /\ changes' = changes
  PROVE  Counters'
BY BoundsAssumption DEF IInv, Counters

\* An answer is given once, and there is one only to a request.
LEMMA AnswerIsGiven ==
  ASSUME IInv, sent.at = "server", NEW answer \in {"ok", "error"}, sent' = [sent EXCEPT !.at = answer]
  PROVE  sent'.at # "server"
BY DEF IInv, SentOK, Idle

\* The steps of the storage page count.
LEMMA RaidCounters ==
  ASSUME IInv, R!RaidNext, UNCHANGED <<shares, accounts>>
  PROVE  Counters'
<1>1. route' = route
  BY RaidTables
<1>2. CASE \/ R!LoseEvent \/ R!OnStatus \/ R!ServeRaidList \/ R!FailRaidList \/ R!ShowRaidList
           \/ R!OpenModal \/ R!ProgressEnds \/ R!DoneCreated
  BY <1>1, <1>2, CountersOn DEF R!LoseEvent, R!OnStatus, R!ServeRaidList, R!FailRaidList,
                                R!ShowRaidList,
     R!OpenModal, R!ProgressEnds, R!DoneCreated, R!Others, R!Only, R!Reload
<1>3. CASE R!CloseModal
  <2>1. sent'.at = "server" => sent.at = "server"
    BY <1>3 DEF R!CloseModal, IInv, SentOK, Idle
  <2>2. QED
    BY <1>1, <1>3, <2>1, CountersOn DEF R!CloseModal
<1>4. CASE R!OnRaidOk \/ R!OnRaidError
  BY <1>1, <1>4, CountersOn DEF R!OnRaidOk, R!OnRaidError, R!Answered, R!Idle, R!Reload
<1>5. CASE \/ R!SubmitCreate \/ R!ConfirmWipe \/ R!HandleDelete
           \/ R!HandleExpand \/ R!HandleMarkFailed \/ R!HandleRebuild \/ R!HandleFs \/ R!SubmitFs
  <2>1. changes < MaxChanges /\ changes' = changes + 1 /\ visits' = visits /\ rev' = rev /\ told' = told
    BY <1>5 DEF R!SubmitCreate, R!ConfirmWipe, R!HandleDelete, R!HandleExpand, R!HandleMarkFailed,
                R!HandleRebuild, R!HandleFs, R!SubmitFs, R!Send, R!Quietly
  <2>2. QED
    BY <1>1, <2>1, CountersOn
<1>6. CASE R!ServeRaid
  <2>1. sent.at = "server" /\ sent'.at # "server" /\ rev' \in {rev, rev + 1}
    BY <1>6, RaidServed, AnswerIsGiven
  <2>2. QED
    BY <1>1, <1>6, <2>1, CountersOn DEF R!ServeRaid
<1>7. CASE R!OtherStorage
  BY <1>1, <1>7, CountersOn DEF R!OtherStorage, R!Other
<1>8. QED
  BY <1>2, <1>3, <1>4, <1>5, <1>6, <1>7 DEF R!RaidNext

\* The steps of the page of the shares count.
LEMMA SharesCounters ==
  ASSUME IInv, S!SharesNext, UNCHANGED <<volume, accounts>>
  PROVE  Counters'
<1>1. route' = route
  BY SharesTables
<1>2. CASE \/ S!ServeShares \/ S!ShowShares \/ S!FailShares \/ S!Retry
           \/ S!OpenShare \/ S!OpenPanel \/ S!PanelEdit \/ S!CloseShare
  BY <1>1, <1>2, CountersOn DEF S!ServeShares, S!ShowShares, S!FailShares, S!Retry, S!OpenShare,
                                S!OpenPanel,
     S!PanelEdit, S!CloseShare, S!Rest, S!Alone, S!Quiet
<1>3. CASE S!OnShareOk \/ S!OnShareError
  BY <1>1, <1>3, CountersOn DEF S!OnShareOk, S!OnShareError, S!Answered, S!Idle
<1>4. CASE S!HandleSave \/ S!HandleToggle \/ S!PanelToggle \/ S!HandleDelete
  <2>1. /\ visits' = visits /\ rev' = rev /\ told' = told
        /\ \/ changes < MaxChanges /\ changes' = changes + 1
           \/ changes' = changes /\ sent' = sent
    BY <1>4 DEF S!HandleSave, S!HandleToggle, S!PanelToggle, S!HandleDelete, S!Toggle, S!Send, S!Quiet
  <2>2. QED
    BY <1>1, <2>1, CountersOn
<1>5. CASE S!ServeShareRequest
  <2>1. /\ sent.at = "server" /\ \E answer \in {"ok", "error"} : sent' = [sent EXCEPT !.at = answer]
        /\ rev' \in {rev, rev + 1} /\ visits' = visits /\ changes' = changes /\ told' = told
    BY <1>5 DEF S!ServeShareRequest, S!Write, S!Committed, S!Refused, S!AtServer
  <2>2. QED
    BY <1>1, <2>1, AnswerIsGiven, CountersOn
<1>6. CASE S!OtherShares
  BY <1>1, <1>6, CountersOn DEF S!OtherShares, S!Other
<1>7. QED
  BY <1>2, <1>3, <1>4, <1>5, <1>6 DEF S!SharesNext

\* The steps of the page of the users count.
LEMMA UsersCounters ==
  ASSUME IInv, U!UsersNext, UNCHANGED <<volume, shares>>
  PROVE  Counters'
<1>1. route' = route
  BY UsersTables
<1>2. CASE \/ U!ServeUsers \/ U!ShowUsers \/ U!FailUsers
           \/ U!OpenUser \/ U!CloseUser \/ U!ToggleLock \/ U!EditUser
  BY <1>1, <1>2, CountersOn DEF U!ServeUsers, U!ShowUsers, U!FailUsers, U!OpenUser, U!CloseUser,
                                U!ToggleLock,
     U!EditUser, U!Rest, U!Alone
<1>3. CASE U!OnUserOk \/ U!OnUserError
  BY <1>1, <1>3, CountersOn DEF U!OnUserOk, U!OnUserError, U!Answered, U!Idle
<1>4. CASE U!SubmitUser \/ U!ConfirmDelete
  <2>1. changes < MaxChanges /\ changes' = changes + 1 /\ visits' = visits /\ rev' = rev /\ told' = told
    BY <1>4 DEF U!SubmitUser, U!ConfirmDelete, U!Send, U!Quiet
  <2>2. QED
    BY <1>1, <2>1, CountersOn
<1>5. CASE U!ServeUserRequest
  <2>1. /\ sent.at = "server" /\ \E answer \in {"ok", "error"} : sent' = [sent EXCEPT !.at = answer]
        /\ rev' \in {rev, rev + 1} /\ visits' = visits /\ changes' = changes /\ told' = told
    BY <1>5 DEF U!ServeUserRequest, U!Committed, U!Accepted, U!Refused, U!AtServer
  <2>2. QED
    BY <1>1, <2>1, AnswerIsGiven, CountersOn
<1>6. CASE U!OtherAccounts
  BY <1>1, <1>6, CountersOn DEF U!OtherAccounts, U!Other
<1>7. QED
  BY <1>2, <1>3, <1>4, <1>5, <1>6 DEF U!UsersNext

\* The tables keep their types.
LEMMA TablesOn ==
  ASSUME IInv, KeepTables \/ MoveTables
  PROVE  TablesOK'
<1>1. CASE KeepTables
  <2>1. volume' = volume /\ shares' = shares /\ accounts' = accounts /\ rev' = rev /\ TablesOK
    BY <1>1 DEF KeepTables, tables, IInv
  <2>2. \A id \in S!Ids : S!IsRow(id, shares[id])'
    BY <2>1 DEF TablesOK
  <2>3. QED
    BY <2>1, <2>2 DEF TablesOK
<1>2. QED
  BY <1>1 DEF MoveTables

\* Another page is mounted.
LEMMA Mounted ==
  ASSUME IInv, NEW v \in Routes, Visit(v)
  PROVE  IInv'
<1>1. /\ KeepTables /\ route' = v /\ visits < MaxVisits /\ visits' = visits + 1
      /\ lists' = [n \in ListsOf(v) |-> Ask(Unloaded)] /\ view' = FreshOf(v) /\ told' = rev
      /\ changes' = changes /\ rev' = rev /\ sent' = sent
  BY DEF Visit, Mount, KeepTables
<1>2. Counters'
  BY <1>1, BoundsAssumption DEF IInv, Counters
<1>3. TablesOK'
  BY <1>1, TablesOn
<1>4. ASSUME NEW n \in ListsOf(v) PROVE ListOK(n)'
  <2>1. lists'[n] = Ask(Unloaded)
    BY <1>1
  <2>2. PICK l : l = lists'[n]
    OBVIOUS
  <2>3. /\ l \in ListsOver(Valid(n)', Plausible(n)') /\ Arrives(l, told')
        /\ l.unread + Len(l.read) <= MaxLoads /\ l.shown = None
    BY <2>1, <2>2, FreshList
  <2>4. QED
    BY <2>2, <2>3 DEF ListOK
<1>5. ListsOK'
  BY <1>1, <1>4 DEF ListsOK
<1>6. SentOK'
  BY <1>1, SentSame
<1>7. ViewOK' /\ PanelAgrees'
  <2>1. route' \in Routes /\ rev' \in Nat /\ (view = FreshOf(route))'
    BY <1>1 DEF IInv, Counters
  <2>2. (route \in Routes /\ rev \in Nat /\ view = FreshOf(route))'
    BY <2>1
  <2>3. QED
    BY <2>2, FreshView, PTL
<1>8. QED
  BY <1>2, <1>3, <1>5, <1>6, <1>7 DEF IInv

\* An answer comes to nobody.
LEMMA Dropped ==
  ASSUME IInv, DropAnswer
  PROVE  IInv'
<1>1. /\ KeepTables /\ route' = route /\ lists' = lists /\ view' = view /\ told' = told
      /\ visits' = visits /\ changes' = changes /\ rev' = rev /\ sent' = Idle /\ sent.at # "idle"
  BY DEF DropAnswer, KeepTables, tables
<1>2. StaysEdited
  BY <1>1 DEF StaysEdited
<1>3. Counters'
  BY <1>1, CountersOn DEF Idle
<1>4. TablesOK' /\ ListsOK' /\ ViewOK' /\ PanelAgrees'
  BY <1>1, <1>2, TablesOn, ListsSame, ViewSame, PanelKept
<1>5. SentOK'
  BY <1>1 DEF SentOK, Idle
<1>6. QED
  BY <1>3, <1>4, <1>5 DEF IInv

\* Nothing happens.
LEMMA Stuttered ==
  ASSUME IInv, UNCHANGED vars
  PROVE  IInv'
<1>1. /\ KeepTables /\ route' = route /\ lists' = lists /\ view' = view /\ told' = told
      /\ visits' = visits /\ changes' = changes /\ rev' = rev /\ sent' = sent
  BY DEF vars, appVars, KeepTables
<1>2. StaysEdited
  BY <1>1 DEF StaysEdited
<1>3. Counters'
  BY <1>1, CountersOn
<1>4. TablesOK' /\ ListsOK' /\ SentOK' /\ ViewOK' /\ PanelAgrees'
  BY <1>1, <1>2, TablesOn, ListsSame, SentSame, ViewSame, PanelKept
<1>5. QED
  BY <1>3, <1>4 DEF IInv

\* The invariant is inductive.
LEMMA Inductive == IInv /\ [Next]_vars => IInv'
<1> SUFFICES ASSUME IInv, [Next]_vars PROVE IInv'
  OBVIOUS
<1>1. CASE R!RaidNext /\ UNCHANGED <<shares, accounts>>
  BY <1>1, RaidTables, TablesOn, RaidCounters, RaidLists, RaidSent, RaidView DEF IInv
<1>2. CASE S!SharesNext /\ UNCHANGED <<volume, accounts>>
  BY <1>2, SharesTables, TablesOn, SharesCounters, SharesLists, SharesSent, SharesView DEF IInv
<1>3. CASE U!UsersNext /\ UNCHANGED <<volume, shares>>
  BY <1>3, UsersTables, TablesOn, UsersCounters, UsersLists, UsersSent, UsersView DEF IInv
<1>4. CASE \E v \in Routes : Visit(v)
  BY <1>4, Mounted
<1>5. CASE DropAnswer
  BY <1>5, Dropped
<1>6. CASE UNCHANGED vars
  BY <1>6, Stuttered
<1>7. QED
  BY <1>1, <1>2, <1>3, <1>4, <1>5, <1>6 DEF Next

\* The invariant of the console, whatever is mounted and whatever is on its way.
THEOREM ConsoleInvariance == Spec => []IInv
<1>1. Init => IInv
  BY InitInv
<1>2. IInv /\ [Next]_vars => IInv'
  BY Inductive
<1>3. QED
  BY <1>1, <1>2, PTL DEF Spec

\* When all that a page asked for has been answered, none of it failed and
\* nothing was overtaken, the page shows nothing older than what it was last
\* told of (load(), RaidView's onmessage, and the thens of the requests), unless
\* a filesystem was created and the page has not loaded since (app.js:807, 821).
THEOREM ToldLasts == Spec => []ToldIsShown
<1>1. IInv => ToldIsShown
  <2> SUFFICES ASSUME IInv, NEW n \in DOMAIN lists, Settled(lists[n]), ~lists[n].spoilt, ~Silent
               PROVE  lists[n].shown # None /\ lists[n].shown.rev >= told
    BY DEF ToldIsShown
  <2>1. lists = [k \in ListsOf(route) |-> lists[k]]
    BY DEF IInv, ListsOK
  <2>2. ListOK(n)
    BY <2>1 DEF IInv, ListsOK
  <2>3. QED
    BY <2>2, ArrivedIsShown DEF ListOK
<1>2. QED
  BY <1>1, ConsoleInvariance, PTL

\* Every variable keeps its type, on every page.
THEOREM ConsoleTypeCorrect == Spec => []TypeOK
<1>1. IInv => TypeOK
  <2> SUFFICES ASSUME IInv PROVE TypeOK
    OBVIOUS
  <2>1. lists = [k \in ListsOf(route) |-> lists[k]]
    BY DEF IInv, ListsOK
  <2>2. AppTypeOK
    <3>1. ASSUME NEW n \in DOMAIN lists
          PROVE  /\ lists[n].unread \in 0..MaxLoads
                 /\ lists[n].unread + Len(lists[n].read) <= MaxLoads
                 /\ \A i \in DOMAIN lists[n].read : lists[n].read[i].rev \in 0..rev
                 /\ lists[n].spoilt \in BOOLEAN
      <4>1. ListOK(n)
        BY <2>1 DEF IInv, ListsOK
      <4>2. /\ lists[n].unread \in Nat /\ lists[n].read \in Seq(Valid(n)) /\ lists[n].spoilt \in BOOLEAN
            /\ lists[n].unread + Len(lists[n].read) <= MaxLoads
        BY <4>1 DEF ListOK, ListsOver
      <4>3. Len(lists[n].read) \in Nat
        BY <4>2, LenProperties
      <4>4. ASSUME NEW i \in DOMAIN lists[n].read PROVE lists[n].read[i].rev \in 0..rev
        <5>1. lists[n].read[i] \in Valid(n)
          BY <4>2, ElementOfSeq, LenProperties
        <5>2. QED
          BY <5>1 DEF Valid, Answers, IInv, Counters
      <4>5. QED
        BY <4>2, <4>3, <4>4, BoundsAssumption
    <3>2. sent.at \in {"idle", "server", "ok", "error"}
      BY DEF IInv, SentOK, Idle
    <3>3. QED
      BY <3>1, <3>2 DEF AppTypeOK, IInv, Counters
  <2>3. R!RaidTypeOK
    <3>1. route = "raid" => DOMAIN lists = R!raidLists
      BY <2>1 DEF ListsOf
    <3>2. QED
      BY <3>1 DEF R!RaidTypeOK, R!Here, IInv, TablesOK, ViewOK, RaidViewOK
  <2>4. S!SharesTypeOK
    <3>1. route = "shares" => DOMAIN lists = {"shares"}
      BY <2>1 DEF ListsOf
    <3>2. ASSUME route = "shares", NEW id \in S!Ids PROVE S!Shown[id] \in S!Forms(id) \cup {None}
      BY <3>2, ShownShares DEF S!ShownIds
    <3>3. \A id \in S!Ids : S!IsRow(id, shares[id]) /\ shares[id].at \in 0..rev
      BY DEF IInv, TablesOK, S!IsRow, Counters
    <3>4. route = "shares" /\ view.panel # None => view.panel.copy.id \in S!Ids
      BY DEF IInv, ViewOK, SharesViewOK, CopyOK
    <3>5. QED
      BY <3>1, <3>2, <3>3, <3>4 DEF S!SharesTypeOK, S!Here
  <2>5. U!UsersTypeOK
    <3>1. route = "users" => DOMAIN lists = {"users"}
      BY <2>1 DEF ListsOf
    <3>2. QED
      BY <3>1, ShownUsersHold DEF U!UsersTypeOK, U!Here, IInv, TablesOK, ViewOK, UsersViewOK
  <2>6. QED
    BY <2>2, <2>3, <2>4, <2>5 DEF TypeOK, IInv, Counters
<1>2. QED
  BY <1>1, ConsoleInvariance, PTL

-----------------------------------------------------------------------------
(* What requests do                                                        *)

\* Nothing is destroyed but what the confirmation named, if the page was up to
\* date when it was asked for, with lists that left nothing out, and nothing has
\* changed since (handleWipeDisk, handleDelete, CreateFilesystemModal, and
\* FilesystemSection's delete); arrays on partitions of a disk are excepted.
THEOREM OnlyWhatWasShown == Spec => DestructionWasShown
<1>1. ASSUME IInv, sent.at = "server", AsConfirmed
      PROVE  CASE sent.kind = "wipe" -> \A a \in Arrays : sent.what.disk \notin volume[a].disks
               [] sent.kind \in {"delete", "deleteFS"} -> volume[sent.what.array].fs = sent.what.named
               [] sent.kind = "createFS" -> volume[sent.what.array].fs = "none"
  <2>1. Backed(sent.kind, sent.what)
    BY <1>1 DEF IInv, SentOK, Idle
  <2>2. Named(sent.kind, sent.what) /\ sent.kind \in Destroying
    BY <1>1, <2>1 DEF AsConfirmed, Backed, Destroying
  <2>3. QED
    BY <2>2 DEF Named, Destroying
<1>2. QED
  BY <1>1, ConsoleInvariance, PTL DEF DestructionWasShown

\* Only the server makes an answer of a request.
LEMMA AnsweredByServer ==
  ASSUME IInv, [Next]_vars, sent.at = "server", sent'.at # "server"
  PROVE  \/ R!ServeRaid /\ UNCHANGED <<shares, accounts>>
         \/ S!ServeShareRequest /\ UNCHANGED <<volume, accounts>>
         \/ U!ServeUserRequest /\ UNCHANGED <<volume, shares>>
<1>1. sent' # sent
  OBVIOUS
<1>2. ASSUME NEW kind, NEW what, R!Send(kind, what) \/ S!Send(kind, what) \/ U!Send(kind, what) PROVE FALSE
  BY <1>2 DEF R!Send, S!Send, U!Send
<1>3. CASE R!RaidNext /\ UNCHANGED <<shares, accounts>>
  <2>1. ~(\/ R!LoseEvent \/ R!OnStatus \/ R!ServeRaidList \/ R!FailRaidList \/ R!ShowRaidList
          \/ R!OpenModal \/ R!ProgressEnds \/ R!DoneCreated \/ R!OtherStorage)
    BY <1>1 DEF R!LoseEvent, R!OnStatus, R!ServeRaidList, R!FailRaidList, R!ShowRaidList, R!OpenModal,
                R!ProgressEnds, R!DoneCreated, R!OtherStorage, R!Other, R!Others, R!Only, R!Reload
  <2>2. ~R!CloseModal
    <3>1. SUFFICES ASSUME R!CloseModal, sent' = [sent EXCEPT !.what.left = TRUE] PROVE FALSE
      BY <1>1 DEF R!CloseModal
    <3>2. QED
      BY <3>1 DEF IInv, SentOK, Idle
  <2>3. ~(\/ R!SubmitCreate \/ R!ConfirmWipe \/ R!HandleDelete
          \/ R!HandleExpand \/ R!HandleMarkFailed \/ R!HandleRebuild \/ R!HandleFs \/ R!SubmitFs)
    BY <1>2 DEF R!SubmitCreate, R!ConfirmWipe, R!HandleDelete, R!HandleExpand, R!HandleMarkFailed,
                R!HandleRebuild, R!HandleFs, R!SubmitFs
  <2>4. ~(R!OnRaidOk \/ R!OnRaidError)
    BY DEF R!OnRaidOk, R!OnRaidError, R!Answered
  <2>5. QED
    BY <1>3, <2>1, <2>2, <2>3, <2>4 DEF R!RaidNext
<1>4. CASE S!SharesNext /\ UNCHANGED <<volume, accounts>>
  <2>1. ~(\/ S!ServeShares \/ S!ShowShares \/ S!FailShares \/ S!Retry
          \/ S!OpenShare \/ S!OpenPanel \/ S!PanelEdit \/ S!CloseShare \/ S!OtherShares)
    BY <1>1 DEF S!ServeShares, S!ShowShares, S!FailShares, S!Retry, S!OpenShare, S!OpenPanel,
                S!PanelEdit,
                S!CloseShare, S!OtherShares, S!Other, S!Rest, S!Alone
  <2>2. ~(S!HandleSave \/ S!HandleToggle \/ S!PanelToggle \/ S!HandleDelete)
    BY <1>1, <1>2 DEF S!HandleSave, S!HandleToggle, S!PanelToggle, S!HandleDelete, S!Toggle
  <2>3. ~(S!OnShareOk \/ S!OnShareError)
    BY DEF S!OnShareOk, S!OnShareError, S!Answered
  <2>4. QED
    BY <1>4, <2>1, <2>2, <2>3 DEF S!SharesNext
<1>5. CASE U!UsersNext /\ UNCHANGED <<volume, shares>>
  <2>1. ~(\/ U!ServeUsers \/ U!ShowUsers \/ U!FailUsers \/ U!OpenUser \/ U!CloseUser \/ U!ToggleLock
          \/ U!EditUser \/ U!OtherAccounts)
    BY <1>1 DEF U!ServeUsers, U!ShowUsers, U!FailUsers, U!OpenUser, U!CloseUser, U!ToggleLock,
                U!EditUser,
                U!OtherAccounts, U!Other, U!Rest, U!Alone
  <2>2. ~(U!SubmitUser \/ U!ConfirmDelete)
    BY <1>2 DEF U!SubmitUser, U!ConfirmDelete
  <2>3. ~(U!OnUserOk \/ U!OnUserError)
    BY DEF U!OnUserOk, U!OnUserError, U!Answered
  <2>4. QED
    BY <1>5, <2>1, <2>2, <2>3 DEF U!UsersNext
<1>6. CASE (\E v \in Routes : Visit(v)) \/ DropAnswer \/ UNCHANGED vars
  BY <1>1, <1>6 DEF Visit, Mount, DropAnswer, vars, appVars
<1>7. QED
  BY <1>3, <1>4, <1>5, <1>6 DEF Next

\* The last administrator is deleted only by a page whose copy was altered or
\* is older than the table (ConfirmDeleteModal: isOnlyAdmin).
THEOREM AdminsStay == Spec => AdminsRemain
<1>1. ASSUME IInv, [Next]_vars, Carries("deleteUser"), U!Admins(accounts) # {}, U!Admins(accounts') = {},
             ~sent.what.edited, sent.what.basis = rev
      PROVE  FALSE
  <2>1. sent.at = "server" /\ sent.kind = "deleteUser" /\ sent'.at # "server"
    BY <1>1 DEF Carries, AtServer
  <2>2. NotTheLast(sent.what.user)
    BY <1>1, <2>1 DEF IInv, SentOK, Idle, Backed
  <2>3. accounts' # accounts
    BY <1>1
  <2>4. U!ServeUserRequest
    BY <1>1, <2>1, <2>3, AnsweredByServer
  <2>5. accounts' = U!Without(sent.what.user)
    BY <2>1, <2>3, <2>4 DEF U!ServeUserRequest, U!AtServer
  <2>6. PICK x \in Accounts : accounts[x] = "Admin" /\ x # sent.what.user
    BY <1>1, <2>2 DEF NotTheLast, U!Admins
  <2>7. accounts'[x] = "Admin"
    BY <2>5, <2>6 DEF U!Without, IInv, TablesOK
  <2>8. QED
    BY <1>1, <2>7 DEF U!Admins
<1>2. IInv /\ [Next]_vars =>
        (Carries("deleteUser") /\ U!Admins(accounts) # {} /\ U!Admins(accounts') = {} =>
           sent.what.edited \/ sent.what.basis # rev)
  BY <1>1
<1>3. QED
  BY <1>2, ConsoleInvariance, PTL DEF AdminsRemain, Spec

\* What the server makes of a save or a toggle: the row of a form.
LEMMA UpdateWrites ==
  ASSUME IInv, [Next]_vars, Carries("updateShare"), shares' # shares
  PROVE  /\ WellFormed("updateShare", sent.what) /\ Backed("updateShare", sent.what)
         /\ shares[sent.what.id].is
         /\ shares'[sent.what.id] = S!ToAPI(sent.what.id, sent.what.form, sent.what.on, rev + 1)
<1>1. sent.at = "server" /\ sent.kind = "updateShare" /\ sent'.at # "server"
  BY DEF Carries, AtServer
<1>2. S!ServeShareRequest
  BY <1>1, AnsweredByServer
<1>3. WellFormed("updateShare", sent.what) /\ Backed("updateShare", sent.what)
  BY <1>1 DEF IInv, SentOK, Idle
<1>4. /\ shares[sent.what.id].is
      /\ shares' = [shares EXCEPT ![sent.what.id] =
                      S!ToAPI(sent.what.id, sent.what.form, sent.what.on, rev + 1)]
  <2>1. /\ ~S!AtServer("createShare") /\ ~S!AtServer("deleteShare")
        /\ ~(S!Refused /\ UNCHANGED shares)
    BY <1>1 DEF S!AtServer
  <2>2. QED
    BY <1>2, <2>1 DEF S!ServeShareRequest, S!Write
<1>5. sent.what.id \in DOMAIN shares
  BY <1>3 DEF WellFormed, IInv, TablesOK
<1>6. QED
  BY <1>3, <1>4, <1>5

\* A button does what it says: the row is in the state that was announced
\* (handleToggle, and the panel of a share that was opened while all was calm).
THEOREM TogglesDoWhatTheySay == Spec => ToggleDoesWhatItSays
<1>1. ASSUME IInv, [Next]_vars, Carries("updateShare"), shares' # shares,
             sent.what.says # None, sent.what.says.calm
      PROVE  shares'[sent.what.id].on = sent.what.says.on
  <2>1. PICK what : what = sent.what
    OBVIOUS
  <2>2. /\ WellFormed("updateShare", what) /\ Backed("updateShare", what)
        /\ shares'[what.id] = S!ToAPI(what.id, what.form, what.on, rev + 1)
    BY <1>1, <2>1, UpdateWrites
  <2>3. what.form \in S!Forms(what.id) /\ what.on \in BOOLEAN /\ rev + 1 \in Nat
    BY <1>1, <2>2 DEF WellFormed, IInv, Counters
  <2>4. shares'[what.id].on = what.on
    BY <2>2, <2>3, FormIsRow
  <2>5. what.on = what.says.on
    BY <1>1, <2>1, <2>2 DEF Backed
  <2>6. QED
    BY <2>1, <2>4, <2>5
<1>2. QED
  BY <1>1, ConsoleInvariance, PTL DEF ToggleDoesWhatItSays, Spec

-----------------------------------------------------------------------------
(* Forms and rows: a save changes one part of what the share serves        *)

\* What a form makes of a part of its share, its state apart.
FormPart(form, part) ==
  CASE part = "mode" -> (form.dflt = "ro")
    [] part = "who" -> (IF form.guest THEN {} ELSE {u \in Members : form.users[u] = "some"})
    [] OTHER -> {r.perm : r \in {x \in form.rules : S!Host(x) = part}}

\* The rules of an export, each for its host.
Hosted(rules) == {[r EXCEPT !.client = S!Host(r)] : r \in rules}

\* Rules can be asked for their hosts before or after a host is put into each.
LEMMA HostedRules ==
  ASSUME NEW rules \in SUBSET S!Rules, NEW part
  PROVE  {r.perm : r \in {x \in Hosted(rules) : x.client = part}} =
           {r.perm : r \in {x \in rules : S!Host(x) = part}}
<1>1. ASSUME NEW r \in rules
      PROVE  /\ [r EXCEPT !.client = S!Host(r)].client = S!Host(r)
             /\ [r EXCEPT !.client = S!Host(r)].perm = r.perm
  BY DEF S!Rules
<1>2. ASSUME NEW p \in {r.perm : r \in {x \in Hosted(rules) : x.client = part}}
      PROVE  p \in {r.perm : r \in {x \in rules : S!Host(x) = part}}
  <2>1. PICK y \in Hosted(rules) : y.client = part /\ p = y.perm
    BY <1>2
  <2>2. PICK r \in rules : y = [r EXCEPT !.client = S!Host(r)]
    BY DEF Hosted
  <2>3. S!Host(r) = part /\ p = r.perm
    BY <1>1, <2>1, <2>2
  <2>4. QED
    BY <2>3
<1>3. ASSUME NEW p \in {r.perm : r \in {x \in rules : S!Host(x) = part}}
      PROVE  p \in {r.perm : r \in {x \in Hosted(rules) : x.client = part}}
  <2>1. PICK r \in rules : S!Host(r) = part /\ p = r.perm
    BY <1>3
  <2>2. PICK y : y = [r EXCEPT !.client = S!Host(r)]
    OBVIOUS
  <2>3. y \in Hosted(rules) /\ y.client = part /\ y.perm = p
    BY <1>1, <2>1, <2>2 DEF Hosted
  <2>4. QED
    BY <2>3
<1>4. QED
  BY <1>2, <1>3

\* The parts of a share, apart from its state.
LEMMA PartsAre ==
  ASSUME NEW id, NEW part \in S!Parts(id), part # "on"
  PROVE  IF id \in Smb THEN part \in {"mode", "who"}
         ELSE part \in Clients /\ part # "mode" /\ part # "who"
BY ConsoleAssumption DEF S!Parts

\* What a form is written as serves what the form says.
LEMMA WrittenPart ==
  ASSUME NEW id, NEW form \in S!Forms(id), NEW on, NEW at, NEW part \in S!Parts(id), part # "on"
  PROVE  S!Part(id, S!ToAPI(id, form, on, at), part) = FormPart(form, part)
<1>1. PICK row : row = S!ToAPI(id, form, on, at)
  OBVIOUS
<1>2. CASE id \in Smb
  <2>1. /\ row.ro = (form.dflt = "ro")
        /\ row.who = IF form.guest THEN {} ELSE {u \in Members : form.users[u] = "some"}
    BY <1>1, <1>2 DEF S!ToAPI, S!MapCIFSToAPI, S!Row
  <2>2. part \in {"mode", "who"}
    BY <1>2, PartsAre
  <2>3. QED
    BY <1>1, <2>1, <2>2 DEF S!Part, FormPart
<1>3. CASE id \notin Smb
  <2>1. row.config = form
    BY <1>1, <1>3 DEF S!ToAPI, S!MapNFSToAPI, S!Row
  <2>2. form # None /\ form.rules \in SUBSET S!Rules
    BY <1>3, FormsAreForms DEF S!Forms, S!NfsForms
  <2>3. S!Exports(row) = Hosted(form.rules)
    BY <2>1, <2>2 DEF S!Exports, Hosted
  <2>4. part # "mode" /\ part # "who"
    BY <1>3, PartsAre
  <2>5. S!Part(id, row, part) = {r.perm : r \in {x \in Hosted(form.rules) : x.client = part}}
    BY <2>3, <2>4 DEF S!Part
  <2>6. FormPart(form, part) = {r.perm : r \in {x \in form.rules : S!Host(x) = part}}
    BY <2>4 DEF FormPart
  <2>7. QED
    BY <1>1, <2>2, <2>5, <2>6, HostedRules
<1>4. QED
  BY <1>2, <1>3

\* The form that a row is taken for says what the row serves.
LEMMA ReadPart ==
  ASSUME NEW id, NEW row, S!IsRow(id, row), NEW part \in S!Parts(id), part # "on"
  PROVE  FormPart(S!MapShareFromAPI(id, row), part) = S!Part(id, row, part)
<1>1. PICK form : form = S!MapShareFromAPI(id, row)
  OBVIOUS
<1>2. CASE row.config # None
  <2>1. /\ row.config \in S!Forms(id)
        /\ row = S!ToAPI(id, row.config, row.on, row.at)
    BY <1>2 DEF S!IsRow
  <2>2. PICK config \in S!Forms(id) : config = row.config
    BY <2>1
  <2>3. form = [config EXCEPT !.on = row.on]
    BY <1>1, <1>2, <2>2 DEF S!MapShareFromAPI
  <2>4. IF id \in Smb
        THEN form.dflt = config.dflt /\ form.guest = config.guest /\ form.users = config.users
        ELSE form.rules = config.rules
    BY <2>3 DEF S!Forms, S!SmbForms, S!NfsForms
  <2>5. FormPart(form, part) = FormPart(config, part)
    BY <2>4, PartsAre DEF FormPart
  <2>6. S!Part(id, row, part) = FormPart(config, part)
    BY <2>1, <2>2, WrittenPart
  <2>7. QED
    BY <1>1, <2>5, <2>6
<1>3. CASE row.config = None
  <2>1. form = S!FormOf(id, row)
    BY <1>1, <1>3 DEF S!MapShareFromAPI
  <2>2. CASE id \in Smb
    <3>1. /\ form.dflt = S!Perm(row.ro) /\ form.guest = FALSE
          /\ form.users = [u \in Members |-> IF u \in row.who THEN "some" ELSE "absent"]
      BY <2>1, <2>2 DEF S!FormOf
    <3>2. row.ro \in BOOLEAN /\ row.who \subseteq Members
      BY <2>2 DEF S!IsRow
    <3>3. (form.dflt = "ro") = row.ro
      BY <3>1, <3>2 DEF S!Perm
    <3>4. {u \in Members : form.users[u] = "some"} = row.who
      BY <3>1, <3>2
    <3>5. part \in {"mode", "who"}
      BY <2>2, PartsAre
    <3>6. QED
      BY <1>1, <3>1, <3>3, <3>4, <3>5 DEF FormPart, S!Part
  <2>3. CASE id \notin Smb
    <3>1. form.rules = S!Exports(row)
      BY <1>3, <2>1, <2>3 DEF S!FormOf, S!Exports
    <3>2. row.who \subseteq Clients
      BY <2>3 DEF S!IsRow
    <3>3. ASSUME NEW r \in S!Exports(row) PROVE S!Host(r) = r.client
      <4>1. r.client \in Clients
        BY <1>3, <3>2, ConsoleAssumption DEF S!Exports
      <4>2. QED
        BY <4>1, ConsoleAssumption DEF S!Host
    <3>4. part # "mode" /\ part # "who"
      BY <2>3, PartsAre
    <3>5. FormPart(form, part) = {r.perm : r \in {x \in S!Exports(row) : S!Host(x) = part}}
      BY <3>1, <3>4 DEF FormPart
    <3>6. {x \in S!Exports(row) : S!Host(x) = part} = {x \in S!Exports(row) : x.client = part}
      BY <3>3
    <3>7. S!Part(id, row, part) = {r.perm : r \in {x \in S!Exports(row) : x.client = part}}
      BY <3>4 DEF S!Part
    <3>8. QED
      BY <1>1, <3>5, <3>6, <3>7
  <2>4. QED
    BY <2>2, <2>3
<1>4. QED
  BY <1>2, <1>3

\* An edit changes the part that it names and no other.
LEMMA EditedPart ==
  ASSUME NEW id, NEW form \in S!Forms(id), NEW e \in S!Edits(id, form),
         NEW part \in S!Parts(id), part # "on", part # e.part
  PROVE  FormPart(e.form, part) = FormPart(form, part)
<1>1. CASE id \in Smb
  <2>1. form \in [on: BOOLEAN, dflt: S!Perms, users: [Members -> S!Access], guest: BOOLEAN]
    BY <1>1 DEF S!Forms, S!SmbForms
  <2>2. \/ e.part = "mode" /\ \E p \in S!Perms : e.form = [form EXCEPT !.dflt = p]
        \/ e.part = "who" /\ \E u \in Members, x \in S!Access : e.form = [form EXCEPT !.users[u] = x]
        \/ e.part = "who" /\ e.form = [form EXCEPT !.guest = ~@]
    BY <1>1 DEF S!Edits, S!SmbEdits
  <2>3. \/ e.part = "mode" /\ e.form.guest = form.guest /\ e.form.users = form.users
        \/ e.part = "who" /\ e.form.dflt = form.dflt
    BY <2>1, <2>2
  <2>4. part \in {"mode", "who"}
    BY <1>1, PartsAre
  <2>5. QED
    BY <2>3, <2>4 DEF FormPart
<1>2. CASE id \notin Smb
  <2>1. form = [on |-> form.on, rules |-> form.rules]
    BY <1>2 DEF S!Forms, S!NfsForms
  <2>2. PICK r : e.part = S!Host(r) /\ e.form \in {[form EXCEPT !.rules = form.rules \cup {r}],
                                                  [form EXCEPT !.rules = form.rules \ {r}]}
    <3> DEFINE removable == IF S!Cardinality(form.rules) > 1 THEN form.rules ELSE {}
    <3>1. \/ e \in {[form |-> [form EXCEPT !.rules = @ \cup {r}], part |-> S!Host(r)] : r \in S!Rules}
          \/ e \in {[form |-> [form EXCEPT !.rules = @ \ {r}], part |-> S!Host(r)] : r \in removable}
      BY <1>2 DEF S!Edits, S!NfsEdits
    <3> HIDE DEF removable
    <3>2. QED
      BY <3>1
  <2>3. e.form.rules = form.rules \cup {r} \/ e.form.rules = form.rules \ {r}
    BY <2>1, <2>2
  <2>4. {x \in e.form.rules : S!Host(x) = part} = {x \in form.rules : S!Host(x) = part}
    BY <2>2, <2>3
  <2>5. part # "mode" /\ part # "who"
    BY <1>2, PartsAre
  <2>6. QED
    BY <2>4, <2>5 DEF FormPart
<1>3. QED
  BY <1>1, <1>2

\* A save or a toggle leaves every part of the share as it was but the one that
\* the user changed, unless somebody has changed the row since the page read it
\* (handleCIFSSave, handleNFSSave, handleToggle; mapCIFSToAPI, mapNFSToAPI).
THEOREM SavesKeepTheRest == Spec => SaveKeepsTheRest
<1>1. ASSUME IInv, [Next]_vars, Carries("updateShare"), shares' # shares,
             shares[sent.what.id].at <= sent.what.basis,
             NEW part \in S!Parts(sent.what.id) \ {sent.what.part}
      PROVE  S!Part(sent.what.id, shares'[sent.what.id], part) =
               S!Part(sent.what.id, shares[sent.what.id], part)
  <2>1. PICK what : what = sent.what
    OBVIOUS
  <2>2. PICK id : id = what.id
    OBVIOUS
  <2>3. PICK row : row = shares[id]
    OBVIOUS
  <2>4. PICK new : new = S!ToAPI(id, what.form, what.on, rev + 1)
    OBVIOUS
  <2>5. /\ WellFormed("updateShare", what) /\ Backed("updateShare", what)
        /\ row.is /\ shares'[id] = new
    BY <1>1, <2>1, <2>2, <2>3, <2>4, UpdateWrites
  <2>6. /\ id \in S!Ids /\ what.form \in S!Forms(id) /\ what.on \in BOOLEAN /\ rev + 1 \in Nat
        /\ S!IsRow(id, row)
    BY <1>1, <2>2, <2>3, <2>5 DEF WellFormed, IInv, Counters, TablesOK
  <2>7. PICK was : was = S!MapShareFromAPI(id, row)
    OBVIOUS
  <2>8. was \in S!Forms(id) /\ was.on = row.on
    BY <2>6, <2>7, RowIsForm
  <2>9. OneChange(id, what.form, what.on, what.part)
    BY <1>1, <2>1, <2>2, <2>3, <2>5 DEF Backed
  <2>10. \/ what.part = "on" /\ what.form = was
         \/ what.on = was.on /\ \E e \in S!Edits(id, was) : e.form = what.form /\ e.part = what.part
    BY <2>3, <2>7, <2>9 DEF OneChange
  <2>11. part \in S!Parts(id) /\ part # what.part
    BY <2>1, <2>2
  <2>12. CASE part = "on"
    <3>1. new.on = what.on
      BY <2>4, <2>6, FormIsRow
    <3>2. S!Part(id, new, part) = new.on /\ S!Part(id, row, part) = row.on
      BY <2>12 DEF S!Part
    <3>3. S!Part(id, new, part) = S!Part(id, row, part)
      BY <2>8, <2>10, <2>11, <2>12, <3>1, <3>2
    <3>4. QED
      BY <2>1, <2>2, <2>3, <2>5, <3>3
  <2>13. CASE part # "on"
    <3>1. FormPart(what.form, part) = FormPart(was, part)
      BY <2>8, <2>10, <2>11, <2>13, EditedPart
    <3>2. S!Part(id, new, part) = FormPart(what.form, part)
      BY <2>4, <2>6, <2>11, <2>13, WrittenPart
    <3>3. FormPart(was, part) = S!Part(id, row, part)
      BY <2>6, <2>7, <2>11, <2>13, ReadPart
    <3>4. QED
      BY <2>1, <2>2, <2>3, <2>5, <3>1, <3>2, <3>3
  <2>14. QED
    BY <2>12, <2>13
<1>2. IInv /\ [Next]_vars =>
        (Carries("updateShare") /\ shares' # shares /\ shares[sent.what.id].at <= sent.what.basis =>
           \A part \in S!Parts(sent.what.id) \ {sent.what.part} :
             S!Part(sent.what.id, shares'[sent.what.id], part) =
               S!Part(sent.what.id, shares[sent.what.id], part))
  BY <1>1
<1>3. QED
  BY <1>2, ConsoleInvariance, PTL DEF SaveKeepsTheRest, Spec
=============================================================================
