-------------------------------- MODULE App ---------------------------------
(***************************************************************************)
(* The frame of the single page application (app.js App, Sidebar; api.js   *)
(* request): which view is mounted, the lists that it has asked the        *)
(* server for, and the one request of this tab that may be changing        *)
(* something.  The views are in modules of their own, which extend this    *)
(* one; Console puts them together.                                        *)
(*                                                                         *)
(* A view keeps copies.  A list is asked for (fetch), read by the server   *)
(* at some later moment, and shown when its answer arrives; answers may    *)
(* overtake each other and may fail.  A request that changes something is  *)
(* carried out by the server in one step here: what happens inside the     *)
(* handlers, and between them, is the subject of Shares, Raid, Volumes and *)
(* Accounts.  It may be refused, and it may fail after part of its work.   *)
(* Other administrators change the server's tables at any time.            *)
(***************************************************************************)
EXTENDS Naturals, Sequences, FiniteSets, SequencesExt

CONSTANTS
  None,
  MaxVisits,  \* bound: how often a view is opened
  MaxChanges, \* bound: the requests that change something, of this tab and of others
  MaxLoads    \* bound: the loads of a list that are under way at a time

ASSUME BoundsAssumption ==
  {MaxVisits, MaxChanges} \subseteq Nat /\ MaxLoads \in Nat \ {0} /\ None \notin Nat

VARIABLES
  route,   \* the mounted view
  visits,  \* how many views have been mounted; it tells an instance from the next
  changes, \* how many changes this tab has asked for and others have made
  rev,     \* the number of changes the server has carried out
  told,    \* history: rev when this view last learnt of a change
  lists,   \* per list of the mounted view, its loads and what is shown of it
  view,    \* what else the mounted view keeps (its modal, its overlays)
  sent     \* the request of this tab that changes something, or Idle

appVars == <<route, visits, changes, rev, told, lists, view, sent>>

-----------------------------------------------------------------------------
(* A list: useState(null) or [], filled by .then(setList)                  *)

\* shown is None before the first answer; spoilt is history: a load failed or
\* an older answer replaced a newer one.
Unloaded == [unread |-> 0, read |-> <<>>, shown |-> None, spoilt |-> FALSE]

CanAsk(l) == l.unread + Len(l.read) < MaxLoads
Ask(l) == [l EXCEPT !.unread = @ + 1]
Settled(l) == l.unread = 0 /\ l.read = <<>>
Rows(l, none) == IF l.shown = None THEN none ELSE l.shown.rows

\* load(): every list of the view is asked for again.
CanLoad == \A n \in DOMAIN lists : CanAsk(lists[n])
Loaded(ls) == [n \in DOMAIN ls |-> Ask(ls[n])]
Load == CanLoad /\ lists' = Loaded(lists)

\* The handler of the GET answers rows; whole is history: they are all that the
\* server has.
ServeList(n, rows, whole) ==
  /\ lists[n].unread > 0
  /\ lists' = [lists EXCEPT ![n].unread = @ - 1,
                            ![n].read = Append(@, [rev |-> rev, rows |-> rows, whole |-> whole])]

\* An answer arrives and is shown, whichever load it belongs to.
ShowAnswer(n) ==
  \E i \in DOMAIN lists[n].read :
    LET got == lists[n].read[i]  old == lists[n].shown IN
    lists' = [lists EXCEPT ![n].read = RemoveAt(@, i),
                           ![n].shown = got,
                           ![n].spoilt = @ \/ (old # None /\ old.rev > got.rev)]

\* The GET fails: what is shown becomes instead, which is what the view's
\* catch puts there.
FailList(n, instead) ==
  /\ lists[n].unread > 0
  /\ lists' = [lists EXCEPT ![n].unread = @ - 1, ![n].shown = instead, ![n].spoilt = TRUE]

-----------------------------------------------------------------------------
(* A request that changes something                                        *)

Idle == [at |-> "idle"]

\* The view sends a request; one is in flight at a time (a bound).  It belongs
\* to this instance of the view: when that is unmounted, its then and catch
\* change nothing any more.
Send(kind, what) ==
  /\ sent.at = "idle"
  /\ changes < MaxChanges
  /\ changes' = changes + 1
  /\ sent' = [at |-> "server", visit |-> visits, kind |-> kind, what |-> what]
  /\ UNCHANGED <<route, visits, rev>>

AtServer(kind) == sent.at = "server" /\ sent.kind = kind

\* The handler ends, having changed a table or not, and answers.
Committed(answer) == rev' = rev + 1 /\ sent' = [sent EXCEPT !.at = answer]
Accepted == rev' = rev /\ sent' = [sent EXCEPT !.at = "ok"]
Refused == rev' = rev /\ sent' = [sent EXCEPT !.at = "error"]

\* The answer reaches the view that asked, if that is still there.
Answered(answer) == sent.at = answer /\ sent' = Idle
ForThisView == sent.visit = visits

-----------------------------------------------------------------------------
(* Sidebar: setRoute unmounts a view with all it keeps and mounts another,  *)
(* whose effects load its lists at once                                     *)

Mount(v, names, fresh) ==
  /\ visits < MaxVisits
  /\ route' = v
  /\ visits' = visits + 1
  /\ lists' = [n \in names |-> Ask(Unloaded)]
  /\ view' = fresh
  /\ told' = rev
  /\ UNCHANGED <<changes, rev, sent>>

AppInit(v, names, fresh) ==
  /\ route = v
  /\ visits = 0 /\ changes = 0 /\ rev = 0 /\ told = 0
  /\ lists = [n \in names |-> Ask(Unloaded)]
  /\ view = fresh
  /\ sent = Idle

\* Another administrator, or another program, has changed something.
Other ==
  /\ changes < MaxChanges
  /\ changes' = changes + 1
  /\ rev' = rev + 1
  /\ UNCHANGED <<route, visits, told, lists, sent>>

AppTypeOK ==
  /\ visits \in 0..MaxVisits /\ changes \in 0..MaxChanges
  /\ rev \in 0..changes /\ told \in 0..rev
  /\ \A n \in DOMAIN lists :
       /\ lists[n].unread \in 0..MaxLoads
       /\ lists[n].unread + Len(lists[n].read) <= MaxLoads
       /\ \A i \in DOMAIN lists[n].read : lists[n].read[i].rev \in 0..rev
       /\ lists[n].spoilt \in BOOLEAN
  /\ sent.at \in {"idle", "server", "ok", "error"}
=============================================================================
