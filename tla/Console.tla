------------------------------- MODULE Console -------------------------------
(***************************************************************************)
(* The console of an administrator: the application (App) with its pages   *)
(* of the storage, of the shares and of the users, one mounted at a time,  *)
(* before a server that other administrators change as well.               *)
(***************************************************************************)
EXTENDS App

CONSTANTS
  Arrays, Disks, Partitions, Begins,   \* of RaidView
  Smb, Nfs, Members, Clients, All, Blank,  \* of SharesView
  Accounts, Root                       \* of UsersView

VARIABLES volume, shares, accounts     \* the tables of the server

R == INSTANCE RaidView
S == INSTANCE SharesView
U == INSTANCE UsersView

\* What the answers of the server hold: the rows of each list.
RowsOf(n) == CASE n = "arrays" -> [Arrays -> [disks: SUBSET R!Pieces, level: R!Levels \cup {None}]]
               [] n = "filesystems" -> [Arrays -> R!FsStates]
               [] n = "shares" -> [S!Ids -> S!SmbForms \cup S!NfsForms \cup {None}]
               [] n = "users" -> [Accounts -> U!States]
Answers(n) == [rev: Nat, rows: RowsOf(n), whole: BOOLEAN]

\* null is no answer and no form; "*" is a client, and an empty client is none.
ASSUME ConsoleAssumption ==
  /\ IsFiniteSet(Disks)
  /\ \A n \in R!raidLists \cup {"shares", "users"} : None \notin Answers(n)
  /\ None \notin S!SmbForms /\ None \notin S!NfsForms
  /\ All \in Clients /\ Blank \notin Clients /\ Clients \cap {"mode", "who"} = {}

tables == <<volume, shares, accounts>>
vars == <<appVars, tables>>

-----------------------------------------------------------------------------
(* The application                                                         *)

\* "other": the pages that ask for nothing that is modelled here.
Routes == {"raid", "shares", "users", "other"}
ListsOf(v) == CASE v = "raid" -> R!raidLists
                [] v = "shares" -> {"shares"}
                [] v = "users" -> {"users"}
                [] v = "other" -> {}
FreshOf(v) == CASE v = "raid" -> R!RaidFresh
                [] v = "shares" -> S!SharesFresh
                [] v = "users" -> U!UsersFresh
                [] v = "other" -> None

\* Another page is opened, or the same one after the session ended and a new
\* login.
Visit(v) == Mount(v, ListsOf(v), FreshOf(v)) /\ UNCHANGED tables

\* The answer to a view that is no longer mounted: its then or catch sets the
\* state of nothing.
DropAnswer ==
  /\ sent.at \in {"ok", "error"} /\ ~ForThisView
  /\ sent' = Idle
  /\ UNCHANGED <<route, visits, changes, rev, told, lists, view, tables>>

\* The console begins on any page that is modelled, and the server with any
\* tables: the shares were written by this page or by a client without blobs.
Init ==
  /\ \E v \in Routes \ {"other"} : AppInit(v, ListsOf(v), FreshOf(v))
  /\ volume \in [Arrays -> R!Volumes]
  /\ DOMAIN shares = S!Ids /\ \A id \in S!Ids : shares[id].at = 0 /\ S!IsRow(id, shares[id])
  /\ accounts \in [Accounts -> U!States]

Next ==
  \/ \E v \in Routes : Visit(v)
  \/ DropAnswer
  \/ R!RaidNext /\ UNCHANGED <<shares, accounts>>
  \/ S!SharesNext /\ UNCHANGED <<volume, accounts>>
  \/ U!UsersNext /\ UNCHANGED <<volume, shares>>

Spec == Init /\ [][Next]_vars

-----------------------------------------------------------------------------
(* Properties                                                              *)

\* The types of the three pages and of the tables behind them.
TypeOK ==
  /\ AppTypeOK /\ R!RaidTypeOK /\ S!SharesTypeOK /\ U!UsersTypeOK
  /\ route \in Routes

\* A filesystem was created since this page last loaded (see RaidView).
Silent == route = "raid" /\ view.silent

\* When everything that a page asked for has been answered, no GET failed and
\* no answer overtook a newer one, then the page shows nothing older than the
\* last thing that it was told of: its own mounting, a success of its own, an
\* event, the end of a progress bar.  The exception is a filesystem that was
\* created: that success loads nothing until its button Done is pressed
\* (app.js:821, 835), and never when its modal was closed with Esc (app.js:807).
ToldIsShown ==
  \A n \in DOMAIN lists :
    Settled(lists[n]) /\ ~lists[n].spoilt /\ ~Silent =>
      lists[n].shown # None /\ lists[n].shown.rev >= told

\* The request that the server is carrying out in this step.
Carries(kind) == AtServer(kind) /\ sent'.at # "server"

\* A request that destroys data, while what its confirmation said is so.
AsConfirmed == sent.kind \in {"wipe", "delete", "createFS", "deleteFS"} /\ sent.what.basis = rev

\* What destroys data, whole or half done, destroys what its confirmation named,
\* if the storage page was up to date when it was asked for, with lists that left
\* nothing out, and nothing has changed until the server acts: a disk that is
\* wiped was in no array itself, an array that is deleted carried the filesystem
\* that was named, and a filesystem is created where there was none.  Two
\* exceptions, then: a 200 with less than there is (raid.go:438, 540, 562), and an
\* array on partitions of the disk, which the server takes for the disk
\* (raid.go:239) and the page does not (app.js:206).
DestructionWasShown ==
  [][sent.at = "server" /\ volume' # volume /\ sent' # sent /\ AsConfirmed =>
       CASE sent.kind = "wipe" -> \A a \in Arrays : sent.what.disk \notin volume[a].disks
         [] sent.kind \in {"delete", "deleteFS"} -> volume[sent.what.array].fs = sent.what.named
         [] sent.kind = "createFS" -> volume[sent.what.array].fs = "none"]_vars

\* A save or a toggle changes the one thing that the user changed: what else
\* the share serves stays as it was, although the whole row is written.  Not so
\* if the row has changed since the page read it: then what others have done to
\* it is undone, which nothing in the page or the server prevents.
SaveKeepsTheRest ==
  [][Carries("updateShare") /\ shares' # shares /\ shares[sent.what.id].at <= sent.what.basis =>
       \A part \in S!Parts(sent.what.id) \ {sent.what.part} :
         S!Part(sent.what.id, shares'[sent.what.id], part) =
           S!Part(sent.what.id, shares[sent.what.id], part)]_vars

\* A button that says Disable disables, and one that says Enable enables; the
\* one of the panel if no load and no request was under way when the panel was
\* opened (it keeps its label, but acts on the list as that is later).
ToggleDoesWhatItSays ==
  [][Carries("updateShare") /\ shares' # shares /\ sent.what.says # None /\ sent.what.says.calm =>
       shares'[sent.what.id].on = sent.what.says.on]_vars

\* The page deletes the last administrator only when its own copy was wrong: a
\* role was changed in it (the server is never told), or the table has changed
\* since it was read.  The server deletes whom it is told to.
AdminsRemain ==
  [][Carries("deleteUser") /\ U!Admins(accounts) # {} /\ U!Admins(accounts') = {} =>
       sent.what.edited \/ sent.what.basis # rev]_vars
=============================================================================
