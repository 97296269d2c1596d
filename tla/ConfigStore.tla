----------------------------- MODULE ConfigStore -----------------------------
(***************************************************************************)
(* What "source of truth" promises, for any component that keeps a table   *)
(* in the database and generates configuration files from it: the table    *)
(* changes in one step, and a file changes only by being replaced, in one  *)
(* step, with the complete rendering of the table as it is at that moment. *)
(***************************************************************************)
CONSTANTS
  Tables,  \* the values the table can have
  Files,   \* the generated files
  Render   \* Render[f][t]: the text of file f for table t

VARIABLES
  table,     \* the table
  installed  \* the content of every file

Init ==
  /\ table \in Tables
  /\ installed = [f \in Files |-> Render[f][table]]

Commit ==
  /\ table' \in Tables
  /\ UNCHANGED installed

Install(f) ==
  /\ installed' = [installed EXCEPT ![f] = Render[f][table]]
  /\ UNCHANGED table

Next == Commit \/ \E f \in Files : Install(f)

Spec == Init /\ [][Next]_<<table, installed>>
=============================================================================
