------------------------------ MODULE MCFiles ------------------------------
(***************************************************************************)
(* Small instances of Files: uploads of a file of one chunk, or of a file  *)
(* of one and a file of two chunks.                                        *)
(***************************************************************************)
EXTENDS Files, TLC

OneThenTwo == <<1, 2>>

CONSTANTS a, b, v1

Change(view, op, dir, names) ==
  [op |-> op, view |-> view, dir |-> dir, to |-> dir, names |-> names]
Move(view, dir, to, names) == [Change(view, "rename", dir, names) EXCEPT !.to = to]
SmallMenu ==
  {Change(v1, "mkdir", <<a>>, <<a>>), Change(v1, "chmod", <<a>>, <<b>>),
   Change(v1, "rename", <<>>, <<a, b>>), Move(v1, <<a>>, <<>>, <<b, b>>),
   Change(v1, "remove", <<>>, <<a, b>>),
   Change(v1, "upload", <<a>>, <<b>>), Change(None, "upload", <<a>>, <<a, b>>)}

IntoA == {<<a>>}

Symmetry == Permutations(Requests) \cup Permutations(Slots)
=============================================================================
