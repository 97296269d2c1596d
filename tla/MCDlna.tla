------------------------------- MODULE MCDlna -------------------------------
(***************************************************************************)
(* Small instances of Dlna.                                                *)
(***************************************************************************)
EXTENDS Dlna, TLC

Symmetry == Permutations(Requests) \cup Permutations(Dirs)
=============================================================================
