------------------------------- MODULE MCQbt --------------------------------
(***************************************************************************)
(* Small instances of Qbt.                                                 *)
(***************************************************************************)
EXTENDS Qbt, TLC

Symmetry == Permutations(Requests) \cup Permutations(VolumeNames)
=============================================================================
