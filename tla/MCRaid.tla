------------------------------- MODULE MCRaid -------------------------------
(***************************************************************************)
(* Small instances of Raid.                                                *)
(***************************************************************************)
EXTENDS Raid, TLC

CONSTANTS md1, md10

OneShadowsTen == {<<md1, md10>>}

Symmetry == Permutations(Requests) \cup Permutations(Disks)
=============================================================================
