------------------------------ MODULE MCVolumes -----------------------------
(***************************************************************************)
(* A small instance of Volumes.  dataSlash is data with a slash at its     *)
(* end, spaced has a space, escaped is what /proc/mounts shows of it, and  *)
(* word is what comes before the space; as a directory, word stands for    *)
(* those on which nobody mounts.                                           *)
(***************************************************************************)
EXTENDS Volumes, TLC

CONSTANTS a1, a2, md0, md1, md127, srvMd0, srvMd127, data, dataSlash, spaced, escaped, word

OwnNames == a1 :> md0 @@ a2 :> md1
Defaults == md0 :> srvMd0 @@ md1 :> data @@ md127 :> srvMd127

Same(texts) == [t \in texts |-> t]
Found == dataSlash :> data @@ escaped :> word @@ Same(MountPoints)
FirstWord == spaced :> word @@ Same(MountPoints)
Read == dataSlash :> data @@ escaped :> spaced @@ Same(MountPoints)
Escaped == spaced :> escaped @@ Same(Directories)

\* An array may be put where another belongs, or where another is, and a2 at two
\* places; after a boot one of them may be called md127, whose default place is a
\* third.  a1 is also put where its text is not plain.
Places == {<<a1, srvMd0>>, <<a2, srvMd0>>, <<a2, data>>, <<a1, dataSlash>>, <<a1, spaced>>}

\* Three bounds: behind a mishap the properties promise nothing, and only what was
\* begun, or is begun second, is followed; a type is missing at one place only; and
\* one request has a text that is not plain.
Bounds ==
  /\ mishap => \E r \in Requests : pc[r] = "new"
  /\ \A r \in Requests : job[r].typed \/ job[r].mp = data
  /\ \A q, r \in Requests : {job[q].mp, job[r].mp} \subseteq {dataSlash, spaced} => q = r

Symmetry == Permutations(Requests)
=============================================================================
