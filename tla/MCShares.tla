------------------------------ MODULE MCShares ------------------------------
(***************************************************************************)
(* Small instances of Shares: which shares the requests carry.             *)
(***************************************************************************)
EXTENDS Shares, TLC

CONSTANTS n1, n2

Media == [name |-> n1, proto |-> "NFS", enabled |-> TRUE, client |-> "ok"]

\* One NFS share, the same one disabled, and its Samba twin: the three that
\* exercise both generators, both services and the UNIQUE constraint.
BothProtocols ==
  {Media, [Media EXCEPT !.enabled = FALSE], [Media EXCEPT !.proto = "SMB"]}

OneShare == {Media}
=============================================================================
