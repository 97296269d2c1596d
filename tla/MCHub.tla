------------------------------- MODULE MCHub --------------------------------
(***************************************************************************)
(* A small instance of Hub: two pages, of which one follows the arrays and *)
(* one the progress of uploads.                                            *)
(***************************************************************************)
EXTENDS Hub, TLC

CONSTANTS c1, c2, raid, file

TypesOfEvents == <<raid, file, raid>>
Pages == c1 :> raid @@ c2 :> file
=============================================================================
