----------------------------- MODULE LossyStream -----------------------------
(***************************************************************************)
(* What the event hub promises its clients: events are numbered as they    *)
(* are emitted, and each client sees some of them, each once and in order. *)
(***************************************************************************)
EXTENDS Naturals, Sequences

CONSTANT Clients

VARIABLES
  emitted,  \* how many events were emitted
  received  \* per client, the events it got

LastOf(s) == IF s = <<>> THEN 0 ELSE s[Len(s)]

Init ==
  /\ emitted = 0
  /\ received = [c \in Clients |-> <<>>]

Emit ==
  /\ emitted' = emitted + 1
  /\ UNCHANGED received

Deliver(c, e) ==
  /\ e \in (LastOf(received[c]) + 1) .. emitted
  /\ received' = [received EXCEPT ![c] = Append(@, e)]
  /\ UNCHANGED emitted

Next == Emit \/ \E c \in Clients : \E e \in 1 .. emitted : Deliver(c, e)

Spec == Init /\ [][Next]_<<emitted, received>>
=============================================================================
