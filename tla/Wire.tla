-------------------------------- MODULE Wire --------------------------------
(***************************************************************************)
(* What a peer connection promises its two ends: the messages written are  *)
(* received, each once, unchanged and in the order they were written.      *)
(***************************************************************************)
EXTENDS Naturals, Sequences

CONSTANT Messages

VARIABLES sent, received

Init == sent = <<>> /\ received = <<>>

Send ==
    /\ \E m \in Messages : sent' = Append(sent, m)
    /\ UNCHANGED received

Receive ==
    /\ Len(received) < Len(sent)
    /\ received' = Append(received, sent[Len(received) + 1])
    /\ UNCHANGED sent

Spec == Init /\ [][Send \/ Receive]_<<sent, received>>
=============================================================================
