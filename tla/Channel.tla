------------------------------- MODULE Channel -------------------------------
(***************************************************************************)
(* What a layer of the stack promises the one above it: the items given to *)
(* the sender come out at the receiver whole, once each and in order, and  *)
(* possibly not all of them, since the connection may break.  MPA promises *)
(* it of ULPDUs, DDP of messages; Rdmap builds on the latter.              *)
(***************************************************************************)
EXTENDS Naturals, Sequences

CONSTANT Item
VARIABLES sent, received

Init == sent = <<>> /\ received = <<>>

Send == /\ \E i \in Item : sent' = Append(sent, i)
        /\ UNCHANGED received

Receive == /\ Len(received) < Len(sent)
           /\ received' = Append(received, sent[Len(received) + 1])
           /\ UNCHANGED sent

Next == Send \/ Receive
Spec == Init /\ [][Next]_<<sent, received>>
=============================================================================
