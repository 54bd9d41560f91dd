--------------------------------- MODULE Fifo ---------------------------------
(***************************************************************************)
(* What one producer's sub-queue promises its consumers: each element goes *)
(* to one consumer, once, and they are handed out in the order in which    *)
(* they were put in.  Rdmap and Ddp take this of every queue they use.     *)
(***************************************************************************)
EXTENDS Naturals, Sequences

CONSTANTS Item, Consumer
VARIABLES
  queue,   \* the elements put in and not handed out
  taken    \* what a consumer's call is to return

Init == queue = <<>> /\ taken = [c \in Consumer |-> <<>>]

\* A producer puts in one element, or several at once.
Put == /\ \E n \in 1..Len(queue') : /\ queue = SubSeq(queue', 1, Len(queue') - n)
                                    /\ \A i \in 1..Len(queue') : queue'[i] \in Item
       /\ UNCHANGED taken

Take(c) == /\ taken[c] = <<>>
           /\ \E n \in 1..Len(queue) : /\ taken' = [taken EXCEPT ![c] = SubSeq(queue, 1, n)]
                                       /\ queue' = SubSeq(queue, n + 1, Len(queue))

Return(c) == /\ taken[c] # <<>>
             /\ taken' = [taken EXCEPT ![c] = <<>>]
             /\ UNCHANGED queue

Next == Put \/ \E c \in Consumer : Take(c) \/ Return(c)
Spec == Init /\ [][Next]_<<queue, taken>>
=============================================================================
