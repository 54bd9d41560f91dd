--------------------------- MODULE MCConcurrentQueue ---------------------------
(***************************************************************************)
(* Threads that hash to the same slot.                                     *)
(***************************************************************************)
EXTENDS ConcurrentQueue

CONSTANT Busy

hashedIds == [t \in Thread |-> 1]
Items == [t \in Thread |-> IF t = Busy THEN 2 ELSE 1]

\* newCount is only history once the thread has its place in a table.
View == <<hashVars, listVars, queue, pc, main, prod, prevTail, count, sent, consVars,
          [t \in Thread |-> IF pc[t] \in {"resize", "grow", "room"} THEN newCount[t] ELSE 0]>>

=============================================================================
