------------------------------ MODULE MCTokens ------------------------------
(* Tokens for TLC: objects, and the threads of a kind, are interchangeable. *)
EXTENDS Tokens, TLC

\* Tokens made and dropped by two threads at once; two consumers at once; a consumer
\* while a producer is added; two objects, with threads taking turns;
\* a late consumer.
Instances ==
  {[items |-> 1, tokens |-> 3, consumers |-> 1, moves |-> 0, inside |-> 2, late |-> 0],
   [items |-> 2, tokens |-> 0, consumers |-> 2, moves |-> 0, inside |-> 2, late |-> 0],
   [items |-> 2, tokens |-> 1, consumers |-> 1, moves |-> 0, inside |-> 2, late |-> 0],
   [items |-> 1, tokens |-> 2, consumers |-> 1, moves |-> 2, inside |-> 1, late |-> 0],
   [items |-> 3, tokens |-> 1, consumers |-> 1, moves |-> 0, inside |-> 1, late |-> 1]}
Symmetry == Permutations(Object) \cup Permutations(PThread) \cup Permutations(CThread)
=============================================================================
