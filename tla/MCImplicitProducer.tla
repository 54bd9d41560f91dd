-------------------------- MODULE MCImplicitProducer --------------------------
(* ImplicitProducer for TLC.  The history of the counters, won and lost,   *)
(* which decides no step, is no part of a state's view.                    *)
EXTENDS ImplicitProducer, TLC

Symmetry == Permutations(Consumer) \cup Permutations(Block)
View == <<tailIndex, headIndex, dequeueOptimisticCount, dequeueOvercommit, pc, locals,
          blockVars, indexVars, prodVars, consVars>>
=============================================================================
