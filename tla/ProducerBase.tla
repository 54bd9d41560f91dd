----------------------------- MODULE ProducerBase -----------------------------
(***************************************************************************)
(* How the consumers of one producer's sub-queue of a                      *)
(* moodycamel::ConcurrentQueue share out its elements: the four counters   *)
(* of ProducerBase in src/common/concurrentqueue.h and the first half of   *)
(* dequeue and dequeue_bulk, which ExplicitProducer and ImplicitProducer   *)
(* spell out alike, one atomic load or read-modify-write a step.  dequeue  *)
(* is the dequeue_bulk of at most one element.                             *)
(*                                                                         *)
(* The counters do not wrap around here: index_t has 64 bits.  What the    *)
(* check before a new block does for a wrapped tail and head is            *)
(* LeewayKept in ImplicitProducer.                                         *)
(***************************************************************************)
EXTENDS Integers, FiniteSets

CONSTANTS
  Consumer,   \* the threads that call try_dequeue or try_dequeue_bulk
  Bulk        \* the numbers of elements a call asks for, or puts in

ASSUME BulkAssumption == Bulk \subseteq Nat \ {0}

VARIABLES
  tailIndex, headIndex, dequeueOptimisticCount, dequeueOvercommit,
  pc,         \* the atomic operation a consumer is at
  seenTail, seenOvercommit,   \* its locals tail and overcommit
  desired, mine, actual,      \* desiredCount, myDequeueCount, actualCount
  index,                      \* firstIndex
  won, lost   \* history: the units of dequeueOptimisticCount that became a
              \* claim on headIndex, and the ones that were given back

locals == <<seenTail, seenOvercommit, desired, mine, actual, index>>
baseVars == <<tailIndex, headIndex, dequeueOptimisticCount, dequeueOvercommit,
              pc, locals, won, lost>>

Min2(a, b) == IF a < b THEN a ELSE b

\* The call of c is over: its locals are gone.  (A local is 0 when it is of no
\* more use.)
Leave(c) ==
  /\ pc' = [pc EXCEPT ![c] = "idle"]
  /\ seenTail' = [seenTail EXCEPT ![c] = 0]
  /\ seenOvercommit' = [seenOvercommit EXCEPT ![c] = 0]
  /\ desired' = [desired EXCEPT ![c] = 0]
  /\ mine' = [mine EXCEPT ![c] = 0]
  /\ actual' = [actual EXCEPT ![c] = 0]
  /\ index' = [index EXCEPT ![c] = 0]

-----------------------------------------------------------------------------
(* dequeue and dequeue_bulk, up to the claim on the elements.              *)

LoadTail(c) ==
  /\ pc[c] = "idle"
  /\ \E max \in Bulk : desired' = [desired EXCEPT ![c] = max]
  /\ seenTail' = [seenTail EXCEPT ![c] = tailIndex]
  /\ pc' = [pc EXCEPT ![c] = "overcommit"]
  /\ UNCHANGED <<tailIndex, headIndex, dequeueOptimisticCount, dequeueOvercommit,
                 seenOvercommit, mine, actual, index, won, lost>>

LoadOvercommit(c) ==
  /\ pc[c] = "overcommit"
  /\ seenOvercommit' = [seenOvercommit EXCEPT ![c] = dequeueOvercommit]
  /\ pc' = [pc EXCEPT ![c] = "check"]
  /\ UNCHANGED <<tailIndex, headIndex, dequeueOptimisticCount, dequeueOvercommit,
                 seenTail, desired, mine, actual, index, won, lost>>

\* The elements there seem to be, from a tail and an optimistic count.
Seeming(c, tail, count) == tail - (count - seenOvercommit[c])

CheckCount(c) ==
  /\ pc[c] = "check"
  /\ LET d == Seeming(c, seenTail[c], dequeueOptimisticCount)
     IN  IF d > 0
         THEN /\ desired' = [desired EXCEPT ![c] = Min2(d, @)]
              /\ seenTail' = [seenTail EXCEPT ![c] = 0]
              /\ pc' = [pc EXCEPT ![c] = "count"]
              /\ UNCHANGED <<seenOvercommit, mine, actual, index>>
         ELSE Leave(c)
  /\ UNCHANGED <<tailIndex, headIndex, dequeueOptimisticCount, dequeueOvercommit, won, lost>>

IncrementCount(c) ==
  /\ pc[c] = "count"
  /\ mine' = [mine EXCEPT ![c] = dequeueOptimisticCount]
  /\ dequeueOptimisticCount' = dequeueOptimisticCount + desired[c]
  /\ pc' = [pc EXCEPT ![c] = "reload"]
  /\ UNCHANGED <<tailIndex, headIndex, dequeueOvercommit,
                 seenTail, seenOvercommit, desired, actual, index, won, lost>>

\* The second look at tailIndex decides how many of the units are claims.
\* Slip: the first look is trusted.
TrustFirst(c) == desired[c]
ActualCount(c) == LET a == Seeming(c, tailIndex, mine[c])
                  IN  IF a > 0 THEN Min2(desired[c], a) ELSE 0

ReloadTail(c) ==
  /\ pc[c] = "reload"
  /\ LET n == ActualCount(c)
     IN  /\ actual' = [actual EXCEPT ![c] = n]
         /\ pc' = [pc EXCEPT ![c] = IF n < desired[c] THEN "giveback" ELSE "claim"]
  /\ UNCHANGED <<tailIndex, headIndex, dequeueOptimisticCount, dequeueOvercommit,
                 seenTail, seenOvercommit, desired, mine, index, won, lost>>

IncrementOvercommit(c) ==
  /\ pc[c] = "giveback"
  /\ dequeueOvercommit' = dequeueOvercommit + (desired[c] - actual[c])
  /\ lost' = lost \cup (mine[c] + actual[c])..(mine[c] + desired[c] - 1)
  /\ IF actual[c] = 0 THEN Leave(c)
     ELSE pc' = [pc EXCEPT ![c] = "claim"] /\ UNCHANGED locals
  /\ UNCHANGED <<tailIndex, headIndex, dequeueOptimisticCount, won>>

ClaimHead(c) ==
  /\ pc[c] = "claim"
  /\ index' = [index EXCEPT ![c] = headIndex]
  /\ headIndex' = headIndex + actual[c]
  /\ won' = won \cup mine[c]..(mine[c] + actual[c] - 1)
  /\ pc' = [pc EXCEPT ![c] = "taking"]
  /\ seenOvercommit' = [seenOvercommit EXCEPT ![c] = 0]
  /\ desired' = [desired EXCEPT ![c] = 0] /\ mine' = [mine EXCEPT ![c] = 0]
  /\ UNCHANGED <<tailIndex, dequeueOptimisticCount, dequeueOvercommit,
                 seenTail, actual, lost>>

\* The call returns, with the elements index[c] .. index[c] + actual[c] - 1.
Return(c) ==
  /\ pc[c] = "taking"
  /\ Leave(c)
  /\ UNCHANGED <<tailIndex, headIndex, dequeueOptimisticCount, dequeueOvercommit, won, lost>>

\* tailIndex.store(newTailIndex), at the end of enqueue and enqueue_bulk.
Publish(count) ==
  /\ tailIndex' = tailIndex + count
  /\ UNCHANGED <<headIndex, dequeueOptimisticCount, dequeueOvercommit, pc, locals, won, lost>>

Claiming(c) == LoadTail(c) \/ LoadOvercommit(c) \/ CheckCount(c) \/ IncrementCount(c)
                 \/ ReloadTail(c) \/ IncrementOvercommit(c) \/ ClaimHead(c)

BaseInit ==
  /\ tailIndex = 0 /\ headIndex = 0
  /\ dequeueOptimisticCount = 0 /\ dequeueOvercommit = 0
  /\ pc = [c \in Consumer |-> "idle"]
  /\ seenTail = [c \in Consumer |-> 0] /\ seenOvercommit = [c \in Consumer |-> 0]
  /\ desired = [c \in Consumer |-> 0] /\ mine = [c \in Consumer |-> 0]
  /\ actual = [c \in Consumer |-> 0] /\ index = [c \in Consumer |-> 0]
  /\ won = {} /\ lost = {}

BaseNext == \/ \E c \in Consumer : Claiming(c) \/ Return(c)
            \/ \E count \in Bulk : Publish(count)
BaseSpec == BaseInit /\ [][BaseNext]_baseVars

-----------------------------------------------------------------------------
(* Properties.                                                             *)

\* The fields of ProducerBase and the locals of a dequeue have their types.
BaseTypeOK ==
  /\ tailIndex \in Nat /\ headIndex \in Nat
  /\ dequeueOptimisticCount \in Nat /\ dequeueOvercommit \in Nat
  /\ pc \in [Consumer -> {"idle", "overcommit", "check", "count", "reload",
                          "giveback", "claim", "taking"}]
  /\ seenTail \in [Consumer -> Nat] /\ seenOvercommit \in [Consumer -> Nat]
  /\ desired \in [Consumer -> Nat] /\ mine \in [Consumer -> Nat]
  /\ actual \in [Consumer -> Nat] /\ index \in [Consumer -> Nat]
  /\ won \in SUBSET Nat /\ lost \in SUBSET Nat

\* However the consumers interleave, the elements they have claimed never go
\* past the last one enqueued: the code says that "there's guaranteed to be at
\* least one element" once the second look at tailIndex has succeeded.
ClaimsWithinTail == headIndex <= tailIndex
=============================================================================
