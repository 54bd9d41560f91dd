---------------------------- MODULE ProducerProofs ----------------------------
(***************************************************************************)
(* For any set of consumers and any bulk sizes, the consumers of a         *)
(* producer's sub-queue never claim more elements than were enqueued.      *)
(*                                                                         *)
(* Every unit that dequeueOptimisticCount has been incremented by is a     *)
(* ticket.  A ticket is held by one consumer until it is won, when it      *)
(* becomes a claim on headIndex, or lost, when it is given back through    *)
(* dequeueOvercommit.  headIndex counts the won tickets and                *)
(* dequeueOvercommit the lost ones.  The overcommit a consumer has loaded  *)
(* only counts tickets below its own, so the test of the second look at    *)
(* tailIndex says that a ticket won, less the lost tickets below it, is    *)
(* less than tailIndex; the greatest won ticket bounds them all.           *)
(*                                                                         *)
(* Both kinds of producers share out their elements so: whatever an        *)
(* implicit producer's blocks and index do, or an explicit producer's      *)
(* ring, a step is a step of BaseSpec or leaves the counters alone.  With  *)
(* the bound, the implicit producer's check of headIndex before each new   *)
(* block is shown to leave the leeway that the comparison of wrapped       *)
(* indices needs.  The explicit producer is an instance: the names it      *)
(* shares with the implicit one stand for its own state.                   *)
(***************************************************************************)
EXTENDS ImplicitProducer, FiniteSetTheorems, TLAPS

\* The tickets of S below t.
Count(S, t) == Cardinality({f \in S : f < t})

\* Consumer c holds ticket t, and does not yet know what becomes of it or has
\* not yet acted on it.
Holds(c, t) == /\ t >= mine[c]
               /\ \/ pc[c] \in {"reload", "giveback"} /\ t < mine[c] + desired[c]
                  \/ pc[c] = "claim" /\ t < mine[c] + actual[c]

HasTickets(c) == pc[c] \in {"reload", "giveback", "claim"}

LocalsOK(c) ==
  /\ pc[c] \in {"check", "count"} => seenOvercommit[c] <= dequeueOvercommit
  /\ HasTickets(c) => /\ seenOvercommit[c] <= Count(lost, mine[c])
                      /\ mine[c] + desired[c] <= dequeueOptimisticCount
  /\ pc[c] \in {"giveback", "claim"} =>
       /\ actual[c] <= desired[c]
       /\ actual[c] > 0 => mine[c] + actual[c] - seenOvercommit[c] <= tailIndex

TicketsOK ==
  /\ \A t \in won \cup lost : t < dequeueOptimisticCount
  /\ won \cap lost = {}
  /\ \A c \in Consumer, t \in Nat : Holds(c, t) =>
       /\ t \notin won /\ t \notin lost
       /\ \A d \in Consumer : Holds(d, t) => d = c

WonOK == /\ \A t \in won : t - Count(lost, t) < tailIndex
         /\ won = {} \/ \E t \in won : \A u \in won : u <= t

Ledger ==
  /\ BaseTypeOK
  /\ headIndex = Cardinality(won) /\ dequeueOvercommit = Cardinality(lost)
  /\ \A c \in Consumer : LocalsOK(c)
  /\ TicketsOK
  /\ WonOK

-----------------------------------------------------------------------------
(* Sets of tickets.                                                        *)

\* A run of k tickets is finite and has k members.
LEMMA RunOfTickets ==
  ASSUME NEW a \in Nat, NEW k \in Nat
  PROVE  IsFiniteSet(a..(a + k - 1)) /\ Cardinality(a..(a + k - 1)) = k
<1>1. a \in Int /\ a + k - 1 \in Int
  OBVIOUS
<1>2. IsFiniteSet(a..(a + k - 1))
      /\ Cardinality(a..(a + k - 1)) = IF a > a + k - 1 THEN 0 ELSE (a + k - 1) - a + 1
  BY Zenon, <1>1, FS_Interval
<1> QED
  BY <1>2

\* A set of tickets that were handed out is finite.
LEMMA TicketsFinite ==
  ASSUME NEW S \in SUBSET Nat, NEW n \in Nat, \A t \in S : t < n
  PROVE  IsFiniteSet(S) /\ Cardinality(S) \in Nat
<1>1. \A t \in S : t <= n
  OBVIOUS
<1>2. IsFiniteSet(S)
  BY Zenon, <1>1, FS_BoundedSetOfNaturals
<1> QED
  BY Zenon, <1>2, FS_CardinalityType

\* Adding a run of tickets that are not there yet adds their number.
LEMMA AddRun ==
  ASSUME NEW S, IsFiniteSet(S), NEW a \in Nat, NEW k \in Nat,
         S \cap a..(a + k - 1) = {}
  PROVE  IsFiniteSet(S \cup a..(a + k - 1))
         /\ Cardinality(S \cup a..(a + k - 1)) = Cardinality(S) + k
<1>1. IsFiniteSet(a..(a + k - 1)) /\ Cardinality(a..(a + k - 1)) = k
  BY Zenon, RunOfTickets
<1>2. Cardinality(S \cap a..(a + k - 1)) = 0
  BY Zenon, FS_EmptySet
<1>3. Cardinality(S) \in Nat
  BY Zenon, FS_CardinalityType
<1>4. IsFiniteSet(S \cup a..(a + k - 1))
      /\ Cardinality(S \cup a..(a + k - 1))
           = Cardinality(S) + Cardinality(a..(a + k - 1)) - Cardinality(S \cap a..(a + k - 1))
  BY Zenon, <1>1, FS_Union
<1> QED
  BY <1>1, <1>2, <1>3, <1>4

\* The tickets below a bound are fewer in a smaller set and below a smaller
\* bound.
LEMMA CountMonotone ==
  ASSUME NEW S, NEW T, S \subseteq T, T \subseteq Nat, IsFiniteSet(T),
         NEW t \in Nat, NEW u \in Nat, t <= u
  PROVE  /\ Count(S, t) \in Nat /\ Count(T, u) \in Nat
         /\ Count(S, t) <= Count(T, u)
<1> DEFINE A == {f \in S : f < t}
           B == {f \in T : f < u}
<1>1. A \subseteq B
  <2>1. SUFFICES ASSUME NEW f \in S, f < t
                 PROVE  f \in T /\ f < u
    BY Zenon
  <2>2. f \in T /\ f \in Nat
    BY Zenon
  <2> QED BY <2>1, <2>2
<1>2. IsFiniteSet(B)
  <2>1. B \in SUBSET T
    BY Zenon
  <2> QED BY Zenon, <2>1, FS_Subset
<1>3. IsFiniteSet(A) /\ Cardinality(A) <= Cardinality(B)
  BY Zenon, <1>1, <1>2, FS_Subset
<1>4. Cardinality(A) \in Nat /\ Cardinality(B) \in Nat
  BY Zenon, <1>2, <1>3, FS_CardinalityType
<1> QED
  BY Zenon, <1>3, <1>4 DEF Count

\* Below the bound of all tickets are all of them.
LEMMA CountAll ==
  ASSUME NEW S \in SUBSET Nat, NEW n \in Nat, \A f \in S : f < n
  PROVE  Count(S, n) = Cardinality(S)
<1>1. {f \in S : f < n} = S
  BY Zenon
<1> QED
  BY Zenon, <1>1 DEF Count

-----------------------------------------------------------------------------
(* Each step keeps the ledger.                                             *)

\* What the ledger says of the sets of tickets.
LEMMA LedgerSets ==
  ASSUME Ledger
  PROVE  /\ won \in SUBSET Nat /\ lost \in SUBSET Nat
         /\ IsFiniteSet(won) /\ IsFiniteSet(lost)
         /\ dequeueOptimisticCount \in Nat
         /\ \A t \in lost : t < dequeueOptimisticCount
         /\ \A t \in Nat : Count(lost, t) \in Nat
<1>1. won \in SUBSET Nat /\ lost \in SUBSET Nat /\ dequeueOptimisticCount \in Nat
  BY Zenon DEF Ledger, BaseTypeOK
<1>2. (\A t \in won : t < dequeueOptimisticCount) /\ (\A t \in lost : t < dequeueOptimisticCount)
  BY Zenon DEF Ledger, TicketsOK
<1>3. IsFiniteSet(won) /\ IsFiniteSet(lost)
  BY Zenon, <1>1, <1>2, TicketsFinite
<1>4. ASSUME NEW t \in Nat PROVE Count(lost, t) \in Nat
  <2>1. lost \subseteq lost /\ lost \subseteq Nat /\ t <= t
    BY <1>1
  <2> QED BY Zenon, <2>1, <1>3, CountMonotone
<1> QED
  BY Zenon, <1>1, <1>2, <1>3, <1>4

\* A consumer whose locals a step leaves alone keeps its part of the ledger
\* when the counters and the set of lost tickets only grow.
LEMMA OthersKeep ==
  ASSUME NEW d, pc'[d] = pc[d], seenOvercommit'[d] = seenOvercommit[d],
         desired'[d] = desired[d], mine'[d] = mine[d], actual'[d] = actual[d],
         seenOvercommit[d] \in Nat, desired[d] \in Nat, mine[d] \in Nat, actual[d] \in Nat,
         dequeueOvercommit \in Nat, dequeueOvercommit' \in Nat,
         dequeueOvercommit' >= dequeueOvercommit,
         dequeueOptimisticCount \in Nat, dequeueOptimisticCount' \in Nat,
         dequeueOptimisticCount' >= dequeueOptimisticCount,
         tailIndex \in Nat, tailIndex' \in Nat, tailIndex' >= tailIndex,
         Count(lost, mine[d]) \in Nat, Count(lost', mine[d]) \in Nat,
         Count(lost', mine[d]) >= Count(lost, mine[d]),
         LocalsOK(d)
  PROVE  LocalsOK(d)'
<1>1. pc[d] \in {"check", "count"} => seenOvercommit[d] <= dequeueOvercommit'
  BY DEF LocalsOK
<1>2. HasTickets(d) => /\ seenOvercommit[d] <= Count(lost', mine[d])
                       /\ mine[d] + desired[d] <= dequeueOptimisticCount'
  BY DEF LocalsOK
<1>3. pc[d] \in {"giveback", "claim"} =>
        /\ actual[d] <= desired[d]
        /\ actual[d] > 0 => mine[d] + actual[d] - seenOvercommit[d] <= tailIndex'
  BY DEF LocalsOK
<1>4. HasTickets(d)' <=> HasTickets(d)
  BY Zenon DEF HasTickets
<1>5. Count(lost, mine[d])' = Count(lost', mine[d])
  BY Zenon DEF Count
<1> QED
  BY Zenon, <1>1, <1>2, <1>3, <1>4, <1>5 DEF LocalsOK

\* A step that changes no ticket's state and does not lower tailIndex.
LEMMA SameTickets ==
  ASSUME Ledger, BaseTypeOK', headIndex' = headIndex, dequeueOvercommit' = dequeueOvercommit,
         dequeueOptimisticCount' = dequeueOptimisticCount, won' = won, lost' = lost,
         tailIndex' >= tailIndex,
         \A c \in Consumer : LocalsOK(c)',
         \A c \in Consumer, t \in Nat : Holds(c, t)' => Holds(c, t)
  PROVE  Ledger'
<1>1. TicketsOK'
  <2>1. TicketsOK
    BY Zenon DEF Ledger
  <2> QED BY Zenon, <2>1 DEF TicketsOK
<1>2. WonOK'
  <2>1. WonOK /\ tailIndex \in Nat /\ tailIndex' \in Nat /\ won \in SUBSET Nat
    BY Zenon DEF Ledger, BaseTypeOK
  <2>2. ASSUME NEW t \in won PROVE t - Count(lost, t) < tailIndex'
    <3>1. Count(lost, t) \in Nat /\ t \in Nat
      BY Zenon, <2>1, <2>2, LedgerSets
    <3>2. t - Count(lost, t) < tailIndex
      BY Zenon, <2>1, <2>2 DEF WonOK
    <3> QED BY <2>1, <3>1, <3>2
  <2> QED BY Zenon, <2>1, <2>2 DEF WonOK, Count
<1> QED
  BY Zenon, <1>1, <1>2 DEF Ledger

\* The parts of the ledger that most steps use.
LEMMA LedgerTypes ==
  ASSUME Ledger, NEW c \in Consumer
  PROVE  /\ tailIndex \in Nat /\ headIndex \in Nat
         /\ dequeueOptimisticCount \in Nat /\ dequeueOvercommit \in Nat
         /\ seenTail[c] \in Nat /\ seenOvercommit[c] \in Nat /\ desired[c] \in Nat
         /\ mine[c] \in Nat /\ actual[c] \in Nat /\ index[c] \in Nat
         /\ LocalsOK(c)
BY Zenon DEF Ledger, BaseTypeOK

\* The consumers that a step of c leaves alone, when it touches no counter.
LEMMA RestKeep ==
  ASSUME Ledger, NEW c \in Consumer, NEW d \in Consumer,
         pc'[d] = pc[d], seenOvercommit'[d] = seenOvercommit[d],
         desired'[d] = desired[d], mine'[d] = mine[d], actual'[d] = actual[d],
         dequeueOvercommit' = dequeueOvercommit, tailIndex' \in Nat, tailIndex' >= tailIndex,
         dequeueOptimisticCount' = dequeueOptimisticCount, lost' = lost
  PROVE  LocalsOK(d)'
<1>1. Count(lost, mine[d]) \in Nat
  BY Zenon, LedgerSets, LedgerTypes
<1> QED
  BY <1>1, LedgerTypes, OthersKeep

\* Publish, the producer's step, only raises tailIndex.
LEMMA PublishKeeps ==
  ASSUME Ledger, NEW n \in Bulk, Publish(n)
  PROVE  Ledger'
<1>1. n \in Nat
  BY Zenon, BulkAssumption
<1>2. tailIndex \in Nat /\ tailIndex' \in Nat /\ tailIndex' >= tailIndex
  BY <1>1 DEF Ledger, BaseTypeOK, Publish
<1>3. BaseTypeOK'
  BY Zenon, <1>2 DEF Ledger, BaseTypeOK, Publish, locals
<1>4. ASSUME NEW d \in Consumer PROVE LocalsOK(d)'
  BY Zenon, <1>2, RestKeep DEF Publish, locals
<1>5. \A d \in Consumer, t \in Nat : Holds(d, t)' => Holds(d, t)
  BY Zenon DEF Publish, locals, Holds
<1> QED
  BY Zenon, <1>2, <1>3, <1>4, <1>5, SameTickets DEF Publish

\* A step of c that touches no counter keeps the ledger when it keeps the part
\* of c and gives c no ticket.
LEMMA LocalStep ==
  ASSUME Ledger, NEW c \in Consumer, BaseTypeOK',
         UNCHANGED <<tailIndex, headIndex, dequeueOptimisticCount, dequeueOvercommit, won, lost>>,
         \A d \in Consumer \ {c} :
            /\ pc'[d] = pc[d] /\ seenOvercommit'[d] = seenOvercommit[d]
            /\ desired'[d] = desired[d] /\ mine'[d] = mine[d] /\ actual'[d] = actual[d],
         LocalsOK(c)', \A t \in Nat : Holds(c, t)' => Holds(c, t)
  PROVE  Ledger'
<1>1. tailIndex' \in Nat /\ tailIndex' >= tailIndex
  BY LedgerTypes
<1>2. ASSUME NEW d \in Consumer PROVE LocalsOK(d)'
  <2>1. CASE d = c
    BY Zenon, <2>1
  <2>2. CASE d # c
    BY Zenon, <1>1, <2>2, RestKeep
  <2> QED BY Zenon, <2>1, <2>2
<1>3. ASSUME NEW d \in Consumer, NEW t \in Nat, Holds(d, t)' PROVE Holds(d, t)
  <2>1. CASE d = c
    BY Zenon, <1>3, <2>1
  <2>2. CASE d # c
    BY Zenon, <1>3, <2>2 DEF Holds
  <2> QED BY Zenon, <2>1, <2>2
<1> QED
  BY Zenon, <1>1, <1>2, <1>3, SameTickets

\* dequeue's first load: c has no ticket yet.
LEMMA LoadTailKeeps ==
  ASSUME Ledger, NEW c \in Consumer, LoadTail(c)
  PROVE  Ledger'
<1>1. BaseTypeOK'
  <2>1. PICK max \in Bulk : desired' = [desired EXCEPT ![c] = max]
    BY Zenon DEF LoadTail
  <2>2. max \in Nat
    BY Zenon, BulkAssumption
  <2>3. desired' \in [Consumer -> Nat]
    BY Zenon, <2>1, <2>2 DEF Ledger, BaseTypeOK
  <2> QED BY Zenon, <2>3 DEF Ledger, BaseTypeOK, LoadTail
<1>2. pc'[c] = "overcommit"
  BY Zenon DEF Ledger, BaseTypeOK, LoadTail
<1>3. LocalsOK(c)' /\ \A t \in Nat : ~Holds(c, t)'
  BY Zenon, <1>2 DEF LocalsOK, HasTickets, Holds
<1>4. \A d \in Consumer \ {c} :
        /\ pc'[d] = pc[d] /\ seenOvercommit'[d] = seenOvercommit[d]
        /\ desired'[d] = desired[d] /\ mine'[d] = mine[d] /\ actual'[d] = actual[d]
  BY Zenon DEF LoadTail, Ledger, BaseTypeOK
<1> QED
  BY Zenon, <1>1, <1>3, <1>4, LocalStep DEF LoadTail

\* The load of dequeueOvercommit: what c has seen is at most what there is.
LEMMA LoadOvercommitKeeps ==
  ASSUME Ledger, NEW c \in Consumer, LoadOvercommit(c)
  PROVE  Ledger'
<1>1. BaseTypeOK'
  BY Zenon DEF Ledger, BaseTypeOK, LoadOvercommit
<1>2. pc'[c] = "check" /\ seenOvercommit'[c] = dequeueOvercommit'
  BY Zenon DEF Ledger, BaseTypeOK, LoadOvercommit
<1>3. LocalsOK(c)' /\ \A t \in Nat : ~Holds(c, t)'
  BY <1>1, <1>2 DEF LocalsOK, HasTickets, Holds, BaseTypeOK
<1>4. \A d \in Consumer \ {c} :
        /\ pc'[d] = pc[d] /\ seenOvercommit'[d] = seenOvercommit[d]
        /\ desired'[d] = desired[d] /\ mine'[d] = mine[d] /\ actual'[d] = actual[d]
  BY Zenon DEF LoadOvercommit, Ledger, BaseTypeOK
<1> QED
  BY Zenon, <1>1, <1>3, <1>4, LocalStep DEF LoadOvercommit

\* A call that ends leaves its consumer without tickets.
LEMMA LeaveKeeps ==
  ASSUME Ledger, NEW c \in Consumer, Leave(c),
         UNCHANGED <<tailIndex, headIndex, dequeueOptimisticCount, dequeueOvercommit, won, lost>>
  PROVE  Ledger'
<1>1. BaseTypeOK'
  BY Zenon DEF Ledger, BaseTypeOK, Leave
<1>2. pc'[c] = "idle"
  BY Zenon DEF Ledger, BaseTypeOK, Leave
<1>3. LocalsOK(c)' /\ \A t \in Nat : ~Holds(c, t)'
  BY Zenon, <1>2 DEF LocalsOK, HasTickets, Holds
<1>4. \A d \in Consumer \ {c} :
        /\ pc'[d] = pc[d] /\ seenOvercommit'[d] = seenOvercommit[d]
        /\ desired'[d] = desired[d] /\ mine'[d] = mine[d] /\ actual'[d] = actual[d]
  BY Zenon DEF Leave, Ledger, BaseTypeOK
<1> QED
  BY Zenon, <1>1, <1>3, <1>4, LocalStep

\* The test of dequeueOptimisticCount, which only lowers desired.
LEMMA CheckCountKeeps ==
  ASSUME Ledger, NEW c \in Consumer, CheckCount(c)
  PROVE  Ledger'
<1> DEFINE d0 == Seeming(c, seenTail[c], dequeueOptimisticCount)
<1>1. CASE d0 > 0
  <2>1. d0 \in Int /\ Min2(d0, desired[c]) \in Nat
    BY <1>1, LedgerTypes DEF Seeming, Min2
  <2>2. /\ desired' = [desired EXCEPT ![c] = Min2(d0, desired[c])]
        /\ seenTail' = [seenTail EXCEPT ![c] = 0] /\ pc' = [pc EXCEPT ![c] = "count"]
        /\ pc[c] = "check"
        /\ UNCHANGED <<seenOvercommit, mine, actual, index>>
        /\ UNCHANGED <<tailIndex, headIndex, dequeueOptimisticCount, dequeueOvercommit, won, lost>>
    BY Zenon, <1>1 DEF CheckCount
  <2> HIDE DEF d0
  <2>3. BaseTypeOK'
    BY Zenon, <2>1, <2>2 DEF Ledger, BaseTypeOK
  <2>4. pc'[c] = "count"
    BY Zenon, <2>2 DEF Ledger, BaseTypeOK
  <2>5. LocalsOK(c)' /\ \A t \in Nat : ~Holds(c, t)'
    BY Zenon, <2>2, <2>4, LedgerTypes DEF LocalsOK, HasTickets, Holds
  <2>6. \A d \in Consumer \ {c} :
          /\ pc'[d] = pc[d] /\ seenOvercommit'[d] = seenOvercommit[d]
          /\ desired'[d] = desired[d] /\ mine'[d] = mine[d] /\ actual'[d] = actual[d]
    BY Zenon, <2>2 DEF Ledger, BaseTypeOK
  <2> QED BY Zenon, <2>2, <2>3, <2>5, <2>6, LocalStep
<1>2. CASE ~(d0 > 0)
  BY Zenon, <1>2, LeaveKeeps DEF CheckCount
<1> QED BY Zenon, <1>1, <1>2

\* A ticket that is held has been handed out.
LEMMA HeldBelow ==
  ASSUME Ledger, NEW c \in Consumer, NEW t \in Nat, Holds(c, t)
  PROVE  t < dequeueOptimisticCount
BY LedgerTypes DEF Holds, LocalsOK, HasTickets

\* fetch_add on dequeueOptimisticCount hands out tickets nobody has had.
LEMMA IncrementCountKeeps ==
  ASSUME Ledger, NEW c \in Consumer, IncrementCount(c)
  PROVE  Ledger'
<1>1. BaseTypeOK'
  <2>1. dequeueOptimisticCount' \in Nat
    BY LedgerTypes DEF IncrementCount
  <2> QED BY Zenon, <2>1 DEF Ledger, BaseTypeOK, IncrementCount
<1>2. /\ pc[c] = "count" /\ pc'[c] = "reload" /\ mine'[c] = dequeueOptimisticCount
      /\ desired' = desired /\ actual' = actual /\ seenOvercommit' = seenOvercommit
      /\ dequeueOptimisticCount' = dequeueOptimisticCount + desired[c]
      /\ lost' = lost /\ won' = won /\ tailIndex' = tailIndex /\ headIndex' = headIndex
      /\ dequeueOvercommit' = dequeueOvercommit
  BY Zenon DEF Ledger, BaseTypeOK, IncrementCount
<1>3. \A d \in Consumer \ {c} : pc'[d] = pc[d] /\ mine'[d] = mine[d]
  BY Zenon DEF Ledger, BaseTypeOK, IncrementCount
<1>4. LocalsOK(c)'
  <2>1. Count(lost, dequeueOptimisticCount) = dequeueOvercommit
    BY Zenon, LedgerSets, CountAll DEF Ledger
  <2>2. seenOvercommit[c] <= dequeueOvercommit
    BY Zenon, <1>2 DEF Ledger, LocalsOK
  <2>3. Count(lost, mine[c])' = Count(lost, dequeueOptimisticCount)
    BY Zenon, <1>2 DEF Count
  <2>4. (mine[c] + desired[c])' <= dequeueOptimisticCount'
    BY <1>2, LedgerTypes
  <2> QED BY Zenon, <1>2, <2>1, <2>2, <2>3, <2>4 DEF LocalsOK, HasTickets
<1>5. ASSUME NEW d \in Consumer PROVE LocalsOK(d)'
  <2>1. CASE d = c
    BY Zenon, <1>4, <2>1
  <2>2. CASE d # c
    <3>1. Count(lost, mine[d]) \in Nat /\ desired[c] \in Nat
      BY Zenon, LedgerSets, LedgerTypes
    <3>2. /\ pc'[d] = pc[d] /\ mine'[d] = mine[d] /\ desired'[d] = desired[d]
          /\ actual'[d] = actual[d] /\ seenOvercommit'[d] = seenOvercommit[d]
          /\ lost' = lost /\ tailIndex' = tailIndex /\ dequeueOvercommit' = dequeueOvercommit
      BY Zenon, <1>2, <1>3, <2>2
    <3>3. /\ seenOvercommit[d] \in Nat /\ desired[d] \in Nat /\ mine[d] \in Nat
          /\ actual[d] \in Nat /\ LocalsOK(d) /\ dequeueOvercommit \in Nat
          /\ dequeueOptimisticCount \in Nat /\ tailIndex \in Nat
      BY Zenon, LedgerTypes
    <3>4. dequeueOptimisticCount' \in Nat /\ dequeueOptimisticCount' >= dequeueOptimisticCount
      BY <1>2, <3>1, <3>3
    <3>5. /\ dequeueOvercommit' >= dequeueOvercommit /\ tailIndex' >= tailIndex
          /\ Count(lost', mine[d]) \in Nat /\ Count(lost', mine[d]) >= Count(lost, mine[d])
      BY <3>1, <3>2, <3>3
    <3> QED BY Zenon, <3>1, <3>2, <3>3, <3>4, <3>5, OthersKeep
  <2> QED BY Zenon, <2>1, <2>2
<1>6. TicketsOK'
  <2>1. TicketsOK /\ dequeueOptimisticCount \in Nat /\ desired[c] \in Nat
        /\ won \in SUBSET Nat /\ lost \in SUBSET Nat
    BY Zenon, LedgerTypes, LedgerSets DEF Ledger
  <2>2. \A t \in won \cup lost : t < dequeueOptimisticCount'
    BY <1>2, <2>1 DEF TicketsOK
  <2>3. \A d \in Consumer \ {c}, t \in Nat : Holds(d, t)' <=> Holds(d, t)
    BY Zenon, <1>2, <1>3 DEF Holds
  <2>4. \A t \in Nat : Holds(c, t)' => t >= dequeueOptimisticCount
    BY Zenon, <1>2 DEF Holds
  <2>5. \A t \in Nat : t >= dequeueOptimisticCount =>
          /\ t \notin won /\ t \notin lost
          /\ \A d \in Consumer : ~Holds(d, t)
    <3>1. ASSUME NEW t \in Nat, t >= dequeueOptimisticCount
          PROVE  t \notin won /\ t \notin lost
      BY <2>1, <3>1 DEF TicketsOK
    <3>2. ASSUME NEW t \in Nat, t >= dequeueOptimisticCount, NEW d \in Consumer
          PROVE  ~Holds(d, t)
      BY <2>1, <3>2, HeldBelow
    <3> QED BY Zenon, <3>1, <3>2
  <2>6. ASSUME NEW d \in Consumer, NEW t \in Nat, Holds(d, t)'
        PROVE  /\ t \notin won /\ t \notin lost
               /\ \A e \in Consumer : Holds(e, t)' => e = d
    <3>1. CASE d = c
      BY Zenon, <2>3, <2>4, <2>5, <2>6, <3>1
    <3>2. CASE d # c
      <4>1. Holds(d, t)
        BY Zenon, <2>3, <2>6, <3>2
      <4>2. ~Holds(c, t)'
        BY Zenon, <2>4, <2>5, <4>1
      <4> QED BY Zenon, <2>1, <2>3, <4>1, <4>2 DEF TicketsOK
    <3> QED BY Zenon, <3>1, <3>2
  <2> QED BY Zenon, <1>2, <2>1, <2>2, <2>6 DEF TicketsOK
<1>7. WonOK'
  BY Zenon, <1>2 DEF Ledger, WonOK, Count
<1> QED
  BY Zenon, <1>1, <1>2, <1>5, <1>6, <1>7 DEF Ledger

\* The second look at tailIndex: of the tickets of c, as many are to be won
\* as there are elements for.
LEMMA ReloadTailKeeps ==
  ASSUME Ledger, NEW c \in Consumer, ReloadTail(c)
  PROVE  Ledger'
<1> DEFINE n == ActualCount(c)
<1>1. /\ n \in Nat /\ n <= desired[c]
      /\ n > 0 => mine[c] + n - seenOvercommit[c] <= tailIndex
  BY LedgerTypes DEF ActualCount, Seeming, Min2
<1>2. /\ pc[c] = "reload" /\ actual' = [actual EXCEPT ![c] = n]
      /\ pc' = [pc EXCEPT ![c] = IF n < desired[c] THEN "giveback" ELSE "claim"]
      /\ UNCHANGED <<tailIndex, headIndex, dequeueOptimisticCount, dequeueOvercommit, won, lost>>
      /\ UNCHANGED <<seenTail, seenOvercommit, desired, mine, index>>
  BY Zenon DEF ReloadTail
<1> HIDE DEF n
<1>3. BaseTypeOK'
  BY Zenon, <1>1, <1>2 DEF Ledger, BaseTypeOK
<1>4. actual'[c] = n /\ pc'[c] = IF n < desired[c] THEN "giveback" ELSE "claim"
  BY Zenon, <1>2 DEF Ledger, BaseTypeOK
<1>5. LocalsOK(c)'
  <2>1. seenOvercommit[c] <= Count(lost, mine[c])
        /\ mine[c] + desired[c] <= dequeueOptimisticCount
    BY Zenon, <1>2, LedgerTypes DEF LocalsOK, HasTickets
  <2>2. Count(lost, mine[c])' = Count(lost, mine[c])
    BY Zenon, <1>2 DEF Count
  <2>3. pc'[c] \notin {"check", "count"}
    BY Zenon, <1>4
  <2>4. seenOvercommit'[c] <= Count(lost, mine[c])'
        /\ mine'[c] + desired'[c] <= dequeueOptimisticCount'
    BY Zenon, <1>2, <2>1, <2>2
  <2>5. /\ actual'[c] <= desired'[c]
        /\ actual'[c] > 0 => mine'[c] + actual'[c] - seenOvercommit'[c] <= tailIndex'
    BY Zenon, <1>1, <1>2, <1>4
  <2> QED BY Zenon, <2>3, <2>4, <2>5 DEF LocalsOK
<1>6. \A t \in Nat : Holds(c, t)' => Holds(c, t)
  <2> SUFFICES ASSUME NEW t \in Nat, Holds(c, t)' PROVE Holds(c, t)
    BY Zenon
  <2>1. t >= mine[c] /\ (t < mine[c] + desired[c] \/ t < mine[c] + n)
    BY Zenon, <1>2, <1>4 DEF Holds
  <2>2. mine[c] \in Nat /\ desired[c] \in Nat
    BY Zenon, LedgerTypes
  <2>3. t < mine[c] + desired[c]
    BY <1>1, <2>1, <2>2
  <2> QED BY Zenon, <1>2, <2>1, <2>3 DEF Holds
<1>7. \A d \in Consumer \ {c} :
        /\ pc'[d] = pc[d] /\ seenOvercommit'[d] = seenOvercommit[d]
        /\ desired'[d] = desired[d] /\ mine'[d] = mine[d] /\ actual'[d] = actual[d]
  BY Zenon, <1>2 DEF Ledger, BaseTypeOK
<1> QED
  BY Zenon, <1>2, <1>3, <1>5, <1>6, <1>7, LocalStep

\* fetch_add on dequeueOvercommit: the tickets of c that no element was there
\* for are lost, and c goes on with the others or leaves.
LEMMA IncrementOvercommitKeeps ==
  ASSUME Ledger, NEW c \in Consumer, IncrementOvercommit(c)
  PROVE  Ledger'
<1> DEFINE a == mine[c] + actual[c]
           k == desired[c] - actual[c]
           run == a..(a + k - 1)
<1>1. /\ pc[c] = "giveback" /\ actual[c] <= desired[c] /\ a \in Nat /\ k \in Nat
      /\ mine[c] \in Nat /\ actual[c] \in Nat /\ desired[c] \in Nat
      /\ a + k = mine[c] + desired[c] /\ a + k <= dequeueOptimisticCount
  BY LedgerTypes DEF IncrementOvercommit, LocalsOK, HasTickets
<1>2. /\ lost' = lost \cup run /\ dequeueOvercommit' = dequeueOvercommit + k
      /\ won' = won /\ tailIndex' = tailIndex /\ headIndex' = headIndex
      /\ dequeueOptimisticCount' = dequeueOptimisticCount
  <2>1. mine[c] + desired[c] - 1 = a + k - 1
    BY <1>1
  <2> QED BY Zenon, <2>1 DEF IncrementOvercommit
<1>3. /\ \A t \in run : t \in Nat /\ t >= a /\ t < a + k
      /\ \A t \in run : Holds(c, t)
  BY <1>1 DEF Holds
<1> HIDE DEF a, k, run
<1>4. won \in SUBSET Nat /\ lost \in SUBSET Nat /\ IsFiniteSet(lost) /\ TicketsOK
      /\ dequeueOptimisticCount \in Nat /\ tailIndex \in Nat /\ dequeueOvercommit \in Nat
  BY Zenon, LedgerSets, LedgerTypes DEF Ledger
<1>5. lost \cap run = {} /\ won \cap run = {}
  BY Zenon, <1>3, <1>4 DEF TicketsOK
<1>6. IsFiniteSet(lost') /\ Cardinality(lost') = Cardinality(lost) + k
  <2>1. lost \cap a..(a + k - 1) = {}
    BY Zenon, <1>5 DEF run
  <2> QED BY Zenon, <1>1, <1>2, <1>4, <2>1, AddRun DEF run
<1>7. dequeueOvercommit' = Cardinality(lost') /\ headIndex' = Cardinality(won')
      /\ dequeueOvercommit' \in Nat /\ dequeueOvercommit' >= dequeueOvercommit
  BY <1>1, <1>2, <1>4, <1>6 DEF Ledger
<1>8. lost' \in SUBSET Nat
  BY Zenon, <1>2, <1>3, <1>4
<1>9. BaseTypeOK'
  <2>1. CASE actual[c] = 0
    BY <1>2, <1>7, <1>8, <2>1 DEF IncrementOvercommit, Leave, Ledger, BaseTypeOK
  <2>2. CASE actual[c] # 0
    BY Zenon, <1>2, <1>7, <1>8, <2>2 DEF IncrementOvercommit, locals, Ledger, BaseTypeOK
  <2> QED BY Zenon, <2>1, <2>2
<1>10. ASSUME NEW t \in Nat
       PROVE  /\ Count(lost, t) \in Nat /\ Count(lost', t) \in Nat
              /\ Count(lost, t) <= Count(lost', t)
  <2>1. lost \subseteq lost' /\ lost' \subseteq Nat /\ t <= t
    BY <1>2, <1>8
  <2> QED BY Zenon, <1>6, <2>1, CountMonotone
<1>11. \A d \in Consumer \ {c} :
         /\ pc'[d] = pc[d] /\ seenOvercommit'[d] = seenOvercommit[d]
         /\ desired'[d] = desired[d] /\ mine'[d] = mine[d] /\ actual'[d] = actual[d]
  <2>1. CASE actual[c] = 0
    BY ZenonT(30), <2>1 DEF IncrementOvercommit, Leave, Ledger, BaseTypeOK
  <2>2. CASE actual[c] # 0
    BY Zenon, <2>2 DEF IncrementOvercommit, locals, Ledger, BaseTypeOK
  <2> QED BY Zenon, <2>1, <2>2
<1>12. LocalsOK(c)' /\ \A t \in Nat : Holds(c, t)' => Holds(c, t) /\ t \notin run
  <2>1. CASE actual[c] = 0
    <3>1. pc'[c] = "idle"
      BY Zenon, <2>1 DEF IncrementOvercommit, Leave, Ledger, BaseTypeOK
    <3> QED BY Zenon, <3>1 DEF LocalsOK, HasTickets, Holds
  <2>2. CASE actual[c] # 0
    <3>1. pc'[c] = "claim" /\ UNCHANGED locals
      BY Zenon, <2>2 DEF IncrementOvercommit, Ledger, BaseTypeOK
    <3>2. /\ seenOvercommit[c] <= Count(lost', mine[c])
          /\ mine[c] + desired[c] <= dequeueOptimisticCount
          /\ actual[c] > 0 => mine[c] + actual[c] - seenOvercommit[c] <= tailIndex
      <4>1. Count(lost, mine[c]) <= Count(lost', mine[c])
            /\ Count(lost, mine[c]) \in Nat /\ Count(lost', mine[c]) \in Nat
        BY Zenon, <1>1, <1>10
      <4>2. LocalsOK(c) /\ seenOvercommit[c] \in Nat
        BY Zenon, LedgerTypes
      <4>3. /\ seenOvercommit[c] <= Count(lost, mine[c])
            /\ mine[c] + desired[c] <= dequeueOptimisticCount
            /\ actual[c] > 0 => mine[c] + actual[c] - seenOvercommit[c] <= tailIndex
        BY Zenon, <1>1, <4>2 DEF LocalsOK, HasTickets
      <4>4. seenOvercommit[c] <= Count(lost', mine[c])
        BY <4>1, <4>2, <4>3
      <4> QED BY Zenon, <4>3, <4>4
    <3>3. Count(lost, mine[c])' = Count(lost', mine[c])
      BY Zenon, <3>1 DEF locals, Count
    <3>4. LocalsOK(c)'
      <4>1. /\ pc'[c] = "claim" /\ mine'[c] = mine[c] /\ desired'[c] = desired[c]
            /\ actual'[c] = actual[c] /\ seenOvercommit'[c] = seenOvercommit[c]
        BY Zenon, <3>1 DEF locals
      <4>2. seenOvercommit'[c] <= Count(lost, mine[c])'
            /\ mine'[c] + desired'[c] <= dequeueOptimisticCount'
        BY Zenon, <1>2, <3>2, <3>3, <4>1
      <4>3. /\ actual'[c] <= desired'[c]
            /\ actual'[c] > 0 => mine'[c] + actual'[c] - seenOvercommit'[c] <= tailIndex'
        BY Zenon, <1>1, <1>2, <3>2, <4>1
      <4> QED BY Zenon, <4>1, <4>2, <4>3 DEF LocalsOK
    <3>5. \A t \in Nat : Holds(c, t)' => Holds(c, t) /\ t < a
      BY SMTT(30), <1>1, <3>1 DEF Holds, locals, a
    <3>6. \A t \in Nat : t < a => t \notin run
      BY <1>1, <1>3
    <3> QED BY Zenon, <3>4, <3>5, <3>6
  <2> QED BY Zenon, <2>1, <2>2
<1>13. ASSUME NEW d \in Consumer PROVE LocalsOK(d)'
  <2>1. CASE d = c
    BY Zenon, <1>12, <2>1
  <2>2. CASE d # c
    <3>1. mine[d] \in Nat /\ LocalsOK(d)
      BY Zenon, LedgerTypes
    <3>2. /\ Count(lost, mine[d]) \in Nat /\ Count(lost', mine[d]) \in Nat
          /\ Count(lost, mine[d]) <= Count(lost', mine[d])
      BY Zenon, <1>10, <3>1
    <3>3. /\ pc'[d] = pc[d] /\ seenOvercommit'[d] = seenOvercommit[d]
          /\ desired'[d] = desired[d] /\ mine'[d] = mine[d] /\ actual'[d] = actual[d]
      BY Zenon, <1>11, <2>2
    <3>4. /\ seenOvercommit[d] \in Nat /\ desired[d] \in Nat /\ actual[d] \in Nat
          /\ dequeueOptimisticCount' \in Nat /\ tailIndex' \in Nat
          /\ dequeueOptimisticCount' >= dequeueOptimisticCount /\ tailIndex' >= tailIndex
      BY <1>2, <1>4, LedgerTypes
    <3>5. Count(lost', mine[d]) >= Count(lost, mine[d])
      BY Zenon, <3>2
    <3> QED BY ZenonT(30), <1>4, <1>7, <3>1, <3>2, <3>3, <3>4, <3>5, OthersKeep
  <2> QED BY <2>1, <2>2
<1>14. TicketsOK'
  <2>1. \A d \in Consumer, t \in Nat : Holds(d, t)' => Holds(d, t) /\ t \notin run
    <3>1. ASSUME NEW d \in Consumer, NEW t \in Nat, Holds(d, t)', d # c
          PROVE  Holds(d, t) /\ t \notin run
      <4>1. Holds(d, t)
        BY Zenon, <1>11, <3>1 DEF Holds
      <4> QED BY Zenon, <1>3, <1>4, <3>1, <4>1 DEF TicketsOK
    <3> QED BY Zenon, <1>12, <3>1
  <2>2. \A t \in won' \cup lost' : t < dequeueOptimisticCount'
    BY <1>1, <1>2, <1>3, <1>4 DEF TicketsOK
  <2> QED BY Zenon, <1>2, <1>4, <1>5, <2>1, <2>2 DEF TicketsOK
<1>15. WonOK'
  <2>1. ASSUME NEW t \in won PROVE t - Count(lost', t) < tailIndex
    <3>1. t \in Nat /\ t - Count(lost, t) < tailIndex
      BY Zenon, <1>4 DEF Ledger, WonOK
    <3> QED BY <1>4, <1>10, <3>1
  <2>2. won = {} \/ \E t \in won : \A u \in won : u <= t
    BY Zenon DEF Ledger, WonOK
  <2> QED BY Zenon, <1>2, <2>1, <2>2 DEF WonOK, Count
<1> QED
  BY Zenon, <1>7, <1>9, <1>13, <1>14, <1>15 DEF Ledger

\* fetch_add on headIndex: the tickets of c are won.
LEMMA ClaimHeadKeeps ==
  ASSUME Ledger, NEW c \in Consumer, ClaimHead(c)
  PROVE  Ledger'
<1> DEFINE a == mine[c]
           k == actual[c]
           run == a..(a + k - 1)
<1>1. /\ pc[c] = "claim" /\ a \in Nat /\ k \in Nat /\ a + k <= dequeueOptimisticCount
      /\ seenOvercommit[c] \in Nat /\ seenOvercommit[c] <= Count(lost, a)
      /\ k > 0 => a + k - seenOvercommit[c] <= tailIndex
  BY LedgerTypes DEF ClaimHead, LocalsOK, HasTickets
<1>2. /\ won' = won \cup run /\ headIndex' = headIndex + k
      /\ lost' = lost /\ tailIndex' = tailIndex /\ dequeueOvercommit' = dequeueOvercommit
      /\ dequeueOptimisticCount' = dequeueOptimisticCount
  BY Zenon DEF ClaimHead
<1>3. /\ \A t \in run : t \in Nat /\ t >= a /\ t <= a + k - 1 /\ k > 0
      /\ \A t \in run : Holds(c, t)
  BY <1>1 DEF Holds
<1>4. k > 0 => a + k - 1 \in run /\ a + k - 1 \in Nat
  BY <1>1
<1> HIDE DEF a, k, run
<1>5. /\ won \in SUBSET Nat /\ lost \in SUBSET Nat /\ IsFiniteSet(won) /\ IsFiniteSet(lost)
      /\ TicketsOK /\ WonOK /\ dequeueOptimisticCount \in Nat
      /\ tailIndex \in Nat /\ headIndex \in Nat
  BY Zenon, LedgerSets, LedgerTypes DEF Ledger
<1>6. lost \cap run = {} /\ won \cap run = {}
  BY Zenon, <1>3, <1>5 DEF TicketsOK
<1>7. headIndex' = Cardinality(won') /\ dequeueOvercommit' = Cardinality(lost') /\ headIndex' \in Nat
  <2>1. won \cap a..(a + k - 1) = {}
    BY Zenon, <1>6 DEF run
  <2>2. Cardinality(won') = Cardinality(won) + k
    BY Zenon, <1>1, <1>2, <1>5, <2>1, AddRun DEF run
  <2> QED BY <1>1, <1>2, <1>5, <2>2 DEF Ledger
<1>8. won' \in SUBSET Nat
  BY Zenon, <1>2, <1>3, <1>5
<1>9. BaseTypeOK'
  BY Zenon, <1>2, <1>5, <1>7, <1>8 DEF ClaimHead, Ledger, BaseTypeOK
<1>10. pc'[c] = "taking"
  BY Zenon DEF ClaimHead, Ledger, BaseTypeOK
<1>11. LocalsOK(c)' /\ \A t \in Nat : ~Holds(c, t)'
  BY Zenon, <1>10 DEF LocalsOK, HasTickets, Holds
<1>12. \A d \in Consumer \ {c} :
         /\ pc'[d] = pc[d] /\ seenOvercommit'[d] = seenOvercommit[d]
         /\ desired'[d] = desired[d] /\ mine'[d] = mine[d] /\ actual'[d] = actual[d]
  BY Zenon DEF ClaimHead, Ledger, BaseTypeOK
<1>13. ASSUME NEW d \in Consumer PROVE LocalsOK(d)'
  <2>1. CASE d = c
    BY Zenon, <1>11, <2>1
  <2>2. CASE d # c
    <3>1. tailIndex' \in Nat /\ tailIndex' >= tailIndex
      BY <1>2, <1>5
    <3> QED BY Zenon, <1>2, <1>12, <2>2, <3>1, RestKeep
  <2> QED BY <2>1, <2>2
<1>14. TicketsOK'
  <2>1. \A d \in Consumer, t \in Nat : Holds(d, t)' => Holds(d, t) /\ t \notin run
    <3>1. ASSUME NEW d \in Consumer, NEW t \in Nat, Holds(d, t)', d # c
          PROVE  Holds(d, t) /\ t \notin run
      <4>1. Holds(d, t)
        BY <1>12, <3>1 DEF Holds
      <4> QED BY Zenon, <1>3, <1>5, <3>1, <4>1 DEF TicketsOK
    <3> QED BY Zenon, <1>11, <3>1
  <2>2. \A t \in won' \cup lost' : t < dequeueOptimisticCount'
    <3>1. \A t \in won \cup lost : t < dequeueOptimisticCount
      BY Zenon, <1>5 DEF TicketsOK
    <3>2. \A t \in run : t < dequeueOptimisticCount
      BY <1>1, <1>3, <1>5
    <3> QED BY Zenon, <1>2, <3>1, <3>2
  <2> QED BY Zenon, <1>2, <1>5, <1>6, <2>1, <2>2 DEF TicketsOK
<1>15. WonOK'
  <2>1. ASSUME NEW t \in run PROVE t - Count(lost, t) < tailIndex
    <3>1. t \in Nat /\ a <= t /\ t <= a + k - 1 /\ k > 0
      BY Zenon, <1>1, <1>3
    <3>2. lost \subseteq lost /\ lost \subseteq Nat
      BY Zenon, <1>5
    <3>3. Count(lost, a) \in Nat /\ Count(lost, t) \in Nat /\ Count(lost, a) <= Count(lost, t)
      BY Zenon, <1>1, <1>5, <3>1, <3>2, CountMonotone
    <3> QED BY <1>1, <1>5, <3>1, <3>3
  <2>2. \A t \in won' : t - Count(lost, t) < tailIndex
    BY Zenon, <1>2, <1>5, <2>1 DEF WonOK
  <2>3. won' = {} \/ \E t \in won' : \A u \in won' : u <= t
    <3>1. CASE k = 0
      <4>1. run = {}
        BY <1>3, <3>1
      <4> QED BY Zenon, <1>2, <1>5, <4>1 DEF WonOK
    <3>2. CASE k > 0 /\ won = {}
      BY Zenon, <1>1, <1>2, <1>3, <1>4, <3>2
    <3>3. CASE k > 0 /\ won # {}
      <4>1. PICK m \in won : \A u \in won : u <= m
        BY Zenon, <1>5, <3>3 DEF WonOK
      <4>2. m \in Nat
        BY Zenon, <1>5
      <4>3. CASE m <= a + k - 1
        <5>1. \A u \in won' : u <= a + k - 1
          <6>1. ASSUME NEW u \in won PROVE u <= a + k - 1
            BY <1>1, <1>5, <4>1, <4>2, <4>3
          <6>2. ASSUME NEW u \in run PROVE u <= a + k - 1
            BY Zenon, <1>3
          <6> QED BY Zenon, <1>2, <6>1, <6>2
        <5> QED BY Zenon, <1>2, <1>4, <3>3, <5>1
      <4>4. CASE m > a + k - 1
        <5>1. \A u \in won' : u <= m
          <6>1. ASSUME NEW u \in won PROVE u <= m
            BY Zenon, <4>1
          <6>2. ASSUME NEW u \in run PROVE u <= m
            BY <1>1, <1>3, <4>2, <4>4
          <6> QED BY Zenon, <1>2, <6>1, <6>2
        <5> QED BY Zenon, <1>2, <5>1
      <4> QED BY <1>1, <4>2, <4>3, <4>4
    <3> QED BY <1>1, <3>1, <3>2, <3>3
  <2> QED BY Zenon, <1>2, <2>2, <2>3 DEF WonOK, Count
<1> QED
  BY Zenon, <1>7, <1>9, <1>13, <1>14, <1>15 DEF Ledger

-----------------------------------------------------------------------------
(* The ledger always holds, and bounds headIndex.                          *)

\* Before any call no ticket has been handed out.
LEMMA LedgerInit ==
  ASSUME BaseInit
  PROVE  Ledger
<1>1. Cardinality({}) = 0
  BY Zenon, FS_EmptySet
<1>2. BaseTypeOK /\ headIndex = Cardinality(won) /\ dequeueOvercommit = Cardinality(lost)
  BY Zenon, <1>1 DEF BaseInit, BaseTypeOK
<1>3. \A c \in Consumer : pc[c] = "idle"
  BY Zenon DEF BaseInit
<1>4. \A c \in Consumer : LocalsOK(c) /\ \A t \in Nat : ~Holds(c, t)
  BY Zenon, <1>3 DEF LocalsOK, HasTickets, Holds
<1>5. TicketsOK /\ WonOK
  BY Zenon, <1>4 DEF TicketsOK, WonOK, BaseInit
<1> QED
  BY Zenon, <1>2, <1>4, <1>5 DEF Ledger

\* Every step keeps the ledger.
LEMMA LedgerStep ==
  ASSUME Ledger, [BaseNext]_baseVars
  PROVE  Ledger'
<1>1. ASSUME NEW c \in Consumer, Claiming(c)
      PROVE  Ledger'
  BY Zenon, <1>1, LoadTailKeeps, LoadOvercommitKeeps, CheckCountKeeps, IncrementCountKeeps,
     ReloadTailKeeps, IncrementOvercommitKeeps, ClaimHeadKeeps DEF Claiming
<1>2. ASSUME NEW c \in Consumer, Return(c)
      PROVE  Ledger'
  BY Zenon, <1>2, LeaveKeeps DEF Return
<1>3. ASSUME NEW n \in Bulk, Publish(n)
      PROVE  Ledger'
  BY Zenon, <1>3, PublishKeeps
<1>4. CASE UNCHANGED baseVars
  <2>1. /\ tailIndex' = tailIndex /\ dequeueOptimisticCount' = dequeueOptimisticCount
        /\ dequeueOvercommit' = dequeueOvercommit /\ won' = won /\ lost' = lost
    BY Zenon, <1>4 DEF baseVars
  <2>2. /\ pc' = pc /\ mine' = mine /\ desired' = desired /\ actual' = actual
        /\ seenOvercommit' = seenOvercommit
    BY Zenon, <1>4 DEF baseVars, locals
  <2>3. BaseTypeOK'
    BY Zenon, <1>4 DEF Ledger, BaseTypeOK, baseVars, locals
  <2>4. headIndex' = Cardinality(won') /\ dequeueOvercommit' = Cardinality(lost')
    BY Zenon, <1>4 DEF Ledger, baseVars
  <2>5. \A c \in Consumer : LocalsOK(c)'
    BY Zenon, <2>1, <2>2 DEF Ledger, LocalsOK, HasTickets, Count
  <2>6. TicketsOK'
    <3>1. \A c \in Consumer, t \in Nat : Holds(c, t)' <=> Holds(c, t)
      BY Zenon, <2>2 DEF Holds
    <3> QED
      BY Zenon, <2>1, <3>1 DEF Ledger, TicketsOK
  <2>7. WonOK'
    BY Zenon, <2>1 DEF Ledger, WonOK, Count
  <2> QED
    BY Zenon, <2>3, <2>4, <2>5, <2>6, <2>7 DEF Ledger
<1> QED
  BY Zenon, <1>1, <1>2, <1>3, <1>4 DEF BaseNext

\* The won tickets and the lost ones below the greatest won are distinct
\* tickets up to it, so there are no more won ones than tailIndex.
LEMMA LedgerBounds ==
  ASSUME Ledger
  PROVE  ClaimsWithinTail
<1>1. /\ won \in SUBSET Nat /\ lost \in SUBSET Nat /\ IsFiniteSet(won) /\ IsFiniteSet(lost)
      /\ headIndex = Cardinality(won) /\ tailIndex \in Nat /\ WonOK /\ won \cap lost = {}
  BY Zenon, LedgerSets DEF Ledger, BaseTypeOK, TicketsOK
<1>2. CASE won = {}
  BY <1>1, <1>2, FS_EmptySet DEF ClaimsWithinTail
<1>3. CASE won # {}
  <2>1. PICK m \in won : \A u \in won : u <= m
    BY Zenon, <1>1, <1>3 DEF WonOK
  <2> DEFINE low == {f \in lost : f < m}
  <2>2. m \in Nat /\ m - Cardinality(low) < tailIndex
    BY Zenon, <1>1, <2>1 DEF WonOK, Count
  <2>3. IsFiniteSet(low) /\ low \subseteq lost
    <3>1. low \in SUBSET lost
      BY Zenon
    <3> QED BY Zenon, <1>1, <3>1, FS_Subset
  <2>4. /\ won \cap low = {} /\ won \cup low \in SUBSET Nat
        /\ \A f \in won \cup low : f <= m
    <3>1. ASSUME NEW f \in low PROVE f \in lost /\ f \in Nat /\ f <= m
      BY <1>1, <2>2
    <3> QED BY Zenon, <1>1, <2>1, <3>1
  <2> HIDE DEF low
  <2>5. Cardinality(won \cup low) = Cardinality(won) + Cardinality(low)
        /\ Cardinality(won) \in Nat /\ Cardinality(low) \in Nat
    <3>1. Cardinality(won \cap low) = 0
      BY Zenon, <2>4, FS_EmptySet
    <3>2. Cardinality(won \cup low)
            = Cardinality(won) + Cardinality(low) - Cardinality(won \cap low)
      BY Zenon, <1>1, <2>3, FS_Union
    <3>3. Cardinality(won) \in Nat /\ Cardinality(low) \in Nat
      BY Zenon, <1>1, <2>3, FS_CardinalityType
    <3> QED BY <3>1, <3>2, <3>3
  <2>6. Cardinality(won \cup low) <= m + 1
    BY Zenon, <2>2, <2>4, FS_BoundedSetOfNaturals
  <2> QED BY <1>1, <2>2, <2>5, <2>6 DEF ClaimsWithinTail
<1> QED BY Zenon, <1>2, <1>3

\* dequeue and dequeue_bulk of any number of consumers never move headIndex
\* past tailIndex: an element is claimed only once it has been enqueued.
THEOREM ClaimsNeverPastTail == BaseSpec => []ClaimsWithinTail
<1>1. BaseInit => Ledger
  BY Zenon, LedgerInit
<1>2. Ledger /\ [BaseNext]_baseVars => Ledger'
  BY Zenon, LedgerStep
<1>3. Ledger => ClaimsWithinTail
  BY Zenon, LedgerBounds
<1> QED BY <1>1, <1>2, <1>3, PTL DEF BaseSpec

-----------------------------------------------------------------------------
(* The implicit producer.                                                  *)

\* A call of the producer is for a number of elements of Bulk.
CallCounted == ppc # "idle" => count \in Bulk

\* Begin sets count, and only the end of the call resets it.
LEMMA CallCountedStep ==
  ASSUME CallCounted, [Next]_vars
  PROVE  CallCounted'
<1>1. CASE Producing
  <2>1. CASE enqueue \/ enqueue_bulk
    BY Zenon, <2>1 DEF enqueue, enqueue_bulk, Begin, CallCounted
  <2>2. CASE CheckHead
    BY Zenon, <2>2 DEF CheckHead, CallCounted
  <2>3. CASE InsertEntry
    BY Zenon, <2>3 DEF InsertEntry, CallCounted
  <2>4. CASE PublishEntry
    BY Zenon, <2>4 DEF PublishEntry, CallCounted
  <2>5. CASE RequisitionBlock
    BY Zenon, <2>5 DEF RequisitionBlock, CallCounted
  <2>6. CASE UndoEntry
    BY Zenon, <2>6 DEF UndoEntry, CallCounted
  <2>7. CASE UndoBlocks \/ StoreTail
    BY Zenon, <2>7 DEF UndoBlocks, StoreTail, EndCall, CallCounted
  <2> QED BY Zenon, <1>1, <2>1, <2>2, <2>3, <2>4, <2>5, <2>6, <2>7 DEF Producing
<1>2. ASSUME NEW c \in Consumer, Claim(c) \/ Taking(c)
      PROVE  CallCounted'
  <2>1. UNCHANGED prodVars
    BY Zenon, <1>2 DEF Claim, Taking, LoadIndex, LoadIndexTail, FindEntry, MoveOut,
                set_many_empty, Unlink, add_block_to_free_list, prodAndBase
  <2> QED BY Zenon, <2>1 DEF prodVars, CallCounted
<1>3. CASE UNCHANGED vars
  BY Zenon, <1>3 DEF vars, prodVars, CallCounted
<1> QED BY Zenon, <1>1, <1>2, <1>3 DEF Next

\* A step of the implicit producer is one of ProducerBase.
LEMMA BaseStep ==
  ASSUME CallCounted, [Next]_vars
  PROVE  [BaseNext]_baseVars
<1>1. CASE Producing
  <2>1. CASE StoreTail
    <3>1. count \in Bulk /\ Publish(count)
      BY Zenon, <2>1 DEF StoreTail, CallCounted
    <3> QED BY Zenon, <3>1 DEF BaseNext
  <2>2. CASE ~StoreTail
    BY Zenon, <1>1, <2>2 DEF Producing, enqueue, enqueue_bulk, Begin, CheckHead, InsertEntry,
       PublishEntry, RequisitionBlock, UndoEntry, UndoBlocks
  <2> QED BY Zenon, <2>1, <2>2
<1>2. ASSUME NEW c \in Consumer, Claim(c)
      PROVE  [BaseNext]_baseVars
  BY Zenon, <1>2 DEF Claim, BaseNext
<1>3. ASSUME NEW c \in Consumer, Taking(c)
      PROVE  [BaseNext]_baseVars
  <2>1. CASE set_many_empty(c) \/ add_block_to_free_list(c)
    <3>1. UNCHANGED baseVars \/ Return(c)
      BY ZenonT(30), <2>1 DEF set_many_empty, add_block_to_free_list, Onward
    <3> QED BY Zenon, <3>1 DEF BaseNext
  <2>2. CASE ~(set_many_empty(c) \/ add_block_to_free_list(c))
    BY Zenon, <1>3, <2>2
    DEF Taking, LoadIndex, LoadIndexTail, FindEntry, MoveOut, Unlink, prodAndBase
  <2> QED BY Zenon, <2>1, <2>2
<1>4. CASE UNCHANGED vars
  BY Zenon, <1>4 DEF vars
<1> QED BY Zenon, <1>1, <1>2, <1>3, <1>4 DEF Next

\* The producer's enqueues and the consumers' dequeues change the counters as
\* ProducerBase allows and in no other way.
THEOREM ImplicitIsBase == Spec => BaseSpec
<1>1. Init => CallCounted /\ BaseInit
  BY Zenon DEF Init, CallCounted
<1>2. CallCounted /\ [Next]_vars => CallCounted'
  BY CallCountedStep
<1>3. CallCounted /\ [Next]_vars => [BaseNext]_baseVars
  BY Zenon, BaseStep
<1> QED BY <1>1, <1>2, <1>3, PTL DEF Spec, BaseSpec

\* No dequeue or dequeue_bulk of an implicit producer claims an element that
\* has not been enqueued.
THEOREM ImplicitClaims == Spec => []ClaimsWithinTail
BY ImplicitIsBase, ClaimsNeverPastTail, PTL

-----------------------------------------------------------------------------
(* The leeway between a wrapped tail and a wrapped head.                   *)

\* The block that begins at b ends less than half the range of index_t after
\* the head.
Leeway(b) == (b + BLOCK_SIZE) - headIndex < IndexMod \div 2

\* Every block in use has the leeway, and so has the one a call has come to.
InCall == {"head", "insert", "publish", "block", "write"}
LeewayInv ==
  /\ Leeway(StartBase)
  /\ ppc \in InCall => base \in Int /\ base >= StartBase /\ Leeway(base)
  /\ ppc = "write" => EndBase(count) <= base

\* The difference of a and b on index_t, when b is ahead by less than its range.
LEMMA WrappedDifference ==
  ASSUME NEW a \in Int, NEW b \in Int, 0 < b - a, b - a < IndexMod
  PROVE  (a - b) % IndexMod = IndexMod - (b - a)
BY SizeAssumption

\* Half the range of index_t, which is even.
LEMMA HalfRange == IndexMod \in Nat /\ IndexMod - (IndexMod \div 2) = IndexMod \div 2
                   /\ IndexMod \div 2 \in Nat /\ BLOCK_SIZE \in Nat \ {0, 1}
                   /\ BLOCK_SIZE <= IndexMod \div 2
BY SizeAssumption, WrapAssumption

\* The block an index is in starts at it or before and ends after it.
LEMMA BlockAround ==
  ASSUME NEW i \in Int
  PROVE  BlockBase(i) \in Int /\ BlockBase(i) <= i /\ i < BlockBase(i) + BLOCK_SIZE
<1>1. i % BLOCK_SIZE \in 0..(BLOCK_SIZE - 1)
  BY SizeAssumption
<1>. QED BY <1>1, HalfRange DEF BlockBase

\* The head is at or behind the tail.
LEMMA LedgerCounters == Ledger => tailIndex \in Nat /\ headIndex \in Nat /\ headIndex <= tailIndex
<1>1. Ledger => tailIndex \in Nat /\ headIndex \in Nat
  BY Zenon DEF Ledger, BaseTypeOK
<1>2. Ledger => headIndex <= tailIndex
  BY Zenon, LedgerBounds DEF ClaimsWithinTail
<1>. QED BY Zenon, <1>1, <1>2

\* headIndex only grows.
LEMMA HeadGrows ==
  ASSUME Ledger, [BaseNext]_baseVars
  PROVE  headIndex' \in Nat /\ headIndex <= headIndex'
<1>0. headIndex \in Nat /\ actual \in [Consumer -> Nat]
  BY Zenon DEF Ledger, BaseTypeOK
<1>1. CASE headIndex' = headIndex
  BY <1>0, <1>1
<1>2. ASSUME NEW c \in Consumer, ClaimHead(c) PROVE headIndex' \in Nat /\ headIndex <= headIndex'
  BY <1>0, <1>2 DEF ClaimHead
<1>3. headIndex' = headIndex \/ \E c \in Consumer : ClaimHead(c)
  BY Zenon DEF BaseNext, Claiming, LoadTail, LoadOvercommit, CheckCount, IncrementCount, ReloadTail,
     IncrementOvercommit, Return, Publish, baseVars
<1>. QED BY Zenon, <1>1, <1>2, <1>3

\* The check of headIndex succeeds only when the next block has the leeway.
LEMMA RoomIsLeeway ==
  ASSUME Ledger, NEW b \in Int, b >= StartBase, Leeway(b), Room(b + BLOCK_SIZE)
  PROVE  Leeway(b + BLOCK_SIZE)
<1>. DEFINE e == (b + BLOCK_SIZE) + BLOCK_SIZE
<1>1. headIndex \in Nat /\ tailIndex \in Nat /\ headIndex <= tailIndex
  BY Zenon, LedgerCounters
<1>2. tailIndex <= b + BLOCK_SIZE
  BY <1>1, BlockAround, HalfRange DEF StartBase
<1>3. 0 < e - headIndex /\ e - headIndex < IndexMod
  BY <1>1, <1>2, HalfRange DEF Leeway
<1>4. (headIndex - e) % IndexMod = IndexMod - (e - headIndex)
  <2>. HIDE DEF e
  <2>1. e \in Int /\ headIndex \in Int
    BY <1>1, HalfRange DEF e
  <2>. QED BY Zenon, <1>3, <2>1, WrappedDifference
<1>5. (headIndex - e) % IndexMod > IndexMod \div 2
  BY Zenon DEF Room, circular_less_than
<1>. QED
  BY <1>1, <1>4, <1>5, HalfRange DEF Leeway

\* A head further on, and a block further back, only add to the leeway.
LEMMA FurtherHead ==
  \A b \in Int, h \in Nat, k \in Nat :
    h <= k /\ (b + BLOCK_SIZE) - h < IndexMod \div 2 => (b + BLOCK_SIZE) - k < IndexMod \div 2
<1>. DEFINE half == IndexMod \div 2
<1>1. half \in Nat /\ BLOCK_SIZE \in Nat
  BY Zenon, HalfRange
<1>. HIDE DEF half
<1>2. \A b \in Int, h \in Nat, k \in Nat :
        h <= k /\ (b + BLOCK_SIZE) - h < half => (b + BLOCK_SIZE) - k < half
  BY <1>1
<1>. QED BY Zenon, <1>2 DEF half

LEMMA NearerBlock ==
  \A b \in Int, d \in Int, h \in Nat :
    d <= b /\ (b + BLOCK_SIZE) - h < IndexMod \div 2 => (d + BLOCK_SIZE) - h < IndexMod \div 2
<1>. DEFINE half == IndexMod \div 2
<1>1. half \in Nat /\ BLOCK_SIZE \in Nat
  BY HalfRange
<1>. HIDE DEF half
<1>2. \A b \in Int, d \in Int, h \in Nat :
        d <= b /\ (b + BLOCK_SIZE) - h < half => (d + BLOCK_SIZE) - h < half
  BY <1>1
<1>. QED BY Zenon, <1>2 DEF half

\* Steps that move neither the tail nor the block a call has come to.
LEMMA LeewayKeeps ==
  ASSUME Ledger, [BaseNext]_baseVars, LeewayInv, tailIndex' = tailIndex,
         ppc' = ppc /\ base' = base /\ count' = count
  PROVE  LeewayInv'
<1>1. headIndex \in Nat /\ tailIndex \in Nat /\ headIndex' \in Nat /\ headIndex <= headIndex'
  BY Zenon, LedgerCounters, HeadGrows
<1>2. StartBase' = StartBase /\ EndBase(count)' = EndBase(count)
  BY Zenon DEF StartBase, EndBase
<1>3. StartBase \in Int
  BY <1>1, BlockAround DEF StartBase
<1>4. Leeway(StartBase) => Leeway(StartBase)'
  BY Zenon, <1>1, <1>2, <1>3, FurtherHead DEF Leeway
<1>5. base \in Int /\ Leeway(base) => Leeway(base)'
  BY Zenon, <1>1, FurtherHead DEF Leeway
<1>. QED
  BY Zenon, <1>2, <1>4, <1>5 DEF LeewayInv

\* Begin: the call starts at the last block in use.
LEMMA BeginLeeway ==
  ASSUME Ledger, LeewayInv, NEW n \in Bulk, Begin(n)
  PROVE  LeewayInv'
<1>1. /\ UNCHANGED <<tailIndex, headIndex>> /\ base' = StartBase /\ count' = n
      /\ ppc' = IF EndBase(n) > StartBase THEN "head" ELSE "write"
  BY Zenon DEF Begin, baseVars
<1>2. StartBase' = StartBase /\ EndBase(count)' = EndBase(n)
  BY Zenon, <1>1 DEF StartBase, EndBase
<1>3. StartBase \in Int
  BY LedgerCounters, BlockAround DEF StartBase
<1>4. EndBase(n) \in Int
  BY LedgerCounters, BulkAssumption, BlockAround DEF EndBase
<1>5. ppc' = "write" => EndBase(n) <= StartBase
  BY <1>1, <1>3, <1>4
<1>6. Leeway(StartBase)' /\ Leeway(base)'
  BY Zenon, <1>1, <1>2 DEF LeewayInv, Leeway
<1>7. base' \in Int /\ base' >= StartBase
  BY <1>1, <1>3
<1>8. ppc' = "write" => EndBase(n) <= base'
  BY Zenon, <1>1, <1>5
<1>. QED
  BY Zenon, <1>2, <1>6, <1>7, <1>8 DEF LeewayInv

\* The check before a new block: on to the block, or the call is undone.
LEMMA CheckHeadLeeway ==
  ASSUME Ledger, LeewayInv, CheckHead
  PROVE  LeewayInv'
<1>1. /\ UNCHANGED <<tailIndex, headIndex, count>>
      /\ \/ ppc' = "insert" /\ base' = base + BLOCK_SIZE /\ Room(base + BLOCK_SIZE)
         \/ ppc' = "undo"
  BY Zenon DEF CheckHead, Undo, baseVars
<1>2. base \in Int /\ base >= StartBase /\ Leeway(base)
  BY Zenon DEF CheckHead, LeewayInv, InCall
<1>3. Room(base + BLOCK_SIZE) => Leeway(base + BLOCK_SIZE)
  BY Zenon, <1>2, RoomIsLeeway
<1>4. StartBase' = StartBase /\ StartBase \in Int
  BY <1>1, LedgerCounters, BlockAround DEF StartBase
<1>5. CASE ppc' = "insert" /\ base' = base + BLOCK_SIZE /\ Room(base + BLOCK_SIZE)
  BY <1>1, <1>2, <1>3, <1>4, <1>5, HalfRange DEF LeewayInv, Leeway
<1>6. CASE ppc' = "undo"
  BY Zenon, <1>1, <1>4, <1>6 DEF LeewayInv, Leeway, InCall
<1>. QED BY Zenon, <1>1, <1>5, <1>6

\* The steps of a call that get the block checked for.
LEMMA BlockLeeway ==
  ASSUME Ledger, CallCounted, LeewayInv, InsertEntry \/ PublishEntry \/ RequisitionBlock
  PROVE  LeewayInv'
<1>1. /\ UNCHANGED <<tailIndex, headIndex, count>> /\ ppc \in InCall
      /\ \/ ppc' \in {"insert", "publish", "block", "head"} /\ base' = base
         \/ ppc' = "write" /\ base' = base /\ ~(EndBase(count) > base)
         \/ ppc' = "undo"
  <2>1. CASE InsertEntry
    BY Zenon, <2>1 DEF InsertEntry, Undo, baseVars, InCall
  <2>2. CASE PublishEntry
    BY Zenon, <2>2 DEF PublishEntry, baseVars, InCall
  <2>3. CASE RequisitionBlock
    BY Zenon, <2>3 DEF RequisitionBlock, Undo, baseVars, InCall
  <2>. QED BY Zenon, <2>1, <2>2, <2>3
<1>2. StartBase' = StartBase /\ EndBase(count)' = EndBase(count)
  BY Zenon, <1>1 DEF StartBase, EndBase
<1>3. base \in Int /\ base >= StartBase /\ Leeway(base) /\ Leeway(StartBase)
  BY Zenon, <1>1 DEF LeewayInv
<1>4. ppc' = "write" => EndBase(count) <= base
  <2>0. count \in Nat
    BY Zenon, <1>1, BulkAssumption DEF CallCounted, InCall
  <2>1. EndBase(count) \in Int
    BY <2>0, LedgerCounters, BlockAround DEF EndBase
  <2>. QED BY <1>1, <1>3, <2>1
<1>5. Leeway(StartBase)' /\ (base' = base => Leeway(base)')
  BY Zenon, <1>1, <1>2, <1>3 DEF Leeway
<1>. QED
  BY Zenon, <1>1, <1>2, <1>3, <1>4, <1>5 DEF LeewayInv, InCall

\* The end of a call: the last block in use is the one the call came to, or,
\* when it failed, the one there was before.
LEMMA EndLeeway ==
  ASSUME Ledger, CallCounted, LeewayInv, UndoEntry \/ UndoBlocks \/ StoreTail
  PROVE  LeewayInv'
<1>1. CASE UndoEntry \/ UndoBlocks
  <2>1. UNCHANGED <<tailIndex, headIndex>> /\ ppc' \notin InCall
    BY Zenon, <1>1 DEF UndoEntry, UndoBlocks, EndCall, baseVars, InCall
  <2>2. Leeway(StartBase)'
    BY Zenon, <2>1 DEF LeewayInv, Leeway, StartBase
  <2>. QED BY Zenon, <2>1, <2>2 DEF LeewayInv, InCall
<1>2. CASE StoreTail
  <2>1. /\ tailIndex' = tailIndex + count /\ headIndex' = headIndex /\ ppc' = "idle"
        /\ base \in Int /\ Leeway(base) /\ EndBase(count) <= base
    BY Zenon, <1>2 DEF StoreTail, Publish, EndCall, LeewayInv, InCall
  <2>2. count \in Nat
    BY Zenon, <1>2, BulkAssumption DEF CallCounted, StoreTail
  <2>3. EndBase(count) \in Int /\ StartBase' = EndBase(count)
    BY <2>1, <2>2, LedgerCounters, BlockAround DEF EndBase, StartBase
  <2>4. headIndex \in Nat
    BY Zenon, LedgerCounters
  <2>5. Leeway(EndBase(count))
    BY Zenon, <2>1, <2>3, <2>4, NearerBlock DEF Leeway
  <2>6. Leeway(StartBase)'
    BY Zenon, <2>1, <2>3, <2>5 DEF Leeway
  <2>. QED BY Zenon, <2>1, <2>6 DEF LeewayInv, InCall
<1>. QED BY Zenon, <1>1, <1>2

\* Whatever the producer and the consumers do keeps the leeway.
LEMMA LeewayStep ==
  ASSUME Ledger, CallCounted, LeewayInv, [Next]_vars
  PROVE  LeewayInv'
<1>1. CASE enqueue \/ enqueue_bulk
  BY Zenon, <1>1, BeginLeeway DEF enqueue, enqueue_bulk
<1>2. CASE CheckHead
  BY Zenon, <1>2, CheckHeadLeeway
<1>3. CASE InsertEntry \/ PublishEntry \/ RequisitionBlock
  BY Zenon, <1>3, BlockLeeway
<1>4. CASE UndoEntry \/ UndoBlocks \/ StoreTail
  BY <1>4, EndLeeway
<1>5. ASSUME NEW c \in Consumer, Claim(c) \/ Taking(c)
      PROVE  LeewayInv'
  <2>1. UNCHANGED prodVars /\ tailIndex' = tailIndex
    <3>1. CASE Claim(c)
      BY Zenon, <3>1 DEF Claim, Claiming, LoadTail, LoadOvercommit, CheckCount, IncrementCount,
         ReloadTail, IncrementOvercommit, ClaimHead
    <3>2. CASE Taking(c)
      BY Zenon, <3>2 DEF Taking, LoadIndex, LoadIndexTail, FindEntry, MoveOut, set_many_empty,
         Unlink, add_block_to_free_list, Onward, Return, prodAndBase, baseVars
    <3>. QED BY Zenon, <1>5, <3>1, <3>2
  <2>2. [BaseNext]_baseVars
    BY Zenon, BaseStep
  <2>. QED BY Zenon, <2>1, <2>2, LeewayKeeps DEF prodVars
<1>6. CASE UNCHANGED vars
  <2>1. UNCHANGED prodVars /\ tailIndex' = tailIndex /\ [BaseNext]_baseVars
    BY Zenon, <1>6 DEF vars, baseVars
  <2>. QED BY Zenon, <2>1, LeewayKeeps DEF prodVars
<1>. QED
  BY Zenon, <1>1, <1>2, <1>3, <1>4, <1>5, <1>6 DEF Next, Producing

\* With the leeway of the blocks, wrapped indices compare as they should.
LEMMA LeewaySuffices == Ledger /\ LeewayInv => LeewayKept
<1>. SUFFICES ASSUME Ledger, LeewayInv PROVE LeewayKept
  BY Zenon
<1>1. headIndex \in Nat /\ tailIndex \in Nat /\ headIndex <= tailIndex
  BY Zenon, LedgerCounters
<1>2. StartBase \in Int /\ tailIndex <= StartBase + BLOCK_SIZE
  BY <1>1, BlockAround, HalfRange DEF StartBase
<1>3. tailIndex - headIndex < IndexMod \div 2
  <2>. DEFINE half == IndexMod \div 2
  <2>1. half \in Nat /\ BLOCK_SIZE \in Nat /\ (StartBase + BLOCK_SIZE) - headIndex < half
    BY Zenon, HalfRange DEF LeewayInv, Leeway
  <2>. HIDE DEF half
  <2>2. tailIndex - headIndex < half
    BY <1>1, <1>2, <2>1
  <2>. QED BY Zenon, <2>2 DEF half
<1>4. ASSUME ppc = "head" PROVE ~circular_less_than(base + BLOCK_SIZE, headIndex)
  <2>. DEFINE ahead == (base + BLOCK_SIZE) - headIndex
  <2>1. base \in Int /\ base >= StartBase /\ ahead < IndexMod \div 2
    BY Zenon, <1>4 DEF LeewayInv, Leeway, InCall
  <2>2. ahead \in Nat
    BY <1>1, <1>2, <2>1, HalfRange
  <2>. HIDE DEF ahead
  <2>3. ahead % IndexMod = ahead
    BY <2>1, <2>2, HalfRange
  <2>4. ~(ahead % IndexMod > IndexMod \div 2)
    BY <2>1, <2>2, <2>3, HalfRange
  <2>. QED BY Zenon, <2>4 DEF circular_less_than, ahead
<1>. QED BY Zenon, <1>3, <1>4 DEF LeewayKept

\* The check of headIndex before each new block (enqueue, enqueue_bulk) leaves
\* the sub-queue shorter than half the range of index_t, however long the bulk
\* calls and whatever the consumers do between two checks, so a wrapped tail and
\* a wrapped head compare as the numbers they stand for.
THEOREM ImplicitLeeway == Spec => []LeewayKept
<1>1. Init => CallCounted /\ Ledger /\ LeewayInv
  <2>1. Init => CallCounted /\ BaseInit
    BY DEF Init, CallCounted
  <2>2. Init => LeewayInv
    <3>. SUFFICES ASSUME Init PROVE LeewayInv
      OBVIOUS
    <3>1. tailIndex = 0 /\ headIndex = 0 /\ ppc = "idle"
      BY Zenon DEF Init, BaseInit
    <3>2. StartBase \in Int /\ StartBase <= -1
      BY <3>1, BlockAround DEF StartBase
    <3>3. Leeway(StartBase)
      BY <3>1, <3>2, HalfRange DEF Leeway
    <3>. QED BY Zenon, <3>1, <3>3 DEF LeewayInv, InCall
  <2>. QED BY Zenon, <2>1, <2>2, LedgerInit
<1>2. CallCounted /\ Ledger /\ LeewayInv /\ [Next]_vars => (CallCounted /\ Ledger /\ LeewayInv)'
  BY Zenon, CallCountedStep, BaseStep, LedgerStep, LeewayStep
<1>3. Ledger /\ LeewayInv => LeewayKept
  BY Zenon, LeewaySuffices
<1>. QED BY <1>1, <1>2, <1>3, PTL DEF Spec

-----------------------------------------------------------------------------
(* The explicit producer.                                                  *)

CONSTANTS EXPLICIT_INITIAL_INDEX_SIZE, MaxGot
VARIABLES emptyFlags, next, slotsUsed, indexFront, startBlock, first, usedBefore, frontBefore,
          localFront

Explicit == INSTANCE ExplicitProducer

\* Begin sets count, and only the end of the call, failed or not, resets it.
LEMMA ExplicitCallCounted ==
  ASSUME CallCounted, [Explicit!Next]_(Explicit!vars)
  PROVE  CallCounted'
<1>1. CASE Explicit!Producing
  <2>1. CASE Explicit!enqueue \/ Explicit!enqueue_bulk
    BY Zenon, <2>1 DEF Explicit!enqueue, Explicit!enqueue_bulk, Explicit!Begin, CallCounted
  <2>2. CASE Explicit!ReuseAhead \/ Explicit!NoneAhead \/ Explicit!PublishFront
    BY Zenon, <2>2
    DEF Explicit!ReuseAhead, Explicit!NoneAhead, Explicit!PublishFront, CallCounted
  <2>3. CASE Explicit!CheckHead
    BY Zenon, <2>3 DEF Explicit!CheckHead, Explicit!Fail, Explicit!EndCall, CallCounted
  <2>4. CASE Explicit!GrowIndex
    BY Zenon, <2>4 DEF Explicit!GrowIndex, Explicit!Fail, Explicit!EndCall, CallCounted
  <2>5. CASE Explicit!RequisitionBlock
    BY Zenon, <2>5 DEF Explicit!RequisitionBlock, Explicit!Fail, Explicit!EndCall, CallCounted
  <2>6. CASE Explicit!StoreTail
    BY Zenon, <2>6 DEF Explicit!StoreTail, Explicit!EndCall, CallCounted
  <2> QED BY Zenon, <1>1, <2>1, <2>2, <2>3, <2>4, <2>5, <2>6 DEF Explicit!Producing
<1>2. ASSUME NEW c \in Consumer, Explicit!Claim(c) \/ Explicit!Taking(c)
      PROVE  CallCounted'
  <2>1. UNCHANGED Explicit!prodVars
    BY Zenon, <1>2 DEF Explicit!Claim, Explicit!Taking, Explicit!LoadIndex, Explicit!LoadFront,
                Explicit!FindEntry, Explicit!MoveOut, Explicit!set_many_empty,
                Explicit!prodAndBase
  <2> QED BY Zenon, <2>1 DEF Explicit!prodVars, CallCounted
<1>3. CASE UNCHANGED Explicit!vars
  BY Zenon, <1>3 DEF Explicit!vars, Explicit!prodVars, CallCounted
<1> QED BY Zenon, <1>1, <1>2, <1>3 DEF Explicit!Next

\* The instance's counters, and its steps that change them without a claim, are
\* those of ProducerBase.
LEMMA SameCounters ==
  /\ UNCHANGED Explicit!baseVars => UNCHANGED baseVars
  /\ Explicit!Publish(count) => Publish(count)
  /\ \A c \in Consumer : Explicit!Return(c) => Return(c)
<1>1. UNCHANGED Explicit!baseVars => UNCHANGED baseVars
  BY Zenon DEF Explicit!baseVars, baseVars, Explicit!locals, locals
<1>2. Explicit!Publish(count) => Publish(count)
  BY Zenon DEF Explicit!Publish, Publish, Explicit!locals, locals
<1>3. ASSUME NEW c \in Consumer, Explicit!Return(c)
      PROVE  Return(c)
  BY Zenon, <1>3 DEF Explicit!Return, Return, Explicit!Leave, Leave
<1> QED BY Zenon, <1>1, <1>2, <1>3

\* A consumer of the instance claims elements by the steps of ProducerBase.
LEMMA SameClaiming ==
  ASSUME NEW c \in Consumer, Explicit!Claiming(c)
  PROVE  Claiming(c)
<1>1. Explicit!LoadTail(c) => LoadTail(c)
  BY Zenon DEF Explicit!LoadTail, LoadTail
<1>2. Explicit!LoadOvercommit(c) => LoadOvercommit(c)
  BY Zenon DEF Explicit!LoadOvercommit, LoadOvercommit
<1>3. Explicit!CheckCount(c) => CheckCount(c)
  BY Zenon DEF Explicit!CheckCount, CheckCount, Explicit!Seeming, Seeming, Explicit!Min2, Min2,
         Explicit!Leave, Leave
<1>4. Explicit!IncrementCount(c) => IncrementCount(c)
  BY Zenon DEF Explicit!IncrementCount, IncrementCount
<1>5. Explicit!ReloadTail(c) => ReloadTail(c)
  BY Zenon DEF Explicit!ReloadTail, ReloadTail, Explicit!ActualCount, ActualCount,
         Explicit!Seeming, Seeming, Explicit!Min2, Min2
<1>6. Explicit!IncrementOvercommit(c) => IncrementOvercommit(c)
  BY Zenon DEF Explicit!IncrementOvercommit, IncrementOvercommit, Explicit!Leave, Leave,
         Explicit!locals, locals
<1>7. Explicit!ClaimHead(c) => ClaimHead(c)
  BY Zenon DEF Explicit!ClaimHead, ClaimHead
<1> QED BY Zenon, <1>1, <1>2, <1>3, <1>4, <1>5, <1>6, <1>7 DEF Explicit!Claiming, Claiming

\* A step of the explicit producer is one of ProducerBase.
LEMMA ExplicitBaseStep ==
  ASSUME CallCounted, [Explicit!Next]_(Explicit!vars)
  PROVE  [BaseNext]_baseVars
<1>1. CASE Explicit!Producing
  <2>1. CASE Explicit!StoreTail
    <3>1. count \in Bulk /\ Publish(count)
      BY Zenon, <2>1, SameCounters DEF Explicit!StoreTail, CallCounted
    <3> QED BY Zenon, <3>1 DEF BaseNext
  <2>2. CASE ~Explicit!StoreTail
    <3>1. UNCHANGED Explicit!baseVars
      BY Zenon, <1>1, <2>2 DEF Explicit!Producing, Explicit!enqueue, Explicit!enqueue_bulk,
                        Explicit!Begin, Explicit!ReuseAhead, Explicit!NoneAhead,
                        Explicit!CheckHead, Explicit!GrowIndex, Explicit!RequisitionBlock,
                        Explicit!PublishFront
    <3> QED BY Zenon, <3>1, SameCounters
  <2> QED BY Zenon, <2>1, <2>2
<1>2. ASSUME NEW c \in Consumer, Explicit!Claim(c)
      PROVE  [BaseNext]_baseVars
  BY Zenon, <1>2, SameClaiming DEF Explicit!Claim, BaseNext
<1>3. ASSUME NEW c \in Consumer, Explicit!Taking(c)
      PROVE  [BaseNext]_baseVars
  <2>1. CASE Explicit!set_many_empty(c)
    <3>1. UNCHANGED baseVars \/ Return(c)
      BY Zenon, <2>1, SameCounters DEF Explicit!set_many_empty
    <3> QED BY Zenon, <3>1 DEF BaseNext
  <2>2. CASE ~Explicit!set_many_empty(c)
    <3>1. UNCHANGED Explicit!baseVars
      BY Zenon, <1>3, <2>2 DEF Explicit!Taking, Explicit!LoadIndex, Explicit!LoadFront,
                        Explicit!FindEntry, Explicit!MoveOut, Explicit!prodAndBase
    <3> QED BY Zenon, <3>1, SameCounters
  <2> QED BY Zenon, <2>1, <2>2
<1>4. CASE UNCHANGED Explicit!vars
  BY Zenon, <1>4, SameCounters DEF Explicit!vars
<1> QED BY ZenonT(30), <1>1, <1>2, <1>3, <1>4 DEF Explicit!Next

\* The token holder's enqueues and the consumers' dequeues change the counters
\* as ProducerBase allows and in no other way.
THEOREM ExplicitIsBase == Explicit!Spec => BaseSpec
<1>1. Explicit!Init => CallCounted /\ BaseInit
  BY Zenon DEF Explicit!Init, CallCounted, Explicit!BaseInit, BaseInit
<1>2. CallCounted /\ [Explicit!Next]_(Explicit!vars) => CallCounted'
  BY Zenon, ExplicitCallCounted
<1>3. CallCounted /\ [Explicit!Next]_(Explicit!vars) => [BaseNext]_baseVars
  BY Zenon, ExplicitBaseStep
<1> QED BY <1>1, <1>2, <1>3, PTL DEF Explicit!Spec, BaseSpec

\* No dequeue or dequeue_bulk of an explicit producer claims an element that
\* has not been enqueued.
THEOREM ExplicitClaims == Explicit!Spec => []ClaimsWithinTail
BY ExplicitIsBase, ClaimsNeverPastTail, PTL
===============================================================================
