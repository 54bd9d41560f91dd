---------------------------- MODULE FreeListProofs ----------------------------
(***************************************************************************)
(* For any number of threads and blocks, a block of the free list has one  *)
(* user and none is lost.                                                  *)
(*                                                                         *)
(* A block that has been given out is used by one thread (it is in owned,  *)
(* or just taken off the list, or about to be put back), or it is on the   *)
(* list, or it waits, flagged, for the last of the threads that hold a     *)
(* reference to put it back.  The count of freeListRefs is the number of   *)
(* references held, and one for the list.  As no count is zero while a     *)
(* thread holds a reference, freeListNext of a block that is held does not *)
(* change, which is why there is no ABA.                                   *)
(***************************************************************************)
EXTENDS FreeList, FiniteSetTheorems, TLAPS

\* The blocks given out by the pool or by malloc.
Given == {n \in Node : IF n <= Pool THEN n <= initialBlockPoolIndex ELSE n <= Pool + created}

\* The threads that hold a reference to n.
Holders(n) == {t \in Thread : \/ pc[t] \in {"next", "take", "got"} /\ head[t] = n
                              \/ pc[t] = "release" /\ node[t] = n}

Adding == {"addHead", "addNext", "addRefs", "addSwap", "addAgain"}
Takes(t, n) == pc[t] = "got" /\ head[t] = n
Adds(t, n) == pc[t] \in Adding /\ node[t] = n
Uses(t, n) == n \in owned[t] \/ Takes(t, n) \/ Adds(t, n)

Flagged(n) == freeListRefs[n] >= SHOULD_BE_ON_FREELIST
InUse(n) == \E t \in Thread : n \in owned[t]

\* The blocks on the list, as far as counts and threads tell.
Listed == {n \in Given : ~Flagged(n) /\ \A t \in Thread : ~Uses(t, n)}

\* What the word freeListRefs of a node says.
ListRef(n) == IF n \in Given /\ ~InUse(n) /\ ~Flagged(n) THEN 1 ELSE 0
Flag(n) == IF Flagged(n) THEN SHOULD_BE_ON_FREELIST ELSE 0
RefsOK(n) == freeListRefs[n] = Cardinality(Holders(n)) + ListRef(n) + Flag(n)

\* A node that is flagged and that no thread is putting back is held.
NodeOK(n) ==
  /\ n \notin Given => freeListRefs[n] = 0 /\ \A t \in Thread : ~Uses(t, n)
  /\ Flagged(n) => Holders(n) # {} \/ \E t \in Thread : Adds(t, n)

LocalsOK(t) ==
  /\ head[t] \in Given \cup {NoNode}
  /\ pc[t] \in {"refs", "acquire", "next", "take", "got"} => head[t] # NoNode
  /\ pc[t] = "acquire" => refs[t] % SHOULD_BE_ON_FREELIST # 0
  /\ pc[t] = "take" => next[t] = freeListNext[head[t]]
  /\ pc[t] \in Adding \cup {"release"} => node[t] \in Given
  /\ pc[t] \in Adding => back[t] \in {"idle", Loop(head[t])}
  /\ pc[t] \in {"addHead", "addNext", "addRefs"} => freeListRefs[node[t]] = SHOULD_BE_ON_FREELIST
  /\ pc[t] \in {"addSwap", "addAgain"} => ~Flagged(node[t])
  /\ pc[t] \in {"addRefs", "addSwap"} => freeListNext[node[t]] = addHead[t]
  /\ pc[t] = "got" => ~Flagged(head[t])
  /\ \A n \in owned[t] : ~Flagged(n) /\ ~Takes(t, n) /\ ~Adds(t, n)

SoleUser == \A t, u \in Thread, n \in Node : Uses(t, n) /\ Uses(u, n) => t = u

\* The list is a chain: one link to every node but the head, and no node
\* that cannot be reached.
ChainOK ==
  /\ freeListHead \in Listed \cup {NoNode}
  /\ \A m \in Listed : /\ freeListNext[m] \in Listed \cup {NoNode}
                       /\ freeListNext[m] = freeListHead => freeListHead = NoNode
  /\ \A m, k \in Listed : freeListNext[m] = freeListNext[k] /\ freeListNext[m] # NoNode => m = k
  /\ \A S \in SUBSET Node : Closed(S) => Listed \subseteq S

Typed ==
  /\ freeListHead \in Node \cup {NoNode} /\ freeListNext \in [Node -> Node \cup {NoNode}]
  /\ freeListRefs \in [Node -> Nat]
  /\ initialBlockPoolIndex \in Nat /\ created \in 0..Heap
  /\ pc \in [Thread -> {"idle", "pool", "create", "load", "refs", "acquire", "next", "take",
                        "got", "release", "addHead", "addNext", "addRefs", "addSwap", "addAgain"}]
  /\ head \in [Thread -> Node \cup {NoNode}] /\ next \in [Thread -> Node \cup {NoNode}]
  /\ refs \in [Thread -> Nat]
  /\ node \in [Thread -> Node \cup {NoNode}] /\ addHead \in [Thread -> Node \cup {NoNode}]
  /\ back \in [Thread -> {"idle", "create", "refs"}]
  /\ owned \in [Thread -> SUBSET Node]

Custody ==
  /\ Typed
  /\ \A n \in Node : RefsOK(n) /\ NodeOK(n)
  /\ \A t \in Thread : LocalsOK(t)
  /\ SoleUser
  /\ ChainOK

-----------------------------------------------------------------------------
(* References and words.                                                   *)

\* A number below the modulus is its own remainder.
LEMMA SmallMod ==
  ASSUME NEW m \in Nat, NEW a \in Nat, a < m
  PROVE  a % m = a
OBVIOUS

\* Any set of threads is finite, and no larger than the set of all.
LEMMA ThreadSets ==
  ASSUME NEW S \in SUBSET Thread
  PROVE  /\ IsFiniteSet(S) /\ Cardinality(S) \in Nat
         /\ Cardinality(S) <= Cardinality(Thread) /\ Cardinality(Thread) \in Nat
         /\ Cardinality(S) = 0 <=> S = {}
BY Zenon, BitAssumption, FS_Subset, FS_CardinalityType, FS_EmptySet

\* A thread comes to hold a reference, or lets go of one.
LEMMA OneMore ==
  ASSUME NEW S \in SUBSET Thread, NEW t \in Thread, t \notin S
  PROVE  Cardinality(S \cup {t}) = Cardinality(S) + 1
BY Zenon, ThreadSets, FS_AddElement

\* A thread less leaves a set of threads one smaller.
LEMMA OneLess ==
  ASSUME NEW S \in SUBSET Thread, NEW t \in S
  PROVE  Cardinality(S \ {t}) = Cardinality(S) - 1
BY Zenon, ThreadSets, FS_RemoveElement

\* The count of a word never runs into its flag, and the word never overflows.
LEMMA WordBound ==
  ASSUME Typed, NEW n \in Node, RefsOK(n)
  PROVE  /\ Holders(n) \in SUBSET Thread
         /\ Cardinality(Holders(n)) \in Nat
         /\ Cardinality(Holders(n)) + 1 < SHOULD_BE_ON_FREELIST
         /\ freeListRefs[n] < 2 * SHOULD_BE_ON_FREELIST - 1
<1>1. Holders(n) \in SUBSET Thread
  BY Zenon DEF Holders
<1> QED
  BY <1>1, ThreadSets, BitAssumption DEF RefsOK, ListRef, Flag, Typed

\* The parts of a word.
LEMMA WordParts ==
  ASSUME NEW n \in Node
  PROVE  /\ ListRef(n) \in {0, 1} /\ Flag(n) \in {0, SHOULD_BE_ON_FREELIST}
         /\ Flagged(n) => ListRef(n) = 0 /\ Flag(n) = SHOULD_BE_ON_FREELIST
         /\ ~Flagged(n) => Flag(n) = 0 /\ (n \in Given /\ ~InUse(n) => ListRef(n) = 1)
         /\ n \notin Given \/ InUse(n) => ListRef(n) = 0
BY Zenon DEF ListRef, Flag

\* A step that changes neither what a node's list reference nor its flag depends
\* on keeps both parts of freeListRefs.
LEMMA WordPartsKept ==
  ASSUME NEW n \in Node, Given' = Given, Flagged(n)' <=> Flagged(n), InUse(n)' <=> InUse(n)
  PROVE  ListRef(n)' = ListRef(n) /\ Flag(n)' = Flag(n)
BY Zenon DEF ListRef, Flag

\* What Custody promises follows.
LEMMA CustodyOneUser == Custody => OneUser
<1> SUFFICES ASSUME Custody, NEW t \in Thread
             PROVE  /\ \A n \in owned[t] : n \notin OnList /\ \A u \in Thread \ {t} : n \notin owned[u]
                    /\ pc[t] = "got" => freeListRefs[head[t]] < SHOULD_BE_ON_FREELIST
  BY Zenon DEF OneUser
<1>1. Listed \in SUBSET Node /\ Closed(Listed)
  BY Zenon DEF Custody, ChainOK, Closed, Listed, Given
<1>2. ASSUME NEW n \in owned[t]
      PROVE  n \notin OnList /\ \A u \in Thread \ {t} : n \notin owned[u]
  <2>1. n \in Node
    BY Zenon DEF Custody, Typed
  <2>2. n \notin Listed
    BY Zenon DEF Listed, Uses
  <2> QED
    BY Zenon, <1>1, <2>1, <2>2 DEF Custody, SoleUser, Uses, OnList
<1>3. pc[t] = "got" => freeListRefs[head[t]] < SHOULD_BE_ON_FREELIST
  <2> SUFFICES ASSUME pc[t] = "got"
               PROVE  freeListRefs[head[t]] < SHOULD_BE_ON_FREELIST
    BY Zenon
  <2>1. head[t] \in Node /\ ~Flagged(head[t])
    BY Zenon DEF Custody, LocalsOK, Typed
  <2> QED
    BY <2>1, BitAssumption DEF Flagged, Custody, Typed
<1> QED
  BY Zenon, <1>2, <1>3

\* Custody says where every block is, so none is lost while no call is under way.
LEMMA CustodyNoneLost == Custody => NoneLost
<1> SUFFICES ASSUME Custody, \A t \in Thread : pc[t] = "idle", NEW n \in Given
             PROVE  n \in OnList \/ \E t \in Thread : n \in owned[t]
  BY Zenon DEF NoneLost, Given
<1> SUFFICES ASSUME \A t \in Thread : n \notin owned[t]
             PROVE  n \in OnList
  BY Zenon
<1>1. n \in Node
  BY Zenon DEF Given
<1>2. Holders(n) = {} /\ \A t \in Thread : ~Uses(t, n)
  BY Zenon DEF Holders, Uses, Takes, Adds, Adding
<1>3. n \in Listed
  BY Zenon, <1>1, <1>2 DEF Custody, NodeOK, Listed, Uses
<1> QED
  BY Zenon, <1>1, <1>3 DEF Custody, ChainOK, OnList

-----------------------------------------------------------------------------
(* Steps.                                                                  *)

\* The chain is kept by a step that leaves the head, the nodes listed and
\* their links alone.
LEMMA ChainKept ==
  ASSUME ChainOK, Listed' = Listed, freeListHead' = freeListHead,
         \A n \in Listed : freeListNext'[n] = freeListNext[n]
  PROVE  ChainOK'
<1>1. Listed \in SUBSET Node
  BY Zenon DEF Listed, Given
<1>2. ASSUME NEW S \in SUBSET Node, Closed(S)'
      PROVE  Listed \subseteq S
  <2>1. Closed(S \cap Listed)
    BY Zenon, <1>2 DEF Closed, ChainOK
  <2> QED
    BY Zenon, <2>1, <1>1 DEF ChainOK
<1> QED
  BY <1>2 DEF ChainOK

\* A step of one thread that changes no word, no block's user and no link of
\* a node listed.
LEMMA QuietStep ==
  ASSUME Custody, Typed', Given' = Given,
         UNCHANGED <<freeListHead, freeListRefs, owned>>,
         \A n \in Listed : freeListNext'[n] = freeListNext[n],
         \A n \in Node : Holders(n)' = Holders(n),
         \A u \in Thread, n \in Node : (Takes(u, n)' <=> Takes(u, n)) /\ (Adds(u, n)' <=> Adds(u, n)),
         \A u \in Thread : LocalsOK(u)'
  PROVE  Custody'
<1>1. \A n \in Node : (Flagged(n)' <=> Flagged(n)) /\ (InUse(n)' <=> InUse(n))
  BY Zenon DEF Flagged, InUse
<1>2. \A u \in Thread, n \in Node : Uses(u, n)' <=> Uses(u, n)
  BY Zenon DEF Uses
<1>3. Given \subseteq Node
  BY Zenon DEF Given
<1>4. Listed' = Listed
  BY Zenon, <1>1, <1>2, <1>3 DEF Listed
<1>5. \A n \in Node : RefsOK(n)'
  BY <1>1 DEF Custody, RefsOK, ListRef, Flag
<1>6. \A n \in Node : NodeOK(n)'
  BY Zenon, <1>1, <1>2 DEF Custody, NodeOK
<1>7. SoleUser'
  BY Zenon, <1>2 DEF Custody, SoleUser
<1>8. ChainOK'
  BY Zenon, <1>4, ChainKept DEF Custody
<1> QED
  BY Zenon, <1>5, <1>6, <1>7, <1>8 DEF Custody

\* try_get_block_from_initial_pool looks at its index: nothing changes hands.
LEMMA LoadPoolIndexStep ==
  ASSUME Custody, NEW t \in Thread, LoadPoolIndex(t)
  PROVE  Custody'
<1> USE DEF LoadPoolIndex, shared, pool, getVars, addVars, Go
<1>1. Typed'
  BY Zenon DEF Custody, Typed
<1>2. Given' = Given
  BY Zenon DEF Given
<1>3. \A n \in Node : Holders(n)' = Holders(n)
  BY Zenon DEF Custody, Typed, Holders
<1>4. \A u \in Thread, n \in Node : (Takes(u, n)' <=> Takes(u, n)) /\ (Adds(u, n)' <=> Adds(u, n))
  BY Zenon DEF Custody, Typed, Takes, Adds, Adding
<1>5. \A u \in Thread : LocalsOK(u)'
  BY <1>2, <1>4 DEF Custody, Typed, LocalsOK, Adding, Flagged, Loop
<1> QED
  BY Zenon, <1>1, <1>2, <1>3, <1>4, <1>5, QuietStep

\* try_get loads freeListHead; what it loaded may be stale at once.
LEMMA LoadHeadStep ==
  ASSUME Custody, NEW t \in Thread, LoadHead(t)
  PROVE  Custody'
<1> USE DEF LoadHead, shared, pool, getVars, addVars, Go
<1>1. Typed'
  BY Zenon DEF Custody, Typed, Loop
<1>2. Given' = Given
  BY Zenon DEF Given
<1>3. \A n \in Node : Holders(n)' = Holders(n)
  BY Zenon DEF Custody, Typed, Holders, Loop
<1>4. \A u \in Thread, n \in Node : (Takes(u, n)' <=> Takes(u, n)) /\ (Adds(u, n)' <=> Adds(u, n))
  BY Zenon DEF Custody, Typed, Takes, Adds, Adding, Loop
<1>5. freeListHead \in Given \cup {NoNode} /\ Given \subseteq Node
  BY Zenon DEF Custody, ChainOK, Listed, Given
<1>6. ASSUME NEW u \in Thread PROVE LocalsOK(u)'
  <2>1. CASE u = t
    <3>1. pc'[t] \in {"create", "refs"} /\ (pc'[t] = "refs" => head'[t] # NoNode)
          /\ head'[t] = freeListHead
      BY Zenon DEF Custody, Typed, Loop
    <3> QED
      BY Zenon, <2>1, <3>1, <1>2, <1>4, <1>5 DEF Custody, Typed, LocalsOK, Adding, Flagged
  <2>2. CASE u # t
    BY Zenon, <2>2, <1>2, <1>4 DEF Custody, Typed, LocalsOK, Adding, Flagged, Loop
  <2> QED
    BY Zenon, <2>1, <2>2
<1> QED
  BY Zenon, <1>1, <1>2, <1>3, <1>4, <1>6, QuietStep

\* try_get looks whether the head has references left.
LEMMA LoadRefsStep ==
  ASSUME Custody, NEW t \in Thread, LoadRefs(t)
  PROVE  Custody'
<1> USE DEF LoadRefs, shared, pool, getVars, addVars, Go
<1>0. head[t] \in Node
  BY Zenon DEF Custody, Typed, LocalsOK
<1>1. Typed'
  BY <1>0 DEF Custody, Typed
<1>2. Given' = Given
  BY Zenon DEF Given
<1>3. \A n \in Node : Holders(n)' = Holders(n)
  BY DEF Custody, Typed, Holders
<1>4. \A u \in Thread, n \in Node : (Takes(u, n)' <=> Takes(u, n)) /\ (Adds(u, n)' <=> Adds(u, n))
  BY DEF Custody, Typed, Takes, Adds, Adding
<1>5. \A u \in Thread : LocalsOK(u)'
  BY <1>2, <1>4 DEF Custody, Typed, LocalsOK, Adding, Flagged, Loop, Refs
<1> QED
  BY Zenon, <1>1, <1>2, <1>3, <1>4, <1>5, QuietStep

\* try_get, with its reference, loads freeListNext.
LEMMA LoadNextStep ==
  ASSUME Custody, NEW t \in Thread, LoadNext(t)
  PROVE  Custody'
<1> USE DEF LoadNext, shared, pool, getVars, addVars, Go
<1>0. head[t] \in Node
  BY Zenon DEF Custody, Typed, LocalsOK
<1>1. Typed'
  BY Zenon, <1>0 DEF Custody, Typed
<1>2. Given' = Given
  BY Zenon DEF Given
<1>3. \A n \in Node : Holders(n)' = Holders(n)
  BY Zenon DEF Custody, Typed, Holders
<1>4. \A u \in Thread, n \in Node : (Takes(u, n)' <=> Takes(u, n)) /\ (Adds(u, n)' <=> Adds(u, n))
  BY Zenon DEF Custody, Typed, Takes, Adds, Adding
<1>5. \A u \in Thread : LocalsOK(u)'
  BY <1>2, <1>4 DEF Custody, Typed, LocalsOK, Adding, Flagged, Loop
<1> QED
  BY Zenon, <1>1, <1>2, <1>3, <1>4, <1>5, QuietStep

\* add_knowing_refcount_is_zero loads freeListHead.
LEMMA AddLoadHeadStep ==
  ASSUME Custody, NEW t \in Thread, AddLoadHead(t)
  PROVE  Custody'
<1> USE DEF AddLoadHead, shared, pool, getVars, addVars, Go
<1>1. Typed'
  BY Zenon DEF Custody, Typed
<1>2. Given' = Given
  BY Zenon DEF Given
<1>3. \A n \in Node : Holders(n)' = Holders(n)
  BY Zenon DEF Custody, Typed, Holders
<1>4. \A u \in Thread, n \in Node : (Takes(u, n)' <=> Takes(u, n)) /\ (Adds(u, n)' <=> Adds(u, n))
  BY Zenon DEF Custody, Typed, Takes, Adds, Adding
<1>5. \A u \in Thread : LocalsOK(u)'
  BY <1>2, <1>4 DEF Custody, Typed, LocalsOK, Adding, Flagged, Loop
<1> QED
  BY Zenon, <1>1, <1>2, <1>3, <1>4, <1>5, QuietStep

\* ... and links its node to it.
LEMMA AddStoreNextStep ==
  ASSUME Custody, NEW t \in Thread, AddStoreNext(t)
  PROVE  Custody'
<1> USE DEF AddStoreNext, shared, pool, getVars, addVars, Go
<1>1. Typed'
  BY Zenon DEF Custody, Typed
<1>2. Given' = Given
  BY Zenon DEF Given
<1>3. \A n \in Node : Holders(n)' = Holders(n)
  BY Zenon DEF Custody, Typed, Holders
<1>4. \A u \in Thread, n \in Node : (Takes(u, n)' <=> Takes(u, n)) /\ (Adds(u, n)' <=> Adds(u, n))
  BY Zenon DEF Custody, Typed, Takes, Adds, Adding
<1>6. node[t] \in Node /\ node[t] \notin Listed /\ Holders(node[t]) = {}
  <2>1. node[t] \in Node /\ freeListRefs[node[t]] = SHOULD_BE_ON_FREELIST
    BY Zenon DEF Custody, LocalsOK, Adding, Given
  <2>2. Cardinality(Holders(node[t])) = 0
    BY <2>1, WordBound, BitAssumption DEF Custody, RefsOK, ListRef, Flag, Flagged
  <2>3. Holders(node[t]) = {}
    BY Zenon, <2>1, <2>2, WordBound, ThreadSets DEF Custody
  <2> QED
    BY Zenon, <2>1, <2>3 DEF Listed, Uses, Adds, Adding
<1>7. \A u \in Thread : pc[u] \in {"addRefs", "addSwap"} => node[u] # node[t]
  BY Zenon, <1>6 DEF Custody, SoleUser, Uses, Adds, Adding
<1>5. \A u \in Thread : LocalsOK(u)'
  BY <1>2, <1>4, <1>6, <1>7 DEF Custody, Typed, LocalsOK, Adding, Flagged, Loop, Holders
<1> QED
  BY <1>1, <1>2, <1>3, <1>4, <1>5, <1>6, QuietStep

\* The words of a flagged node that nobody holds, and of a free one.
LEMMA NoRemainder ==
  ASSUME NEW m \in Nat \ {0}
  PROVE  m % m = 0 /\ 0 % m = 0
OBVIOUS

\* The word of a node whose count and whose holders change by as much.
LEMMA CountStep ==
  ASSUME Typed, NEW n \in Node, RefsOK(n), NEW d \in {-1, 0, 1},
         freeListRefs'[n] = freeListRefs[n] + d,
         Cardinality(Holders(n)') = Cardinality(Holders(n)) + d,
         ListRef(n)' = ListRef(n), Flag(n)' = Flag(n)
  PROVE  RefsOK(n)'
<1>1. Cardinality(Holders(n)) \in Nat /\ ListRef(n) \in Nat /\ Flag(n) \in Nat
  BY WordParts, WordBound, BitAssumption
<1> QED
  BY <1>1 DEF RefsOK

\* The locals of a thread.
SameLocals(u) ==
  /\ pc'[u] = pc[u] /\ head'[u] = head[u] /\ refs'[u] = refs[u] /\ next'[u] = next[u]
  /\ node'[u] = node[u] /\ back'[u] = back[u] /\ addHead'[u] = addHead[u] /\ owned'[u] = owned[u]

\* A thread that another's step leaves what it relies on.
LEMMA OtherThread ==
  ASSUME Custody, NEW u \in Thread, SameLocals(u), Given \subseteq Given',
         pc[u] = "take" => freeListNext'[head[u]] = freeListNext[head[u]],
         pc[u] \in {"addRefs", "addSwap"} => freeListNext'[node[u]] = freeListNext[node[u]],
         pc[u] \in {"addHead", "addNext", "addRefs"} => freeListRefs'[node[u]] = freeListRefs[node[u]],
         \A n \in Node : Uses(u, n) => (Flagged(n)' <=> Flagged(n))
  PROVE  LocalsOK(u)'
<1>1. /\ owned[u] \subseteq Node /\ Given \subseteq Node /\ LocalsOK(u)
      /\ \A n : (Takes(u, n)' <=> Takes(u, n)) /\ (Adds(u, n)' <=> Adds(u, n))
  BY Zenon DEF Custody, Typed, Given, SameLocals, Takes, Adds
<1> QED
  BY Zenon, <1>1 DEF LocalsOK, Adding, Loop, SameLocals, Uses, Adds, Takes

\* A step of thread t that changes the word of node h, and not the list.
LEMMA WordStep ==
  ASSUME Custody, Typed', Given' = Given, NEW t \in Thread, NEW h \in Node,
         UNCHANGED <<freeListHead, freeListNext>>,
         \A u \in Thread \ {t} : SameLocals(u),
         \A n \in Node \ {h} : /\ freeListRefs'[n] = freeListRefs[n] /\ Holders(n)' = Holders(n)
                                /\ (n \in owned'[t] <=> n \in owned[t])
                                /\ (Takes(t, n)' <=> Takes(t, n)) /\ (Adds(t, n)' <=> Adds(t, n)),
         RefsOK(h)', NodeOK(h)', LocalsOK(t)',
         Uses(t, h)' => \A u \in Thread \ {t} : ~Uses(u, h),
         \A u \in Thread \ {t} : Uses(u, h) =>
           (Flagged(h)' <=> Flagged(h)) /\ (pc[u] \in Adding => freeListRefs[h] # SHOULD_BE_ON_FREELIST),
         h \in Listed' <=> h \in Listed
  PROVE  Custody'
<1>1. \A u \in Thread \ {t} : \A n : /\ n \in owned'[u] <=> n \in owned[u]
                                    /\ (Takes(u, n)' <=> Takes(u, n)) /\ (Adds(u, n)' <=> Adds(u, n))
                                    /\ (Uses(u, n)' <=> Uses(u, n))
  BY Zenon DEF SameLocals, Takes, Adds, Uses
<1>2. ASSUME NEW n \in Node \ {h}
      PROVE  /\ Flagged(n)' <=> Flagged(n)
             /\ Uses(t, n)' <=> Uses(t, n)
             /\ InUse(n)' <=> InUse(n)
  <2>1. Flagged(n)' <=> Flagged(n)
    BY Zenon DEF Flagged
  <2>2. Uses(t, n)' <=> Uses(t, n)
    BY Zenon DEF Uses
  <2>3. InUse(n)' <=> InUse(n)
    BY Zenon, <1>1 DEF InUse
  <2> QED
    BY Zenon, <2>1, <2>2, <2>3
<1>3. ASSUME NEW n \in Node \ {h}
      PROVE  RefsOK(n)' /\ NodeOK(n)'
  <2>1. ListRef(n)' = ListRef(n) /\ Flag(n)' = Flag(n)
    BY Zenon, <1>2, WordPartsKept
  <2>2. RefsOK(n)'
    BY Zenon, <2>1 DEF Custody, RefsOK
  <2>3. NodeOK(n)'
    BY SMTT(30), <1>1, <1>2 DEF Custody, NodeOK
  <2> QED
    BY Zenon, <2>2, <2>3
<1>4. ASSUME NEW u \in Thread \ {t}
      PROVE  LocalsOK(u)'
  <2>1. LocalsOK(u) /\ Given \subseteq Node
    BY Zenon DEF Custody, Given
  <2>2. \A n \in Node : Uses(u, n) => (Flagged(n)' <=> Flagged(n))
    BY Zenon, <1>2
  <2>3. pc[u] \in {"addHead", "addNext", "addRefs"} => freeListRefs'[node[u]] = freeListRefs[node[u]]
    BY Zenon, <2>1 DEF LocalsOK, Uses, Adds, Adding
  <2> QED
    BY Zenon, <2>2, <2>3, OtherThread
<1>5. SoleUser'
  BY SMTT(30), <1>1, <1>2 DEF Custody, SoleUser
<1>6. Listed' = Listed
  BY Zenon, <1>1, <1>2 DEF Listed, Given
<1> QED
  BY Zenon, <1>3, <1>4, <1>5, <1>6, ChainKept DEF Custody

\* The compare_exchange of try_get that takes a reference on the head.
LEMMA AcquireRefStep ==
  ASSUME Custody, NEW t \in Thread, AcquireRef(t)
  PROVE  Custody'
<1> USE DEF AcquireRef, pool, addVars, Go
<1>0. head[t] \in Node /\ t \notin Holders(head[t])
  BY ZenonT(30) DEF Custody, Typed, LocalsOK, Holders
<1>2. Given' = Given
  BY Zenon DEF Given
<1>4. \A u \in Thread, n \in Node : (Takes(u, n)' <=> Takes(u, n)) /\ (Adds(u, n)' <=> Adds(u, n))
  BY DEF Custody, Typed, Takes, Adds, Adding
<1>7. CASE freeListRefs[head[t]] # refs[t]
  <2>1. Typed'
    BY Zenon, <1>7 DEF Custody, Typed
  <2>3. \A n \in Node : Holders(n)' = Holders(n)
    BY <1>7 DEF Custody, Typed, Holders
  <2>5. \A u \in Thread : LocalsOK(u)'
    BY <1>7, <1>2, <1>4 DEF Custody, Typed, LocalsOK, Adding, Flagged, Loop
  <2> QED
    BY Zenon, <1>7, <2>1, <1>2, <2>3, <1>4, <2>5, QuietStep
<1>8. CASE freeListRefs[head[t]] = refs[t]
  <2>0. PICK h \in Node : h = head[t]
    BY Zenon, <1>0
  <2>1. RefsOK(h) /\ freeListRefs[h] \in Nat /\ h \in Given /\ Typed
    BY Zenon, <2>0, PoolAssumption DEF Custody, Typed, LocalsOK, Node
  <2>2. freeListRefs' = [freeListRefs EXCEPT ![h] = @ + 1]
    <3>1. freeListRefs[h] + 1 < 2 * SHOULD_BE_ON_FREELIST
      BY <2>1, WordBound, BitAssumption
    <3>2. (freeListRefs[h] + 1) % (2 * SHOULD_BE_ON_FREELIST) = freeListRefs[h] + 1
      BY <3>1, <2>1, BitAssumption, SmallMod
    <3> QED
      BY Zenon, <1>8, <2>0, <3>2 DEF Changed
  <2>3. Typed' /\ freeListRefs'[h] = freeListRefs[h] + 1
    BY <1>8, <2>2 DEF Custody, Typed
  <2>4. Holders(h)' = Holders(h) \cup {t} /\ \A n \in Node \ {h} : Holders(n)' = Holders(n)
    BY <1>8, <2>0 DEF Custody, Typed, Holders
  <2>5. Holders(h)' \in SUBSET Thread /\ Cardinality(Holders(h)') = Cardinality(Holders(h)) + 1
    BY Zenon, <1>0, <2>0, <2>1, <2>4, OneMore, WordBound
  <2>6. Flagged(h)' <=> Flagged(h)
    <3>1. Cardinality(Holders(h)) + 2 < SHOULD_BE_ON_FREELIST
      BY <2>5, <2>1, ThreadSets, BitAssumption, WordBound
    <3>2. ~Flagged(h) => freeListRefs[h] + 1 < SHOULD_BE_ON_FREELIST
      BY <3>1, <2>1, WordParts, BitAssumption, WordBound DEF RefsOK
    <3> QED
      BY <3>2, <2>1, <2>3, BitAssumption DEF Flagged
  <2>7. RefsOK(h)'
    <3>1. InUse(h)' <=> InUse(h)
      BY Zenon DEF InUse
    <3> QED
      BY Zenon, <2>1, <2>3, <2>5, <2>6, <3>1, <1>2, WordPartsKept, CountStep
  <2>8. NodeOK(h)'
    BY Zenon, <1>2, <2>1, <2>4 DEF NodeOK
  <2>9. freeListRefs[h] # SHOULD_BE_ON_FREELIST
    <3>1. SHOULD_BE_ON_FREELIST % SHOULD_BE_ON_FREELIST = 0
      BY NoRemainder, ThreadSets, BitAssumption
    <3> QED
      BY Zenon, <1>8, <2>0, <3>1 DEF Custody, LocalsOK
  <2>10. \A u \in Thread, n \in Node : Uses(u, n)' <=> Uses(u, n)
    BY Zenon, <1>4 DEF Uses
  <2>11. LocalsOK(t)'
    <3>1. \A n \in Node : Flagged(n)' <=> Flagged(n)
      BY Zenon, <2>2, <2>6 DEF Custody, Typed, Flagged
    <3> QED
      BY <1>8, <3>1, <1>2, <1>4 DEF Custody, Typed, LocalsOK, Adding, Loop
  <2>12. Uses(t, h)' => \A u \in Thread \ {t} : ~Uses(u, h)
    BY Zenon, <2>10 DEF Custody, SoleUser
  <2>13. h \in Listed' <=> h \in Listed
    BY Zenon, <2>6, <2>10, <1>2 DEF Listed
  <2>14. \A u \in Thread \ {t} : SameLocals(u)
    BY Zenon, <1>8 DEF Custody, Typed, SameLocals
  <2>15. \A n \in Node \ {h} : freeListRefs'[n] = freeListRefs[n]
    BY Zenon, <2>2 DEF Custody, Typed
  <2> QED
    BY Zenon, <2>3, <2>4, <2>6, <2>7, <2>8, <2>9, <2>11, <2>12, <2>13, <2>14, <2>15, <1>2, <1>4, WordStep
<1> QED
  BY Zenon, <1>7, <1>8

\* What a held node's word says.
LEMMA HeldWord ==
  ASSUME Custody, NEW t \in Thread, NEW h \in Node, t \in Holders(h)
  PROVE  /\ Cardinality(Holders(h)) \in Nat \ {0}
         /\ freeListRefs[h] \in Nat
         /\ freeListRefs[h] < 2 * SHOULD_BE_ON_FREELIST - 1
         /\ Flagged(h) => freeListRefs[h] = Cardinality(Holders(h)) + SHOULD_BE_ON_FREELIST
         /\ ~Flagged(h) => freeListRefs[h] < SHOULD_BE_ON_FREELIST
         /\ freeListRefs[h] >= Cardinality(Holders(h))
         /\ freeListRefs[h] # SHOULD_BE_ON_FREELIST
<1>1. Typed /\ RefsOK(h) /\ freeListRefs[h] \in Nat
  BY Zenon DEF Custody, Typed
<1>2. Cardinality(Holders(h)) \in Nat \ {0} /\ freeListRefs[h] < 2 * SHOULD_BE_ON_FREELIST - 1
  BY Zenon, <1>1, WordBound, ThreadSets
<1>3. ~Flagged(h) => freeListRefs[h] < SHOULD_BE_ON_FREELIST
  BY <1>1, BitAssumption DEF Flagged
<1>4. Flagged(h) => freeListRefs[h] = Cardinality(Holders(h)) + SHOULD_BE_ON_FREELIST
  BY <1>1, <1>2, WordParts, BitAssumption DEF RefsOK
<1>5. freeListRefs[h] >= Cardinality(Holders(h))
  BY <1>1, <1>2, WordParts, BitAssumption DEF RefsOK
<1> QED
  BY <1>1, <1>2, <1>3, <1>4, <1>5, BitAssumption

\* try_get gives its reference back, and may inherit the duty to add the node.
LEMMA ReleaseRefStep ==
  ASSUME Custody, NEW t \in Thread, ReleaseRef(t)
  PROVE  Custody'
<1> USE DEF ReleaseRef, pool, getVars, Go
<1>0. PICK h \in Node : h = node[t]
  BY Zenon DEF Custody, LocalsOK, Given
<1>1. h \in Given /\ t \in Holders(h) /\ Typed /\ RefsOK(h) /\ NodeOK(h)
  BY Zenon, <1>0 DEF Custody, LocalsOK, Holders
<1>2. Given' = Given
  BY Zenon DEF Given
<1>3. freeListRefs' = [freeListRefs EXCEPT ![h] = @ - 1]
  <2>1. freeListRefs[h] - 1 \in Nat /\ freeListRefs[h] - 1 < 2 * SHOULD_BE_ON_FREELIST
    BY SMTT(30), <1>1, HeldWord, BitAssumption
  <2>2. (freeListRefs[h] - 1) % (2 * SHOULD_BE_ON_FREELIST) = freeListRefs[h] - 1
    BY <2>1, BitAssumption, SmallMod
  <2> QED
    BY Zenon, <1>0, <1>1, HeldWord, <2>2 DEF Changed
<1>4. freeListRefs'[h] = freeListRefs[h] - 1 /\ freeListRefs'[h] \in Nat
      /\ \A n \in Node \ {h} : freeListRefs'[n] = freeListRefs[n]
  <2>1. freeListRefs[h] \in Nat /\ freeListRefs[h] - 1 \in Nat
    BY <1>1, HeldWord
  <2> QED
    BY Zenon, <1>1, <1>3, <2>1 DEF Typed
<1>5. Typed'
  <2>1. freeListRefs' \in [Node -> Nat] /\ Loop(head[t]) \in {"create", "refs"}
    BY Zenon, <1>1, <1>3, <1>4 DEF Typed, Loop
  <2> QED
    BY Zenon, <1>1, <2>1 DEF Typed
<1>6. Holders(h)' = Holders(h) \ {t} /\ \A n \in Node \ {h} : Holders(n)' = Holders(n)
  BY <1>0, <1>1 DEF Typed, Holders, Loop
<1>7. Cardinality(Holders(h)') = Cardinality(Holders(h)) - 1
  BY Zenon, <1>1, <1>6, OneLess, WordBound
<1>8. Flagged(h)' <=> Flagged(h)
  BY <1>1, <1>4, HeldWord, BitAssumption DEF Flagged
<1>9. RefsOK(h)'
  <2>1. InUse(h)' <=> InUse(h)
    BY Zenon DEF InUse
  <2>2. freeListRefs'[h] = freeListRefs[h] + (-1) /\ Cardinality(Holders(h)') = Cardinality(Holders(h)) + (-1)
    BY Zenon, <1>4, <1>7, <1>1, HeldWord
  <2> QED
    BY Zenon, <1>1, <2>1, <2>2, <1>8, <1>2, WordPartsKept, CountStep
<1>10. /\ \A n : ~Takes(t, n)' /\ ~Takes(t, n) /\ ~Adds(t, n)
       /\ \A n \in Node \ {h} : ~Adds(t, n)'
       /\ \A n : n \in owned'[t] <=> n \in owned[t]
  BY ZenonT(30), <1>0, <1>1 DEF Takes, Adds, Adding, Loop, Typed, LastHolder
<1>11. \A u \in Thread \ {t} : SameLocals(u)
  BY ZenonT(30), <1>1 DEF Typed, SameLocals, LastHolder
<1>12. \A u \in Thread \ {t} : Uses(u, h) => (pc[u] \in Adding => freeListRefs[h] # SHOULD_BE_ON_FREELIST)
  BY Zenon, <1>1, HeldWord
<1>13. CASE LastHolder(h)
  <2>1. Flagged(h) /\ freeListRefs'[h] = SHOULD_BE_ON_FREELIST
    BY SMTT(30), <1>13, <1>4, BitAssumption DEF LastHolder, Flagged
  <2>2. Adds(t, h)'
    BY Zenon, <1>13, <1>0, <1>1 DEF Adds, Adding, Typed
  <2>3. NodeOK(h)'
    BY Zenon, <2>2, <1>1, <1>2 DEF NodeOK
  <2>4. \A u \in Thread : ~Uses(u, h)
    BY Zenon, <2>1, <1>1, HeldWord, BitAssumption DEF Uses, Takes, Adds, Adding, Custody, LocalsOK
  <2>5. LocalsOK(t)'
    <3>1. \A n \in owned'[t] : n # h /\ n \in Node /\ ~Flagged(n)
      BY Zenon, <2>4, <1>1 DEF Uses, Custody, LocalsOK, Typed
    <3>2. \A n \in owned'[t] : ~Flagged(n)' /\ ~Takes(t, n)' /\ ~Adds(t, n)'
      BY Zenon, <3>1, <1>10, <1>4 DEF Flagged
    <3> QED
      BY ZenonT(30), <3>2, <1>13, <1>0, <1>1, <1>2, <2>1 DEF Custody, LocalsOK, Adding, Typed
  <2>6. h \in Listed' <=> h \in Listed
    BY Zenon, <2>1, <1>8 DEF Listed
  <2> QED
    BY Zenon, <1>2, <1>4, <1>5, <1>6, <1>8, <1>9, <1>10, <1>11, <1>12, <2>3, <2>4, <2>5, <2>6, WordStep
<1>14. CASE ~LastHolder(h)
  <2>1. \A n : ~Adds(t, n)'
    BY Zenon, <1>14, <1>0, <1>1 DEF Adds, Adding, Loop, Typed
  <2>2. \A u \in Thread, n \in Node : Uses(u, n)' <=> Uses(u, n)
    BY Zenon, <2>1, <1>10, <1>11 DEF Uses, SameLocals, Takes, Adds
  <2>3. Flagged(h) => Holders(h)' # {}
    BY <1>14, <1>7, <1>1, HeldWord, ThreadSets, BitAssumption DEF LastHolder
  <2>4. NodeOK(h)'
    BY Zenon, <2>3, <1>8, <1>1, <1>2 DEF NodeOK
  <2>5. LocalsOK(t)'
    <3>1. \A n \in owned'[t] : ~Flagged(n)' /\ ~Takes(t, n)' /\ ~Adds(t, n)'
      <4>1. \A n \in owned'[t] : n \in Node /\ ~Flagged(n)
        BY Zenon, <1>1 DEF Custody, LocalsOK, Typed
      <4> QED
        BY Zenon, <4>1, <2>1, <1>10, <1>4, <1>8 DEF Flagged
    <3> QED
      BY <3>1, <1>14, <1>0, <1>1, <1>2 DEF Custody, LocalsOK, Adding, Typed, Loop
  <2>6. h \in Listed' <=> h \in Listed
    BY Zenon, <2>2, <1>8, <1>2 DEF Listed
  <2>7. Uses(t, h)' => \A u \in Thread \ {t} : ~Uses(u, h)
    BY Zenon, <2>2 DEF Custody, SoleUser
  <2> QED
    BY Zenon, <1>2, <1>4, <1>5, <1>6, <1>8, <1>9, <1>10, <1>11, <1>12, <2>1, <2>4, <2>5, <2>6, <2>7, WordStep
<1> QED
  BY Zenon, <1>13, <1>14

\* try_get drops the two references and has the block.
LEMMA GotStep ==
  ASSUME Custody, NEW t \in Thread, Got(t)
  PROVE  Custody'
<1> USE DEF Got, pool, addVars, Go
<1>0. PICK h \in Node : h = head[t]
  BY ZenonT(30) DEF Custody, LocalsOK, Typed
<1>1. h \in Given /\ t \in Holders(h) /\ Typed /\ RefsOK(h) /\ ~Flagged(h) /\ Takes(t, h)
  BY Zenon, <1>0, PoolAssumption DEF Custody, LocalsOK, Holders, Takes, Node
<1>2. Given' = Given
  BY Zenon DEF Given
<1>3. (\A u \in Thread \ {t} : ~Uses(u, h)) /\ h \notin owned[t] /\ ~InUse(h)
  BY Zenon, <1>1 DEF Custody, SoleUser, Uses, LocalsOK, InUse
<1>4. /\ freeListRefs[h] = Cardinality(Holders(h)) + 1 /\ Cardinality(Holders(h)) \in Nat \ {0}
      /\ freeListRefs[h] < SHOULD_BE_ON_FREELIST
  <2>1. ListRef(h) = 1 /\ Flag(h) = 0
    BY Zenon, <1>1, <1>3, WordParts
  <2> QED
    BY <2>1, <1>1, HeldWord DEF RefsOK
<1>5. freeListRefs' = [freeListRefs EXCEPT ![h] = @ - 2]
  <2>1. freeListRefs[h] + (-2) \in Nat /\ freeListRefs[h] + (-2) < 2 * SHOULD_BE_ON_FREELIST
    BY <1>4, BitAssumption
  <2>2. (freeListRefs[h] + (-2)) % (2 * SHOULD_BE_ON_FREELIST) = freeListRefs[h] + (-2)
    BY <2>1, BitAssumption, SmallMod
  <2> QED
    BY Zenon, <1>0, <1>4, <2>2 DEF Changed
<1>6. freeListRefs'[h] = freeListRefs[h] - 2 /\ freeListRefs'[h] = Cardinality(Holders(h)) - 1
      /\ freeListRefs'[h] \in Nat
      /\ \A n \in Node \ {h} : freeListRefs'[n] = freeListRefs[n]
  <2>1. freeListRefs[h] - 2 = Cardinality(Holders(h)) - 1 /\ freeListRefs[h] - 2 \in Nat
    BY <1>4
  <2> QED
    BY Zenon, <1>1, <1>5, <2>1 DEF Typed
<1>7. Typed'
  BY <1>0, <1>1, <1>5, <1>6 DEF Typed
<1>8. Holders(h)' = Holders(h) \ {t} /\ \A n \in Node \ {h} : Holders(n)' = Holders(n)
  BY Zenon, <1>0, <1>1 DEF Typed, Holders
<1>9. ~Flagged(h)' /\ InUse(h)' /\ h \in owned'[t]
  BY <1>0, <1>1, <1>4, <1>6, BitAssumption DEF Flagged, InUse, Typed
<1>10. RefsOK(h)'
  <2>1. Cardinality(Holders(h)') = Cardinality(Holders(h)) - 1
    BY Zenon, <1>1, <1>8, OneLess, WordBound
  <2>2. ListRef(h)' = 0 /\ Flag(h)' = 0
    BY Zenon, <1>9 DEF ListRef, Flag
  <2> QED
    BY <2>1, <2>2, <1>4, <1>6 DEF RefsOK
<1>11. NodeOK(h)'
  BY Zenon, <1>9, <1>1, <1>2 DEF NodeOK
<1>12. \A u \in Thread \ {t} : SameLocals(u)
  BY Zenon, <1>1 DEF Typed, SameLocals
<1>13. /\ \A n : ~Takes(t, n)' /\ ~Adds(t, n)' /\ ~Adds(t, n)
       /\ \A n \in Node \ {h} : ~Takes(t, n) /\ (n \in owned'[t] <=> n \in owned[t])
  BY Zenon, <1>0, <1>1 DEF Takes, Adds, Adding, Typed
<1>14. LocalsOK(t)'
  <2>1. \A n \in owned'[t] : ~Flagged(n)'
    <3>1. \A n \in owned[t] : ~Flagged(n) /\ n \in Node
      BY Zenon, <1>1 DEF Custody, LocalsOK, Typed
    <3> QED
      BY Zenon, <3>1, <1>6, <1>9, <1>13, <1>7 DEF Flagged, Typed
  <2> QED
    BY Zenon, <2>1, <1>13, <1>1 DEF LocalsOK, Adding, Typed
<1>15. h \in Listed' <=> h \in Listed
  BY Zenon, <1>1, <1>9 DEF Listed, Uses
<1> QED
  BY Zenon, <1>2, <1>3, <1>6, <1>7, <1>8, <1>10, <1>11, <1>12, <1>13, <1>14, <1>15, WordStep

\* add: the flag is set, and the caller adds the node itself when no one refers to it.
LEMMA addStep ==
  ASSUME Custody, NEW t \in Thread, NEW h \in Node, add(t, h)
  PROVE  Custody'
<1> USE DEF add, pool, getVars, Go
<1>1. h \in Given /\ Typed /\ RefsOK(h) /\ NodeOK(h) /\ ~Flagged(h) /\ InUse(h) /\ Uses(t, h)
  BY Zenon DEF Custody, LocalsOK, NodeOK, InUse, Uses
<1>2. Given' = Given
  BY Zenon DEF Given
<1>3. \A u \in Thread \ {t} : ~Uses(u, h)
  BY Zenon, <1>1 DEF Custody, SoleUser
<1>4. /\ freeListRefs[h] = Cardinality(Holders(h)) /\ freeListRefs[h] \in Nat
      /\ freeListRefs[h] < SHOULD_BE_ON_FREELIST
  <2>1. ListRef(h) = 0 /\ Flag(h) = 0
    BY Zenon, <1>1, WordParts
  <2>2. Cardinality(Holders(h)) \in Nat /\ Cardinality(Holders(h)) + 1 < SHOULD_BE_ON_FREELIST
    BY Zenon, <1>1, WordBound
  <2> QED
    BY <2>1, <2>2, <1>1, BitAssumption DEF RefsOK
<1>5. freeListRefs' = [freeListRefs EXCEPT ![h] = @ + SHOULD_BE_ON_FREELIST]
  <2>1. freeListRefs[h] + SHOULD_BE_ON_FREELIST < 2 * SHOULD_BE_ON_FREELIST
    BY <1>4, BitAssumption
  <2>2. (freeListRefs[h] + SHOULD_BE_ON_FREELIST) % (2 * SHOULD_BE_ON_FREELIST)
          = freeListRefs[h] + SHOULD_BE_ON_FREELIST
    BY <2>1, <1>4, BitAssumption, SmallMod
  <2> QED
    BY Zenon, <2>2 DEF Changed
<1>6. freeListRefs'[h] = freeListRefs[h] + SHOULD_BE_ON_FREELIST /\ freeListRefs'[h] \in Nat
      /\ \A n \in Node \ {h} : freeListRefs'[n] = freeListRefs[n]
  BY <1>1, <1>4, <1>5, BitAssumption DEF Typed
<1>7. Typed'
  BY <1>1, <1>5, <1>6 DEF Typed
<1>8. \A n \in Node : Holders(n)' = Holders(n)
  BY <1>1 DEF Typed, Holders
<1>9. Flagged(h)' /\ ~InUse(h)'
  <2>1. Flagged(h)'
    BY <1>4, <1>6, BitAssumption DEF Flagged
  <2>2. ~InUse(h)'
    BY Zenon, <1>1, <1>3 DEF InUse, Typed, Uses
  <2> QED
    BY Zenon, <2>1, <2>2
<1>10. RefsOK(h)'
  <2>1. ListRef(h)' = 0 /\ Flag(h)' = SHOULD_BE_ON_FREELIST
    BY Zenon, <1>9 DEF ListRef, Flag
  <2> QED
    BY <2>1, <1>4, <1>6, <1>8, BitAssumption DEF RefsOK
<1>11. Adds(t, h)' <=> freeListRefs[h] = 0
  BY Zenon, <1>1 DEF Adds, Adding, Typed
<1>12. NodeOK(h)'
  <2>1. freeListRefs[h] # 0 => Holders(h)' # {}
    BY Zenon, <1>1, <1>4, <1>8, WordBound, ThreadSets
  <2> QED
    BY Zenon, <2>1, <1>11, <1>1, <1>2 DEF NodeOK
<1>13. \A u \in Thread \ {t} : SameLocals(u)
  BY Zenon, <1>1 DEF Typed, SameLocals
<1>14. /\ \A n : ~Takes(t, n)' /\ ~Takes(t, n) /\ ~Adds(t, n)
       /\ \A n \in Node \ {h} : ~Adds(t, n)' /\ (n \in owned'[t] <=> n \in owned[t])
       /\ h \notin owned'[t]
  BY <1>1 DEF Takes, Adds, Adding, Typed
<1>15. LocalsOK(t)'
  <2>1. \A n \in owned'[t] : n # h /\ n \in Node /\ ~Flagged(n)
    BY Zenon, <1>1, <1>14, <1>7 DEF Custody, LocalsOK, Typed
  <2>2. \A n \in owned'[t] : ~Flagged(n)' /\ ~Takes(t, n)' /\ ~Adds(t, n)'
    BY Zenon, <2>1, <1>6, <1>14 DEF Flagged
  <2>3. CASE freeListRefs[h] = 0
    <3>1. pc'[t] = "addHead" /\ node'[t] = h /\ back'[t] = "idle" /\ head'[t] = head[t]
      BY Zenon, <2>3, <1>1 DEF Typed
    <3>2. freeListRefs'[h] = SHOULD_BE_ON_FREELIST
      BY SMTT(30), <2>3, <1>6, BitAssumption
    <3> QED
      BY Zenon, <2>2, <3>1, <3>2, <1>1, <1>2 DEF Custody, LocalsOK, Adding
  <2>4. CASE freeListRefs[h] # 0
    BY Zenon, <2>2, <2>4, <1>1, <1>2 DEF Custody, LocalsOK, Adding, Typed
  <2> QED
    BY Zenon, <2>3, <2>4
<1>16. h \in Listed' <=> h \in Listed
  BY Zenon, <1>1, <1>9 DEF Listed
<1> QED
  BY Zenon, <1>2, <1>3, <1>6, <1>7, <1>8, <1>10, <1>12, <1>13, <1>14, <1>15, <1>16, WordStep

\* A thread that is putting a block back is its only user.
LEMMA Adder ==
  ASSUME Custody, NEW t \in Thread, pc[t] \in Adding, NEW h \in Node, h = node[t]
  PROVE  /\ h \in Given /\ Typed /\ RefsOK(h) /\ NodeOK(h) /\ Adds(t, h) /\ ~InUse(h) /\ h \notin owned[t]
         /\ \A u \in Thread \ {t} : ~Uses(u, h)
<1>1. h \in Given /\ Adds(t, h) /\ h \notin owned[t]
  BY Zenon DEF Custody, LocalsOK, Adds
<1>2. \A u \in Thread \ {t} : ~Uses(u, h)
  BY Zenon, <1>1 DEF Custody, SoleUser, Uses
<1>3. ~InUse(h)
  BY Zenon, <1>1, <1>2 DEF InUse, Uses
<1> QED
  BY Zenon, <1>1, <1>2, <1>3 DEF Custody

\* add_knowing_refcount_is_zero gives the node the reference of the list.
LEMMA AddStoreRefsStep ==
  ASSUME Custody, NEW t \in Thread, AddStoreRefs(t)
  PROVE  Custody'
<1> USE DEF AddStoreRefs, pool, getVars, addVars, Go
<1>0. PICK h \in Node : h = node[t]
  BY Zenon DEF Custody, LocalsOK, Given, Adding
<1>1. /\ h \in Given /\ Typed /\ RefsOK(h) /\ ~InUse(h) /\ Adds(t, h) /\ h \notin owned[t]
      /\ \A u \in Thread \ {t} : ~Uses(u, h)
  BY Zenon, <1>0, Adder DEF Adding
<1>2. Given' = Given
  BY Zenon DEF Given
<1>3. freeListRefs[h] = SHOULD_BE_ON_FREELIST /\ Flagged(h) /\ Cardinality(Holders(h)) = 0
  <2>1. freeListRefs[h] = SHOULD_BE_ON_FREELIST
    BY Zenon, <1>0 DEF Custody, LocalsOK, Adding
  <2>2. Flagged(h)
    BY <2>1, BitAssumption DEF Flagged
  <2> QED
    BY SMTT(30), <2>1, <2>2, <1>1, WordParts, WordBound, BitAssumption DEF RefsOK
<1>4. freeListRefs'[h] = 1 /\ \A n \in Node \ {h} : freeListRefs'[n] = freeListRefs[n]
  BY Zenon, <1>0, <1>1 DEF Typed
<1>5. Typed'
  BY Zenon, <1>1 DEF Typed
<1>6. \A n \in Node : Holders(n)' = Holders(n)
  BY Zenon, <1>1 DEF Typed, Holders
<1>7. ~Flagged(h)' /\ ~InUse(h)'
  <2>1. ~Flagged(h)'
    BY <1>4, BitAssumption, ThreadSets DEF Flagged
  <2>2. ~InUse(h)'
    BY Zenon, <1>1 DEF InUse
  <2> QED
    BY Zenon, <2>1, <2>2
<1>8. RefsOK(h)'
  <2>1. ListRef(h)' = 1 /\ Flag(h)' = 0
    BY Zenon, <1>1, <1>2, <1>7 DEF ListRef, Flag
  <2> QED
    BY <2>1, <1>3, <1>4, <1>6 DEF RefsOK
<1>9. NodeOK(h)'
  BY Zenon, <1>7, <1>1, <1>2 DEF NodeOK
<1>10. \A u \in Thread \ {t} : SameLocals(u)
  BY Zenon, <1>1 DEF Typed, SameLocals
<1>11. /\ \A n : ~Takes(t, n)' /\ ~Takes(t, n)
       /\ \A n : Adds(t, n)' <=> Adds(t, n)
       /\ \A n : n \in owned'[t] <=> n \in owned[t]
  BY Zenon, <1>1 DEF Takes, Adds, Adding, Typed
<1>12. LocalsOK(t)'
  <2>1. \A n \in owned'[t] : n # h /\ n \in Node /\ ~Flagged(n) /\ ~Adds(t, n)
    BY Zenon, <1>1 DEF Custody, LocalsOK, Typed
  <2>2. \A n \in owned'[t] : ~Flagged(n)' /\ ~Takes(t, n)' /\ ~Adds(t, n)'
    BY Zenon, <2>1, <1>4, <1>11 DEF Flagged
  <2>3. pc'[t] = "addSwap" /\ node'[t] = h
    BY Zenon, <1>0, <1>1 DEF Typed
  <2> QED
    BY Zenon, <2>2, <2>3, <1>0, <1>7, <1>1, <1>2 DEF Custody, LocalsOK, Adding, Loop
<1>13. h \in Listed' <=> h \in Listed
  BY Zenon, <1>3, <1>11, <1>1 DEF Listed, Uses
<1> QED
  BY Zenon, <1>1, <1>2, <1>4, <1>5, <1>6, <1>8, <1>9, <1>10, <1>11, <1>12, <1>13, WordStep

\* A lost compare_exchange of add: the flag goes up again and the reference down.
LEMMA AddAgainStep ==
  ASSUME Custody, NEW t \in Thread, AddAgain(t)
  PROVE  Custody'
<1> USE DEF AddAgain, AddReturn, pool, getVars, addVars, Go
<1>0. PICK h \in Node : h = node[t]
  BY Zenon DEF Custody, LocalsOK, Given, Adding
<1>1. /\ h \in Given /\ Typed /\ RefsOK(h) /\ ~InUse(h) /\ Adds(t, h) /\ h \notin owned[t]
      /\ (\A u \in Thread \ {t} : ~Uses(u, h)) /\ ~Flagged(h)
  BY Zenon, <1>0, Adder DEF Adding, Custody, LocalsOK
<1>2. Given' = Given
  BY Zenon DEF Given
<1>3. /\ freeListRefs[h] = Cardinality(Holders(h)) + 1 /\ Cardinality(Holders(h)) \in Nat
      /\ Cardinality(Holders(h)) < SHOULD_BE_ON_FREELIST
  <2>1. ListRef(h) = 1 /\ Flag(h) = 0
    BY Zenon, <1>1, WordParts
  <2> QED
    BY SMTT(30), <2>1, <1>1, WordBound, BitAssumption DEF RefsOK
<1>4. freeListRefs' = [freeListRefs EXCEPT ![h] = Cardinality(Holders(h)) + SHOULD_BE_ON_FREELIST]
  <2>1. freeListRefs[h] + (SHOULD_BE_ON_FREELIST - 1) = Cardinality(Holders(h)) + SHOULD_BE_ON_FREELIST
    BY <1>3, BitAssumption
  <2>2. (Cardinality(Holders(h)) + SHOULD_BE_ON_FREELIST) % (2 * SHOULD_BE_ON_FREELIST)
          = Cardinality(Holders(h)) + SHOULD_BE_ON_FREELIST
    BY <1>3, BitAssumption, SmallMod
  <2> QED
    BY Zenon, <1>0, <2>1, <2>2 DEF Changed
<1>5. /\ freeListRefs'[h] = Cardinality(Holders(h)) + SHOULD_BE_ON_FREELIST /\ freeListRefs'[h] \in Nat
      /\ \A n \in Node \ {h} : freeListRefs'[n] = freeListRefs[n]
  BY <1>1, <1>3, <1>4, BitAssumption DEF Typed
<1>6. Typed'
  BY <1>1, <1>4, <1>5 DEF Typed
<1>7. \A n \in Node : Holders(n)' = Holders(n)
  BY <1>1 DEF Typed, Holders
<1>8. Flagged(h)' /\ ~InUse(h)'
  <2>1. Flagged(h)'
    BY <1>3, <1>5, BitAssumption DEF Flagged
  <2>2. ~InUse(h)'
    BY Zenon, <1>1 DEF InUse
  <2> QED
    BY Zenon, <2>1, <2>2
<1>9. RefsOK(h)'
  <2>1. ListRef(h)' = 0 /\ Flag(h)' = SHOULD_BE_ON_FREELIST
    BY Zenon, <1>8 DEF ListRef, Flag
  <2> QED
    BY SMTT(30), <2>1, <1>3, <1>5, <1>7, BitAssumption DEF RefsOK
<1>10. Adds(t, h)' <=> OnlyList(h)
  BY Zenon, <1>0, <1>1, PoolAssumption DEF Adds, Adding, Typed, Node
<1>11. NodeOK(h)'
  <2>1. ~OnlyList(h) => Holders(h)' # {}
    BY SMTT(30), <1>1, <1>3, <1>7, WordBound, ThreadSets DEF OnlyList
  <2> QED
    BY Zenon, <2>1, <1>10, <1>1, <1>2 DEF NodeOK
<1>12. \A u \in Thread \ {t} : SameLocals(u)
  BY <1>1 DEF Typed, SameLocals
<1>13. /\ \A n : ~Takes(t, n)' /\ ~Takes(t, n)
       /\ \A n \in Node \ {h} : ~Adds(t, n)' /\ ~Adds(t, n)
       /\ \A n : n \in owned'[t] <=> n \in owned[t]
  BY Zenon, <1>0, <1>1 DEF Takes, Adds, Adding, Typed
<1>14. LocalsOK(t)'
  <2>1. \A n \in owned'[t] : n # h /\ n \in Node /\ ~Flagged(n)
    BY Zenon, <1>1 DEF Custody, LocalsOK, Typed
  <2>2. \A n \in owned'[t] : ~Flagged(n)' /\ ~Takes(t, n)' /\ ~Adds(t, n)'
    BY Zenon, <2>1, <1>5, <1>13 DEF Flagged
  <2>3. CASE OnlyList(h)
    <3>1. freeListRefs'[h] = SHOULD_BE_ON_FREELIST
      BY SMTT(30), <2>3, <1>3, <1>5, BitAssumption DEF OnlyList
    <3>2. pc'[t] = "addNext" /\ node'[t] = h /\ back'[t] = back[t] /\ head'[t] = head[t]
      BY Zenon, <2>3, <1>0, <1>1 DEF Typed
    <3> QED
      BY Zenon, <2>2, <3>1, <3>2, <1>1, <1>2 DEF Custody, LocalsOK, Adding, Loop
  <2>4. CASE ~OnlyList(h)
    <3>1. pc'[t] = back[t] /\ head'[t] = head[t] /\ back[t] \in {"idle", Loop(head[t])}
      BY Zenon, <2>4, <1>0, <1>1 DEF Typed, Custody, LocalsOK, Adding
    <3> QED
      BY Zenon, <2>2, <3>1, <1>1, <1>2 DEF Custody, LocalsOK, Adding, Loop
  <2> QED
    BY Zenon, <2>3, <2>4
<1>15. h \in Listed' <=> h \in Listed
  BY Zenon, <1>1, <1>8 DEF Listed, Uses
<1> QED
  BY Zenon, <1>1, <1>2, <1>5, <1>6, <1>7, <1>9, <1>11, <1>12, <1>13, <1>14, <1>15, WordStep

\* The compare_exchange of try_get that takes the head off the list.
LEMMA TakeHeadStep ==
  ASSUME Custody, NEW t \in Thread, TakeHead(t)
  PROVE  Custody'
<1> USE DEF TakeHead, pool, Go
<1>0. PICK h \in Node : h = head[t]
  BY DEF Custody, LocalsOK, Typed
<1>1. h \in Given /\ Typed /\ NoNode \notin Node /\ freeListHead \in Given \cup {NoNode}
  <2>1. NoNode \notin Node
    BY PoolAssumption DEF Node
  <2>2. LocalsOK(t) /\ Typed /\ ChainOK
    BY Zenon DEF Custody
  <2>3. freeListHead \in Given \cup {NoNode}
    BY Zenon, <2>2 DEF ChainOK, Listed
  <2>4. h \in Given
    BY Zenon, <1>0, <2>1, <2>2 DEF LocalsOK
  <2> QED
    BY Zenon, <2>1, <2>2, <2>3, <2>4
<1>2. Given' = Given
  BY Zenon DEF Given
<1>3. Typed'
  BY <1>0, <1>1 DEF Typed
<1>4. \A n \in Node : Holders(n)' = Holders(n)
  BY <1>0, <1>1 DEF Typed, Holders
<1>5. \A u \in Thread \ {t} : SameLocals(u)
  BY Zenon, <1>1 DEF Typed, SameLocals
<1>6. CASE freeListHead # head[t]
  <2>1. \A u \in Thread, n \in Node : (Takes(u, n)' <=> Takes(u, n)) /\ (Adds(u, n)' <=> Adds(u, n))
    BY <1>6, <1>1 DEF Typed, Takes, Adds, Adding
  <2>2. LocalsOK(t)'
    <3>1. pc'[t] = "release" /\ head'[t] = freeListHead /\ node'[t] = h /\ owned'[t] = owned[t]
      BY Zenon, <1>6, <1>0, <1>1 DEF Typed
    <3>2. \A n \in owned[t] : n \in Node /\ ~Flagged(n) /\ ~Takes(t, n) /\ ~Adds(t, n)
      BY Zenon, <1>1 DEF Custody, LocalsOK, Typed
    <3>3. \A n \in owned'[t] : ~Flagged(n)' /\ ~Takes(t, n)' /\ ~Adds(t, n)'
      BY Zenon, <3>1, <3>2, <2>1 DEF Flagged
    <3> QED
      BY Zenon, <3>1, <3>3, <1>1, <1>2 DEF LocalsOK, Adding
  <2>3. \A u \in Thread \ {t} : LocalsOK(u)'
    BY Zenon, <1>2, <1>5, OtherThread DEF Flagged
  <2> QED
    BY Zenon, <1>6, <1>2, <1>3, <1>4, <2>1, <2>2, <2>3, QuietStep
<1>7. CASE freeListHead = head[t]
  <2>1. h \in Listed /\ freeListHead = h /\ freeListHead' = freeListNext[h]
    BY Zenon, <1>7, <1>0, <1>1 DEF Custody, ChainOK, LocalsOK
  <2>2. \A u \in Thread : ~Uses(u, h)
    BY Zenon, <2>1 DEF Listed
  <2>3. \A u \in Thread, n \in Node : /\ Adds(u, n)' <=> Adds(u, n)
                                      /\ Takes(u, n)' <=> Takes(u, n) \/ (u = t /\ n = h)
                                      /\ Uses(u, n)' <=> Uses(u, n) \/ (u = t /\ n = h)
    BY <1>7, <1>0, <1>1, <1>5 DEF Typed, Takes, Adds, Adding, Uses, SameLocals
  <2>4. \A n \in Node : (Flagged(n)' <=> Flagged(n)) /\ (InUse(n)' <=> InUse(n))
    BY Zenon DEF Flagged, InUse
  <2>5. \A n \in Node : RefsOK(n)'
    BY Zenon, <2>4, <1>2, <1>4, WordPartsKept DEF Custody, RefsOK
  <2>6. \A n \in Node : NodeOK(n)'
    BY Zenon, <1>1, <2>3, <2>4, <1>2, <1>4 DEF Custody, NodeOK
  <2>7. LocalsOK(t)'
    <3>1. pc'[t] = "got" /\ head'[t] = h /\ owned'[t] = owned[t]
      BY Zenon, <1>7, <1>0, <1>1 DEF Typed
    <3>2. \A n \in owned[t] : n \in Node /\ ~Flagged(n) /\ ~Takes(t, n) /\ ~Adds(t, n) /\ n # h
      BY <1>1, <2>2 DEF Custody, LocalsOK, Typed, Uses
    <3>3. \A n \in owned'[t] : ~Flagged(n)' /\ ~Takes(t, n)' /\ ~Adds(t, n)'
      BY Zenon, <3>1, <3>2, <2>3, <2>4
    <3>4. ~Flagged(h)'
      BY Zenon, <2>1, <2>4 DEF Listed
    <3> QED
      BY Zenon, <3>1, <3>3, <3>4, <1>1, <1>2 DEF LocalsOK, Adding
  <2>8. \A u \in Thread \ {t} : LocalsOK(u)'
    BY Zenon, <1>2, <1>5, OtherThread DEF Flagged
  <2>9. SoleUser'
    BY <2>2, <2>3 DEF Custody, SoleUser
  <2>10. Listed' = Listed \ {h}
    BY Zenon, <2>3, <2>4, <1>2 DEF Listed, Given
  <2>11. ChainOK'
    <3>1. freeListNext[h] # h /\ freeListNext' = freeListNext /\ \A m \in Listed : freeListNext[m] # h
      BY Zenon, <2>1, <1>1 DEF Custody, ChainOK
    <3>2. freeListHead' \in Listed' \cup {NoNode}
      BY Zenon, <3>1, <2>1, <2>10 DEF Custody, ChainOK
    <3>3. \A m \in Listed' : /\ freeListNext'[m] \in Listed' \cup {NoNode}
                             /\ freeListNext'[m] = freeListHead' => freeListHead' = NoNode
      BY Zenon, <3>1, <2>1, <2>10 DEF Custody, ChainOK
    <3>4. ASSUME NEW S \in SUBSET Node, Closed(S)'
          PROVE  Listed' \subseteq S
      <4>1. Closed(S \cup {h})
        BY Zenon, <3>1, <3>4, <2>1 DEF Closed
      <4> QED
        BY Zenon, <4>1, <2>10 DEF Custody, ChainOK
    <3> QED
      BY SMTT(30), <3>1, <3>2, <3>3, <3>4, <2>10 DEF Custody, ChainOK
  <2> QED
    BY Zenon, <1>3, <2>5, <2>6, <2>7, <2>8, <2>9, <2>11 DEF Custody
<1> QED
  BY Zenon, <1>6, <1>7

\* The compare_exchange of add that puts the node on the list.
LEMMA AddSwapStep ==
  ASSUME Custody, NEW t \in Thread, AddSwap(t)
  PROVE  Custody'
<1> USE DEF AddSwap, AddReturn, SeenHead, pool, getVars, Go
<1>0. PICK h \in Node : h = node[t]
  BY Zenon DEF Custody, LocalsOK, Given, Adding
<1>1. /\ h \in Given /\ Typed /\ ~InUse(h) /\ Adds(t, h) /\ h \notin owned[t] /\ ~Flagged(h)
      /\ (\A u \in Thread \ {t} : ~Uses(u, h)) /\ NoNode \notin Node
  <2>1. NoNode \notin Node
    BY PoolAssumption DEF Node
  <2>2. pc[t] = "addSwap" /\ pc[t] \in Adding
    BY Zenon DEF Adding
  <2>3. /\ h \in Given /\ Typed /\ ~InUse(h) /\ Adds(t, h) /\ h \notin owned[t]
        /\ \A u \in Thread \ {t} : ~Uses(u, h)
    BY Zenon, <1>0, <2>2, Adder
  <2>4. ~Flagged(h)
    BY Zenon, <1>0, <2>2 DEF Custody, LocalsOK
  <2> QED
    BY Zenon, <2>1, <2>3, <2>4
<1>2. Given' = Given
  BY Zenon DEF Given
<1>3. Typed'
  BY <1>0, <1>1 DEF Typed
<1>4. \A n \in Node : Holders(n)' = Holders(n)
  BY <1>0, <1>1 DEF Typed, Holders
<1>5. \A u \in Thread \ {t} : SameLocals(u)
  BY <1>1 DEF Typed, SameLocals
<1>6. \A n \in owned[t] : n \in Node /\ ~Flagged(n) /\ n # h
  BY Zenon, <1>1 DEF Custody, LocalsOK, Typed
<1>7. CASE freeListHead # addHead[t]
  <2>1. \A u \in Thread, n \in Node : (Takes(u, n)' <=> Takes(u, n)) /\ (Adds(u, n)' <=> Adds(u, n))
    BY Zenon, <1>7, <1>1 DEF Typed, Takes, Adds, Adding
  <2>2. LocalsOK(t)'
    <3>1. pc'[t] = "addAgain" /\ node'[t] = h /\ owned'[t] = owned[t] /\ ~Flagged(h)'
      BY Zenon, <1>7, <1>0, <1>1 DEF Typed, Flagged
    <3>2. \A n \in owned'[t] : ~Flagged(n)' /\ ~Takes(t, n)' /\ ~Adds(t, n)'
      BY Zenon, <3>1, <1>6, <1>0, <1>1 DEF Flagged, Takes, Adds
    <3> QED
      BY Zenon, <1>7, <3>1, <3>2, <1>1, <1>2 DEF Custody, LocalsOK, Adding, Loop
  <2>3. \A u \in Thread \ {t} : LocalsOK(u)'
    BY Zenon, <1>2, <1>5, OtherThread DEF Flagged
  <2> QED
    BY Zenon, <1>7, <1>2, <1>3, <1>4, <2>1, <2>2, <2>3, QuietStep
<1>8. CASE freeListHead = addHead[t]
  <2>1. freeListHead' = h /\ freeListNext[h] = freeListHead /\ freeListNext' = freeListNext
    BY Zenon, <1>8, <1>0 DEF Custody, LocalsOK
  <2>2. pc'[t] \in {"idle", Loop(head[t])} /\ owned'[t] = owned[t] /\ head'[t] = head[t]
    BY Zenon, <1>8, <1>0, <1>1 DEF Typed, Custody, LocalsOK, Adding
  <2>3. \A n : ~Takes(t, n)' /\ ~Adds(t, n)' /\ ~Takes(t, n) /\ (n # h => ~Adds(t, n))
    BY Zenon, <2>2, <1>0 DEF Takes, Adds, Adding, Loop
  <2>4. \A u \in Thread, n \in Node : /\ Adds(u, n)' <=> Adds(u, n) /\ ~(u = t /\ n = h)
                                      /\ Takes(u, n)' <=> Takes(u, n)
                                      /\ Uses(u, n)' <=> Uses(u, n) /\ ~(u = t /\ n = h)
    BY <2>2, <2>3, <1>1, <1>5 DEF Takes, Adds, Uses, SameLocals
  <2>5. \A n \in Node : (Flagged(n)' <=> Flagged(n)) /\ (InUse(n)' <=> InUse(n))
    BY Zenon DEF Flagged, InUse
  <2>6. \A n \in Node : RefsOK(n)'
    BY ZenonT(30), <2>5, <1>2, <1>4, WordPartsKept DEF Custody, RefsOK
  <2>7. \A n \in Node : NodeOK(n)'
    BY ZenonT(30), <1>1, <2>4, <2>5, <1>2, <1>4 DEF Custody, NodeOK
  <2>8. LocalsOK(t)'
    <3>1. \A n \in owned'[t] : ~Flagged(n)' /\ ~Takes(t, n)' /\ ~Adds(t, n)'
      BY Zenon, <2>2, <2>3, <2>5, <1>6
    <3> QED
      BY Zenon, <2>2, <3>1, <1>2 DEF Custody, LocalsOK, Adding, Loop
  <2>9. \A u \in Thread \ {t} : LocalsOK(u)'
    BY Zenon, <1>2, <1>5, OtherThread DEF Flagged
  <2>10. SoleUser'
    BY ZenonT(30), <2>4 DEF Custody, SoleUser
  <2>11. Listed' = Listed \cup {h} /\ h \notin Listed
    BY ZenonT(30), <2>4, <2>5, <1>1, <1>2 DEF Listed, Given, Uses
  <2>12. ChainOK'
    <3>1. \A m \in Listed' : /\ freeListNext'[m] \in Listed' \cup {NoNode}
                             /\ freeListNext'[m] = freeListHead' => freeListHead' = NoNode
      BY <2>1, <2>11, <1>1 DEF Custody, ChainOK
    <3>2. \A m, k \in Listed' : freeListNext'[m] = freeListNext'[k] /\ freeListNext'[m] # NoNode => m = k
      BY <2>1, <2>11, <1>1 DEF Custody, ChainOK
    <3>3. ASSUME NEW S \in SUBSET Node, Closed(S)'
          PROVE  Listed' \subseteq S
      <4>1. h \in S
        BY Zenon, <3>3, <2>1, <1>1 DEF Closed
      <4>2. Closed(S)
        BY Zenon, <4>1, <3>3, <2>1 DEF Closed
      <4> QED
        BY Zenon, <4>1, <4>2, <2>11 DEF Custody, ChainOK
    <3> QED
      BY Zenon, <3>1, <3>2, <3>3, <2>1, <2>11 DEF ChainOK
  <2> QED
    BY Zenon, <1>3, <2>6, <2>7, <2>8, <2>9, <2>10, <2>12 DEF Custody
<1> QED
  BY Zenon, <1>7, <1>8

\* A thread is given a block that nobody had.
LEMMA FreshBlock ==
  ASSUME Custody, Typed', NEW t \in Thread, NEW f \in Node, f \notin Given, Given' = Given \cup {f},
         pc[t] \in {"pool", "create"}, pc' = [pc EXCEPT ![t] = "idle"],
         owned' = [owned EXCEPT ![t] = @ \cup {f}],
         UNCHANGED <<freeListHead, freeListNext, freeListRefs, head, refs, next, node, addHead, back>>
  PROVE  Custody'
<1>1. /\ Typed /\ RefsOK(f) /\ freeListRefs[f] = 0 /\ (\A u \in Thread : ~Uses(u, f))
      /\ ~Flagged(f) /\ ~Flagged(f)'
  BY BitAssumption, ThreadSets DEF Custody, NodeOK, Flagged
<1>2. \A n \in Node : Holders(n)' = Holders(n)
  BY Zenon, <1>1 DEF Typed, Holders
<1>3. \A u \in Thread \ {t} : SameLocals(u)
  BY <1>1 DEF Typed, SameLocals
<1>4. /\ \A n : ~Takes(t, n)' /\ ~Adds(t, n)' /\ ~Takes(t, n) /\ ~Adds(t, n)
      /\ owned'[t] = owned[t] \cup {f} /\ pc'[t] = "idle"
  BY Zenon, <1>1 DEF Typed, Takes, Adds, Adding
<1>5. \A u \in Thread, n \in Node : /\ Adds(u, n)' <=> Adds(u, n)
                                    /\ Takes(u, n)' <=> Takes(u, n)
                                    /\ Uses(u, n)' <=> Uses(u, n) \/ (u = t /\ n = f)
  BY Zenon, <1>3, <1>4 DEF Uses, SameLocals, Takes, Adds
<1>6. \A n \in Node : Flagged(n)' <=> Flagged(n)
  BY Zenon DEF Flagged
<1>7. ASSUME NEW n \in Node
      PROVE  RefsOK(n)' /\ NodeOK(n)'
  <2>1. CASE n = f
    <3>1. InUse(f)'
      BY Zenon, <1>4 DEF InUse
    <3>2. ListRef(f)' = 0 /\ Flag(f)' = 0 /\ ListRef(f) = 0 /\ Flag(f) = 0
      BY Zenon, <3>1, <1>1 DEF ListRef, Flag
    <3>3. RefsOK(f)'
      BY Zenon, <3>2, <1>1, <1>2 DEF RefsOK
    <3>4. NodeOK(f)'
      BY Zenon, <1>1 DEF NodeOK
    <3> QED
      BY Zenon, <2>1, <3>3, <3>4
  <2>2. CASE n # f
    <3>1. InUse(n)' <=> InUse(n)
      BY Zenon, <2>2, <1>3, <1>4 DEF InUse, SameLocals
    <3>2. ListRef(n)' = ListRef(n) /\ Flag(n)' = Flag(n)
      BY Zenon, <3>1, <2>2, <1>6 DEF ListRef, Flag
    <3>3. RefsOK(n)'
      BY Zenon, <3>2, <1>2 DEF Custody, RefsOK
    <3>4. NodeOK(n)'
      BY Zenon, <2>2, <1>2, <1>5, <1>6 DEF Custody, NodeOK
    <3> QED
      BY Zenon, <3>3, <3>4
  <2> QED
    BY Zenon, <2>1, <2>2
<1>8. \A u \in Thread \ {t} : LocalsOK(u)'
  BY Zenon, <1>3, OtherThread DEF Flagged
<1>9. LocalsOK(t)'
  <2>1. \A n \in owned'[t] : ~Flagged(n)' /\ ~Takes(t, n)' /\ ~Adds(t, n)'
    BY Zenon, <1>1, <1>4, <1>6 DEF Custody, LocalsOK, Typed
  <2> QED
    BY Zenon, <2>1, <1>4 DEF Custody, LocalsOK, Adding
<1>10. SoleUser'
  BY <1>1, <1>5 DEF Custody, SoleUser
<1>11. Listed' = Listed
  BY Zenon, <1>5, <1>6 DEF Listed, Given
<1> QED
  BY Zenon, <1>7, <1>8, <1>9, <1>10, <1>11, ChainKept DEF Custody

\* The fetch_add that hands out the next block of the initial pool.
LEMMA FetchPoolIndexStep ==
  ASSUME Custody, NEW t \in Thread, FetchPoolIndex(t)
  PROVE  Custody'
<1> USE DEF FetchPoolIndex, shared, getVars, addVars, Go
<1>0. initialBlockPoolIndex \in Nat /\ created \in Nat /\ Typed
  BY SMTT(30), PoolAssumption DEF Custody, Typed
<1>1. Typed'
  <2>1. PoolHas(initialBlockPoolIndex) => initialBlockPoolIndex + 1 \in Node
    BY <1>0, PoolAssumption DEF PoolHas, Node
  <2>2. owned' \in [Thread -> SUBSET Node] /\ initialBlockPoolIndex' \in Nat
    BY <1>0, <2>1 DEF Typed
  <2> QED
    BY Zenon, <1>0, <2>2 DEF Typed
<1>2. CASE PoolHas(initialBlockPoolIndex)
  <2>1. PICK f \in Node : f = initialBlockPoolIndex + 1
    BY <1>0, <1>2, PoolAssumption DEF PoolHas, Node
  <2>2. f \notin Given /\ Given' = Given \cup {f}
    BY <1>0, <1>2, <2>1, PoolAssumption DEF Given, PoolHas, Node
  <2> QED
    BY Zenon, <1>1, <1>2, <2>1, <2>2, FreshBlock
<1>3. CASE ~PoolHas(initialBlockPoolIndex)
  <2>1. Given' = Given
    BY <1>0, <1>3, PoolAssumption DEF Given, PoolHas, Node
  <2>2. \A n \in Node : Holders(n)' = Holders(n)
    BY ZenonT(30), <1>0, <1>3 DEF Typed, Holders
  <2>3. \A u \in Thread, n \in Node : (Takes(u, n)' <=> Takes(u, n)) /\ (Adds(u, n)' <=> Adds(u, n))
    BY Zenon, <1>0, <1>3 DEF Typed, Takes, Adds, Adding
  <2>4. \A u \in Thread : LocalsOK(u)'
    BY SMTT(30), <1>3, <2>1, <2>3 DEF Custody, Typed, LocalsOK, Adding, Flagged, Loop
  <2> QED
    BY Zenon, <1>1, <1>3, <2>1, <2>2, <2>3, <2>4, QuietStep
<1> QED
  BY Zenon, <1>2, <1>3

\* A block from malloc is new to everyone.
LEMMA create_BlockStep ==
  ASSUME Custody, NEW t \in Thread, create_Block(t)
  PROVE  Custody'
<1> USE DEF create_Block, shared, getVars, addVars, Go
<1>0. initialBlockPoolIndex \in Nat /\ created \in Nat /\ Typed
  BY SMTT(30), PoolAssumption DEF Custody, Typed
<1>1. Typed'
  <2>1. created < Heap => Pool + created + 1 \in Node /\ created + 1 \in 0..Heap
    BY <1>0, PoolAssumption DEF Node
  <2>2. owned' \in [Thread -> SUBSET Node] /\ created' \in 0..Heap
    BY <1>0, <2>1 DEF Typed
  <2> QED
    BY Zenon, <1>0, <2>2 DEF Typed
<1>2. CASE created < Heap
  <2>1. PICK f \in Node : f = Pool + created + 1
    BY <1>0, <1>2, PoolAssumption DEF Node
  <2>2. f \notin Given /\ Given' = Given \cup {f}
    BY <1>0, <1>2, <2>1, PoolAssumption DEF Given, Node
  <2> QED
    BY Zenon, <1>1, <1>2, <2>1, <2>2, FreshBlock
<1>3. CASE ~(created < Heap)
  <2>1. Given' = Given
    BY Zenon, <1>3 DEF Given
  <2>2. \A n \in Node : Holders(n)' = Holders(n)
    BY Zenon, <1>0, <1>3 DEF Typed, Holders
  <2>3. \A u \in Thread, n \in Node : (Takes(u, n)' <=> Takes(u, n)) /\ (Adds(u, n)' <=> Adds(u, n))
    BY Zenon, <1>0, <1>3 DEF Typed, Takes, Adds, Adding
  <2>4. \A u \in Thread : LocalsOK(u)'
    BY <1>3, <2>1, <2>3 DEF Custody, Typed, LocalsOK, Adding, Flagged, Loop
  <2> QED
    BY Zenon, <1>1, <1>3, <2>1, <2>2, <2>3, <2>4, QuietStep
<1> QED
  BY Zenon, <1>2, <1>3

-----------------------------------------------------------------------------
\* Every block is in the pool or not yet allocated at first.
LEMMA InitCustody == Init => Custody
<1> SUFFICES ASSUME Init PROVE Custody
  BY Zenon
<1> USE DEF Init
<1>1. Typed
  BY PoolAssumption DEF Typed
<1>2. Given = {}
  BY PoolAssumption DEF Given, Node
<1>3. \A u \in Thread : \A n : ~Uses(u, n) /\ ~Takes(u, n) /\ ~Adds(u, n)
  BY Zenon DEF Uses, Takes, Adds, Adding
<1>4. \A n \in Node : ~Flagged(n)
  BY BitAssumption, ThreadSets DEF Flagged
<1>5. ASSUME NEW n \in Node
      PROVE  RefsOK(n) /\ NodeOK(n)
  <2>1. Holders(n) = {}
    BY Zenon DEF Holders
  <2>2. Cardinality(Holders(n)) = 0
    BY Zenon, <2>1, FS_EmptySet
  <2>3. ListRef(n) = 0 /\ Flag(n) = 0
    BY Zenon, <1>2, <1>4 DEF ListRef, Flag
  <2> QED
    BY <2>2, <2>3, <1>3, <1>4 DEF RefsOK, NodeOK
<1>6. \A u \in Thread : LocalsOK(u)
  BY Zenon, <1>3 DEF LocalsOK, Adding
<1>7. SoleUser
  BY Zenon, <1>3 DEF SoleUser
<1>8. ChainOK
  BY Zenon, <1>2 DEF ChainOK, Listed
<1> QED
  BY Zenon, <1>1, <1>5, <1>6, <1>7, <1>8 DEF Custody

\* A step of none of the threads changes nothing.
LEMMA StutterCustody ==
  ASSUME Custody, UNCHANGED vars
  PROVE  Custody'
<1> USE DEF vars, shared, pool, getVars, addVars
<1>1. Typed' /\ Given' = Given
  BY Zenon DEF Custody, Typed, Given
<1>2. \A n \in Node : Holders(n)' = Holders(n)
  BY Zenon DEF Holders
<1>3. \A u \in Thread, n \in Node : (Takes(u, n)' <=> Takes(u, n)) /\ (Adds(u, n)' <=> Adds(u, n))
  BY Zenon DEF Takes, Adds
<1>4. \A u \in Thread : LocalsOK(u)'
  BY Zenon, OtherThread, <1>1 DEF SameLocals, Flagged
<1> QED
  BY Zenon, <1>1, <1>2, <1>3, <1>4, QuietStep

\* Every step of every thread, and so every interleaving of calls of
\* requisition_block and add_block_to_free_list, keeps Custody.
LEMMA NextCustody == Custody /\ [Next]_vars => Custody'
<1> SUFFICES ASSUME Custody, [Next]_vars PROVE Custody'
  BY Zenon
<1>1. CASE UNCHANGED vars
  BY Zenon, <1>1, StutterCustody
<1>2. ASSUME NEW t \in Thread, requisition_block(t) PROVE Custody'
  BY Zenon, <1>2, LoadPoolIndexStep DEF requisition_block
<1>3. ASSUME NEW t \in Thread, add_block_to_free_list(t) PROVE Custody'
  BY Zenon, <1>3, addStep DEF add_block_to_free_list
<1>4. ASSUME NEW t \in Thread, Working(t) PROVE Custody'
  BY Zenon, <1>4, FetchPoolIndexStep, create_BlockStep, LoadHeadStep, LoadRefsStep, AcquireRefStep,
     LoadNextStep, TakeHeadStep, GotStep, ReleaseRefStep, AddLoadHeadStep, AddStoreNextStep,
     AddStoreRefsStep, AddSwapStep, AddAgainStep DEF Working
<1> QED
  BY Zenon, <1>1, <1>2, <1>3, <1>4 DEF Next

\* Custody is invariant: the induction.
LEMMA CustodyKept == Spec => []Custody
  BY InitCustody, NextCustody, PTL DEF Spec

\* However many threads take blocks from the FreeList and put them back, a
\* block has one user, and none while it is on the list; and a block that
\* try_get has just taken is not already meant to go back.
THEOREM BlockHasOneUser == Spec => []OneUser
  BY CustodyKept, CustodyOneUser, PTL

\* When no call of requisition_block or add_block_to_free_list is under way,
\* every block given out is in use or on the list, however the calls before
\* overlapped: whoever let go of a block last has put it back.
THEOREM NoBlockLost == Spec => []NoneLost
  BY CustodyKept, CustodyNoneLost, PTL

-----------------------------------------------------------------------------
(* The words' types.                                                       *)

\* The threads that have seen room in the pool and not yet taken a number.
AtPool == {t \in Thread : pc[t] = "pool"}
PoolOK == initialBlockPoolIndex + Cardinality(AtPool) <= Pool + Cardinality(Thread)

\* The index of the initial pool and the threads' copies of it keep their ranges.
LEMMA PoolKept == Custody /\ PoolOK /\ [Next]_vars => PoolOK'
<1> SUFFICES ASSUME Custody, PoolOK, [Next]_vars PROVE PoolOK'
  BY Zenon
<1>1. /\ initialBlockPoolIndex \in Nat /\ Cardinality(AtPool) \in Nat /\ Cardinality(Thread) \in Nat
      /\ AtPool \in SUBSET Thread /\ Pool \in Nat /\ Typed
      /\ AtPool' \in SUBSET Thread
      /\ Cardinality(AtPool') \in Nat /\ Cardinality(AtPool') <= Cardinality(Thread)
  BY Zenon, ThreadSets, PoolAssumption DEF Custody, Typed, AtPool
<1>2. CASE UNCHANGED <<initialBlockPoolIndex, pc>>
  BY Zenon, <1>2 DEF PoolOK, AtPool
<1>3. ASSUME NEW t \in Thread, LoadPoolIndex(t)
      PROVE  PoolOK'
  <2>1. CASE initialBlockPoolIndex < Pool
    BY <1>1, <1>3, <2>1 DEF PoolOK, LoadPoolIndex, pool
  <2>2. CASE ~(initialBlockPoolIndex < Pool)
    <3>1. AtPool' = AtPool /\ initialBlockPoolIndex' = initialBlockPoolIndex
      BY <1>1, <1>3, <2>2 DEF LoadPoolIndex, PoolUsedUp, pool, Go, AtPool, Typed
    <3> QED
      BY Zenon, <3>1 DEF PoolOK
  <2> QED
    BY Zenon, <2>1, <2>2
<1>4. ASSUME NEW t \in Thread, FetchPoolIndex(t)
      PROVE  PoolOK'
  <2>1. t \in AtPool /\ AtPool' = AtPool \ {t} /\ initialBlockPoolIndex' = initialBlockPoolIndex + 1
    BY Zenon, <1>1, <1>4 DEF FetchPoolIndex, Go, AtPool, Typed
  <2>2. Cardinality(AtPool') = Cardinality(AtPool) - 1
    BY Zenon, <2>1, <1>1, OneLess
  <2> QED
    BY <2>1, <2>2, <1>1 DEF PoolOK
<1>5. ASSUME NEW t \in Thread, add_block_to_free_list(t) \/ Working(t), ~FetchPoolIndex(t)
      PROVE  PoolOK'
  <2>1. initialBlockPoolIndex' = initialBlockPoolIndex
    BY Zenon, <1>5 DEF add_block_to_free_list, add, Working, create_Block, LoadHead, LoadRefs, AcquireRef,
       LoadNext, TakeHead, Got, ReleaseRef, AddLoadHead, AddStoreNext, AddStoreRefs, AddSwap, AddAgain, pool
  <2>2. /\ pc[t] # "pool"
        /\ pc' = pc \/ \E to : to # "pool" /\ pc' = [pc EXCEPT ![t] = to]
    <3>1. back[t] # "pool" /\ \A h : Loop(h) # "pool"
      BY Zenon, <1>1 DEF Typed, Loop
    <3>2. CASE add_block_to_free_list(t)
      BY Zenon, <3>2 DEF add_block_to_free_list, add, Go
    <3>3. CASE create_Block(t) \/ LoadHead(t) \/ LoadRefs(t) \/ AcquireRef(t)
      BY Zenon, <3>1, <3>3 DEF create_Block, LoadHead, LoadRefs, AcquireRef, Go
    <3>4. CASE LoadNext(t) \/ TakeHead(t) \/ Got(t) \/ ReleaseRef(t)
      BY Zenon, <3>1, <3>4 DEF LoadNext, TakeHead, Got, ReleaseRef, Go
    <3>5. CASE AddLoadHead(t) \/ AddStoreNext(t) \/ AddStoreRefs(t)
      BY Zenon, <3>5 DEF AddLoadHead, AddStoreNext, AddStoreRefs, Go
    <3>6. CASE AddSwap(t) \/ AddAgain(t)
      BY Zenon, <3>1, <3>6 DEF AddSwap, AddAgain, AddReturn, Go, addVars
    <3> QED
      BY Zenon, <1>5, <3>2, <3>3, <3>4, <3>5, <3>6 DEF Working
  <2>3. AtPool' = AtPool
    BY Zenon, <2>2, <1>1 DEF AtPool, Typed
  <2> QED
    BY Zenon, <2>1, <2>3 DEF PoolOK
<1> QED
  BY Zenon, <1>2, <1>3, <1>4, <1>5 DEF Next, requisition_block, vars, pool

\* The types follow.
LEMMA CustodyTypes == Custody /\ PoolOK => TypeOK
<1> SUFFICES ASSUME Custody, PoolOK PROVE TypeOK
  BY Zenon
<1>1. \A n \in Node : freeListRefs[n] \in 0..(2 * SHOULD_BE_ON_FREELIST - 1)
  BY WordBound, BitAssumption DEF Custody, Typed
<1>2. initialBlockPoolIndex \in 0..(Pool + Cardinality(Thread))
  BY ThreadSets, PoolAssumption DEF PoolOK, AtPool, Custody, Typed
<1> QED
  BY Zenon, <1>1, <1>2 DEF TypeOK, Maybe, Custody, Typed

\* Every variable keeps its type, whatever the number of threads: the count of
\* freeListRefs never runs into its flag as long as the flag is above the
\* number of threads and one, and initialBlockPoolIndex passes the pool by the
\* threads that try it at once at most.
THEOREM TypeCorrect == Spec => []TypeOK
<1>1. Init => PoolOK
  <2> SUFFICES ASSUME Init PROVE PoolOK
    BY Zenon
  <2>1. AtPool = {}
    BY Zenon DEF Init, AtPool
  <2> QED
    BY <2>1, FS_EmptySet, ThreadSets, PoolAssumption DEF Init, PoolOK
<1> QED
  BY <1>1, CustodyKept, PoolKept, CustodyTypes, PTL DEF Spec
=============================================================================
