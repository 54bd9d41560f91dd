------------------------------- MODULE FreeList -------------------------------
(***************************************************************************)
(* Where the blocks of a moodycamel::ConcurrentQueue come from and go to:  *)
(* requisition_block, over the initial pool, the lock-free FreeList and    *)
(* malloc, and add_block_to_free_list, as any number of threads call them. *)
(* A step is one atomic operation.  A node's reference count and the bit   *)
(* that says that it should be on the list are one word, as in the code.   *)
(* A local is NoNode, or 0, when it is of no more use.                     *)
(***************************************************************************)
EXTENDS Integers, FiniteSets

CONSTANTS
  Thread,
  Pool,      \* the blocks of initialBlockPool
  Heap,      \* the blocks malloc has room for
  NoNode,    \* nullptr
  SHOULD_BE_ON_FREELIST   \* the top bit of freeListRefs

Node == 1..(Pool + Heap)
ASSUME PoolAssumption == Pool \in Nat /\ Heap \in Nat /\ NoNode \notin Nat
ASSUME BitAssumption == /\ IsFiniteSet(Thread) /\ SHOULD_BE_ON_FREELIST \in Nat
                        /\ SHOULD_BE_ON_FREELIST > Cardinality(Thread) + 1

VARIABLES
  freeListHead, freeListNext, freeListRefs,
  initialBlockPoolIndex,
  created,     \* the blocks malloc has given out
  pc,
  head, refs, next,   \* the locals of try_get
  node, addHead,      \* the parameter and the local of add_knowing_refcount_is_zero
  back,               \* the step after it
  owned               \* the blocks a thread uses, for its producer or to free

shared == <<freeListHead, freeListNext, freeListRefs>>
pool == <<initialBlockPoolIndex, created>>
getVars == <<head, refs, next>>
addVars == <<node, addHead, back>>
vars == <<shared, pool, pc, getVars, addVars, owned>>

Go(t, step) == pc' = [pc EXCEPT ![t] = step]
Refs(n) == freeListRefs[n] % SHOULD_BE_ON_FREELIST
Changed(n, d) == [freeListRefs EXCEPT ![n] = (@ + d) % (2 * SHOULD_BE_ON_FREELIST)]

-----------------------------------------------------------------------------
(* requisition_block.                                                      *)

PoolUsedUp == initialBlockPoolIndex >= Pool
LoadPoolIndex(t) ==
  /\ pc[t] = "idle"
  /\ Go(t, IF PoolUsedUp THEN "load" ELSE "pool")
  /\ UNCHANGED <<shared, pool, getVars, addVars, owned>>

\* The blocks of the pool are the nodes 1 to Pool.
PoolHas(i) == i < Pool
FetchPoolIndex(t) ==
  /\ pc[t] = "pool"
  /\ initialBlockPoolIndex' = initialBlockPoolIndex + 1
  /\ IF PoolHas(initialBlockPoolIndex)
     THEN owned' = [owned EXCEPT ![t] = @ \cup {initialBlockPoolIndex + 1}] /\ Go(t, "idle")
     ELSE Go(t, "load") /\ UNCHANGED owned
  /\ UNCHANGED <<shared, created, getVars, addVars>>

create_Block(t) ==
  /\ pc[t] = "create"
  /\ IF created < Heap
     THEN /\ created' = created + 1
          /\ owned' = [owned EXCEPT ![t] = @ \cup {Pool + created + 1}]
     ELSE UNCHANGED <<created, owned>>
  /\ Go(t, "idle")
  /\ UNCHANGED <<shared, initialBlockPoolIndex, getVars, addVars>>

-----------------------------------------------------------------------------
(* FreeList::try_get.                                                      *)

\* The loop goes on with the head it has, or ends with nullptr.
Loop(h) == IF h = NoNode THEN "create" ELSE "refs"

LoadHead(t) ==
  /\ pc[t] = "load"
  /\ head' = [head EXCEPT ![t] = freeListHead]
  /\ Go(t, Loop(freeListHead))
  /\ UNCHANGED <<shared, pool, refs, next, addVars, owned>>

\* A node whose count is zero is not on the list any more.
LoadRefs(t) ==
  /\ pc[t] = "refs"
  /\ IF Refs(head[t]) = 0
     THEN Go(t, "load") /\ head' = [head EXCEPT ![t] = NoNode] /\ UNCHANGED refs
     ELSE Go(t, "acquire") /\ refs' = [refs EXCEPT ![t] = freeListRefs[head[t]]] /\ UNCHANGED head
  /\ UNCHANGED <<shared, pool, next, addVars, owned>>

AcquireRef(t) ==
  /\ pc[t] = "acquire"
  /\ IF freeListRefs[head[t]] = refs[t]
     THEN freeListRefs' = Changed(head[t], 1) /\ Go(t, "next") /\ UNCHANGED head
     ELSE Go(t, "load") /\ head' = [head EXCEPT ![t] = NoNode] /\ UNCHANGED freeListRefs
  /\ refs' = [refs EXCEPT ![t] = 0]
  /\ UNCHANGED <<freeListHead, freeListNext, pool, next, addVars, owned>>

LoadNext(t) ==
  /\ pc[t] = "next"
  /\ next' = [next EXCEPT ![t] = freeListNext[head[t]]]
  /\ Go(t, "take")
  /\ UNCHANGED <<shared, pool, head, refs, addVars, owned>>

\* When the head has changed, the compare-exchange has loaded the new one.
TakeHead(t) ==
  /\ pc[t] = "take"
  /\ IF freeListHead = head[t]
     THEN freeListHead' = next[t] /\ Go(t, "got") /\ UNCHANGED <<head, node>>
     ELSE /\ head' = [head EXCEPT ![t] = freeListHead]
          /\ node' = [node EXCEPT ![t] = head[t]]
          /\ Go(t, "release")
          /\ UNCHANGED freeListHead
  /\ next' = [next EXCEPT ![t] = NoNode]
  /\ UNCHANGED <<freeListNext, freeListRefs, pool, refs, addHead, back, owned>>

\* The thread's reference and the list's.
Got(t) ==
  /\ pc[t] = "got"
  /\ freeListRefs' = Changed(head[t], -2)
  /\ owned' = [owned EXCEPT ![t] = @ \cup {head[t]}]
  /\ Go(t, "idle")
  /\ head' = [head EXCEPT ![t] = NoNode]
  /\ UNCHANGED <<freeListHead, freeListNext, pool, refs, next, addVars>>

\* The last one to let go of a node that should be on the list adds it.
\* Slip: the thread that called add is left to do it.
NotMine(n) == FALSE
LastHolder(n) == freeListRefs[n] = SHOULD_BE_ON_FREELIST + 1
ReleaseRef(t) ==
  /\ pc[t] = "release"
  /\ freeListRefs' = Changed(node[t], -1)
  /\ IF LastHolder(node[t])
     THEN Go(t, "addHead") /\ back' = [back EXCEPT ![t] = Loop(head[t])] /\ UNCHANGED node
     ELSE Go(t, Loop(head[t])) /\ node' = [node EXCEPT ![t] = NoNode] /\ UNCHANGED back
  /\ UNCHANGED <<freeListHead, freeListNext, pool, getVars, addHead, owned>>

-----------------------------------------------------------------------------
(* FreeList::add and add_knowing_refcount_is_zero.                         *)

add(t, n) ==
  /\ pc[t] = "idle" /\ n \in owned[t]
  /\ owned' = [owned EXCEPT ![t] = @ \ {n}]
  /\ freeListRefs' = Changed(n, SHOULD_BE_ON_FREELIST)
  /\ IF freeListRefs[n] = 0
     THEN Go(t, "addHead") /\ node' = [node EXCEPT ![t] = n] /\ back' = [back EXCEPT ![t] = "idle"]
     ELSE UNCHANGED <<pc, node, back>>
  /\ UNCHANGED <<freeListHead, freeListNext, pool, getVars, addHead>>

AddLoadHead(t) ==
  /\ pc[t] = "addHead"
  /\ addHead' = [addHead EXCEPT ![t] = freeListHead]
  /\ Go(t, "addNext")
  /\ UNCHANGED <<shared, pool, getVars, node, back, owned>>

AddStoreNext(t) ==
  /\ pc[t] = "addNext"
  /\ freeListNext' = [freeListNext EXCEPT ![node[t]] = addHead[t]]
  /\ Go(t, "addRefs")
  /\ UNCHANGED <<freeListHead, freeListRefs, pool, getVars, addVars, owned>>

AddStoreRefs(t) ==
  /\ pc[t] = "addRefs"
  /\ freeListRefs' = [freeListRefs EXCEPT ![node[t]] = 1]
  /\ Go(t, "addSwap")
  /\ UNCHANGED <<freeListHead, freeListNext, pool, getVars, addVars, owned>>

AddReturn(t) ==
  /\ Go(t, back[t])
  /\ node' = [node EXCEPT ![t] = NoNode] /\ addHead' = [addHead EXCEPT ![t] = NoNode]
  /\ back' = [back EXCEPT ![t] = "idle"]

\* A failed compare-exchange loads the head.
\* Slip: it does not.
StaleHead(t) == addHead[t]
SeenHead(t) == freeListHead
AddSwap(t) ==
  /\ pc[t] = "addSwap"
  /\ IF freeListHead = addHead[t]
     THEN freeListHead' = node[t] /\ AddReturn(t)
     ELSE /\ addHead' = [addHead EXCEPT ![t] = SeenHead(t)]
          /\ Go(t, "addAgain")
          /\ UNCHANGED <<freeListHead, node, back>>
  /\ UNCHANGED <<freeListNext, freeListRefs, pool, getVars, owned>>

\* Try again if nobody else has come to hold the node; else leave it to them.
\* Slip: try again at once.
AnyCount(n) == TRUE
OnlyList(n) == freeListRefs[n] = 1
AddAgain(t) ==
  /\ pc[t] = "addAgain"
  /\ freeListRefs' = Changed(node[t], SHOULD_BE_ON_FREELIST - 1)
  /\ IF OnlyList(node[t]) THEN Go(t, "addNext") /\ UNCHANGED addVars
     ELSE AddReturn(t)
  /\ UNCHANGED <<freeListHead, freeListNext, pool, getVars, owned>>

-----------------------------------------------------------------------------
Init ==
  /\ freeListHead = NoNode
  /\ freeListNext = [n \in Node |-> NoNode] /\ freeListRefs = [n \in Node |-> 0]
  /\ initialBlockPoolIndex = 0 /\ created = 0
  /\ pc = [t \in Thread |-> "idle"]
  /\ head = [t \in Thread |-> NoNode] /\ next = [t \in Thread |-> NoNode]
  /\ refs = [t \in Thread |-> 0]
  /\ node = [t \in Thread |-> NoNode] /\ addHead = [t \in Thread |-> NoNode]
  /\ back = [t \in Thread |-> "idle"]
  /\ owned = [t \in Thread |-> {}]

\* A call under way; the calls themselves are the queue's.
Working(t) ==
  \/ FetchPoolIndex(t) \/ create_Block(t)
  \/ LoadHead(t) \/ LoadRefs(t) \/ AcquireRef(t) \/ LoadNext(t) \/ TakeHead(t) \/ Got(t)
  \/ ReleaseRef(t)
  \/ AddLoadHead(t) \/ AddStoreNext(t) \/ AddStoreRefs(t) \/ AddSwap(t) \/ AddAgain(t)
requisition_block(t) == LoadPoolIndex(t)
add_block_to_free_list(t) == \E n \in Node : add(t, n)

Next == \E t \in Thread : requisition_block(t) \/ add_block_to_free_list(t) \/ Working(t)
Spec == Init /\ [][Next]_vars
FairSpec == Spec /\ \A t \in Thread : WF_vars(Working(t))

-----------------------------------------------------------------------------
(* Properties.                                                             *)

Maybe == Node \cup {NoNode}
\* Every variable has its type: the count of freeListRefs never runs into its flag, nor
\* initialBlockPoolIndex past the pool by more than the threads that try it at once.
TypeOK ==
  /\ freeListHead \in Maybe /\ freeListNext \in [Node -> Maybe]
  /\ freeListRefs \in [Node -> 0..(2 * SHOULD_BE_ON_FREELIST - 1)]
  /\ initialBlockPoolIndex \in 0..(Pool + Cardinality(Thread)) /\ created \in 0..Heap
  /\ pc \in [Thread -> {"idle", "pool", "create", "load", "refs", "acquire", "next", "take",
                        "got", "release", "addHead", "addNext", "addRefs", "addSwap", "addAgain"}]
  /\ head \in [Thread -> Maybe] /\ next \in [Thread -> Maybe] /\ refs \in [Thread -> Nat]
  /\ node \in [Thread -> Maybe] /\ addHead \in [Thread -> Maybe]
  /\ back \in [Thread -> {"idle", "create", "refs"}]
  /\ owned \in [Thread -> SUBSET Node]

\* The nodes that can be reached from the head: those in every set that the
\* head is in and no link leads out of.
Closed(S) == /\ freeListHead \in S \cup {NoNode}
             /\ \A n \in S : freeListNext[n] \in S \cup {NoNode}
OnList == {n \in Node : \A S \in SUBSET Node : Closed(S) => n \in S}

\* Whichever calls of requisition_block and add_block_to_free_list overlap, a
\* block has one user: no two threads are given it, and it is not on the list
\* while it has one.  (The list is a stack without a version counter; what
\* keeps a node from being taken, used, put back and taken again under a
\* thread that is about to swap the head is its reference count.)  A node just
\* taken is not already meant to go back, as try_get asserts.
OneUser ==
  \A t \in Thread :
    /\ \A n \in owned[t] : n \notin OnList /\ \A u \in Thread \ {t} : n \notin owned[u]
    /\ pc[t] = "got" => freeListRefs[head[t]] < SHOULD_BE_ON_FREELIST

\* No block is lost: when no call is under way, every block of the pool given
\* out and every block created is in use or on the list.  The thread that
\* fails to put a node on the list relies on another to do it.
NoneLost ==
  (\A t \in Thread : pc[t] = "idle") =>
    \A n \in Node : (IF n <= Pool THEN n <= initialBlockPoolIndex ELSE n <= Pool + created) =>
                      n \in OnList \/ \E t \in Thread : n \in owned[t]

\* The list is lock-free: threads may get in each other's way again and again,
\* but while a call is under way some call returns.
Returns == \E t \in Thread : pc[t] # "idle" /\ pc'[t] = "idle"
LockFree == []<>(\A t \in Thread : pc[t] = "idle") \/ []<><<Returns>>_vars
=============================================================================
