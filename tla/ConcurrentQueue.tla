---------------------------- MODULE ConcurrentQueue ----------------------------
(***************************************************************************)
(* A whole moodycamel::ConcurrentQueue, as the stack uses it: threads that *)
(* enqueue, each through the implicit producer that it finds, or adds, in  *)
(* a growing lock-free hash table, and threads that dequeue from all the   *)
(* producers of a lock-free list.  A producer's sub-queue is a Fifo        *)
(* (module ImplicitProducer), with the one thing that a Fifo leaves open:  *)
(* a call may find less than there is while another consumer has raised    *)
(* dequeueOptimisticCount too far and not yet corrected it.  One consumer  *)
(* is followed from producer to producer; of the others one may be late in *)
(* that way, and the calls of the rest are one step each.  An element is   *)
(* taken when its unit of dequeueOptimisticCount is raised.                *)
(*                                                                         *)
(* The build has no thread-exit notification: no producer is ever inactive *)
(* and none is recycled.                                                   *)
(***************************************************************************)
EXTENDS Integers, Sequences, FiniteSets

CONSTANTS
  Thread,      \* those that enqueue; a thread is its id
  NoThread,    \* invalid_thread_id
  hashedId,    \* hash_thread_id
  INITIAL_IMPLICIT_PRODUCER_HASH_SIZE,
  MaxFailures, \* bound: the allocations that fail
  MaxItems,    \* bound: the elements a thread enqueues
  Bulk         \* how many elements a call puts in, or asks for

NoProd == 0
Prod == 1..(Cardinality(Thread) + 1)
PowerOfTwo == {2 ^ k : k \in 0..16}

ASSUME HashAssumption ==
  /\ IsFiniteSet(Thread) /\ NoThread \notin Thread /\ hashedId \in [Thread -> Nat]
  /\ INITIAL_IMPLICIT_PRODUCER_HASH_SIZE \in PowerOfTwo \ {0}
ASSUME BulkAssumption == Bulk \subseteq Nat \ {0}

VARIABLES
  table,       \* the hash tables, each but the first with its prev before it
  implicitProducerHashCount, implicitProducerHashResizeInProgress,
  producerListTail, next, created, queue,   \* the list; each one's sub-queue
  failures,    \* the allocations that have failed
  pc, main, newCount, prod, prevTail, count,   \* an enqueueing thread
  sent,        \* how many elements it has enqueued
  cpc, ptr, best, bestSize, nonEmptyCount, max,             \* a dequeueing one
  lateAt, lateWant,   \* the late consumer: its producer, and the units it is about
                      \* to raise; 0 when it has raised some too many
  taken,       \* history: how many elements of each thread were dequeued
  present      \* history: the elements in the queue when the call began, but for
               \* those of producers tried while the late consumer was in the way

hashVars == <<table, implicitProducerHashCount, implicitProducerHashResizeInProgress>>
listVars == <<producerListTail, next, created, failures>>
prodVars == <<pc, main, newCount, prod, prevTail, count, sent>>
lateVars == <<lateAt, lateWant>>
consVars == <<cpc, ptr, best, bestSize, nonEmptyCount, max, taken, present, lateVars>>
vars == <<hashVars, listVars, queue, prodVars, consVars>>

Table(n) == [capacity |-> n,
             entries |-> [i \in 0..(n - 1) |-> [key |-> NoThread, value |-> NoProd]]]
Capacity(h) == table[h].capacity
Slot(h, i) == table[h].entries[i]
Go(t, step) == pc' = [pc EXCEPT ![t] = step]

\* The slots that a probe for t looks at before slot i: from the one t hashes to.
Distance(t, h, i) == (i - hashedId[t]) % Capacity(h)
Before(t, h, i) == {j \in DOMAIN table[h].entries : Distance(t, h, j) < Distance(t, h, i)}
Probed(t, h, i) == \A j \in Before(t, h, i) : Slot(h, j).key \notin {t, NoThread}

-----------------------------------------------------------------------------
(* get_or_add_implicit_producer.  Only t stores its id, and no slot is     *)
(* cleared: how the probes of two threads interleave makes no difference.  *)

\* t is found in slot i of table h.
Finds(t, h, i) == Slot(h, i).key = t /\ Probed(t, h, i)

\* It is in the current table, not in one before it.
Known(h) == h = Len(table)

\* The call, and the search of the current table and of those before it.  Found:
\* it is known, or to be added to the current table.  Not found: it is counted.
inner_enqueue_bulk(t, n) ==
  /\ pc[t] = "idle" /\ sent[t] + n <= MaxItems[t]
  /\ count' = [count EXCEPT ![t] = n] /\ main' = [main EXCEPT ![t] = Len(table)]
  /\ LET found == {h \in DOMAIN table : \E i \in DOMAIN table[h].entries : Finds(t, h, i)}
     IN  \/ /\ found = {}
            /\ Go(t, "count") /\ UNCHANGED prod
         \/ \E h \in found : \E i \in DOMAIN table[h].entries :
              /\ Finds(t, h, i) /\ \A g \in found : g <= h
              /\ prod' = [prod EXCEPT ![t] = Slot(h, i).value]
              /\ Go(t, IF Known(h) THEN "put" ELSE "insert")
  /\ UNCHANGED <<hashVars, listVars, queue, newCount, prevTail, sent, consVars>>

\* Slip: the probe does not start where a search does.
AnyFree(t, h, i) == Slot(h, i).key = NoThread
FirstFree(t, h, i) == /\ Slot(h, i).key = NoThread
                      /\ \A j \in Before(t, h, i) : Slot(h, j).key # NoThread

\* The entry for t goes into the first free slot of the table: a new one, or one
\* that was found in an older table.
InsertEntry(t) ==
  /\ pc[t] = "insert"
  /\ \E i \in DOMAIN table[main[t]].entries :
       /\ FirstFree(t, main[t], i)
       /\ table' = [table EXCEPT ![main[t]].entries[i] = [key |-> t, value |-> prod[t]]]
  /\ Go(t, "put")
  /\ UNCHANGED <<implicitProducerHashCount, implicitProducerHashResizeInProgress, listVars,
                 queue, main, newCount, prod, prevTail, count, sent, consVars>>

CountProducer(t) ==
  /\ pc[t] = "count"
  /\ implicitProducerHashCount' = implicitProducerHashCount + 1
  /\ newCount' = [newCount EXCEPT ![t] = implicitProducerHashCount + 1]
  /\ Go(t, "resize")
  /\ UNCHANGED <<table, implicitProducerHashResizeInProgress, listVars, queue, main, prod,
                 prevTail, count, sent, consVars>>

HalfFull(t, h) == newCount[t] >= Capacity(h) \div 2

TestResize(t) ==
  /\ pc[t] = "resize"
  /\ IF HalfFull(t, main[t]) /\ ~implicitProducerHashResizeInProgress
     THEN implicitProducerHashResizeInProgress' = TRUE /\ Go(t, "grow")
     ELSE Go(t, "room") /\ UNCHANGED implicitProducerHashResizeInProgress
  /\ UNCHANGED <<table, implicitProducerHashCount, listVars, queue, main,
                 newCount, prod, prevTail, count, sent, consVars>>

Uncounted == implicitProducerHashCount - 1

\* No memory: the call returns nullptr, and enqueue returns false.
Fail(t) ==
  /\ failures < MaxFailures /\ failures' = failures + 1
  /\ implicitProducerHashCount' = Uncounted
  /\ Go(t, "idle")
  /\ main' = [main EXCEPT ![t] = 0]
  /\ newCount' = [newCount EXCEPT ![t] = 0]
  /\ count' = [count EXCEPT ![t] = 0]

\* The old capacity doubled, at least once, until the new count is less than half.
NewCapacity(t, n) ==
  /\ n \in PowerOfTwo /\ newCount[t] < n \div 2
  /\ n = 2 * Capacity(Len(table)) \/ newCount[t] >= n \div 4

\* Slip: the flag stays set.
LeftSet == implicitProducerHashResizeInProgress
Cleared == FALSE

\* With the flag taken.
GrowTable(t) ==
  /\ pc[t] = "grow"
  /\ \/ /\ HalfFull(t, Len(table))
        /\ \E n \in (2 * Capacity(Len(table)))..(4 * newCount[t]) :
             NewCapacity(t, n) /\ table' = Append(table, Table(n))
        /\ main' = [main EXCEPT ![t] = Len(table) + 1]
        /\ Go(t, "room")
        /\ UNCHANGED <<implicitProducerHashCount, failures, newCount, count>>
     \/ /\ HalfFull(t, Len(table))
        /\ Fail(t) /\ UNCHANGED table
     \/ /\ ~HalfFull(t, Len(table))
        /\ main' = [main EXCEPT ![t] = Len(table)]
        /\ Go(t, "room")
        /\ UNCHANGED <<table, implicitProducerHashCount, failures, newCount, count>>
  /\ implicitProducerHashResizeInProgress' = Cleared
  /\ UNCHANGED <<producerListTail, next, created, queue, prod, prevTail, sent, consVars>>

ThreeQuarters(h) == (Capacity(h) \div 2) + (Capacity(h) \div 4)

HasRoom(t, h) == newCount[t] < ThreeQuarters(h)

\* Into a table that is less than three quarters full at once: allocate the
\* producer (there is none to recycle), and load the list's tail.  Else wait for
\* the thread that makes a larger table.
recycle_or_create_producer(t) ==
  /\ pc[t] = "room"
  /\ \/ /\ HasRoom(t, main[t])
        /\ prevTail' = [prevTail EXCEPT ![t] = producerListTail]
        /\ Go(t, "list")
        /\ UNCHANGED <<implicitProducerHashCount, failures, main, newCount, count>>
     \/ /\ HasRoom(t, main[t])
        /\ Fail(t) /\ UNCHANGED prevTail
     \/ /\ ~HasRoom(t, main[t])
        /\ main' = [main EXCEPT ![t] = Len(table)]
        /\ Go(t, "resize")
        /\ UNCHANGED <<implicitProducerHashCount, failures, newCount, prevTail, count>>
  /\ UNCHANGED <<table, implicitProducerHashResizeInProgress, producerListTail, next, created,
                 queue, prod, sent, consVars>>

\* Slip: the list's tail is stored without being compared.
Overwrite(t) == TRUE
TailUnchanged(t) == producerListTail = prevTail[t]

\* Nobody sees the new producer before it is linked: it is numbered then.
add_producer(t) ==
  /\ pc[t] = "list"
  /\ IF TailUnchanged(t)
     THEN /\ created' = created + 1 /\ created' \in Prod
          /\ producerListTail' = created' /\ next' = [next EXCEPT ![created'] = prevTail[t]]
          /\ prod' = [prod EXCEPT ![t] = created']
          /\ prevTail' = [prevTail EXCEPT ![t] = NoProd]
          /\ Go(t, "insert")
     ELSE /\ prevTail' = [prevTail EXCEPT ![t] = producerListTail]
          /\ UNCHANGED <<producerListTail, next, created, prod, pc>>
  /\ UNCHANGED <<hashVars, failures, queue, main, newCount, count, sent, consVars>>

\* The producer's enqueue or enqueue_bulk.
Put(t) ==
  /\ pc[t] = "put"
  /\ queue' = [queue EXCEPT ![prod[t]] =
                 @ \o [i \in 1..count[t] |-> [from |-> t, seq |-> sent[t] + i]]]
  /\ sent' = [sent EXCEPT ![t] = @ + count[t]]
  /\ Go(t, "idle")
  /\ main' = [main EXCEPT ![t] = 0]
  /\ count' = [count EXCEPT ![t] = 0]
  /\ prod' = [prod EXCEPT ![t] = NoProd]
  /\ UNCHANGED <<hashVars, listVars, newCount, prevTail, consVars>>

Enqueueing(t) ==
  \/ CountProducer(t) \/ TestResize(t) \/ GrowTable(t) \/ recycle_or_create_producer(t)
  \/ add_producer(t) \/ InsertEntry(t) \/ Put(t)

-----------------------------------------------------------------------------
(* try_dequeue, and try_dequeue_bulk.                                      *)

ElementsOf(p) == {queue[p][i] : i \in DOMAIN queue[p]}
Elements == UNION {ElementsOf(p) : p \in Prod}

Call(step, n) ==
  /\ cpc = "idle" /\ cpc' = step
  /\ ptr' = producerListTail /\ max' = n /\ present' = Elements
  /\ UNCHANGED <<hashVars, listVars, queue, prodVars, best, bestSize, nonEmptyCount, taken,
                 lateVars>>

try_dequeue == Call("score", 1)
try_dequeue_bulk(n) == Call("walk", n)

CReturn ==
  /\ cpc' = "idle"
  /\ ptr' = NoProd /\ best' = NoProd /\ bestSize' = 0 /\ nonEmptyCount' = 0
  /\ max' = 0 /\ present' = {}

\* The first three producers that are not empty are compared by size_approx.
Score ==
  /\ cpc = "score"
  /\ IF ptr # NoProd /\ nonEmptyCount < 3
     THEN LET size == Len(queue[ptr])
          IN  /\ bestSize' = IF size > bestSize THEN size ELSE bestSize
              /\ best' = IF size > bestSize THEN ptr ELSE best
              /\ nonEmptyCount' = IF size > 0 THEN nonEmptyCount + 1 ELSE nonEmptyCount
              /\ ptr' = next[ptr]
              /\ UNCHANGED <<cpc, max, present>>
     ELSE IF nonEmptyCount > 0
     THEN cpc' = "best" /\ UNCHANGED <<ptr, best, bestSize, nonEmptyCount, max, present>>
     ELSE CReturn
  /\ UNCHANGED <<hashVars, listVars, queue, prodVars, taken, lateVars>>

\* dequeue and dequeue_bulk of a producer: up to n of the oldest elements.
AtMost(p, n) == IF Len(queue[p]) < n THEN Len(queue[p]) ELSE n
Dequeue(p, n) ==
  /\ queue' = [queue EXCEPT ![p] = SubSeq(@, n + 1, Len(@))]
  /\ taken' = [t \in Thread |->
                 taken[t] + Cardinality({i \in 1..n : queue[p][i].from = t})]

\* While units of dequeueOptimisticCount are not given back, the difference to
\* dequeueOvercommit hides as many elements, or more: a call loads the two one after
\* the other, and what is given back and raised again in between counts twice.
Overcommitted(p) == lateAt = p /\ lateWant = 0
Found(p, n) == IF Overcommitted(p) THEN 0..AtMost(p, n) ELSE {AtMost(p, n)}
Owed(p) == IF Overcommitted(p) THEN present \ ElementsOf(p) ELSE present

\* Slip: the others are not tried when the best one turns out empty.
NoOther == NoProd
FirstOther == producerListTail
TakeBest ==
  /\ cpc = "best"
  /\ \E n \in Found(best, 1) :
       /\ Dequeue(best, n)
       /\ IF n = 1 THEN CReturn
          ELSE /\ cpc' = "rest" /\ ptr' = FirstOther /\ present' = Owed(best)
               /\ UNCHANGED <<best, bestSize, nonEmptyCount, max>>
  /\ UNCHANGED <<hashVars, listVars, prodVars, lateVars>>

\* The list is walked, from its tail, until there are as many as were asked for.
\* (rest: the second loop of try_dequeue, walk: the loop of try_dequeue_bulk.)
Walk ==
  /\ cpc \in {"rest", "walk"}
  /\ IF ptr = NoProd \/ max = 0
     THEN CReturn /\ UNCHANGED <<queue, taken>>
     ELSE /\ IF ptr = best
             THEN UNCHANGED <<queue, taken, max, present>>
             ELSE /\ \E n \in Found(ptr, max) : Dequeue(ptr, n) /\ max' = max - n
                  /\ present' = Owed(ptr)
          /\ ptr' = next[ptr]
          /\ UNCHANGED <<cpc, best, bestSize, nonEmptyCount>>
  /\ UNCHANGED <<hashVars, listVars, prodVars, lateVars>>

Dequeueing == Score \/ TakeBest \/ Walk

-----------------------------------------------------------------------------
(* Other consumers, in a dequeue or dequeue_bulk of a producer.            *)

myCall == <<cpc, ptr, best, bestSize, nonEmptyCount, max, present>>

\* One takes an element.
OtherDequeue(p) ==
  /\ queue[p] # <<>> /\ Dequeue(p, 1)
  /\ UNCHANGED <<hashVars, listVars, prodVars, myCall, lateVars>>

\* One finds elements, desiredCount of them ...
LateLook(p, n) ==
  /\ lateAt = NoProd /\ queue[p] # <<>>
  /\ lateAt' = p /\ lateWant' = AtMost(p, n)
  /\ UNCHANGED <<hashVars, listVars, queue, prodVars, myCall, taken>>

\* ... raises dequeueOptimisticCount by as much, and gets what is still there ...
LateRaise ==
  /\ lateWant > 0
  /\ LET n == AtMost(lateAt, lateWant)
     IN  /\ Dequeue(lateAt, n)
         /\ lateAt' = IF n = lateWant THEN NoProd ELSE lateAt
         /\ lateWant' = 0
  /\ UNCHANGED <<hashVars, listVars, prodVars, myCall>>

\* ... and gives the rest back, through dequeueOvercommit.
LateGiveBack ==
  /\ lateAt # NoProd /\ lateWant = 0
  /\ lateAt' = NoProd
  /\ UNCHANGED <<hashVars, listVars, queue, prodVars, myCall, taken, lateWant>>

Late == LateRaise \/ LateGiveBack \/ \E p \in Prod, n \in Bulk : LateLook(p, n)

Init ==
  /\ table = <<Table(INITIAL_IMPLICIT_PRODUCER_HASH_SIZE)>>
  /\ implicitProducerHashCount = 0 /\ implicitProducerHashResizeInProgress = FALSE
  /\ producerListTail = NoProd /\ next = [p \in Prod |-> NoProd] /\ created = 0
  /\ failures = 0 /\ queue = [p \in Prod |-> <<>>]
  /\ pc = [t \in Thread |-> "idle"] /\ prod = [t \in Thread |-> NoProd]
  /\ prevTail = [t \in Thread |-> NoProd]
  /\ main = [t \in Thread |-> 0] /\ newCount = [t \in Thread |-> 0]
  /\ count = [t \in Thread |-> 0] /\ sent = [t \in Thread |-> 0]
  /\ taken = [t \in Thread |-> 0]
  /\ cpc = "idle" /\ ptr = NoProd /\ best = NoProd /\ bestSize = 0
  /\ nonEmptyCount = 0 /\ max = 0 /\ present = {} /\ lateAt = NoProd /\ lateWant = 0

Next ==
  \/ \E t \in Thread : Enqueueing(t) \/ \E n \in Bulk : inner_enqueue_bulk(t, n)
  \/ Dequeueing \/ try_dequeue \/ \E n \in Bulk : try_dequeue_bulk(n)
  \/ Late \/ \E p \in Prod : OtherDequeue(p)

Spec == Init /\ [][Next]_vars

\* A thread that is inside enqueue goes on.  Calling is up to the program.
FairSpec == /\ Spec
            /\ \A t \in Thread : WF_vars(Enqueueing(t))

-----------------------------------------------------------------------------
(* Properties.                                                             *)

Entries == UNION {{[key |-> Slot(h, i).key, value |-> Slot(h, i).value] :
                     i \in 0..(Capacity(h) - 1)} : h \in DOMAIN table}
Used(h) == {i \in 0..(Capacity(h) - 1) : Slot(h, i).key # NoThread}

\* Every variable has its type: a table's slots are its capacity's, a thread's
\* table and slot exist while it uses them, and the list's links are producers.
TypeOK ==
  /\ \A h \in DOMAIN table :
       /\ Capacity(h) \in PowerOfTwo
       /\ DOMAIN table[h].entries = 0..(Capacity(h) - 1)
       /\ \A i \in 0..(Capacity(h) - 1) :
            Slot(h, i) \in [key : Thread \cup {NoThread}, value : Prod \cup {NoProd}]
  /\ implicitProducerHashCount \in 0..Cardinality(Thread)
  /\ implicitProducerHashResizeInProgress \in BOOLEAN
  /\ producerListTail \in Prod \cup {NoProd} /\ next \in [Prod -> Prod \cup {NoProd}]
  /\ created \in 0..Cardinality(Thread) /\ failures \in 0..MaxFailures
  /\ pc \in [Thread -> {"idle", "count", "resize", "grow", "room", "list", "insert", "put"}]
  /\ \A t \in Thread :
       /\ main[t] \in 0..Len(table) /\ (pc[t] # "idle" => main[t] # 0)
       /\ newCount[t] \in 0..Cardinality(Thread) /\ sent[t] \in 0..MaxItems[t]
       /\ pc[t] \in {"insert", "put"} => prod[t] \in Prod
       /\ prevTail[t] \in Prod \cup {NoProd}
       /\ count[t] \in Bulk \cup {0} /\ taken[t] \in 0..MaxItems[t]
  /\ cpc \in {"idle", "score", "best", "rest", "walk"}
  /\ {ptr, best, lateAt} \subseteq Prod \cup {NoProd} /\ nonEmptyCount \in 0..3
  /\ lateWant \in Nat /\ (lateWant > 0 => lateAt # NoProd)

\* get_or_add_implicit_producer gives a thread one producer, whichever table it finds it
\* in, and no two threads share one: enqueue of an implicit producer is for one thread
\* only.  No table is ever three quarters full, whatever threads come, retry and fail: a
\* probe ends at an empty slot ("Not an infinite loop because at least one slot is free
\* in the hash table"), and an entry found in an older table has room in the current one.
OwnProducer ==
  /\ \A e, f \in Entries \cup {[key |-> t, value |-> prod[t]] : t \in Thread} :
       e.value # NoProd /\ f.value # NoProd => (e.key = f.key <=> e.value = f.value)
  /\ \A h \in DOMAIN table : Used(h) # {} => Cardinality(Used(h)) < ThreeQuarters(h)

\* What a thread enqueued and nobody has dequeued is in one producer that a
\* consumer can reach along the list, in the order in which it was enqueued.
Reachable == LET hops[n \in 0..Cardinality(Prod)] ==
                   IF n = 0 THEN {producerListTail}
                   ELSE hops[n - 1] \cup {next[p] : p \in hops[n - 1] \ {NoProd}}
             IN  hops[Cardinality(Prod)]
PerThreadOrder ==
  \A t \in Thread : sent[t] > taken[t] =>
    \E p \in Reachable \ {NoProd} :
      queue[p] = [i \in 1..(sent[t] - taken[t]) |-> [from |-> t, seq |-> taken[t] + i]]

\* A dequeue that returns with less than it was asked for has left nothing behind that
\* was there when it was called, though producers add and other consumers take
\* meanwhile, but for elements of a producer that it tried while another consumer had
\* yet to correct dequeueOptimisticCount ("likely but not guaranteed to be empty").  A
\* queue of the stack has one consumer, for whom "no element" is "nothing was posted".
NeverMisses ==
  [][(cpc \in {"score", "rest", "walk"} /\ cpc' = "idle" /\ max > 0)
     => present \cap Elements = {}]_vars

\* enqueue returns, with or without success: the wait for a larger hash table ends,
\* as long as allocations do not fail for ever.
EnqueueReturns == \A t \in Thread : pc[t] # "idle" ~> pc[t] = "idle"

=============================================================================
