-------------------------------- MODULE Tokens --------------------------------
(***************************************************************************)
(* The parts of moodycamel::ConcurrentQueue around its producers: producer *)
(* tokens, whose producers are recycled, consumer tokens, which rotate     *)
(* over the producers, and queue objects that are moved, swapped and       *)
(* destroyed with everything they own.                                     *)
(*                                                                         *)
(* A producer's sub-queue is a Fifo (modules ImplicitProducer and          *)
(* ExplicitProducer), and an implicit enqueue is one step (module          *)
(* ConcurrentQueue follows it closely).  As there, a call may find less    *)
(* than there is while a consumer without a token, the late one, has       *)
(* raised dequeueOptimisticCount too far and not yet corrected it.         *)
(* Moving, swapping and destroying happen while no call is under way, as   *)
(* the comments of the code ask.                                           *)
(***************************************************************************)
EXTENDS Integers, Sequences, FiniteSets

CONSTANTS
  Object,        \* the ConcurrentQueue objects
  PThread,       \* threads that enqueue: a producer token each
  CThread,       \* threads that dequeue: a consumer token each
  QUOTA,         \* EXPLICIT_CONSUMER_CONSUMPTION_QUOTA_BEFORE_ROTATE
  Max,           \* how many elements a dequeue may ask for: 1 is try_dequeue
  MaxProducer,   \* bound: producers ever created
  MaxTable,      \* bound: hash tables ever allocated
  Bounds         \* bounds on a behaviour: elements ever enqueued, producer tokens ever
                 \* made, consumer tokens, queues made, moved or swapped, threads
                 \* inside a call at once, and late consumers

ASSUME TokensAssumption ==
  /\ QUOTA \in Nat \ {0} /\ Max \subseteq Nat \ {0}
  /\ {MaxProducer, MaxTable} \subseteq Nat
  /\ Bounds \subseteq [items : Nat, tokens : Nat, consumers : Nat, moves : Nat, inside : Nat,
                       late : {0, 1}]

NoProd == 0
Producer == 1..MaxProducer
NoTable == 0
NoThread == "none"
NoObject == "none"
Nothing == <<>>     \* no pool, no content

VARIABLES
  obj,      \* the fields of each object
  made,     \* producers created so far
  prod,     \* the fields of each producer
  tables, table,   \* hash tables allocated so far; one is an object or a number
  ptoken,   \* a producer token: its producer
  ppc, pobj, pptr,          \* its thread: next step, the object, a pointer
  ctoken,   \* a consumer token
  cpc, ctail, ccount, cptr, cmax, asked,   \* its thread
  bound, sent, given, moves,    \* one of Bounds, and the counts it is for
  lateAt, lateWant,  \* the late consumer: its producer, and the units it is about to
                     \* raise; 0 when it has raised some too many
  present   \* history: the elements in the object when the dequeue was called, but for
            \* those of producers tried while the late consumer was in the way

objVars == <<obj, made, prod, tables, table>>
pVars   == <<ptoken, ppc, pobj, pptr>>
cLocal  == <<cpc, ctail, ccount, cptr, cmax, asked, present>>
cVars   == <<ctoken, cLocal>>
lateVars == <<lateAt, lateWant>>
counts  == <<sent, given, moves, bound, lateVars>>
vars    == <<objVars, pVars, cVars, counts>>

\* What the constructor leaves in object o, with its own initial hash table.  pool
\* stands for the initial pool and the free list.  content is history: it names what
\* moves from object to object.
New(o, pool, content) ==
  [alive |-> TRUE, producerListTail |-> NoProd, producerCount |-> 0,
   nextExplicitConsumerId |-> 0, globalExplicitConsumerOffset |-> 0,
   implicitProducerHash |-> o, pool |-> pool, content |-> content]

NewToken(o) ==
  [home |-> obj[o].content, initialOffset |-> obj[o].nextExplicitConsumerId,
   lastKnownGlobalOffset |-> -1, itemsConsumedFromCurrent |-> 0,
   currentProducer |-> NoProd, desiredProducer |-> NoProd]
NoToken == [home |-> Nothing]

NewProducer(o, thread, explicit, nextProd) ==
  [parent |-> o, next |-> nextProd, inactive |-> FALSE, token |-> thread,
   isExplicit |-> explicit, items |-> <<>>]

Unborn == [parent |-> NoObject, next |-> NoProd, inactive |-> FALSE, token |-> NoThread,
           isExplicit |-> FALSE, items |-> <<>>]
Blank == [prev |-> NoTable, entries |-> {}]

\* The producers of a list that starts at p: next never changes once it is linked.
From(p) == LET list[q \in 0..MaxProducer] ==
                 IF q = NoProd \/ q > made THEN {} ELSE {q} \cup list[prod[q].next]
           IN  list[p]
Linked(o) == From(obj[o].producerListTail)

-----------------------------------------------------------------------------
(* Producer tokens.                                                        *)

MayEnter == Cardinality({t \in PThread : ppc[t] # "idle"})
              + Cardinality({c \in CThread : cpc[c] # "idle"}) < bound.inside

PGo(t, step) == ppc' = [ppc EXCEPT ![t] = step]
PAt(t, p) == pptr' = [pptr EXCEPT ![t] = p]
PReturn(t) == PGo(t, "idle") /\ PAt(t, NoProd) /\ pobj' = [pobj EXCEPT ![t] = NoObject]

\* The constructor: recycle_or_create_producer looks through the list for a producer
\* that is inactive, and explicit.
ProducerToken(t, o) ==
  /\ ppc[t] = "idle" /\ MayEnter /\ ptoken[t] = NoProd /\ obj[o].alive
  /\ given < bound.tokens /\ given' = given + 1
  /\ PGo(t, "scan") /\ PAt(t, obj[o].producerListTail)
  /\ pobj' = [pobj EXCEPT ![t] = o]
  /\ UNCHANGED <<objVars, ptoken, cVars, sent, moves, bound, lateVars>>

Recyclable(p) == prod[p].inactive /\ prod[p].isExplicit

Scan(t) ==
  /\ ppc[t] = "scan"
  /\ LET p == pptr[t]
     IN  \/ p = NoProd /\ PGo(t, "create") /\ UNCHANGED pptr
         \/ p # NoProd /\ Recyclable(p) /\ PGo(t, "claim") /\ UNCHANGED pptr
         \/ p # NoProd /\ ~Recyclable(p) /\ PAt(t, prod[p].next) /\ UNCHANGED ppc
  /\ UNCHANGED <<objVars, ptoken, pobj, cVars, counts>>

\* Slip: the flag is stored without being compared.
AlwaysMine(p) == TRUE
StillInactive(p) == prod[p].inactive

\* The compare_exchange on inactive.
Claim(t) ==
  /\ ppc[t] = "claim"
  /\ LET p == pptr[t]
     IN  IF StillInactive(p)
         THEN /\ prod' = [prod EXCEPT ![p].inactive = FALSE, ![p].token = t]
              /\ ptoken' = [ptoken EXCEPT ![t] = p]
              /\ PReturn(t)
         ELSE PGo(t, "scan") /\ PAt(t, prod[p].next) /\ UNCHANGED <<prod, ptoken, pobj>>
  /\ UNCHANGED <<obj, made, tables, table, cVars, counts>>

Counted(count) == count + 1

\* add_producer: count it and load the tail, then link it.  With no memory for it the
\* token is not valid.
Create(t) ==
  /\ ppc[t] = "create"
  /\ LET o == pobj[t]
     IN  \/ /\ made + Cardinality({u \in PThread : ppc[u] = "link"}) < MaxProducer
            /\ obj' = [obj EXCEPT ![o].producerCount = Counted(@)]
            /\ PGo(t, "link") /\ PAt(t, obj[o].producerListTail) /\ UNCHANGED pobj
         \/ PReturn(t) /\ UNCHANGED obj
  /\ UNCHANGED <<made, prod, tables, table, ptoken, cVars, counts>>

Link(t) ==
  /\ ppc[t] = "link"
  /\ LET o == pobj[t]
     IN  IF obj[o].producerListTail = pptr[t]
         THEN /\ made' = made + 1
              /\ prod' = [prod EXCEPT ![made'] = NewProducer(o, t, TRUE, pptr[t])]
              /\ obj' = [obj EXCEPT ![o].producerListTail = made']
              /\ ptoken' = [ptoken EXCEPT ![t] = made']
              /\ PReturn(t)
         ELSE /\ PAt(t, obj[o].producerListTail)
              /\ UNCHANGED <<obj, made, prod, ptoken, ppc, pobj>>
  /\ UNCHANGED <<tables, table, cVars, counts>>

Producing(t) == Scan(t) \/ Claim(t) \/ Create(t) \/ Link(t)

\* ~ProducerToken.
DropToken(t) ==
  /\ ppc[t] = "idle" /\ ptoken[t] # NoProd
  /\ prod' = [prod EXCEPT ![ptoken[t]].token = NoThread, ![ptoken[t]].inactive = TRUE]
  /\ ptoken' = [ptoken EXCEPT ![t] = NoProd]
  /\ UNCHANGED <<obj, made, tables, table, ppc, pobj, pptr, cVars, counts>>

\* swap of two tokens; with one that is not valid it is the move constructor.
SwapTokens(t, u) ==
  /\ ppc[t] = "idle" /\ ppc[u] = "idle" /\ ptoken[t] # NoProd /\ t # u
  /\ ptoken' = [ptoken EXCEPT ![t] = ptoken[u], ![u] = ptoken[t]]
  /\ prod' = [p \in Producer |-> IF p = ptoken[t] THEN [prod[p] EXCEPT !.token = u]
                                 ELSE IF p = ptoken[u] THEN [prod[p] EXCEPT !.token = t]
                                 ELSE prod[p]]
  /\ UNCHANGED <<obj, made, tables, table, ppc, pobj, pptr, cVars, counts>>

\* enqueue with a token.
Enqueue(t) ==
  /\ ppc[t] = "idle" /\ ptoken[t] # NoProd /\ sent < bound.items
  /\ sent' = sent + 1
  /\ prod' = [prod EXCEPT ![ptoken[t]].items = Append(@, sent')]
  /\ UNCHANGED <<obj, made, tables, table, pVars, cVars, given, moves, bound, lateVars>>

-----------------------------------------------------------------------------
(* Implicit producers.                                                     *)

Chain(h) == LET tabs[n \in 0..(MaxTable + 1)] ==
                  IF n = 0 THEN {h} ELSE tabs[n - 1] \cup {table[g].prev : g \in tabs[n - 1] \ {NoTable}}
            IN  tabs[MaxTable + 1] \ {NoTable}
Entries(o) == UNION {table[h].entries : h \in Chain(obj[o].implicitProducerHash)}

\* enqueue without a token, by a thread with a producer: it is found in one of the
\* tables, and then it is in the current one too.
EnqueueKnown(t, o) ==
  /\ ppc[t] = "idle" /\ obj[o].alive /\ sent < bound.items
  /\ \E e \in Entries(o) :
       /\ e.key = t
       /\ sent' = sent + 1
       /\ prod' = [prod EXCEPT ![e.value].items = Append(@, sent')]
       /\ table' = [table EXCEPT ![obj[o].implicitProducerHash].entries = @ \cup {e}]
  /\ UNCHANGED <<obj, made, tables, pVars, cVars, given, moves, bound, lateVars>>

\* ... and by one without: a producer, and an entry in the current table or in a new one.
EnqueueNew(t, o, grow) ==
  /\ ppc[t] = "idle" /\ obj[o].alive /\ sent < bound.items
  /\ made + Cardinality({u \in PThread : ppc[u] = "link"}) < MaxProducer
  /\ \A e \in Entries(o) : e.key # t
  /\ grow => tables < MaxTable
  /\ LET h == obj[o].implicitProducerHash
         g == IF grow THEN tables + 1 ELSE h
         e == [key |-> t, value |-> made + 1]
     IN  /\ sent' = sent + 1
         /\ made' = made + 1
         /\ prod' = [prod EXCEPT ![made'] =
                       [NewProducer(o, NoThread, FALSE, obj[o].producerListTail)
                          EXCEPT !.items = <<sent'>>]]
         /\ obj' = [obj EXCEPT ![o].producerListTail = made', ![o].producerCount = @ + 1,
                               ![o].implicitProducerHash = g]
         /\ tables' = IF grow THEN tables + 1 ELSE tables
         /\ table' = [table EXCEPT ![g] = [prev |-> IF grow THEN h ELSE @.prev,
                                           entries |-> @.entries \cup {e}]]
  /\ UNCHANGED <<pVars, cVars, given, moves, bound, lateVars>>

-----------------------------------------------------------------------------
(* Consumer tokens.                                                        *)

CGo(c, step) == cpc' = [cpc EXCEPT ![c] = step]
Has(c, o) == obj[o].alive /\ obj[o].content = ctoken[c].home
Home(c) == CHOOSE o \in Object : Has(c, o)
ElementsOf(p) == {prod[p].items[i] : i \in DOMAIN prod[p].items}
Elements(o) == UNION {ElementsOf(p) : p \in Linked(o)}

ConsumerToken(c, o) ==
  /\ cpc[c] = "idle" /\ ctoken[c] = NoToken /\ obj[o].alive
  /\ Cardinality({d \in CThread : ctoken[d] # NoToken}) < bound.consumers
  /\ ctoken' = [ctoken EXCEPT ![c] = NewToken(o)]
  /\ obj' = [obj EXCEPT ![o].nextExplicitConsumerId = @ + 1]
  /\ UNCHANGED <<made, prod, tables, table, pVars, cLocal, counts>>

\* try_dequeue and try_dequeue_bulk with a token, of the object it now goes with.
try_dequeue(c, o, n) ==
  /\ cpc[c] = "idle" /\ MayEnter /\ ctoken[c] # NoToken /\ Has(c, o)
  /\ cmax' = [cmax EXCEPT ![c] = n] /\ asked' = [asked EXCEPT ![c] = n]
  /\ present' = [present EXCEPT ![c] = Elements(o)]
  /\ CGo(c, IF \/ ctoken[c].desiredProducer = NoProd
               \/ ctoken[c].lastKnownGlobalOffset # obj[o].globalExplicitConsumerOffset
            THEN "update" ELSE "current")
  /\ UNCHANGED <<objVars, pVars, ctoken, ctail, ccount, cptr, counts>>

CReturn(c) ==
  /\ CGo(c, "idle")
  /\ ctail' = [ctail EXCEPT ![c] = NoProd] /\ ccount' = [ccount EXCEPT ![c] = 0]
  /\ cptr' = [cptr EXCEPT ![c] = NoProd]
  /\ cmax' = [cmax EXCEPT ![c] = 0] /\ asked' = [asked EXCEPT ![c] = 0]
  /\ present' = [present EXCEPT ![c] = {}]

\* update_current_producer_after_rotation loads the tail, the count and the offset.
LoadTail(c) ==
  /\ cpc[c] = "update"
  /\ LET t == obj[Home(c)].producerListTail
     IN  IF ctoken[c].desiredProducer = NoProd /\ t = NoProd
         THEN CReturn(c)
         ELSE /\ ctail' = [ctail EXCEPT ![c] = t] /\ CGo(c, "count")
              /\ UNCHANGED <<ccount, cptr, cmax, asked, present>>
  /\ UNCHANGED <<objVars, pVars, ctoken, counts>>

LoadCount(c) ==
  /\ cpc[c] = "count"
  /\ ccount' = [ccount EXCEPT ![c] = obj[Home(c)].producerCount] /\ CGo(c, "offset")
  /\ UNCHANGED <<objVars, pVars, ctoken, ctail, cptr, cmax, asked, present, counts>>

\* The next producer, round the list.
After(c, p) == IF prod[p].next = NoProd THEN ctail[c] ELSE prod[p].next
Hops(c, p, n) == LET hop[i \in 0..n] == IF i = 0 THEN p ELSE After(c, hop[i - 1]) IN hop[n]

Places(delta, n) == IF delta >= n THEN delta % n ELSE delta

Rotate(c) ==
  /\ cpc[c] = "offset"
  /\ LET token == ctoken[c]
         n == ccount[c]
         offset == obj[Home(c)].globalExplicitConsumerOffset
         first == token.desiredProducer = NoProd
         start == IF first THEN Hops(c, ctail[c], n - 1 - (token.initialOffset % n))
                           ELSE token.desiredProducer
         p == Hops(c, start, Places(offset - token.lastKnownGlobalOffset, n))
     IN  ctoken' = [ctoken EXCEPT ![c] =
                      [token EXCEPT !.lastKnownGlobalOffset = offset, !.desiredProducer = p,
                                    !.currentProducer = p, !.itemsConsumedFromCurrent = 0]]
  /\ CGo(c, "current")
  /\ UNCHANGED <<objVars, pVars, ctail, ccount, cptr, cmax, asked, present, counts>>

\* dequeue and dequeue_bulk of a producer.
AtMost(p, n) == IF Len(prod[p].items) < n THEN Len(prod[p].items) ELSE n
Dequeue(p, n) == prod' = [prod EXCEPT ![p].items = SubSeq(@, n + 1, Len(@))]

\* Units of dequeueOptimisticCount that are not given back yet hide elements.
Overcommitted(p) == lateAt = p /\ lateWant = 0
Found(p, n) == IF Overcommitted(p) THEN 0..AtMost(p, n) ELSE {AtMost(p, n)}
Owed(c, p) == present' = [present EXCEPT ![c] = IF Overcommitted(p) THEN @ \ ElementsOf(p) ELSE @]

\* try_dequeue rotates when the quota is met, try_dequeue_bulk when it is met or passed.
QuotaMet(c, n) == IF asked[c] = 1 THEN n = QUOTA ELSE n >= QUOTA

TakeCurrent(c) ==
  /\ cpc[c] = "current"
  /\ LET p == ctoken[c].currentProducer
     IN  \E n \in Found(p, cmax[c]) :
         LET consumed == ctoken[c].itemsConsumedFromCurrent + n
         IN  /\ Dequeue(p, n)
             /\ ctoken' = [ctoken EXCEPT ![c].itemsConsumedFromCurrent = consumed]
             /\ IF n = cmax[c]
                THEN /\ IF QuotaMet(c, consumed)
                        THEN CGo(c, "rotate") /\ UNCHANGED <<ctail, ccount, cptr, cmax, asked, present>>
                        ELSE CReturn(c)
                ELSE /\ cmax' = [cmax EXCEPT ![c] = @ - n] /\ CGo(c, "rest")
                     /\ Owed(c, p) /\ UNCHANGED <<ctail, ccount, cptr, asked>>
  /\ UNCHANGED <<obj, made, tables, table, pVars, counts>>

FetchAdd(c) ==
  /\ cpc[c] = "rotate"
  /\ obj' = [obj EXCEPT ![Home(c)].globalExplicitConsumerOffset = @ + 1]
  /\ CReturn(c)
  /\ UNCHANGED <<made, prod, tables, table, pVars, ctoken, counts>>

\* Slip: the walk ends at the end of the list.
NoWrap(c, p, tail) == IF prod[p].next = NoProd THEN ctoken[c].currentProducer ELSE prod[p].next
Onward(c, p, tail) == IF prod[p].next = NoProd THEN tail ELSE prod[p].next

\* The others, from the one after the current producer.
Rest(c) ==
  /\ cpc[c] = "rest"
  /\ LET t == obj[Home(c)].producerListTail
     IN  /\ ctail' = [ctail EXCEPT ![c] = t]
         /\ cptr' = [cptr EXCEPT ![c] = Onward(c, ctoken[c].currentProducer, t)]
  /\ CGo(c, "ring")
  /\ UNCHANGED <<objVars, pVars, ctoken, ccount, cmax, asked, present, counts>>

Ring(c) ==
  /\ cpc[c] = "ring"
  /\ LET p == cptr[c]
     IN  IF p = ctoken[c].currentProducer
         THEN CReturn(c) /\ UNCHANGED <<prod, ctoken>>
         ELSE \E n \in Found(p, cmax[c]) :
              /\ Dequeue(p, n)
              /\ ctoken' = IF n = 0 THEN ctoken
                           ELSE [ctoken EXCEPT ![c].currentProducer = p,
                                               ![c].itemsConsumedFromCurrent = n]
              /\ IF n = cmax[c] THEN CReturn(c)
                 ELSE /\ cmax' = [cmax EXCEPT ![c] = @ - n]
                      /\ cptr' = [cptr EXCEPT ![c] = Onward(c, p, ctail[c])]
                      /\ Owed(c, p) /\ UNCHANGED <<cpc, ctail, ccount, asked>>
  /\ UNCHANGED <<obj, made, tables, table, pVars, counts>>

\* swap of two consumer tokens; with one that was not made it is the move constructor,
\* and the one moved from is not used again.
SwapConsumers(c, d) ==
  /\ cpc[c] = "idle" /\ cpc[d] = "idle" /\ ctoken[c] # NoToken /\ c # d
  /\ ctoken' = [ctoken EXCEPT ![c] = ctoken[d], ![d] = ctoken[c]]
  /\ UNCHANGED <<objVars, pVars, cLocal, counts>>

\* try_dequeue_from_producer and try_dequeue_bulk_from_producer.
try_dequeue_from_producer(t, n) ==
  /\ ppc[t] = "idle" /\ ptoken[t] # NoProd
  /\ \E k \in Found(ptoken[t], n) : Dequeue(ptoken[t], k)
  /\ UNCHANGED <<obj, made, tables, table, pVars, cVars, counts>>

\* A consumer without a token finds elements at a producer, desiredCount of them ...
LateLook(p, n) ==
  /\ bound.late > 0 /\ lateAt = NoProd /\ prod[p].items # <<>>
  /\ lateAt' = p /\ lateWant' = AtMost(p, n)
  /\ UNCHANGED <<objVars, pVars, cVars, sent, given, moves, bound>>

\* ... raises dequeueOptimisticCount by as much, and gets what is still there ...
LateRaise ==
  /\ lateWant > 0
  /\ LET n == AtMost(lateAt, lateWant)
     IN  /\ Dequeue(lateAt, n)
         /\ lateAt' = IF n = lateWant THEN NoProd ELSE lateAt
         /\ lateWant' = 0
  /\ UNCHANGED <<obj, made, tables, table, pVars, cVars, sent, given, moves, bound>>

\* ... and gives the rest back, through dequeueOvercommit.
LateGiveBack ==
  /\ lateAt # NoProd /\ lateWant = 0
  /\ lateAt' = NoProd
  /\ UNCHANGED <<objVars, pVars, cVars, sent, given, moves, bound, lateWant>>

Late == LateRaise \/ LateGiveBack \/ \E p \in 1..made, n \in Max : LateLook(p, n)

Consuming(c) == \/ LoadTail(c) \/ LoadCount(c) \/ Rotate(c) \/ TakeCurrent(c) \/ FetchAdd(c)
                \/ Rest(c) \/ Ring(c)

-----------------------------------------------------------------------------
(* Queue objects.                                                          *)

Table == Object \cup 1..MaxTable
Quiet == /\ \A t \in PThread : ppc[t] = "idle"
         /\ \A c \in CThread : cpc[c] = "idle"
         /\ lateAt = NoProd
Fresh(o) == <<o, moves + 1>>     \* the name of a new content, and of its pool

Construct(o) ==
  /\ Quiet /\ obj[o].content = Nothing /\ moves < bound.moves
  /\ moves' = moves + 1
  /\ obj' = [obj EXCEPT ![o] = New(o, Fresh(o), Fresh(o))]
  /\ UNCHANGED <<made, prod, tables, table, pVars, cVars, sent, given, bound, lateVars>>

\* swap_implicit_producer_hashes: the arrays of the two initial tables change places,
\* and so do the tables that were allocated; the oldest of those must point to the
\* initial table of its new object.
\* Slip: it still points to the other object's.
NotRepointed(h, o, other) == table[h].prev
Repointed(h, o, other) == IF table[h].prev = other THEN o ELSE table[h].prev

CurrentTable(o, other) == LET h == obj[other].implicitProducerHash IN IF h = other THEN o ELSE h

SwapTables(o, other) ==
  [h \in Table |->
     IF h = o THEN [Blank EXCEPT !.entries = table[other].entries]
     ELSE IF h = other THEN [Blank EXCEPT !.entries = table[o].entries]
     ELSE IF h \in Chain(obj[other].implicitProducerHash)
     THEN [table[h] EXCEPT !.prev = Repointed(h, o, other)]
     ELSE IF h \in Chain(obj[o].implicitProducerHash)
     THEN [table[h] EXCEPT !.prev = Repointed(h, other, o)]
     ELSE table[h]]

\* The parent of p after reown_producers of both objects.
Reown(p, o, other) ==
  IF p \in Linked(other) THEN o ELSE IF p \in Linked(o) THEN other ELSE prod[p].parent

Exchange(o, other) ==
  /\ prod' = [p \in Producer |-> [prod[p] EXCEPT !.parent = Reown(p, o, other)]]
  /\ table' = SwapTables(o, other)
  /\ moves' = moves + 1
  /\ UNCHANGED <<made, tables, pVars, cVars, sent, given, bound, lateVars>>

\* swap_internal.
Swap(o, other) ==
  /\ Quiet /\ o # other /\ obj[o].alive /\ obj[other].alive /\ moves < bound.moves
  /\ obj' = [obj EXCEPT
       ![o] = [obj[other] EXCEPT !.implicitProducerHash = CurrentTable(o, other)],
       ![other] = [obj[o] EXCEPT !.implicitProducerHash = CurrentTable(other, o)]]
  /\ Exchange(o, other)

NoPool(other) == Nothing

\* The move constructor: o is made from other, which stays behind as an empty queue.
Move(o, other) ==
  /\ Quiet /\ obj[o].content = Nothing /\ obj[other].alive /\ moves < bound.moves
  /\ obj' = [obj EXCEPT
       ![o] = [obj[other] EXCEPT !.implicitProducerHash = CurrentTable(o, other)],
       ![other] = New(other, NoPool(other), Fresh(other))]
  /\ Exchange(o, other)

Cleared(p) == NoProd

Raw(o) == [New(o, Nothing, Nothing) EXCEPT !.alive = FALSE]

\* ~ConcurrentQueue; consumer tokens are dropped with the queue.
Destroy(o) ==
  /\ Quiet /\ obj[o].alive
  /\ obj' = [obj EXCEPT ![o] = Raw(o)]
  /\ prod' = [p \in Producer |-> IF p \in Linked(o) THEN Unborn ELSE prod[p]]
  /\ table' = [h \in Table |-> IF h \in Chain(obj[o].implicitProducerHash) THEN Blank
                               ELSE table[h]]
  /\ ptoken' = [t \in PThread |-> IF ptoken[t] \in Linked(o) THEN Cleared(ptoken[t])
                                  ELSE ptoken[t]]
  /\ ctoken' = [c \in CThread |-> IF ctoken[c].home = obj[o].content THEN NoToken ELSE ctoken[c]]
  /\ UNCHANGED <<made, tables, ppc, pobj, pptr, cLocal, counts>>

Init ==
  /\ \E first \in Object :
       obj = [o \in Object |-> IF o = first THEN New(o, <<o, 0>>, <<o, 0>>) ELSE Raw(o)]
  /\ made = 0 /\ prod = [p \in Producer |-> Unborn]
  /\ tables = 0 /\ table = [h \in Table |-> Blank]
  /\ ptoken = [t \in PThread |-> NoProd] /\ ppc = [t \in PThread |-> "idle"]
  /\ pobj = [t \in PThread |-> NoObject] /\ pptr = [t \in PThread |-> NoProd]
  /\ ctoken = [c \in CThread |-> NoToken] /\ cpc = [c \in CThread |-> "idle"]
  /\ ctail = [c \in CThread |-> NoProd] /\ ccount = [c \in CThread |-> 0]
  /\ cptr = [c \in CThread |-> NoProd] /\ cmax = [c \in CThread |-> 0]
  /\ asked = [c \in CThread |-> 0] /\ present = [c \in CThread |-> {}]
  /\ sent = 0 /\ given = 0 /\ moves = 0 /\ bound \in Bounds /\ lateAt = NoProd /\ lateWant = 0

Next ==
  \/ \E t \in PThread :
       \/ Producing(t) \/ DropToken(t) \/ Enqueue(t)
       \/ \E u \in PThread : SwapTokens(t, u)
       \/ \E n \in Max : try_dequeue_from_producer(t, n)
       \/ \E o \in Object : \/ ProducerToken(t, o) \/ EnqueueKnown(t, o)
                            \/ \E grow \in BOOLEAN : EnqueueNew(t, o, grow)
  \/ \E c \in CThread :
       \/ Consuming(c)
       \/ \E d \in CThread : SwapConsumers(c, d)
       \/ \E o \in Object : ConsumerToken(c, o) \/ \E n \in Max : try_dequeue(c, o, n)
  \/ \E o \in Object : \/ Construct(o) \/ Destroy(o)
                       \/ \E other \in Object : Swap(o, other) \/ Move(o, other)
  \/ Late
Spec == Init /\ [][Next]_vars

-----------------------------------------------------------------------------
(* Properties.                                                             *)

Alive == {o \in Object : obj[o].alive}

\* Every variable has its type, and every pointer is null or to a producer.
TypeOK ==
  /\ \A o \in Object : /\ obj[o].producerListTail \in 0..made /\ obj[o].producerCount \in Nat
                       /\ obj[o].implicitProducerHash \in Table
  /\ made \in 0..MaxProducer /\ tables \in 0..MaxTable /\ sent \in 0..bound.items /\ given \in 0..bound.tokens
  /\ \A p \in Producer : /\ prod[p].parent \in Object \cup {NoObject} /\ prod[p].next \in 0..(p - 1)
                         /\ prod[p].token \in PThread \cup {NoThread}
  /\ \A t \in PThread : /\ ppc[t] \in {"idle", "scan", "claim", "create", "link"}
                        /\ {ptoken[t], pptr[t]} \subseteq 0..made
  /\ \A c \in CThread :
       /\ cpc[c] \in {"idle", "update", "count", "offset", "current", "rotate", "rest", "ring"}
       /\ {ctail[c], cptr[c]} \subseteq 0..made /\ cmax[c] \in 0..asked[c]
  /\ lateAt \in 0..made /\ lateWant \in Nat /\ (lateWant > 0 => lateAt # NoProd)

\* A producer has one token, and the token that it points back to is that one, although
\* threads recycle, drop and swap tokens at the same time: enqueue with a token is for
\* one thread only.  An inactive producer has none.
OneToken ==
  \A p \in Producer :
    /\ {t \in PThread : ptoken[t] = p} = {t \in PThread : prod[p].token = t}
    /\ prod[p].inactive => prod[p].token = NoThread

\* A dequeue with a token that returns less than it was asked for has left nothing that
\* was in the queue when it was called, wherever the rotation had put it and whoever
\* adds producers and takes elements meanwhile, but for elements of a producer that it
\* tried while another consumer had yet to correct dequeueOptimisticCount ("likely but
\* not guaranteed to be empty").
NeverMisses ==
  [][\A c \in CThread :
       (/\ cpc[c] = "update" \/ (cpc[c] = "ring" /\ cptr[c] = ctoken[c].currentProducer)
        /\ cpc'[c] = "idle")
       => \A o \in Object : Has(c, o) =>
            present[c] \cap Elements(o) = {}]_vars

\* After any moves and swaps an object owns what it holds: its producers know it as
\* their parent, the chain of its hash tables ends in its own initial table and names
\* its implicit producers, no others, and no two objects share their blocks.  Its count
\* of producers is never behind the list: a consumer that saw a producer does not divide
\* by zero when it looks for its place.  A token
\* never points into a queue that was destroyed, and a consumer's producers are those of
\* the queue it goes with, wherever that has been moved.
Owned ==
  /\ \A o \in Alive :
       /\ \A p \in Linked(o) : prod[p].parent = o
       /\ Chain(obj[o].implicitProducerHash) \cap Object = {o}
       /\ {e.value : e \in Entries(o)} = {p \in Linked(o) : ~prod[p].isExplicit}
       /\ Cardinality(Linked(o)) <= obj[o].producerCount
       /\ \A other \in Alive \ {o} : obj[o].pool # obj[other].pool \/ obj[o].pool = Nothing
  /\ \A t \in PThread : ptoken[t] # NoProd => \E o \in Alive : ptoken[t] \in Linked(o)
  /\ \A c \in CThread : ctoken[c] # NoToken =>
       \E o \in Alive : /\ Has(c, o)
                        /\ {ctoken[c].currentProducer, ctoken[c].desiredProducer} \ {NoProd}
                             \subseteq Linked(o)
=============================================================================
