--------------------------- MODULE ExplicitProducer ---------------------------
(***************************************************************************)
(* One explicit producer of a moodycamel::ConcurrentQueue, the kind a      *)
(* ProducerToken stands for: enqueue and enqueue_bulk by the holder of the *)
(* token, dequeue and dequeue_bulk by several threads, and the destructor. *)
(* Its blocks form a ring that it keeps: a block whose flags all say       *)
(* "empty" is used again when the tail comes round to it.  A circular      *)
(* block index names the block of each index; it grows, and the old one is *)
(* kept until the end.  The steps are those of ImplicitProducer, and so    *)
(* are the elements: an element is its number.                             *)
(***************************************************************************)
EXTENDS ProducerBase, Sequences

CONSTANTS
  BLOCK_SIZE,         \* 32 in the code: emptyFlags are used, not the counter
  EXPLICIT_INITIAL_INDEX_SIZE,
  MaxIndexSize,       \* bound: the largest block index malloc may have room for
  Block, NoBlock,     \* the blocks malloc has room for; nullptr
  IndexMod,           \* index_t counts modulo this
  MaxTail,            \* bound: elements enqueued
  MaxOvercommit,      \* bound: units of dequeueOptimisticCount given back
  MaxGot              \* bound: blocks a call had when it ran out of memory

ASSUME SizeAssumption == /\ BLOCK_SIZE \in Nat \ {0, 1}
                         /\ EXPLICIT_INITIAL_INDEX_SIZE \in Nat \ {0, 1}
                         /\ MaxIndexSize \in Nat /\ IndexMod \in Nat \ {0}
ASSUME BlockAssumption == NoBlock \notin Block
ASSUME BoundAssumption == MaxTail \in Nat /\ MaxOvercommit \in Nat /\ MaxGot \in Nat

NoItem == -1        \* a slot whose element was never there, or destroyed

VARIABLES
  slot,       \* slot[b][k]: what element k of block b holds
  emptyFlags, \* the elements of a block that are marked empty
  next,       \* the ring of blocks
  freeList,   \* the blocks no producer has
  header,     \* the BlockIndexHeaders, the last the one blockIndex points to
  slotsUsed, indexFront,   \* pr_blockIndexSlotsUsed and pr_blockIndexFront
  tailBlock,
  ppc, count, base,   \* the producer: its step, the number of elements and
              \* currentTailIndex, as below the first element of a block
  startBlock, first, usedBefore, frontBefore,  \* startBlock, firstAllocatedBlock,
              \* originalBlockIndexSlotsUsed and originalBlockIndexFront
  at,         \* a consumer's step after its claim
  localIndex, localFront, indexIndex, block,
  got         \* the elements it has moved out

prodVars == <<ppc, count, base, startBlock, first, usedBefore, frontBefore>>
indexVars == <<header, slotsUsed, indexFront>>
blockVars == <<slot, emptyFlags, next, freeList, tailBlock>>
consVars == <<at, localIndex, localFront, indexIndex, block, got>>
vars == <<baseVars, blockVars, indexVars, prodVars, consVars>>

Cell == 0..(BLOCK_SIZE - 1)
Last(s) == s[Len(s)]
BlockBase(i) == i - (i % BLOCK_SIZE)
circular_less_than(a, b) == (a - b) % IndexMod > IndexMod \div 2
is_empty(b) == emptyFlags[b] = Cell
NoEntry == [base |-> 0, block |-> NoBlock]     \* memory malloc left as it was

-----------------------------------------------------------------------------
(* The block index, which only the producer changes.                       *)

NextSlot(i, size) == (i + 1) % size

\* entries[pr_blockIndexFront] = (b, block): a slot that consumers do not look
\* at before front says so.
SetEntry(b, blk) ==
  /\ header' = [header EXCEPT ![Len(header)].entries[indexFront] = [base |-> b, block |-> blk]]
  /\ indexFront' = NextSlot(indexFront, Last(header).size)

\* The filled entries of the old index, from the oldest on.
OldSlot(prev, i) == ((indexFront - slotsUsed) + i) % prev.size

new_block_index(exposed) ==
  LET prev == Last(header)
  IN  /\ header' = Append(header,
           [size    |-> 2 * prev.size,
            front   |-> exposed - 1,
            entries |-> [i \in 0..(2 * prev.size - 1) |->
                           IF i < slotsUsed THEN prev.entries[OldSlot(prev, i)] ELSE NoEntry]])
      /\ indexFront' = slotsUsed
      /\ UNCHANGED slotsUsed

\* The slot with index i, counted from the published front.
SlotOf(h, front, i) == (front + (BlockBase(i) - h.entries[front].base) \div BLOCK_SIZE) % h.size

-----------------------------------------------------------------------------
(* enqueue and enqueue_bulk.                                               *)

StartBase == BlockBase(tailIndex - 1)
EndBase(n) == BlockBase(tailIndex + n - 1)

Begin(n) ==
  /\ ppc = "idle" /\ tailIndex + n <= MaxTail
  /\ count' = n /\ base' = StartBase
  /\ startBlock' = tailBlock /\ first' = NoBlock
  /\ usedBefore' = slotsUsed /\ frontBefore' = indexFront
  /\ ppc' = IF EndBase(n) > StartBase THEN "ahead" ELSE "write"
  /\ UNCHANGED <<baseVars, blockVars, indexVars, consVars>>

\* enqueue is the enqueue_bulk of one element.
enqueue == 1 \in Bulk /\ Begin(1)
enqueue_bulk == \E n \in Bulk : Begin(n)

EndCall == /\ ppc' = "idle" /\ count' = 0 /\ base' = 0 /\ startBlock' = NoBlock /\ first' = NoBlock
           /\ usedBefore' = 0 /\ frontBefore' = 0

FirstOf(b) == IF first = NoBlock THEN b ELSE first
More == EndBase(count) > base + BLOCK_SIZE

\* The block ahead in the ring is empty: it will be the next tail block.
Reusable(b) == is_empty(b)
CanReuse == tailBlock # NoBlock /\ next[tailBlock] # first /\ Reusable(next[tailBlock])

ReuseAhead ==
  /\ ppc = "ahead" /\ CanReuse
  /\ tailBlock' = next[tailBlock] /\ first' = FirstOf(next[tailBlock])
  /\ base' = base + BLOCK_SIZE
  /\ SetEntry(base', tailBlock')
  /\ ppc' = IF More THEN "ahead" ELSE "reset"
  /\ UNCHANGED <<baseVars, slot, emptyFlags, next, freeList, slotsUsed, count, startBlock,
                 usedBefore, frontBefore, consVars>>

NoneAhead ==
  /\ ppc = "ahead" /\ ~CanReuse
  /\ ppc' = "head"
  /\ UNCHANGED <<baseVars, blockVars, indexVars, count, base, startBlock, first,
                 usedBefore, frontBefore, consVars>>

\* How many blocks the call has.
Got == (base - StartBase) \div BLOCK_SIZE

\* An allocation failed: the index and the tail block are as before the call,
\* and the blocks that were put into the ring stay there.
Fail(front) ==
  /\ Got <= MaxGot
  /\ indexFront' = front /\ slotsUsed' = usedBefore
  /\ tailBlock' = (IF startBlock = NoBlock THEN first ELSE startBlock)
  /\ EndCall

\* Could the tail run into the head?
Room(b) == circular_less_than(headIndex, b + BLOCK_SIZE)

CheckHead ==
  /\ ppc = "head"
  /\ IF Room(base + BLOCK_SIZE)
     THEN /\ ppc' = IF slotsUsed = Last(header).size THEN "grow" ELSE "block"
          /\ UNCHANGED <<indexVars, tailBlock, count, base, startBlock, first,
                         usedBefore, frontBefore>>
     ELSE Fail(frontBefore) /\ UNCHANGED header
  /\ UNCHANGED <<baseVars, slot, emptyFlags, next, freeList, consVars>>

GrowIndex ==
  /\ ppc = "grow"
  /\ \/ /\ 2 * Last(header).size <= MaxIndexSize
        /\ new_block_index(usedBefore)
        /\ frontBefore' = usedBefore
        /\ ppc' = "block"
        /\ UNCHANGED <<tailBlock, count, base, startBlock, first, usedBefore>>
     \/ Fail(frontBefore) /\ UNCHANGED header
  /\ UNCHANGED <<baseVars, slot, emptyFlags, next, freeList, consVars>>

\* The flags of a block nothing has been put in.
set_all_empty == Cell

\* requisition_block, set_all_empty; the block goes into the ring and the index.
RequisitionBlock ==
  /\ ppc = "block"
  /\ \/ \E b \in freeList :
          /\ freeList' = freeList \ {b}
          /\ emptyFlags' = [emptyFlags EXCEPT ![b] = set_all_empty]
          /\ next' = IF tailBlock = NoBlock THEN [next EXCEPT ![b] = b]
                     ELSE [next EXCEPT ![b] = next[tailBlock], ![tailBlock] = b]
          /\ tailBlock' = b /\ first' = FirstOf(b)
          /\ slotsUsed' = slotsUsed + 1
          /\ base' = base + BLOCK_SIZE
          /\ SetEntry(base', b)
          /\ ppc' = IF More THEN "head" ELSE "reset"
          /\ UNCHANGED <<count, startBlock, usedBefore, frontBefore>>
     \/ /\ freeList = {}
        /\ Fail(frontBefore)
        /\ UNCHANGED <<freeList, emptyFlags, next, header>>
  /\ UNCHANGED <<baseVars, slot, consVars>>

\* The blocks from b on, n of them along the ring.
RingFrom(b, n) == LET f[k \in 0..n] == IF k = 0 THEN b ELSE next[f[k - 1]]
                  IN  {f[k] : k \in 0..(n - 1)}
NewBlocks == RingFrom(first, Got)

\* Slip: the flags of the blocks' last life are kept.
KeepFlags(bs) == emptyFlags
reset_empty(bs) == [b \in Block |-> IF b \in bs THEN {} ELSE emptyFlags[b]]

\* All allocations succeeded.
PublishFront ==
  /\ ppc = "reset"
  /\ emptyFlags' = reset_empty(NewBlocks)
  /\ header' = [header EXCEPT ![Len(header)].front = (indexFront - 1) % Last(header).size]
  /\ ppc' = "write"
  /\ UNCHANGED <<baseVars, slot, next, freeList, tailBlock, slotsUsed, indexFront, count, base,
                 startBlock, first, usedBefore, frontBefore, consVars>>

\* The block that will hold index i: the one the tail was in, or the ones from
\* firstAllocatedBlock on along the ring.
BlockFor(i) ==
  LET n == (BlockBase(i) - StartBase) \div BLOCK_SIZE
      f[k \in 0..n] == IF k = 0 THEN startBlock ELSE IF k = 1 THEN first ELSE next[f[k - 1]]
  IN  f[n]

StoreTail ==
  /\ ppc = "write"
  /\ LET new == tailIndex..(tailIndex + count - 1)
     IN  slot' = [b \in Block |-> [k \in Cell |->
                    IF \E i \in new : BlockFor(i) = b /\ i % BLOCK_SIZE = k
                    THEN CHOOSE i \in new : BlockFor(i) = b /\ i % BLOCK_SIZE = k
                    ELSE slot[b][k]]]
  /\ Publish(count)
  /\ EndCall
  /\ UNCHANGED <<emptyFlags, next, freeList, tailBlock, indexVars, consVars>>

Producing == \/ enqueue \/ enqueue_bulk \/ ReuseAhead \/ NoneAhead \/ CheckHead \/ GrowIndex
             \/ RequisitionBlock \/ PublishFront \/ StoreTail

-----------------------------------------------------------------------------
(* dequeue and dequeue_bulk, once index and actual are known.              *)

\* The next element, and where the run of elements in its block ends.
Next1(c) == index[c] + Len(got[c])
EndIndex(c) == Min2(BlockBase(Next1(c)) + BLOCK_SIZE, index[c] + actual[c])
EntryOf(c) == header[localIndex[c]].entries[indexIndex[c]]

Go(c, step) == at' = [at EXCEPT ![c] = step]
prodAndBase == <<baseVars, prodVars>>

LoadIndex(c) ==
  /\ pc[c] = "taking" /\ at[c] = "index"
  /\ localIndex' = [localIndex EXCEPT ![c] = Len(header)]
  /\ Go(c, "front")
  /\ UNCHANGED <<prodAndBase, blockVars, indexVars, localFront, indexIndex, block, got>>

LoadFront(c) ==
  /\ at[c] = "front"
  /\ localFront' = [localFront EXCEPT ![c] = header[localIndex[c]].front]
  /\ Go(c, "base")
  /\ UNCHANGED <<prodAndBase, blockVars, indexVars, localIndex, indexIndex, block, got>>

FindEntry(c) ==
  /\ at[c] = "base"
  /\ indexIndex' = [indexIndex EXCEPT ![c] =
                      SlotOf(header[localIndex[c]], localFront[c], index[c])]
  /\ localFront' = [localFront EXCEPT ![c] = 0]
  /\ Go(c, "read")
  /\ UNCHANGED <<prodAndBase, blockVars, indexVars, localIndex, block, got>>

\* The elements of one block are moved out and destroyed.  The block of the entry is
\* used without a test: with none there, no element is read and the process dies.
Element(b, i) == IF b = NoBlock THEN NoItem ELSE slot[b][i % BLOCK_SIZE]
MoveOut(c) ==
  /\ at[c] = "read"
  /\ LET b     == EntryOf(c).block
         moved == Next1(c)..(EndIndex(c) - 1)
     IN  /\ got' = [got EXCEPT ![c] = @ \o [k \in 1..Cardinality(moved) |->
                                        Element(b, Next1(c) + k - 1)]]
         /\ slot' = [a \in Block |-> [k \in DOMAIN slot[a] |->
                       IF a = b /\ \E i \in moved : i % BLOCK_SIZE = k THEN NoItem
                       ELSE slot[a][k]]]
         /\ block' = [block EXCEPT ![c] = b]
         /\ Go(c, IF b = NoBlock THEN "null" ELSE "empty")
  /\ UNCHANGED <<prodAndBase, emptyFlags, next, freeList, tailBlock, indexVars,
                 localIndex, localFront, indexIndex>>

\* The indices of the run that was moved out last.
InBlock(c) == {i \in index[c]..(Next1(c) - 1) : BlockBase(i) = BlockBase(Next1(c) - 1)}

\* set_empty, set_many_empty: then on to the next block, or the call returns.
set_many_empty(c) ==
  /\ at[c] = "empty"
  /\ emptyFlags' = [emptyFlags EXCEPT ![block[c]] = @ \cup {i % BLOCK_SIZE : i \in InBlock(c)}]
  /\ block' = [block EXCEPT ![c] = NoBlock]
  /\ IF Len(got[c]) < actual[c]
     THEN /\ Go(c, "read")
          /\ indexIndex' = [indexIndex EXCEPT ![c] = NextSlot(@, header[localIndex[c]].size)]
          /\ UNCHANGED <<baseVars, localIndex, got>>
     ELSE /\ Return(c)
          /\ Go(c, "index")
          /\ localIndex' = [localIndex EXCEPT ![c] = 0]
          /\ indexIndex' = [indexIndex EXCEPT ![c] = 0]
          /\ got' = [got EXCEPT ![c] = <<>>]
  /\ UNCHANGED <<prodVars, slot, next, freeList, tailBlock, indexVars, localFront>>

Claim(c) == /\ pc[c] = "idle" => dequeueOvercommit <= MaxOvercommit
            /\ Claiming(c)
            /\ UNCHANGED <<blockVars, indexVars, prodVars, consVars>>

Taking(c) == LoadIndex(c) \/ LoadFront(c) \/ FindEntry(c) \/ MoveOut(c) \/ set_many_empty(c)

\* The constructor halves the size before new_block_index doubles it.
Init ==
  /\ BaseInit
  /\ slot = [b \in Block |-> [k \in Cell |-> NoItem]]
  /\ emptyFlags = [b \in Block |-> {}] /\ freeList = Block
  /\ next = [b \in Block |-> NoBlock]
  /\ header = <<[size |-> EXPLICIT_INITIAL_INDEX_SIZE, front |-> -1,
                 entries |-> [i \in 0..(EXPLICIT_INITIAL_INDEX_SIZE - 1) |-> NoEntry]]>>
  /\ slotsUsed = 0 /\ indexFront = 0 /\ tailBlock = NoBlock
  /\ ppc = "idle" /\ count = 0 /\ base = 0 /\ startBlock = NoBlock /\ first = NoBlock
  /\ usedBefore = 0 /\ frontBefore = 0
  /\ at = [c \in Consumer |-> "index"]
  /\ localIndex = [c \in Consumer |-> 0] /\ localFront = [c \in Consumer |-> 0]
  /\ indexIndex = [c \in Consumer |-> 0] /\ block = [c \in Consumer |-> NoBlock]
  /\ got = [c \in Consumer |-> <<>>]

Next == Producing \/ \E c \in Consumer : Claim(c) \/ Taking(c)
Spec == Init /\ [][Next]_vars

-----------------------------------------------------------------------------
(* ~ExplicitProducer, as what it would do now; no call is in progress.     *)

Quiet == ppc = "idle" /\ \A c \in Consumer : pc[c] = "idle"

\* The block the head is in, if it is inside one: the first entry, from the
\* oldest on, that does not end before the head.
HalfDequeued ==
  LET h == Last(header)
      E(k) == h.entries[((indexFront - slotsUsed) + k) % h.size]
      Ends(k) == E(k).base + BLOCK_SIZE > headIndex
  IN  IF headIndex % BLOCK_SIZE = 0 THEN NoBlock
      ELSE E(CHOOSE k \in 0..slotsUsed : Ends(k) /\ \A j \in 0..(k - 1) : ~Ends(j)).block

Ring == IF tailBlock = NoBlock THEN {} ELSE RingFrom(tailBlock, Cardinality(Block))

\* Where the elements of block b begin, and where they end.
\* Slip: the partly emptied block is destroyed from its start.
FromStart(b) == 0
FirstLeft(b) == IF b = HalfDequeued THEN headIndex % BLOCK_SIZE ELSE 0
EndLeft(b) == IF b = tailBlock /\ tailIndex % BLOCK_SIZE # 0 THEN tailIndex % BLOCK_SIZE
              ELSE BLOCK_SIZE

Destructed(b) == IF is_empty(b) THEN {} ELSE FirstLeft(b)..(EndLeft(b) - 1)

-----------------------------------------------------------------------------
(* Properties.                                                             *)

\* Every variable has its type: slots of the index within its size (pr_blockIndexFront),
\* flags and links of blocks of this queue (emptyFlags, next).
TypeOK ==
  /\ BaseTypeOK
  /\ slot \in [Block -> [Cell -> Nat \cup {NoItem}]]
  /\ emptyFlags \in [Block -> SUBSET Cell] /\ freeList \subseteq Block
  /\ next \in [Block -> Block \cup {NoBlock}] /\ tailBlock \in Block \cup {NoBlock}
  /\ \A i \in 1..Len(header) :
       /\ header[i].front \in -1..(header[i].size - 1)
       /\ \A j \in 0..(header[i].size - 1) : header[i].entries[j].block \in Block \cup {NoBlock}
  /\ slotsUsed \in 0..Last(header).size /\ indexFront \in 0..(Last(header).size - 1)
  /\ ppc \in {"idle", "ahead", "head", "grow", "block", "reset", "write"}
  /\ at \in [Consumer -> {"index", "front", "base", "read", "null", "empty"}]
  /\ \A c \in Consumer : /\ localIndex[c] \in 0..Len(header)
                         /\ block[c] \in Block \cup {NoBlock} /\ Len(got[c]) <= actual[c]

\* The entry a consumer computes from the front of the index it loaded is the
\* one of the block that has its index, whatever the producer does between the
\* loads: it may have filled the index, gone round it, and grown it.
\* enqueue relies on it when it overwrites the oldest entry of a full index for
\* a block it uses again.
EntryFound ==
  \A c \in Consumer :
    LET h == header[localIndex[c]]
        e == h.entries[SlotOf(h, localFront[c], index[c])]
    IN  /\ at[c] = "base" => localFront[c] >= 0 /\ e.base = BlockBase(index[c])
        /\ at[c] = "read" => EntryOf(c).base = BlockBase(Next1(c))

\* The destructor destroys each element that is left once and nothing else, and
\* finds in the ring every block the producer ever took.
DestructorExact ==
  Quiet => /\ {slot[p[1]][p[2]] : p \in {p \in Ring \X Cell : p[2] \in Destructed(p[1])}}
                = headIndex..(tailIndex - 1)
           /\ Ring = Block \ freeList

\* The sub-queue is a Fifo.
Pending(c) == got[c] \o [k \in 1..(actual[c] - Len(got[c])) |-> Next1(c) + k - 1]
Abstract == INSTANCE Fifo WITH
  Item <- Nat,
  queue <- [k \in 1..(tailIndex - headIndex) |-> headIndex + k - 1],
  taken <- [c \in Consumer |-> IF pc[c] = "taking" THEN Pending(c) ELSE <<>>]
ImplementsFifo == Abstract!Spec
=============================================================================
