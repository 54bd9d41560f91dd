--------------------------- MODULE ImplicitProducer ---------------------------
(***************************************************************************)
(* One implicit producer of a moodycamel::ConcurrentQueue, the kind every  *)
(* queue of the stack uses: enqueue and enqueue_bulk by the one thread the *)
(* sub-queue belongs to, dequeue and dequeue_bulk by several.  Elements    *)
(* lie in blocks; a block index, which grows and is never freed while the  *)
(* queue is in use, says which block holds an index; a block whose last    *)
(* element is gone returns to the queue's free list.  A step is one store, *)
(* load or read-modify-write that other threads can tell apart from the    *)
(* ones before and after it, and memory is sequentially consistent.        *)
(*                                                                         *)
(* An element is the number of its place in the order of enqueueing.  The  *)
(* free list (module FreeList) is the set of the blocks on it, and memory  *)
(* runs out when Block, or the largest index, is used up.                  *)
(***************************************************************************)
EXTENDS ProducerBase, Sequences

CONSTANTS
  BLOCK_SIZE,         \* 32 in the code
  IMPLICIT_INITIAL_INDEX_SIZE,
  MaxIndexSize,       \* bound: the largest block index malloc may have room for
  Block, NoBlock,     \* the blocks malloc has room for; nullptr
  IndexMod,           \* index_t counts modulo this
  MaxTail,            \* bound: elements enqueued
  MaxOvercommit       \* bound: units of dequeueOptimisticCount given back

ASSUME SizeAssumption == /\ BLOCK_SIZE \in Nat \ {0, 1}
                         /\ IMPLICIT_INITIAL_INDEX_SIZE \in Nat \ {0, 1}
                         /\ MaxIndexSize \in Nat /\ IndexMod \in Nat \ {0}
\* index_t is an unsigned type, far wider than a block is long.
ASSUME WrapAssumption == IndexMod % 2 = 0 /\ BLOCK_SIZE <= IndexMod \div 2
ASSUME BlockAssumption == NoBlock \notin Block
ASSUME BoundAssumption == MaxTail \in Nat /\ MaxOvercommit \in Nat

NoItem == -1               \* a slot whose element was never there, or destroyed
INVALID_BLOCK_BASE == 1

VARIABLES
  slot,       \* slot[b][i]: what element i of block b holds
  elementsCompletelyDequeued,
  freeList,   \* the blocks no producer has
  key, value, \* the BlockIndexEntries, in the order of their creation
  header,     \* the BlockIndexHeaders, the last the one blockIndex points to
  tailBlock,
  ppc, count, chain, base, idxEntry,  \* the producer: its step, the number of
              \* elements, the blocks allocated in this call, currentTailIndex
  at,         \* a consumer's step after its claim
  localIndex, localTail, indexIndex, block,  \* localBlockIndex, tail, ...
  got         \* the elements it has moved out

prodVars == <<ppc, count, chain, base, idxEntry>>
indexVars == <<key, value, header>>
consVars == <<at, localIndex, localTail, indexIndex, block, got>>
vars == <<baseVars, slot, elementsCompletelyDequeued, freeList, indexVars, tailBlock,
          prodVars, consVars>>

Entry == 1..Len(key)
Last(s) == s[Len(s)]
BlockBase(i) == i - (i % BLOCK_SIZE)

\* circular_less_than, on index_t.
circular_less_than(a, b) == (a - b) % IndexMod > IndexMod \div 2

-----------------------------------------------------------------------------
(* The block index.  Only the producer changes key and header.             *)

NewTail(h) == (h.tail + 1) % h.capacity

\* The entries of the old index, from the oldest on.
OldEntry(prev, i) == prev.index[((prev.tail + i) % prev.capacity) + 1]

new_block_index ==
  LET prev == Last(header)
      n    == prev.capacity
      idx  == [i \in 1..(2 * n) |-> IF i <= n THEN OldEntry(prev, i) ELSE Len(key) + i - n]
  IN  /\ header' = Append(header, [capacity |-> 2 * n, tail |-> n - 1, index |-> idx])
      /\ key' = key \o [i \in 1..n |-> INVALID_BLOCK_BASE]
      /\ value' = value \o [i \in 1..n |-> NoBlock]

\* insert_block_index_entry: the key, then (PublishEntry) the tail.
insert_block_index_entry ==
  LET h == Last(header)
      e == h.index[NewTail(h) + 1]
  IN  /\ key[e] = INVALID_BLOCK_BASE \/ value[e] = NoBlock
      /\ key' = [key EXCEPT ![e] = base]
      /\ idxEntry' = e
      /\ UNCHANGED <<value, header>>

IndexFull == LET h == Last(header)
                 e == h.index[NewTail(h) + 1]
             IN  key[e] # INVALID_BLOCK_BASE /\ value[e] # NoBlock

\* Slip: the tail still names the entry that was taken back.
NotRewound == UNCHANGED header
rewind_block_index_tail ==
  header' = [header EXCEPT ![Len(header)].tail = (@ - 1) % header[Len(header)].capacity]

\* get_block_index_index_for_index, from a tail loaded before.
IndexOf(h, t, i) == (t + (BlockBase(i) - key[h.index[t + 1]]) \div BLOCK_SIZE) % h.capacity

-----------------------------------------------------------------------------
(* enqueue and enqueue_bulk.                                               *)

blockVars == <<slot, elementsCompletelyDequeued, freeList, tailBlock>>

\* The first index of the last block in use before the call, and after it.
StartBase == BlockBase(tailIndex - 1)
EndBase(n) == BlockBase(tailIndex + n - 1)

Begin(n) ==
  /\ ppc = "idle" /\ tailIndex + n <= MaxTail
  /\ count' = n /\ base' = StartBase
  /\ ppc' = IF EndBase(n) > StartBase THEN "head" ELSE "write"
  /\ UNCHANGED <<baseVars, blockVars, indexVars, chain, idxEntry, consVars>>

\* enqueue is the enqueue_bulk of one element.
enqueue == 1 \in Bulk /\ Begin(1)
enqueue_bulk == \E n \in Bulk : Begin(n)

EndCall == ppc' = "idle" /\ count' = 0 /\ chain' = <<>> /\ base' = 0 /\ idxEntry' = 0
Undo == ppc' = "undo" /\ base' = StartBase + BLOCK_SIZE

\* One more block is needed: could the tail run into the head?
\* Slip: with its first element only.
RoomForOne(b) == circular_less_than(headIndex, b + 1)
Room(b) == circular_less_than(headIndex, b + BLOCK_SIZE)
CheckHead ==
  /\ ppc = "head"
  /\ IF Room(base + BLOCK_SIZE)
     THEN ppc' = "insert" /\ base' = base + BLOCK_SIZE
     ELSE Undo
  /\ UNCHANGED <<baseVars, blockVars, indexVars, count, chain, idxEntry, consVars>>

InsertEntry ==
  /\ ppc = "insert"
  /\ \/ insert_block_index_entry /\ ppc' = "publish" /\ UNCHANGED base
     \/ /\ IndexFull /\ 2 * Last(header).capacity <= MaxIndexSize
        /\ new_block_index /\ UNCHANGED <<ppc, base, idxEntry>>
     \/ /\ IndexFull          \* no memory for a larger index
        /\ Undo /\ UNCHANGED <<indexVars, idxEntry>>
  /\ UNCHANGED <<baseVars, blockVars, count, chain, consVars>>

PublishEntry ==
  /\ ppc = "publish"
  /\ header' = [header EXCEPT ![Len(header)].tail = NewTail(Last(header))]
  /\ ppc' = "block"
  /\ UNCHANGED <<baseVars, blockVars, key, value, count, chain, base, idxEntry, consVars>>

reset_empty(b) == [elementsCompletelyDequeued EXCEPT ![b] = 0]

\* requisition_block, reset_empty and the block goes into the entry; or there
\* is none and the entry is taken back.
RequisitionBlock ==
  /\ ppc = "block"
  /\ \/ \E b \in freeList :
          /\ freeList' = freeList \ {b}
          /\ elementsCompletelyDequeued' = reset_empty(b)
          /\ value' = [value EXCEPT ![idxEntry] = b]
          /\ chain' = Append(chain, b)
          /\ ppc' = IF EndBase(count) > base THEN "head" ELSE "write"
          /\ UNCHANGED <<header, base>>
     \/ /\ freeList = {}
        /\ rewind_block_index_tail
        /\ value' = [value EXCEPT ![idxEntry] = NoBlock]
        /\ Undo
        /\ UNCHANGED <<freeList, elementsCompletelyDequeued, chain>>
  /\ UNCHANGED <<baseVars, slot, tailBlock, key, count, idxEntry, consVars>>

\* An allocation failed: the entries and the blocks of this call go back.
UndoEntry ==
  /\ ppc = "undo" /\ base <= StartBase + Len(chain) * BLOCK_SIZE
  /\ LET h == Last(header)
     IN  value' = [value EXCEPT ![h.index[IndexOf(h, h.tail, base) + 1]] = NoBlock]
  /\ rewind_block_index_tail
  /\ base' = base + BLOCK_SIZE
  /\ UNCHANGED <<baseVars, blockVars, key, ppc, count, chain, idxEntry, consVars>>

\* Slip: the blocks of a failed call are not given back.
LeakBlocks(bs) == freeList
add_blocks_to_free_list(bs) == freeList \cup bs

UndoBlocks ==
  /\ ppc = "undo" /\ base > StartBase + Len(chain) * BLOCK_SIZE
  /\ freeList' = add_blocks_to_free_list({chain[i] : i \in 1..Len(chain)})
  /\ EndCall
  /\ UNCHANGED <<baseVars, slot, elementsCompletelyDequeued, tailBlock, indexVars, consVars>>

\* The block that will hold index i: the one the tail is in, or a new one.
BlockFor(i) == IF BlockBase(i) = StartBase THEN tailBlock
               ELSE chain[(BlockBase(i) - StartBase) \div BLOCK_SIZE]

\* The elements are constructed, in block after block, where no consumer looks
\* before the tail says so.
StoreTail ==
  /\ ppc = "write"
  /\ LET new == tailIndex..(tailIndex + count - 1)
     IN  slot' = [b \in Block |-> [k \in 0..(BLOCK_SIZE - 1) |->
                    IF \E i \in new : BlockFor(i) = b /\ i % BLOCK_SIZE = k
                    THEN CHOOSE i \in new : BlockFor(i) = b /\ i % BLOCK_SIZE = k
                    ELSE slot[b][k]]]
  /\ tailBlock' = BlockFor(tailIndex + count - 1)
  /\ Publish(count)
  /\ EndCall
  /\ UNCHANGED <<elementsCompletelyDequeued, freeList, indexVars, consVars>>

Producing == \/ enqueue \/ enqueue_bulk \/ CheckHead \/ InsertEntry \/ PublishEntry
             \/ RequisitionBlock \/ UndoEntry \/ UndoBlocks \/ StoreTail

-----------------------------------------------------------------------------
(* dequeue and dequeue_bulk, once index and actual are known.              *)

\* The next element, and where the run of elements in its block ends.
Next1(c) == index[c] + Len(got[c])
EndIndex(c) == Min2(BlockBase(Next1(c)) + BLOCK_SIZE, index[c] + actual[c])
EntryOf(c) == header[localIndex[c]].index[indexIndex[c] + 1]

Go(c, step) == at' = [at EXCEPT ![c] = step]
prodAndBase == <<baseVars, prodVars>>

LoadIndex(c) ==
  /\ pc[c] = "taking" /\ at[c] = "index"
  /\ localIndex' = [localIndex EXCEPT ![c] = Len(header)]
  /\ Go(c, "tail")
  /\ UNCHANGED <<prodAndBase, blockVars, indexVars, localTail, indexIndex, block, got>>

LoadIndexTail(c) ==
  /\ at[c] = "tail"
  /\ localTail' = [localTail EXCEPT ![c] = header[localIndex[c]].tail]
  /\ Go(c, "key")
  /\ UNCHANGED <<prodAndBase, blockVars, indexVars, localIndex, indexIndex, block, got>>

FindEntry(c) ==
  /\ at[c] = "key"
  /\ indexIndex' = [indexIndex EXCEPT ![c] =
                      IndexOf(header[localIndex[c]], localTail[c], index[c])]
  /\ localTail' = [localTail EXCEPT ![c] = 0]
  /\ Go(c, "read")
  /\ UNCHANGED <<prodAndBase, blockVars, indexVars, localIndex, block, got>>

\* The elements of one block are moved out and destroyed.  The block of the entry is
\* used without a test: with none there, no element is read and the process dies.
Element(b, i) == IF b = NoBlock THEN NoItem ELSE slot[b][i % BLOCK_SIZE]
MoveOut(c) ==
  /\ at[c] = "read"
  /\ LET b     == value[EntryOf(c)]
         moved == Next1(c)..(EndIndex(c) - 1)
     IN  /\ got' = [got EXCEPT ![c] = @ \o [k \in 1..Cardinality(moved) |->
                                        Element(b, Next1(c) + k - 1)]]
         /\ slot' = [a \in Block |-> [k \in DOMAIN slot[a] |->
                       IF a = b /\ \E i \in moved : i % BLOCK_SIZE = k THEN NoItem
                       ELSE slot[a][k]]]
         /\ block' = [block EXCEPT ![c] = b]
         /\ Go(c, IF b = NoBlock THEN "null" ELSE "empty")
  /\ UNCHANGED <<prodAndBase, elementsCompletelyDequeued, freeList, tailBlock, indexVars,
                 localIndex, localTail, indexIndex>>

\* On to the next block, or the call returns.
Onward(c) ==
  /\ block' = [block EXCEPT ![c] = NoBlock] /\ UNCHANGED localTail
  /\ IF Len(got[c]) < actual[c]
     THEN /\ Go(c, "read")
          /\ indexIndex' = [indexIndex EXCEPT ![c] = (@ + 1) % header[localIndex[c]].capacity]
          /\ UNCHANGED <<baseVars, localIndex, got>>
     ELSE /\ Return(c)
          /\ Go(c, "index")
          /\ localIndex' = [localIndex EXCEPT ![c] = 0]
          /\ indexIndex' = [indexIndex EXCEPT ![c] = 0]
          /\ got' = [got EXCEPT ![c] = <<>>]

\* How many of the elements moved out last were in the block.
InBlock(c) == Next1(c) - (IF BlockBase(Next1(c) - 1) > index[c]
                          THEN BlockBase(Next1(c) - 1) ELSE index[c])

\* Slip: a block is empty when its last element is moved out.
LastMovedOut(c) == Next1(c) % BLOCK_SIZE = 0
NowEmpty(c) == elementsCompletelyDequeued[block[c]] + InBlock(c) = BLOCK_SIZE

set_many_empty(c) ==
  /\ at[c] = "empty"
  /\ elementsCompletelyDequeued' =
       [elementsCompletelyDequeued EXCEPT ![block[c]] = @ + InBlock(c)]
  /\ IF NowEmpty(c)
     THEN Go(c, "unlink") /\ UNCHANGED <<baseVars, localIndex, localTail, indexIndex, block, got>>
     ELSE Onward(c)
  /\ UNCHANGED <<prodVars, slot, freeList, tailBlock, indexVars>>

Unlink(c) ==
  /\ at[c] = "unlink"
  /\ value' = [value EXCEPT ![EntryOf(c)] = NoBlock]
  /\ Go(c, "free")
  /\ UNCHANGED <<prodAndBase, blockVars, key, header, localIndex, localTail, indexIndex,
                 block, got>>

add_block_to_free_list(c) ==
  /\ at[c] = "free"
  /\ freeList' = freeList \cup {block[c]}
  /\ Onward(c)
  /\ UNCHANGED <<prodVars, slot, elementsCompletelyDequeued, tailBlock, indexVars>>

Claim(c) == /\ pc[c] = "idle" => dequeueOvercommit <= MaxOvercommit
            /\ Claiming(c)
            /\ UNCHANGED <<blockVars, indexVars, prodVars, consVars>>

Taking(c) == \/ LoadIndex(c) \/ LoadIndexTail(c) \/ FindEntry(c) \/ MoveOut(c)
             \/ set_many_empty(c) \/ Unlink(c) \/ add_block_to_free_list(c)

Init ==
  /\ BaseInit
  /\ slot = [b \in Block |-> [k \in 0..(BLOCK_SIZE - 1) |-> NoItem]]
  /\ elementsCompletelyDequeued = [b \in Block |-> 0] /\ freeList = Block
  /\ key = [i \in 1..IMPLICIT_INITIAL_INDEX_SIZE |-> INVALID_BLOCK_BASE]
  /\ value = [i \in 1..IMPLICIT_INITIAL_INDEX_SIZE |-> NoBlock]
  /\ header = <<[capacity |-> IMPLICIT_INITIAL_INDEX_SIZE,
                 tail |-> IMPLICIT_INITIAL_INDEX_SIZE - 1,
                 index |-> [i \in 1..IMPLICIT_INITIAL_INDEX_SIZE |-> i]]>>
  /\ tailBlock = NoBlock
  /\ ppc = "idle" /\ count = 0 /\ chain = <<>> /\ base = 0 /\ idxEntry = 0
  /\ at = [c \in Consumer |-> "index"]
  /\ localIndex = [c \in Consumer |-> 0] /\ localTail = [c \in Consumer |-> 0]
  /\ indexIndex = [c \in Consumer |-> 0] /\ block = [c \in Consumer |-> NoBlock]
  /\ got = [c \in Consumer |-> <<>>]

Next == Producing \/ \E c \in Consumer : Claim(c) \/ Taking(c)
Spec == Init /\ [][Next]_vars

-----------------------------------------------------------------------------
(* ~ImplicitProducer, as what it would do now; no call is in progress.     *)

Quiet == ppc = "idle" /\ \A c \in Consumer : pc[c] = "idle"

\* get_block_index_entry_for_index.
BlockOf(i) == LET h == Last(header) IN value[h.index[IndexOf(h, h.tail, i) + 1]]
Remaining == headIndex..(tailIndex - 1)

\* Is the tail block still the producer's?  Even an empty sub-queue has one,
\* unless the head reached its end.
\* Slip: only when it is partly filled.
PartlyFilled == tailIndex % BLOCK_SIZE # 0
OwnsTailBlock == tailBlock # NoBlock /\ (Remaining # {} \/ tailIndex % BLOCK_SIZE # 0)

\* The blocks it gives back: each one that it leaves behind on its way from the
\* head to the tail, and then the tail block.
FreedBlocks == {BlockOf(i) : i \in {i \in Remaining : BlockBase(i) # BlockBase(tailIndex - 1)}}
                 \cup (IF OwnsTailBlock THEN {tailBlock} ELSE {})

-----------------------------------------------------------------------------
(* Properties.                                                             *)

\* Every variable has its type: no block counts more elements dequeued than it has
\* (elementsCompletelyDequeued), and the index has its size's slots.
TypeOK ==
  /\ BaseTypeOK
  /\ slot \in [Block -> [0..(BLOCK_SIZE - 1) -> Nat \cup {NoItem}]]
  /\ elementsCompletelyDequeued \in [Block -> 0..BLOCK_SIZE] /\ freeList \subseteq Block
  /\ Len(value) = Len(key) /\ \A e \in Entry : key[e] \in Nat /\ value[e] \in Block \cup {NoBlock}
  /\ \A i \in 1..Len(header) : /\ header[i].tail \in 0..(header[i].capacity - 1)
                               /\ header[i].index \in [1..header[i].capacity -> Entry]
  /\ tailBlock \in Block \cup {NoBlock}
  /\ ppc \in {"idle", "head", "insert", "publish", "block", "undo", "write"}
  /\ count \in Bulk \cup {0} /\ base \in Int /\ idxEntry \in 0..Len(key)
  /\ \A i \in 1..Len(chain) : chain[i] \in Block
  /\ at \in [Consumer -> {"index", "tail", "key", "read", "null", "empty", "unlink", "free"}]
  /\ \A c \in Consumer : /\ localIndex[c] \in 0..Len(header) /\ localTail[c] \in Nat
                         /\ indexIndex[c] \in Nat /\ block[c] \in Block \cup {NoBlock}
                         /\ Len(got[c]) <= actual[c]

\* The assertion of get_block_index_index_for_index holds whatever the producer
\* and the other consumers do between the loads of the index, of its tail and
\* of a key, a growing index included: the entry found from the tail is the one
\* of the block with the index, and it still has its block.  dequeue_bulk takes
\* the entries after it to be the ones of the blocks that follow.
EntryFound ==
  \A c \in Consumer :
    LET h == header[localIndex[c]]
        e == h.index[IndexOf(h, localTail[c], index[c]) + 1]
    IN  /\ at[c] = "key" => /\ key[h.index[localTail[c] + 1]] # INVALID_BLOCK_BASE
                            /\ key[e] = BlockBase(index[c]) /\ value[e] # NoBlock
        /\ at[c] = "read" => /\ key[EntryOf(c)] = BlockBase(Next1(c))
                             /\ value[EntryOf(c)] # NoBlock

\* A block is in one place: on the free list, or in one entry of the index, or
\* in the hands of the one call that emptied it, or gives it back after a
\* failure, and has not freed it yet.  None is lost to a failed
\* enqueue_bulk, none is freed by two consumers.
Holders(b) ==
  (IF b \in freeList THEN {<<"free", 0>>} ELSE {})
    \cup {<<"entry", e>> : e \in {e \in Entry : value[e] = b}}
    \cup {<<"freeing", c>> : c \in {c \in Consumer : at[c] = "free" /\ block[c] = b}}
    \cup (IF ppc = "undo" /\ \E i \in 1..Len(chain) : /\ chain[i] = b
                                                     /\ StartBase + i * BLOCK_SIZE < base
          THEN {<<"call", 0>>} ELSE {})
BlocksAccounted == \A b \in Block : Cardinality(Holders(b)) = 1

\* The destructor destroys each element that is left, in its place, and every
\* block goes back to the free list that is not there yet: none leaks, none is
\* put there twice.
DestructorExact ==
  Quiet => /\ \A i \in Remaining : slot[BlockOf(i)][i % BLOCK_SIZE] = i
           /\ FreedBlocks = Block \ freeList

\* The check of headIndex before each new block keeps the sub-queue shorter than
\* half the range of index_t, so that a wrapped head and a wrapped tail still
\* compare as the numbers they stand for; a bulk call checks for each block, and
\* the head may have moved between two of the checks.
LeewayKept ==
  /\ tailIndex - headIndex < IndexMod \div 2
  /\ ppc = "head" => ~circular_less_than(base + BLOCK_SIZE, headIndex)

\* The sub-queue is a Fifo: its elements are the ones between the head and the
\* tail, and a call that has claimed some returns those, in their order; what
\* it has moved out of the blocks so far is compared with what it claimed.
Pending(c) == got[c] \o [k \in 1..(actual[c] - Len(got[c])) |-> Next1(c) + k - 1]
Abstract == INSTANCE Fifo WITH
  Item <- Nat,
  queue <- [k \in 1..(tailIndex - headIndex) |-> headIndex + k - 1],
  taken <- [c \in Consumer |-> IF pc[c] = "taking" THEN Pending(c) ELSE <<>>]
ImplementsFifo == Abstract!Spec
=============================================================================
