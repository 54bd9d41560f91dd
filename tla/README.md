# TLA+ verification of SoftUiWARP

SoftUiWARP is an iWARP stack in user space.  An application posts work
requests (RDMA write, RDMA read, send, receive) to queues; two threads per
stream turn them into messages and back:

    applications     perftest, rping client                 src/perftest, src/fake_ping_client.cpp
    RDMAP            rnic_send and rnic_recv threads        src/suiw/rdmap
    DDP              segmentation, placement                src/suiw/ddp
    MPA              framing, connection set-up             src/suiw/mpa
    TCP              a socket

Every queue between them is a `moodycamel::ConcurrentQueue`, which the
repository carries as `src/common/concurrentqueue.h`.  Beside the stack there
is the start of a connection manager: a library with the interface of
librdmacm, and a daemon it talks to (`src/libsuiw`, `src/librdmacm`,
`src/libibverbs`).

This directory holds the modules that model this code, the TLC configurations
that check them, and the proofs TLAPS checks.  `PROJECT.json` maps every
definition that models code to its lines, and lists the runs, the mutants that
show each property can fail, the hazards and the theorems.

    tlc -config MCRdmapSafety.cfg MCRdmap     # any run: its cfg and its module
    tlapm RdmapProofs.tla                     # any *Proofs module

## 1. Parts and modules

| part of the code | modules | modelled |
|---|---|---|
| RDMAP (`rdmap.cpp`), work and completion queues (`cq.cpp`, `cq.h`) | `Rdmap`, `MCRdmap`, `RdmapProofs`, `RdmapStageProofs`, `RdmapReadProofs` | every call and both threads, at both ends |
| DDP (`ddp.cpp`, `buffer.h`) | `Ddp`, `MCDdp` | segmentation, byte order, placement, the loop of `ddp_recv` |
| MPA (`mpa.cpp`) | `Mpa`, `MpaProofs` | `mpa_send`, `mpa_recv`, byte by byte |
| what a layer promises the one above | `Channel` | abstract specification of `Mpa` and `Ddp` |
| MPA set-up, stream set-up and teardown, perftest | `Perftest` | both ends, four benchmarks, three threads each |
| rping client (`fake_ping_client.cpp`) | `PingClient`, `PingClientProofs` | main, completion thread, the stream's threads, the server |
| libsuiw and libsuiwd, the calls of `rdma_cma.cpp` that use them | `Libsuiw`, `LibsuiwProofs` | threads of a process, and the daemon |
| queue: claiming elements | `ProducerBase`, `ProducerProofs` | the four counters |
| queue: sub-queue of a thread | `ImplicitProducer`, `MCImplicitProducer`, `ProducerProofs` | blocks, block index, single and bulk calls, destructor |
| queue: sub-queue of a token | `ExplicitProducer`, `MCExplicitProducer`, `ProducerProofs` | ring of blocks, circular index, the same calls |
| what a sub-queue promises | `Fifo` | abstract specification of both |
| queue: free list | `FreeList`, `FreeListProofs` | pool, lock-free list, malloc |
| queue: all producers of a queue | `ConcurrentQueue`, `MCConcurrentQueue` | hash table, list of producers, dequeue over all of them |
| queue: tokens, moves, swaps | `Tokens`, `MCTokens` | recycling, rotation, destruction |
| rate conversions of libibverbs | `Rates`, `LibsuiwProofs` | four tables |

How they fit together: `Mpa` and `Ddp` each implement `Channel`, and `Rdmap`
takes its `net` to be such a channel.  The two producers each implement both
`ProducerBase` (the counters) and `Fifo` (the contents); `ConcurrentQueue` and
`Tokens` take a sub-queue to be a `Fifo`, and `Rdmap` takes a queue to be in
order per producing thread, which `ConcurrentQueue` checks.  `Perftest` and
`PingClient` keep of `Rdmap` what an application can see: completions of the
two threads in either order, the gap between sending a read and handing it to
`pending`, in `PingClient` the gap between the buffer and the request that a
send takes, and in `Perftest` the way of `rnic_recv` back to `recv`.

## 2. The modules and the code

### Channel
Items come out whole, once, in order, possibly not all.  Items are ULPDUs for
`Mpa` and messages for `Ddp`.

### Mpa: `mpa_send`, `mpa_recv`
`wire` is the byte stream.  A byte is a value and its place (frame, position),
so that a property can say which byte was read.  The reader's program counter
is at one of its four `recv()` calls, `hdr`, `payload`, `pad`, `crc`, or
between calls.  `Splits` says which of them may return short, `Ends` how the
connection may end.  `Call` and `NextPacket` are the caller, `ddp_recv`, which
reads one ULPDU in several calls and then sets `bytes_rcvd` to 0.  A length
field is two digits in base `Radix` (256 in the code, 4 in the instance, so
that lengths use both digits).

### Ddp: `ddp_send_*`, `ddp_post_recv`, `ddp_recv`
A message is a list of sge lengths and a destination.  `Packets` cuts each sge
into segments of at most `Mulpdu` bytes and flags the last; `Transmit` sends
one with the offset the header holds at that moment; `RecvTagged`,
`RecvUntagged` and `RecvMore` are the first segment and the loop of
`ddp_recv`.  Memory is a partial function from addresses to bytes, a byte being
its message and its position.  Byte order is `Swap`, on two-digit offsets: `TO`
is swapped on both sides, `MO` on the receiver's only, as in the code.  A
connection may end at any byte of a segment; what follows in `mpa_recv` (an
error, or a loop that does not end) is `rpc = "failed"`.

### Rdmap: one stream, two endpoints
Each endpoint has an application, `rnic_send` and `rnic_recv`.  A step is what
one of them does between two accesses to something shared:

| code | actions |
|---|---|
| `rdmap_send`, `rdmap_write`, `rdmap_read` | `RdmapSend`, `RdmapWrite`, `RdmapRead` |
| `rdma_post_recv` | `PostRecvBuffers` (rdmap.cpp:435), `PostRecvRequest` (:438) |
| `rnic_send` | `SendDequeue`, `SendTransmit`, `SendComplete`, `SendReject`, `SendExit`; `SendKilled` is SIGPIPE |
| `rnic_recv` with `ddp_recv` | `RecvTagged`, `RecvUntagged`, `RecvError`, then one `Handle...` per opcode |
| `poll_cq`, `rdma_register`, `rdma_invalidate` | `PollCq`, `Register`, `Invalidate` |

A queue with two producing threads is two sequences.  Memory is a set of
regions and the content of a region is its provenance.  `Reset` breaks the
connection at any point; `PeerTerminates` is a Terminate from an endpoint that
runs another stack, since this one never sends any.  With `MaySplit`, and after
a `Reset`, `mpa_recv` may fail anywhere in a message: before its destination is
known (`RecvError`), in the middle of tagged data, or after an untagged message
has taken a buffer (`rpc = "cut"`).  A message for which no buffer is posted
uses the last one, or a wild pointer, with which the call fails or not.

### Perftest: set-up, four benchmarks, teardown
What a main thread does between two branches is fixed, so it is a script: a
sequence of instructions, one action each, and one operator per function of
the code that contributes a piece of it.  The script covers the two TCP
connections, `mpa_client_connect` and `mpa_server_accept` (with the look of
`mpa_recv_rr` for bytes behind the request), `rdmap_init_stream`, registration,
the exchange of addresses, the barriers, the iterations and
`rdmap_kill_stream`.  `Interrupt` is a user who stops one end.  A loop over
`try_dequeue` or over a byte of memory is a guard.  `rnic_recv` handles a message
in one step and goes back to `recv` in another (`RecvBack`): the test of
`connected` and the load of the socket, which is undefined once DDP is freed.

### PingClient
`main`, `cq_thread`, the semaphore, the two threads of the stream, and the
server as the comment of `main` describes it.  A send is received
(`RecvGoAhead`) and then completed (`HandleGoAhead`); with no buffer posted it
goes where the last untagged message went, if there was one.  The text of a ping
repeats after `Pings` rounds.  The server may end the stream.

### Libsuiw
`rdma_create_event_channel`, `rdma_create_id`, `rdma_resolve_addr/route`,
`rdma_get_cm_event`, `rdma_ack_cm_event`, the destroy calls and the library's
destructor on one side; on the other the daemon's `poll` loop, in which a
request for a new channel is followed by a blocking `accept`.  A socket carries
whole messages; closing one with unread data, or sending to a closed one,
resets it.

### The concurrent queue
A step is one atomic load, store or read-modify-write that other threads can
tell apart from its neighbours.  Memory is sequentially consistent: whether the
memory orders of the code are strong enough is not examined.

`ProducerBase` is the first half of `dequeue` and `dequeue_bulk` (a single
`dequeue` is a bulk one of at most one element), common to both producers.
`won` and `lost` are history: the units of `dequeueOptimisticCount` that became
a claim, or were given back.  `ImplicitProducer` and `ExplicitProducer` add the
enqueueing thread and the second half, in which a consumer finds the block of
its index while the producer wraps, grows or rewinds the index.  An element is
the number of its place in the order of enqueueing.  A consumer that finds no
block at its entry, which the code does not test, reads nothing (`NoItem`) and
goes no further.  A failed `malloc` is `Block` or `MaxIndexSize` being used up; destruction is evaluated as what the
destructor would do in every quiet state.  Comparisons modulo the width of
`index_t` are modulo `IndexMod`.

`FreeList` has the count and the flag of `freeListRefs` in one word, as the
code does.  The nodes on the list are the least set that holds the head and
with every node its next one (`OnList`).

`ConcurrentQueue` follows each enqueueing thread and one consumer step by step.
Other consumers take elements in one step, except one at a time that is too
late (`LateLook`, `LateRaise`, `LateGiveBack`): it finds elements, raises
`dequeueOptimisticCount` by as many when some are gone, and corrects the count
through `dequeueOvercommit` afterwards.  In between the producer seems to hold
less than it does, and a call finds any number up to what is there (`Found`).
`Tokens` has the same late consumer.  The score of a producer uses `size_approx`
in one step.  `Tokens` has producer and consumer tokens and
queue objects; moves, swaps and destruction happen while no call is under way,
as the comments of the code ask, and an implicit enqueue is one step.  The
start offset -1 of a consumer token (a `uint32_t`) is -1.

The programs of the repository use the constructor, `enqueue`, `enqueue_bulk`,
`try_dequeue` and `try_dequeue_bulk` of this header.  Tokens, explicit
producers, moves and swaps are not called by them; they are modelled as part of
the header.  Reuse of the producers of finished threads, and the paths for
elements whose copy may throw, are compiled out in this build and left out.

### Rates
The `switch` statements of `ibv_rate_to_mult`, `mult_to_ibv_rate`,
`ibv_rate_to_mbps` and `mbps_to_ibv_rate`.

## 3. Runs

States are distinct states.  Every run takes less than five minutes with two
workers.

| run | states | shows |
|---|---|---|
| `mpa_frames` | 159,152 | short reads of every part, close and reset anywhere: `Lockstep`, refinement of `Channel` (`ImplementsChannel`), `EventuallyDelivered` (fair) |
| `ddp_mixed` | 58,864 | overlapping tagged messages of several segments and sges, untagged ones of one segment, the end at any byte: a byte lands where it was addressed and a reported message is complete (`InPlace`), refinement of `Channel`, `EventuallyReceived` (fair) |
| `rdmap_safety` | 132,628 | reads, writes, sends and refused requests with resets, split frames and invalidations at any point: a read completion is never early (`ReadCompletionSound`), a receive completion implies the earlier writes (`WriteBeforeSend`), the read buffers of queue 1 are conserved (`ReadBuffersConserved`), each request is in exactly one place (`WorkRequestsAccounted`) |
| `rdmap_live` | 86,040 | receives posted in time, a Terminate at any moment: every send is polled at the other end as the completion of a receive whose buffer holds it and no other send, unless the stream stops (`SendsDelivered`), with one read outstanding the response carries the right region (`ReadSourceRequested`), a Terminate that finds a buffer stops both threads (`TerminateStopsThreads`) |
| `implicit_producer` | 1,174,815 | one enqueueing thread, two consumers, the index growing, wrapping and rewound: `ImplementsFifo`; a search ends at the entry of its block, as the code asserts (`EntryFound`); no block leaked or used twice (`BlocksAccounted`); the destructor exact (`DestructorExact`); comparisons modulo the index width never ambiguous (`LeewayKept`); `ClaimsWithinTail` |
| `explicit_producer` | 711,422 | a token's sub-queue, whose blocks are reused in a ring, with calls that fail for want of a first block or a larger index: `ImplementsFifo`, `DestructorExact` |
| `freelist` | 923,000 | three threads: no block with two users (`OneUser`), none lost (`NoneLost`), some call always returns (`LockFree`) |
| `concurrentqueue` | 592,616 | threads whose ids collide enqueue first while the table grows or fails to: a producer each (`OwnProducer`), order (`PerThreadOrder`), a dequeue that returns too little missed only elements of producers it tried while another consumer had yet to correct the count (`NeverMisses`), `EnqueueReturns` |
| `tokens` | 1,236,199 | one token per producer (`OneToken`), nothing else missed under rotation either (`NeverMisses`), everything an object holds follows moves and swaps (`Owned`) |
| `libsuiw` | 152,000 | events return on their own channel, once, in order (`EventsConserved`); every event is answered (`EventAnswered`) |
| `perftest` | 25,428 | the receive thread ends only in teardown (`StreamHealthy`); no completion is lost or taken by the wrong wait (`AccountsBalance`); the last bytes of an iteration are seen after its writes (`EndAfterWrites`); once DDP is freed there is nothing left to receive and no request to send (`QuietWhenKilled`); the run ends (`RunFinishes`) |
| `ping` | 1,211 | rounds never mix (`ReadsThisPing`) and go on (`RoundsGoOn`) |

Five properties except what the code is known not to do.  `RunFinishes`
excepts a read response that overtakes `rnic_send` (`overtaken`) and a client
whose connection was refused, after which the server waits in `accept`.
`RoundsGoOn` excepts the loss of the first go-ahead of the first round, a
stream the server ends, and a client that is not connected.  `EventAnswered`
excepts channels closed with events unread and failed connects, after which the
daemon is in `accept`.  `TerminateStopsThreads` excepts a Terminate for which
`ddp_recv` has no buffer to reuse (section 5).  `NeverMisses` leaves out the
elements of a producer that was tried while it was overcommitted
(`Overcommitted`): the header's comments allow a call to return nothing when
"all producer streams appeared empty at the time they were checked", and such a
stream appears to.  `SendsDelivered` does not count what a Terminate leaves in
a buffer.

The type invariant of each module was checked on these instances and is in no
cfg, and so was `EntryFound` of `ExplicitProducer`.  The type invariants of
`Rdmap` and `FreeList` and, within `Ledger`, of `ProducerBase` are proved.

### Bounds
`Rdmap`: two regions and two requests, which make every race between
neighbours (a response against the next request, a completion against the next
send); the four invariants of `rdmap_safety` are also proved for any number of
requests.  One read buffer (`MaxPendingReads = 1`) makes queue 1 as tight as it
can be; `MsnMod = 2` in `rdmap_safety` makes the second sequence number of a
class wrap to 0 and be rejected.  Frames may be split (`MaySplit`) in
`rdmap_safety` only: where a split ends the stream, no liveness is left to ask
for.  The Terminate of `rdmap_live` goes to the server, the end with receives;
with one to either end the properties hold as well (759,312 states), in more
time than the other runs take.
`Mpa`: three frames of lengths 1, 4 and 6: with and without padding, both
digits of the length field, shorter and longer than what a call asks for.
`Ddp`: three messages with segments of two bytes: one, two and three segments,
from one sge and from two, overlapping, at addresses that need both digits.
The producers: blocks of two elements and bulk calls of three, so that a call
spans two blocks at every alignment; an index of two entries that may grow to
four; seven elements are enough to come round to the first block, to outgrow
the index and to go round the grown one.  In `implicit_producer` two blocks make
bulk calls fail half way and undo what they did.  In `explicit_producer`
`MaxGot = 0`: a call that runs out of memory does so before its first block.
One that fails later is undone wrongly in a corner (`MCExplicitProducerUndo.cfg`,
section 5, has `MaxGot = 1`), so the run says nothing of a sub-queue after that.
`MaxOvercommit` bounds how often a consumer may be too late: the
proofs in section 4 need no such bound.  `FreeList`: three threads are the
fewest with an ABA, one that holds a stale head and two that move nodes.
`ConcurrentQueue`: a table of two entries, half full with one thread, ids that
collide, two failed allocations; one thread has more elements than the other
(`Busy`).  One late consumer at a time is enough for both `ConcurrentQueue` and
`Tokens`, since a producer hides all it may hide while one is late.  `Tokens`: a quota of 1, so that consumers rotate after every element;
two objects; `Instances` are several small budgets of elements, tokens, moves
and late consumers, the product of which would be out of reach.  `Libsuiw`: two threads and three channels, one
after another and side by side.  `Perftest`: three iterations with at most three
requests in flight.

`SYMMETRY` is used with safety properties only (consumers and blocks; threads
and objects).  The views of `MCImplicitProducer` and `MCExplicitProducer` drop
the history `won` and `lost`; that of `MCConcurrentQueue` drops a local that is
dead.

### Fairness
Threads are loops that the scheduler runs: `rnic_send`, `rnic_recv`, the reader
of `Mpa`, the main and completion threads of the applications and the daemon
are weakly fair, as is a thread that is inside a call of the queue or of
libsuiw.  `PollCq` is weakly fair because the applications poll in loops.
Nothing makes an application post, call or connect, a peer send, or a
connection end; the rping server is fair because it is what it promises.  A
killed process takes no step.  `LockFree` asks fairness of every working
thread and promises that some call returns, not that each does.

`CHECK_DEADLOCK FALSE` everywhere: the inputs are bounded, and threads exit.
What must not stop is stated as a property.

## 4. Proofs

TLAPS with SMT, Zenon and PTL.  Assumptions are the `ASSUME`s of the modules:
the types of the constants, at least one read buffer, bulk sizes of at least
one, blocks of at least two elements, a range of `index_t` that is even and at
least two blocks wide, ULPDU lengths of two digits, and threads few enough for
their references not to reach the flag in `freeListRefs`.  Each theorem holds
for every value of the constants that meets them, so the bounds of section 3
play no part in it.

**`RdmapProofs`, `RdmapStageProofs`, `RdmapReadProofs`**, with resets, split
frames, kills and Terminates at any point.  The first has the types, the read buffers, the
accounts and the order of writes and sends; the second the stages of a read and
the steps of `rnic_send`; the third the other steps and `ReadsCompleteInTurn`.
* `TypeCorrect`: `Spec => []TypeOK`.  `TypeOK` is inductive; one lemma per
  process and one step per action under it.
* `ReadBuffersSafe`: `Spec => []ReadBuffersConserved`, inductive together with
  `TypeOK`.  A read buffer leaves the queue in `RecvUntagged` and returns in
  `HandleReadReq`; `ConservedTake` and `ConservedPut` say that each half keeps
  the buffers a partition, `RBCFrame` that no other step touches it.  A request
  cut after it took its buffer keeps it, and is the last message of the stream.
  So a read request always finds a buffer, and the dry-queue branch of
  `ddp_recv` is never taken for queue 1.
* `RequestsAccounted`: `Spec => []WorkRequestsAccounted`.  A completion is made
  from what a thread has in hand, so the property needs to know what that is:
  `Accounts` adds that the requests in the send queue are the last ones posted,
  in order, that the one in the hands of `rnic_send` is the one it took, and
  that a message on its way names a request (a Read Response names none of the
  receiver's own).  `AccountsKept` states it as a theorem, for the proofs about
  reads to use.  `Ledger` and `Books` are the same statement about sets and
  sequences without the state, with a lemma for each move of a request.
* `WritesPrecedeSends`: `Spec => []WriteBeforeSend`.  `InLine` says of every
  message on its way, in the hands of `rnic_recv` or answered by a completion
  that the writes posted before its request are placed or ahead of it.
* `ReadsCompleteInTurn`: `Spec => []ReadCompletionSound`.  The handler of a Read
  Response completes the oldest read in `pending`, whichever was answered, so
  the property rests on order alone.  `Orderly` is about six sets of ids, the
  stages of a read: request on its way, in the hands of the peer's `rnic_recv`,
  response in its send queue, in the hands of its `rnic_send`, on its way back,
  in the hands of `rnic_recv`.  All ids at a later stage are below all at an
  earlier one, every id at a stage waits in `pending`, and every waiting id
  below one at a stage is at a stage or has its data.  A step moves an id to the
  next stage (`OrderlyMove`), adds the next id, takes the oldest one out, or
  cuts the stream off; `Reads` ties the sets to the queues and threads of both
  endpoints, and `Sound` says what the completions made so far owe.  The race
  between `rnic_send` and an early response (section 5) is inside the model:
  such a response finds `pending` without its completion, and the proof shows
  that the completion then shifted, if any, is of a read with its data.

**`MpaProofs`**, for every set of lengths, every size asked for and every way
of cutting and ending the stream.
* `ReaderInStep`: `Spec => []Lockstep`.  `InStep` describes all bytes on the
  wire, not only the next: they are the rest of the current frame and then the
  frames after it, and the reader's counters fit its place in the frame.
* `MpaIsChannel`: `Spec => ImplementsChannel`.  From `InStep`: the step that
  reads the last byte of a payload delivers exactly the next ULPDU sent, and
  every other step of the reader stutters.

**`FreeListProofs`**, for any number of threads, nodes and nodes in the pool.
* `BlockHasOneUser`, `NoBlockLost`: `Spec => []OneUser`, `Spec => []NoneLost`.
  `Custody` says who is responsible for each node given out (a user, the list,
  a thread about to add it, or the thread that will drop the last reference)
  and that the count in `freeListRefs` is the number of threads that refer to
  the node, plus one if the list does.  So a compare-and-swap of the head by a
  thread with a reference succeeds only on a node whose next pointer has not
  changed: no ABA.

**`ProducerProofs`**, for any set of consumers, any bulk sizes and any number of
elements; from `ImplicitIsBase` on, for every block size, index size and set of
blocks too.  It extends `ImplicitProducer`; `Explicit` is an instance of
`ExplicitProducer`, whose ring and index are variables of its own beside those the
two kinds share.
* `ClaimsNeverPastTail`: consumers never claim more elements than were
  enqueued, although each looks at the tail and the overcommit before and after
  it raises `dequeueOptimisticCount`, and both may be stale.  The invariant alone
  says nothing about the consumers still in between.  `Ledger` does: every unit
  of `dequeueOptimisticCount` is a ticket that is held by one consumer, won or
  lost; `headIndex` counts the won and `dequeueOvercommit` the lost ones; and
  the overcommit a consumer has loaded counts only lost tickets below its own
  (`LocalsOK`).  Hence a won ticket, less the lost ones below it, is less than
  the tail (`WonOK`), and the greatest won ticket bounds how many there are.
* `ImplicitIsBase`, `ExplicitIsBase`: the producer implements the claim
  protocol of `ProducerBase`; every step of the enqueueing thread and of a
  consumer is a step of the protocol or leaves its variables alone.
* `ImplicitClaims`, `ExplicitClaims`: so the consumers of either kind never
  claim past the tail.
* `ImplicitLeeway`: `Spec => []LeewayKept`.  The test of `headIndex` is made on
  wrapped numbers and for one block at a time.  `LeewayInv` says that the last
  block in use, and every block a bulk call has come to, ends less than half the
  range after the head; with that and `Ledger` (the head is not past the tail)
  the difference of the next test does not wrap twice, so the test means what
  it says (`RoomIsLeeway`), and consumers, who only move the head forward, keep
  it.

**`PingClientProofs`**
* `EveryReadOfItsRound`: `Spec => []ReadsThisPing`, for any number of texts.
  `InRound`: until the stream ends there is one token, a message, a send in the
  hands of `rnic_recv`, a completion, a post of the semaphore or the turn of `main`, and its place fixes which half
  of which round everybody is in.

**`LibsuiwProofs`**
* `EventsComeBackInOrder`: `Spec => []EventsConserved`, for any number of threads
  and channels.  `InOrder` adds that a channel not yet connected is empty and
  nobody's (`Fresh`), and that channels are connected in order with one left for
  every thread that is connecting (`Room`).
* `MultOfRate`, `MbpsOfRate`, `RateOfMbps`: the four tables of `Rates` agree with
  each other, and a conversion never gives a neighbouring rate.

Only model-checked:
* liveness and whatever rests on fairness (`EventuallyDelivered`,
  `EventuallyReceived`, `SendsDelivered`, `TerminateStopsThreads`, `LockFree`,
  `EnqueueReturns`, `EventAnswered`, `RunFinishes`, `RoundsGoOn`), which TLAPS
  does not reach;
* `InPlace` and the refinement of `Channel` by `Ddp`: offsets are sums over lists
  of sges, so a proof is an induction over data, and `InPlace` is only true of
  instances without an untagged message of several segments (section 5);
* `ReadSourceRequested` of `Rdmap`, which holds for one outstanding read only,
  and would need that proviso carried through the invariants above;
* `ImplementsFifo`, `EntryFound`, `BlocksAccounted` and `DestructorExact` of the producers:
  which entry of the index names which block while the index is replaced and
  rewound is not yet an inductive statement;
* everything about `ConcurrentQueue` and `Tokens` (walks along a list of
  producers), and about `Perftest`, whose scripts are finite sequences that TLC
  runs through completely.

## 5. Known deviations

Places where the code does not do what a comment or header of the repository
says.  Each has an instance that TLC violates; they are no part of the listed
runs, whose properties state what the code does keep.

| instance | property | code | says otherwise |
|---|---|---|---|
| `MCRdmapLostRead.cfg` (`MCRdmap`) | `AnsweredReadsShifted` | rdmap.cpp:126: a read response handled between :276 and :291 finds `pending` empty and its completion stays there | rdmap.cpp:290 "Shifted from `pending` to `cq` when read response is received" |
| `MCRdmapTwoReads.cfg` | `ReadSourceRequested` | rdmap.cpp:104: a second read request overwrites the one `sg` that the first response still needs | cq.h:209-211, `remote_addr` |
| `MCRdmapUnderrun.cfg` | `BufferForOneMessage` | ddp.cpp:318: with no buffer posted a send goes to the buffer of an earlier one | ddp.h:128-129 "Buffers are consumed in a FIFO manner" |
| `MCRdmapInval.cfg` | `RkeyInvalidated` | rdmap.cpp:142: the tag is taken from the control byte, not from the field rnic_send put it in | cq.h:198 "Stores the rkey to invalidate" |
| `MpaEnd.cfg` (`Mpa`) | `CallReturns` | mpa.cpp:333: the connection ends inside a payload and `mpa_recv` never returns | mpa.h:96 |
| `MCDdpUntagged.cfg` (`MCDdp`) | `InItsBuffer` | ddp.cpp:153: `MO` of a second segment is in host order and lands outside the buffer | ddp.h:128 |
| `LibsuiwCancel.cfg` (`Libsuiw`) | `EventsNameLiveIds` | an event that is under way when its id is destroyed is still delivered | rdma_cma.cpp:185-186 "cancels any outstanding asynchronous operation" |
| `MCExplicitProducerUndo.cfg` (`MCExplicitProducer`) | `EntryFound` | after a bulk enqueue that ran out of memory half way and was undone, the index may have no room for the block that is taken again; not reachable with the calls the stack makes | concurrentqueue.h:1847-1848 "guaranteed to be room" |

Beside these, `PerftestFreed.cfg` (`Perftest`, property `FreedUnused`) has TLC
show a use of freed memory that no comment speaks of: `rdmap_kill_stream` frees
the DDP context (rdmap.cpp:386) while `rnic_recv`, on its way back from the last
message, has yet to load the socket from it (ddp.cpp:206).

What follows from the first row for the programs: a read benchmark whose response
overtakes `rnic_send` waits for ever (`overtaken` in `Perftest`).

Met while reading, and part of the models, but not the subject of a property:
* `mpa_recv` treats a header, padding or CRC that arrives in two pieces as an
  error and loses the first piece; the padding `(len + 2) % 4` is not the one
  of MPA; an empty last sge leaves the Last flag unset and joins two messages.
* `rdmap_kill_stream` frees the DDP structures before the threads stop, and
  joins a receive thread that is blocked in `recv` on a socket that is closed
  only after the join.  `QuietWhenKilled` shows that no message and no request
  is left at that time, which does not keep `rnic_recv` from the freed context
  (`FreedUnused` above); the join waits until the peer closes, and with both ends in the join neither
  does.  `RunFinishes` is therefore about the results, not about the exit.
* No buffer is ever posted to untagged queue 2: a Terminate is placed over the
  last untagged message or, when there is none or a tagged message came since,
  through a pointer that is no buffer's.  The call then may fail; `rnic_recv`
  ends without clearing `connected` and `rnic_send` goes on.
* `write_lat` with a buffer of one byte would wait for ever: both ends write
  the byte they wait for.
* The rping client goes on after a failed connect (the comment of
  `create_tcp_connection` promises a negative value, the function returns 1 or
  a closed descriptor), and waits in `sem_wait` for ever after the loss of the
  first go-ahead, a Terminate or the loss of the server.  The error branch of
  `cq_thread` is not reachable.
* A token dequeue that mixes single and bulk calls can pass the quota without
  making the others rotate ("Every 256 items from one producer, make everyone
  rotate").
* The daemon: a closed channel stays in its poll list, and the loop turns; a
  channel closed with unread events resets its connection, which ends the
  daemon; a failed connect leaves it in `accept`.  The library never sends
  CREATE_CQ or CREATE_QP; if it did, the test of `ec_fds.size()` in the loop
  would take the new descriptor for a channel.

## 6. Not modelled

* Set-up failures in perftest other than a refused connection, partial reads of
  the 8-byte exchange, arguments, allocation of buffers, timing.
* Private data in the MPA request and reply, with its non-blocking read
  (mpa.cpp:163), and the rejection flag: every program passes none.
* `ddp_init_stream` and the create and destroy functions of queues, which only
  allocate and free; a torn `unordered_map` of tagged buffers, which the code
  does not protect by a lock (its calls are atomic in `Rdmap`).
* Of the queue: weak memory, statistics, debugging code, and what this build
  compiles out (section 2).
* Device lists of libibverbs, which wrap those of the real library (not in the
  repository): `ibv_free_device_list` also frees opened devices, against its
  comment, and `ibv_get_device_list` releases the other library's devices with
  `free()`.  The rest of `verbs.cpp` and `rdma_cma.cpp` are stubs or calls of
  one function.  `suiw_destroy_id` does not close the context that
  `suiw_create_id` opened.
* Logging and printing, the kernel ABI header, the `USE_TAS` and `RPING`
  builds.  CRC checks and markers are absent from the code.

Left for later: proofs of `ImplementsFifo` and `BlocksAccounted` of the
producers, for which the index invariants would have to be made inductive.
