-------------------------------- MODULE Rdmap --------------------------------
(***************************************************************************)
(* One RDMAP stream between two SoftUiWARP endpoints: the work queues, the *)
(* completion queue with its `pending' companion, the untagged buffer      *)
(* queues of DDP, the table of registered buffers, and the two threads of  *)
(* each endpoint, rnic_send and rnic_recv (src/suiw/rdmap/rdmap.cpp,       *)
(* src/suiw/ddp/ddp.cpp, src/common/cq.cpp).                               *)
(*                                                                         *)
(* A DDP message is one element of the channel: cutting it into MPA frames *)
(* and putting it together again is below this module.  Memory is a set of *)
(* regions; the content of a region is its provenance, the pair of the     *)
(* endpoint and the region the bytes were first found in.                  *)
(*                                                                         *)
(* moodycamel::ConcurrentQueue keeps the order of each producer and none   *)
(* between producers.  A queue with two producing threads (the send queue: *)
(* application and rnic_recv; the completion queue: rnic_send and          *)
(* rnic_recv) is therefore two sequences, and try_dequeue takes the head   *)
(* of either.                                                              *)
(***************************************************************************)
EXTENDS Integers, Sequences, FiniteSets

CONSTANTS
  Region,           \* the memory regions of an endpoint
  NoRegion,         \* no region
  StagOf,           \* the low 32 bits of a region's address
  MaxPendingReads,  \* rdmap_stream_init_attr.max_pending_read_requests
  MsnMod,           \* 2^32, the range of a message sequence number
  Requests,         \* the send work requests an application may post
  RecvLists,        \* the receive work requests an application may post
  Registrations,    \* the <<endpoint, region>> an application may register
  Invalidations,    \* ... and may invalidate
  MaxSends,         \* bound: send work requests per endpoint
  MaxRecvs,         \* bound: receive work requests per endpoint
  ReadDepth,        \* reads an application keeps outstanding (perftest's tx depth)
  FlowControl,      \* the applications post a send only to a posted receive
  MayReset,         \* the TCP connection may break
  MaySplit,         \* recv() may return a header, padding or CRC of MPA in pieces
  TerminateTo       \* endpoints that may be sent a Terminate

Node == {"client", "server"}
Peer(n) == IF n = "client" THEN "server" ELSE "client"

SendOps    == {"SEND", "SEND_SE"}
InvalOps   == {"SEND_INVAL", "SEND_SE_INVAL"}
TaggedOps  == {"WRITE", "READ_RESP"}
Opcode     == SendOps \cup InvalOps \cup TaggedOps \cup {"READ_REQ", "TERMINATE"}
RegionOrNo == Region \cup {NoRegion}
Val        == Node \X RegionOrNo

SendWr  == [op : Opcode, id : Nat, lbuf : RegionOrNo, rbuf : RegionOrNo, nsge : Nat]
Wc      == [id : Nat, op : Opcode, ok : BOOLEAN, of : Nat]
Buffer  == [addr : RegionOrNo, rid : Nat]
Message == [op : Opcode, msn : Nat, to : RegionOrNo, src : RegionOrNo,
            data : Val, of : Nat]
Match   == Nat \X Nat  \* the ids of a receive and of the send it received
Request == [by : Node, op : Opcode \ {"READ_RESP"}, lbuf : Region, rbuf : Region,
            nsge : Nat]

ASSUME NoRegionAssumption == NoRegion \notin Region
ASSUME StagAssumption     == StagOf \in [Region -> Nat]
ASSUME ReadsAssumption    == MaxPendingReads \in Nat \ {0}
ASSUME MsnAssumption      == MsnMod \in Nat \ {0, 1}
ASSUME RequestAssumption  == Requests \subseteq Request
ASSUME RecvAssumption     == RecvLists \subseteq [by : Node, bufs : Seq(Region)]
ASSUME BoundAssumption    == /\ MaxSends \in Nat /\ MaxRecvs \in Nat /\ ReadDepth \in Nat
                             /\ Registrations \subseteq Node \X Region
                             /\ Invalidations \subseteq Node \X Region
                             /\ FlowControl \in BOOLEAN /\ MayReset \in BOOLEAN /\ MaySplit \in BOOLEAN
                             /\ TerminateTo \subseteq Node

VARIABLES
  connected,        \* ctx->connected
  sqApp, sqRecv,    \* send_q: what the application / rnic_recv enqueued
  rq,               \* recv_q: ids of receive work requests
  utq,              \* untagged buffer queues 0 (sends) and 1 (read requests)
  cqSend, cqRecv,   \* cq->q: what rnic_send / rnic_recv enqueued
  pendq,            \* cq->pending_q
  tags,             \* ctx->tagged_buffers: the region registered under a tag
  mem,              \* the content of the regions
  net,              \* net[n]: messages on their way to n
  up,               \* the TCP connection stands
  spc, sreq, sret,  \* rnic_send: program counter, req, outcome of ddp_send_*
  msn,              \* the three static counters msn of rnic_send
  rpc, rmsg,        \* rnic_recv: program counter, the message in ddp_message
  ubuf, rsg,        \* rnic_recv: ddp_message.untag_buf, the region in sg
  posting,          \* the receive between the two enqueues of rdma_post_recv, or 0
  nrecv,            \* number of rdma_post_recv calls begun
  posted,           \* history: send work requests posted, in order
  placed,           \* history: <<n, i>>, data of n's tagged request i placed
  got,              \* history: <<receive id, send id>> of payloads placed
  done, rdone       \* history: completions the application has polled

sendVars == <<spc, sreq, sret, msn>>
recvVars == <<rpc, rmsg, ubuf, rsg>>
appVars  == <<posting, nrecv, posted, done, rdone>>
vars == <<connected, sqApp, sqRecv, rq, utq, cqSend, cqRecv, pendq, tags, mem,
          net, up, sendVars, recvVars, appVars, placed, got>>

Items(s) == {s[i] : i \in DOMAIN s}
Ids(s)   == {s[i].id : i \in DOMAIN s}

-----------------------------------------------------------------------------
(* rdmap_init_stream, run at both ends of a connected socket.              *)

Garbage     == [addr |-> NoRegion, rid |-> 0]  \* an untag_buf never set, or overlaid
ReadBuf(i)  == [addr |-> NoRegion, rid |-> i]  \* one of the malloc'ed read buffers
NoMessage   == [op |-> "TERMINATE", msn |-> 0, to |-> NoRegion, src |-> NoRegion,
                data |-> <<"client", NoRegion>>, of |-> 0]
NoRequest   == [op |-> "TERMINATE", id |-> 0, lbuf |-> NoRegion,
                rbuf |-> NoRegion, nsge |-> 0]
Queues      == {"SEND_QN", "READ_QN", "TERMINATE_QN"}
MsnClasses  == {"send", "inval", "read"}
Tag         == {StagOf[r] : r \in Region}

Init ==
  /\ connected = [n \in Node |-> TRUE]
  /\ sqApp = [n \in Node |-> <<>>] /\ sqRecv = [n \in Node |-> <<>>]
  /\ rq = [n \in Node |-> <<>>]
  /\ utq = [n \in Node |-> [q \in Queues |->
              IF q = "READ_QN" THEN [i \in 1..MaxPendingReads |-> ReadBuf(i)]
                               ELSE <<>>]]
  /\ cqSend = [n \in Node |-> <<>>] /\ cqRecv = [n \in Node |-> <<>>]
  /\ pendq = [n \in Node |-> <<>>]
  /\ tags = [n \in Node |-> [t \in Tag |-> NoRegion]]
  /\ mem = [n \in Node |-> [r \in Region |-> <<n, r>>]]
  /\ net = [n \in Node |-> <<>>] /\ up = TRUE
  /\ spc = [n \in Node |-> "poll"] /\ sreq = [n \in Node |-> NoRequest]
  /\ sret = [n \in Node |-> TRUE]
  /\ msn = [n \in Node |-> [c \in MsnClasses |-> 1]]
  /\ rpc = [n \in Node |-> "recv"] /\ rmsg = [n \in Node |-> NoMessage]
  /\ ubuf = [n \in Node |-> Garbage] /\ rsg = [n \in Node |-> NoRegion]
  /\ posting = [n \in Node |-> 0] /\ nrecv = [n \in Node |-> 0]
  /\ posted = [n \in Node |-> <<>>] /\ placed = {}
  /\ got = [n \in Node |-> {}]
  /\ done = [n \in Node |-> {}] /\ rdone = [n \in Node |-> {}]

-----------------------------------------------------------------------------
(* The application: rdmap_send/write/read, rdma_post_recv, poll_cq,        *)
(* rdma_register, rdma_invalidate.                                         *)

Registered(n, r) == tags[n][StagOf[r]] = r
IsUntaggedSend(t) == t.op \in SendOps \cup InvalOps
SendsPosted(n) == Cardinality({i \in DOMAIN posted[n] : IsUntaggedSend(posted[n][i])})
RecvsPosted(n) == IF posting[n] = 0 THEN nrecv[n] ELSE nrecv[n] - 1

\* Slip: the queue works as a stack.
StackEnqueue(q, w) == <<w>> \o q
Enqueue(q, w) == Append(q, w)

Post(n, t) ==
  /\ t.by = n /\ Len(posted[n]) < MaxSends
  /\ posted' = [posted EXCEPT ![n] = Append(@, t)]
  /\ sqApp' = [sqApp EXCEPT ![n] = Enqueue(@,
       [op |-> t.op, id |-> Len(posted[n]) + 1, lbuf |-> t.lbuf, rbuf |-> t.rbuf,
        nsge |-> t.nsge])]
  /\ UNCHANGED <<connected, sqRecv, rq, utq, cqSend, cqRecv, pendq, tags, mem, net,
                 up, sendVars, recvVars, posting, nrecv, done, rdone, placed, got>>

RdmapSend(n) == \E t \in Requests :
  /\ t.op \notin {"WRITE", "READ_REQ"}
  /\ FlowControl /\ IsUntaggedSend(t) => SendsPosted(n) < RecvsPosted(Peer(n))
  /\ Post(n, t)

RdmapWrite(n) == \E t \in Requests :
  /\ t.op = "WRITE" /\ Registered(Peer(n), t.rbuf)
  /\ Post(n, t)

OutstandingReads(n) == {i \in DOMAIN posted[n] : posted[n][i].op = "READ_REQ"} \ done[n]

RdmapRead(n) == \E t \in Requests :
  /\ t.op = "READ_REQ" /\ Cardinality(OutstandingReads(n)) < ReadDepth
  /\ Registered(n, t.lbuf) /\ Registered(Peer(n), t.rbuf)
  /\ Post(n, t)

\* rdma_post_recv up to and including ddp_post_recv ...
PostRecvBuffers(n) == \E l \in RecvLists :
  /\ l.by = n /\ posting[n] = 0 /\ nrecv[n] < MaxRecvs
  /\ nrecv' = [nrecv EXCEPT ![n] = @ + 1]
  /\ posting' = [posting EXCEPT ![n] = nrecv[n] + 1]
  /\ utq' = [utq EXCEPT ![n]["SEND_QN"] = @ \o
       [i \in 1..Len(l.bufs) |-> [addr |-> l.bufs[i], rid |-> nrecv[n] + 1]]]
  /\ UNCHANGED <<connected, sqApp, sqRecv, rq, cqSend, cqRecv, pendq, tags, mem, net,
                 up, sendVars, recvVars, posted, done, rdone, placed, got>>

\* ... and its last statement, the enqueue in recv_q.
PostRecvRequest(n) ==
  /\ posting[n] # 0
  /\ rq' = [rq EXCEPT ![n] = Append(@, posting[n])]
  /\ posting' = [posting EXCEPT ![n] = 0]
  /\ UNCHANGED <<connected, sqApp, sqRecv, utq, cqSend, cqRecv, pendq, tags, mem, net,
                 up, sendVars, recvVars, nrecv, posted, done, rdone, placed, got>>

Polled(n, wc) ==
  IF wc.of = 0
  THEN done' = [done EXCEPT ![n] = @ \cup {wc.id}] /\ UNCHANGED rdone
  ELSE rdone' = [rdone EXCEPT ![n] = @ \cup {<<wc.id, wc.of>>}] /\ UNCHANGED done

PollCq(n) ==
  /\ \/ /\ cqSend[n] # <<>>
        /\ cqSend' = [cqSend EXCEPT ![n] = Tail(@)] /\ UNCHANGED cqRecv
        /\ Polled(n, Head(cqSend[n]))
     \/ /\ cqRecv[n] # <<>>
        /\ cqRecv' = [cqRecv EXCEPT ![n] = Tail(@)] /\ UNCHANGED cqSend
        /\ Polled(n, Head(cqRecv[n]))
  /\ UNCHANGED <<connected, sqApp, sqRecv, rq, utq, pendq, tags, mem, net, up, sendVars,
                 recvVars, posting, nrecv, posted, placed, got>>

Register(n) == \E r \in Region :
  /\ <<n, r>> \in Registrations /\ ~Registered(n, r)
  /\ tags' = [tags EXCEPT ![n][StagOf[r]] = r]
  /\ UNCHANGED <<connected, sqApp, sqRecv, rq, utq, cqSend, cqRecv, pendq, mem, net, up,
                 sendVars, recvVars, appVars, placed, got>>

Invalidate(n) == \E r \in Region :
  /\ <<n, r>> \in Invalidations /\ Registered(n, r)
  /\ tags' = [tags EXCEPT ![n][StagOf[r]] = NoRegion]
  /\ UNCHANGED <<connected, sqApp, sqRecv, rq, utq, cqSend, cqRecv, pendq, mem, net, up,
                 sendVars, recvVars, appVars, placed, got>>

-----------------------------------------------------------------------------
(* rnic_send.  "poll": before the test of connected or at try_dequeue;     *)
(* "send": req dequeued; "complete": ddp_send_* has returned sret;         *)
(* "killed": the process is gone.                                          *)

Class(op) == IF op = "READ_REQ" THEN "read" ELSE IF op \in InvalOps THEN "inval" ELSE "send"
NextMsn(m) == (m + 1) % MsnMod
HasMsn(op) == op \in SendOps \cup InvalOps \cup {"READ_REQ"}
CountMsn(n) == IF HasMsn(sreq[n].op)
               THEN msn' = [msn EXCEPT ![n][Class(sreq[n].op)] = NextMsn(@)]
               ELSE UNCHANGED msn

Content(n, r) == IF r \in Region THEN mem[n][r] ELSE <<n, NoRegion>>

\* A read response names its source through the sge of rnic_recv, read now.
Gathered(n, w) == IF w.op = "READ_RESP" THEN rsg[n]
                  ELSE IF w.op = "READ_REQ" THEN NoRegion ELSE w.lbuf

MessageOf(n, w) ==
  [op   |-> w.op,
   msn  |-> IF HasMsn(w.op) THEN msn[n][Class(w.op)] ELSE 0,
   to   |-> IF w.op = "READ_REQ" THEN w.lbuf ELSE w.rbuf,
   src  |-> IF w.op = "READ_REQ" THEN w.rbuf ELSE Gathered(n, w),
   data |-> Content(n, Gathered(n, w)),
   of   |-> w.id]

Sendable(w) == w.op # "TERMINATE" /\ (w.op = "READ_REQ" => w.nsge = 1)
PollAgain(n) == IF connected[n] THEN "poll" ELSE "exit"

SendDequeue(n) ==
  /\ spc[n] = "poll"
  /\ \/ /\ sqApp[n] # <<>>
        /\ sreq' = [sreq EXCEPT ![n] = Head(sqApp[n])]
        /\ sqApp' = [sqApp EXCEPT ![n] = Tail(@)] /\ UNCHANGED sqRecv
     \/ /\ sqRecv[n] # <<>>
        /\ sreq' = [sreq EXCEPT ![n] = Head(sqRecv[n])]
        /\ sqRecv' = [sqRecv EXCEPT ![n] = Tail(@)] /\ UNCHANGED sqApp
  /\ spc' = [spc EXCEPT ![n] = "send"]
  /\ UNCHANGED <<connected, rq, utq, cqSend, cqRecv, pendq, tags, mem, net, up, sret, msn,
                 recvVars, appVars, placed, got>>

SendTransmit(n) ==
  /\ spc[n] = "send" /\ Sendable(sreq[n])
  /\ \/ /\ up
        /\ net' = [net EXCEPT ![Peer(n)] = Append(@, MessageOf(n, sreq[n]))]
        /\ sret' = [sret EXCEPT ![n] = TRUE]
     \/ /\ ~up /\ UNCHANGED net
        /\ \E ok \in BOOLEAN : sret' = [sret EXCEPT ![n] = ok]
  /\ CountMsn(n)
  /\ spc' = [spc EXCEPT ![n] = IF sreq[n].op = "READ_RESP" THEN PollAgain(n)
                                                          ELSE "complete"]
  /\ UNCHANGED <<connected, sqApp, sqRecv, rq, utq, cqSend, cqRecv, pendq, tags, mem, up,
                 sreq, recvVars, appVars, placed, got>>

\* An opcode rnic_send does not know, or a read with num_sge # 1: no completion.
SendReject(n) ==
  /\ spc[n] = "send" /\ ~Sendable(sreq[n])
  /\ CountMsn(n)
  /\ spc' = [spc EXCEPT ![n] = PollAgain(n)]
  /\ UNCHANGED <<connected, sqApp, sqRecv, rq, utq, cqSend, cqRecv, pendq, tags, mem, net,
                 up, sreq, sret, recvVars, appVars, placed, got>>

\* send_wr_to_wce and the enqueue in `pending' or `cq'.
WceOf(n) == [id |-> sreq[n].id, op |-> sreq[n].op, ok |-> sret[n], of |-> 0]

\* Slip: reads complete like writes, without passing through `pending'.
NeverPending(n) == FALSE
ToPending(n) == sreq[n].op = "READ_REQ" /\ sret[n]

\* Slip: a request that failed is dropped instead of completed in error.
CompleteIfSent(n) ==
  /\ spc[n] = "complete"
  /\ IF ToPending(n)
     THEN pendq' = [pendq EXCEPT ![n] = Append(@, WceOf(n))] /\ UNCHANGED cqSend
     ELSE /\ cqSend' = IF sret[n] THEN [cqSend EXCEPT ![n] = Append(@, WceOf(n))] ELSE cqSend
          /\ UNCHANGED pendq
  /\ spc' = [spc EXCEPT ![n] = PollAgain(n)]
  /\ UNCHANGED <<connected, sqApp, sqRecv, rq, utq, cqRecv, tags, mem, net, up, sreq, sret,
                 msn, recvVars, appVars, placed, got>>

SendComplete(n) ==
  /\ spc[n] = "complete"
  /\ IF ToPending(n)
     THEN pendq' = [pendq EXCEPT ![n] = Append(@, WceOf(n))] /\ UNCHANGED cqSend
     ELSE cqSend' = [cqSend EXCEPT ![n] = Append(@, WceOf(n))] /\ UNCHANGED pendq
  /\ spc' = [spc EXCEPT ![n] = PollAgain(n)]
  /\ UNCHANGED <<connected, sqApp, sqRecv, rq, utq, cqRecv, tags, mem, net, up, sreq, sret,
                 msn, recvVars, appVars, placed, got>>

SendExit(n) ==
  /\ spc[n] = "poll" /\ ~connected[n]
  /\ spc' = [spc EXCEPT ![n] = "exit"]
  /\ UNCHANGED <<connected, sqApp, sqRecv, rq, utq, cqSend, cqRecv, pendq, tags, mem, net,
                 up, sreq, sret, msn, recvVars, appVars, placed, got>>

\* sendmsg has no MSG_NOSIGNAL and nothing handles SIGPIPE: on a connection
\* known to be broken it ends the process.
SendKilled(n) ==
  /\ spc[n] = "send" /\ Sendable(sreq[n]) /\ ~up
  /\ spc' = [spc EXCEPT ![n] = "killed"]
  /\ UNCHANGED <<connected, sqApp, sqRecv, rq, utq, cqSend, cqRecv, pendq, tags, mem, net,
                 up, sreq, sret, msn, recvVars, appVars, placed, got>>

SendThread(n) == \/ SendDequeue(n) \/ SendTransmit(n) \/ SendReject(n)
                 \/ SendComplete(n) \/ SendExit(n) \/ SendKilled(n)

-----------------------------------------------------------------------------
(* rnic_recv.  "recv": in ddp_recv; "handle": at the switch over the       *)
(* opcode; "exit": left the loop; "dead": returned -1, connected still 1;  *)
(* "cut": the same, after ddp_recv took the buffer of an untagged message. *)

Qn(op) == IF op = "READ_REQ" THEN "READ_QN"
          ELSE IF op = "TERMINATE" THEN "TERMINATE_QN" ELSE "SEND_QN"

\* ddp_check_untagged_hdr: the msn of a queue starts at 1 and is never moved.
UntaggedHdrOk(m) == m.msn >= 1

\* A call of mpa_recv may fail in the middle of a message: it takes a short recv() for
\* an error, also on a connection that is up.  (Inside a payload that the connection
\* does not complete it does not even return, see Mpa; what follows is the same.)
MayFail == MaySplit \/ ~up

\* ddp_check_stag accepts.
StagOk(n, m) == m.to \in Region /\ Registered(n, m.to)

\* ddp_recv, tagged: the payload goes to TO.
RecvTagged(n) ==
  /\ rpc[n] = "recv" /\ net[n] # <<>>
  /\ LET m == Head(net[n]) IN
     /\ m.op \in TaggedOps /\ StagOk(n, m)
     /\ mem' = [mem EXCEPT ![n][m.to] = m.data]
     /\ placed' = placed \cup {<<IF m.op = "WRITE" THEN Peer(n) ELSE n, m.of>>}
     /\ rmsg' = [rmsg EXCEPT ![n] = m]
  /\ net' = [net EXCEPT ![n] = Tail(@)]
  /\ ubuf' = [ubuf EXCEPT ![n] = Garbage]  \* msg->tag_buf overlays untag_buf
  /\ rpc' = [rpc EXCEPT ![n] = "handle"]
  /\ UNCHANGED <<connected, sqApp, sqRecv, rq, utq, cqSend, cqRecv, pendq, tags, up,
                 sendVars, rsg, appVars, got>>

\* ddp_recv returns an error: a stag or a message sequence number refused, a message
\* cut, or the connection lost.  Of tagged data cut, some may be in memory.
RecvError(n) ==
  /\ rpc[n] = "recv"
  /\ \/ /\ net[n] # <<>>
        /\ LET m == Head(net[n]) IN
           \/ /\ MayFail \/ ~(IF m.op \in TaggedOps THEN StagOk(n, m) ELSE UntaggedHdrOk(m))
              /\ UNCHANGED mem
           \/ /\ MayFail /\ m.op \in TaggedOps /\ StagOk(n, m)
              /\ mem' = [mem EXCEPT ![n][m.to] = m.data]
        /\ net' = [net EXCEPT ![n] = Tail(@)]
     \/ /\ net[n] = <<>> /\ ~up
        /\ UNCHANGED <<net, mem>>
  /\ rpc' = [rpc EXCEPT ![n] = "dead"]
  /\ UNCHANGED <<connected, sqApp, sqRecv, rq, utq, cqSend, cqRecv, pendq, tags, up,
                 sendVars, rmsg, ubuf, rsg, appVars, placed, got>>

\* The buffer an untagged message is placed in: the next of its queue or,
\* when that is empty, whatever untag_buf holds from an earlier message.
\*
\* Slip: the most recently posted buffer is used.
LastBuffer(n, q) == IF utq[n][q] # <<>> THEN utq[n][q][Len(utq[n][q])] ELSE ubuf[n]
NextBuffer(n, q) == IF utq[n][q] # <<>> THEN Head(utq[n][q]) ELSE ubuf[n]

RecvUntagged(n) ==
  /\ rpc[n] = "recv" /\ net[n] # <<>>
  /\ LET m == Head(net[n])
         b == NextBuffer(n, Qn(m.op)) IN
     /\ m.op \notin TaggedOps /\ UntaggedHdrOk(m)
     /\ utq' = IF utq[n][Qn(m.op)] # <<>>
               THEN [utq EXCEPT ![n][Qn(m.op)] = Tail(@)] ELSE utq
     /\ ubuf' = [ubuf EXCEPT ![n] = b]
     /\ IF b.addr \in Region
        THEN /\ mem' = [mem EXCEPT ![n][b.addr] = m.data]
             /\ got' = [got EXCEPT ![n] = @ \cup {<<b.rid, m.of>>}]
        ELSE UNCHANGED <<mem, got>>
     \* recv() into a garbage pointer fails with EFAULT or hits other memory
     /\ \E pc \in {"handle"} \cup (IF b = Garbage \/ MayFail THEN {"cut"} ELSE {}) :
          rpc' = [rpc EXCEPT ![n] = pc]
     /\ rmsg' = [rmsg EXCEPT ![n] = m]
  /\ net' = [net EXCEPT ![n] = Tail(@)]
  /\ UNCHANGED <<connected, sqApp, sqRecv, rq, cqSend, cqRecv, pendq, tags, up, sendVars,
                 rsg, appVars, placed>>

LoopAgain(n) == [rpc EXCEPT ![n] = IF connected[n] THEN "recv" ELSE "exit"]

HandleWrite(n) ==
  /\ rpc[n] = "handle" /\ rmsg[n].op = "WRITE"
  /\ rpc' = LoopAgain(n)
  /\ UNCHANGED <<connected, sqApp, sqRecv, rq, utq, cqSend, cqRecv, pendq, tags, mem, net,
                 up, sendVars, rmsg, ubuf, rsg, appVars, placed, got>>

\* Slip: the sink of a read request is taken for its source.
SwappedSource(m) == m.to
ReadSource(m) == m.src

\* Slip: the buffer of a handled read request is not put back.
NotReplenished(n) == utq[n]["READ_QN"]
Replenished(n) == Append(utq[n]["READ_QN"], ubuf[n])

\* An unknown source stag is logged and the response sent all the same.
HandleReadReq(n) ==
  /\ rpc[n] = "handle" /\ rmsg[n].op = "READ_REQ"
  /\ rsg' = [rsg EXCEPT ![n] = ReadSource(rmsg[n])]
  /\ sqRecv' = [sqRecv EXCEPT ![n] = Append(@,
       [op |-> "READ_RESP", id |-> rmsg[n].of, lbuf |-> NoRegion,
        rbuf |-> rmsg[n].to, nsge |-> 1])]
  /\ utq' = [utq EXCEPT ![n]["READ_QN"] = Replenished(n)]
  /\ rpc' = LoopAgain(n)
  /\ UNCHANGED <<connected, sqApp, rq, cqSend, cqRecv, pendq, tags, mem, net, up, sendVars,
                 rmsg, ubuf, appVars, placed, got>>

HandleReadResp(n) ==
  /\ rpc[n] = "handle" /\ rmsg[n].op = "READ_RESP"
  /\ IF pendq[n] = <<>>
     THEN UNCHANGED <<pendq, cqRecv>>
     ELSE /\ cqRecv' = [cqRecv EXCEPT ![n] = Append(@, Head(pendq[n]))]
          /\ pendq' = [pendq EXCEPT ![n] = Tail(@)]
  /\ rpc' = LoopAgain(n)
  /\ UNCHANGED <<connected, sqApp, sqRecv, rq, utq, cqSend, tags, mem, net, up, sendVars,
                 rmsg, ubuf, rsg, appVars, placed, got>>

\* The SEND arm: the completion goes to the cq of the *send* queue.
CompleteRecv(n) ==
  IF rq[n] = <<>>
  THEN UNCHANGED <<rq, cqRecv>>
  ELSE /\ rq' = [rq EXCEPT ![n] = Tail(@)]
       /\ cqRecv' = [cqRecv EXCEPT ![n] = Append(@,
            [id |-> Head(rq[n]), op |-> rmsg[n].op, ok |-> TRUE, of |-> rmsg[n].of])]

HandleSend(n) ==
  /\ rpc[n] = "handle" /\ rmsg[n].op \in SendOps
  /\ CompleteRecv(n)
  /\ rpc' = LoopAgain(n)
  /\ UNCHANGED <<connected, sqApp, sqRecv, utq, cqSend, pendq, tags, mem, net, up,
                 sendVars, rmsg, ubuf, rsg, appVars, placed, got>>

\* The tag invalidated is the control byte (1 << 6) | opcode, which is what
\* rsvdULP1 holds; the rkey of the request travels in rsvdULP2.
CtrlByte(op) == IF op = "SEND_INVAL" THEN 68 ELSE 70

HandleSendInval(n) ==
  /\ rpc[n] = "handle" /\ rmsg[n].op \in InvalOps
  /\ LET t == CtrlByte(rmsg[n].op) IN
     \/ /\ t \in Tag /\ tags[n][t] # NoRegion
        /\ tags' = [tags EXCEPT ![n][t] = NoRegion]
        /\ CompleteRecv(n)
        /\ rpc' = LoopAgain(n)
     \/ /\ ~(t \in Tag /\ tags[n][t] # NoRegion)
        /\ rpc' = [rpc EXCEPT ![n] = "dead"]
        /\ UNCHANGED <<tags, rq, cqRecv>>
  /\ UNCHANGED <<connected, sqApp, sqRecv, utq, cqSend, pendq, mem, net, up, sendVars,
                 rmsg, ubuf, rsg, appVars, placed, got>>

\* Slip: the receive loop ends without clearing connected.
LeaveLoopOnly(n) ==
  /\ rpc[n] = "handle" /\ rmsg[n].op = "TERMINATE"
  /\ rpc' = [rpc EXCEPT ![n] = "exit"]
  /\ UNCHANGED <<connected, sqApp, sqRecv, rq, utq, cqSend, cqRecv, pendq, tags, mem, net,
                 up, sendVars, rmsg, ubuf, rsg, appVars, placed, got>>

HandleTerminate(n) ==
  /\ rpc[n] = "handle" /\ rmsg[n].op = "TERMINATE"
  /\ connected' = [connected EXCEPT ![n] = FALSE]
  /\ rpc' = [rpc EXCEPT ![n] = "exit"]
  /\ UNCHANGED <<sqApp, sqRecv, rq, utq, cqSend, cqRecv, pendq, tags, mem, net, up,
                 sendVars, rmsg, ubuf, rsg, appVars, placed, got>>

RecvThread(n) == \/ RecvTagged(n) \/ RecvError(n) \/ RecvUntagged(n)
                 \/ HandleWrite(n) \/ HandleReadReq(n) \/ HandleReadResp(n)
                 \/ HandleSend(n) \/ HandleSendInval(n) \/ HandleTerminate(n)

-----------------------------------------------------------------------------
(* The environment: TCP and an endpoint running another iWARP stack.       *)

\* The connection breaks; what was in flight may be cut off at any point.
Reset ==
  /\ MayReset /\ up
  /\ up' = FALSE
  /\ \E c \in 0..Len(net["client"]), s \in 0..Len(net["server"]) :
       net' = [n \in Node |-> SubSeq(net[n], 1, IF n = "client" THEN c ELSE s)]
  /\ UNCHANGED <<connected, sqApp, sqRecv, rq, utq, cqSend, cqRecv, pendq, tags, mem,
                 sendVars, recvVars, appVars, placed, got>>

\* SoftUiWARP never sends a Terminate; a peer with another stack may.
PeerTerminates(n) ==
  /\ n \in TerminateTo /\ up /\ connected[n]
  /\ \A i \in DOMAIN net[n] : net[n][i].op # "TERMINATE"
  /\ net' = [net EXCEPT ![n] = Append(@, [NoMessage EXCEPT !.msn = 1])]
  /\ UNCHANGED <<connected, sqApp, sqRecv, rq, utq, cqSend, cqRecv, pendq, tags, mem, up,
                 sendVars, recvVars, appVars, placed, got>>

App(n) == \/ RdmapSend(n) \/ RdmapWrite(n) \/ RdmapRead(n)
          \/ PostRecvBuffers(n) \/ PostRecvRequest(n) \/ PollCq(n)
          \/ Register(n) \/ Invalidate(n)

Process(n) == spc[n] # "killed" /\ (App(n) \/ SendThread(n) \/ RecvThread(n))

Next == \/ \E n \in Node : Process(n) \/ PeerTerminates(n)
        \/ Reset

Spec == Init /\ [][Next]_vars

\* Both threads of an endpoint run; a call of rdma_post_recv returns; the
\* application polls.  Nothing makes it post work.
Fairness == \A n \in Node :
  /\ WF_vars(SendThread(n)) /\ WF_vars(spc[n] # "killed" /\ RecvThread(n))
  /\ WF_vars(spc[n] # "killed" /\ PostRecvRequest(n))
  /\ WF_vars(spc[n] # "killed" /\ PollCq(n))
FairSpec == Spec /\ Fairness

-----------------------------------------------------------------------------
(* Properties.                                                             *)

\* Every variable keeps its type: the queues of rdmap.cpp and cq.cpp hold
\* well-formed requests, completions, buffers and messages, sequence numbers
\* stay in 32 bits, and the threads are at one of their program points.
TypeOK ==
  /\ connected \in [Node -> BOOLEAN] /\ up \in BOOLEAN
  /\ sqApp \in [Node -> Seq(SendWr)] /\ sqRecv \in [Node -> Seq(SendWr)]
  /\ rq \in [Node -> Seq(Nat)]
  /\ utq \in [Node -> [Queues -> Seq(Buffer)]]
  /\ cqSend \in [Node -> Seq(Wc)] /\ cqRecv \in [Node -> Seq(Wc)]
  /\ pendq \in [Node -> Seq(Wc)]
  /\ tags \in [Node -> [Tag -> RegionOrNo]]
  /\ mem \in [Node -> [Region -> Val]]
  /\ net \in [Node -> Seq(Message)]
  /\ spc \in [Node -> {"poll", "send", "complete", "exit", "killed"}]
  /\ sreq \in [Node -> SendWr] /\ sret \in [Node -> BOOLEAN]
  /\ msn \in [Node -> [MsnClasses -> 0..(MsnMod - 1)]]
  /\ rpc \in [Node -> {"recv", "handle", "exit", "dead", "cut"}]
  /\ rmsg \in [Node -> Message]
  /\ ubuf \in [Node -> Buffer] /\ rsg \in [Node -> RegionOrNo]
  /\ posting \in [Node -> Nat] /\ nrecv \in [Node -> Nat]
  /\ posted \in [Node -> Seq(Request)]
  /\ placed \subseteq Node \X Nat
  /\ got \in [Node -> SUBSET Match]
  /\ done \in [Node -> SUBSET Nat] /\ rdone \in [Node -> SUBSET Match]

\* A read completion reported as successful belongs to a read whose response
\* has been placed in the sink buffer, although the response names no request
\* and rnic_recv shifts whatever is first in `pending' to `cq'.
ReadCompletionSound == \A n \in Node : \A wc \in Items(cqSend[n]) \cup Items(cqRecv[n]) :
  wc.op = "READ_REQ" /\ wc.ok => <<n, wc.id>> \in placed

\* Where a send work request of n can be between its posting and its polling.
InThread(n) == IF spc[n] \in {"send", "complete", "killed"} /\ sreq[n].op # "READ_RESP"
               THEN {sreq[n].id} ELSE {}
OwnIds(s)   == {s[i].id : i \in {j \in DOMAIN s : s[j].of = 0}}
Places(n)   == <<Ids(sqApp[n]), InThread(n), Ids(pendq[n]), Ids(cqSend[n]),
                 OwnIds(cqRecv[n]), done[n]>>
NoRepeat(s) == \A i, j \in DOMAIN s : s[i].id = s[j].id /\ s[i].of = 0 /\ s[j].of = 0 => i = j

\* No send work request is lost or completed twice: one that rnic_send can
\* process is always in exactly one of the send queue, the hands of
\* rnic_send, `pending', the completion queue, or the polled completions.
WorkRequestsAccounted == \A n \in Node :
  /\ \A i \in DOMAIN posted[n] : Sendable(posted[n][i]) =>
        \E k \in DOMAIN Places(n) : i \in Places(n)[k]
  /\ \A j, k \in DOMAIN Places(n) : j # k => Places(n)[j] \cap Places(n)[k] = {}
  /\ NoRepeat(cqSend[n]) /\ NoRepeat(cqRecv[n]) /\ NoRepeat(pendq[n])

\* The read buffer rnic_recv has taken for the read request it handles, or has failed
\* to receive.
HeldReadBuffer(n) == IF rpc[n] \in {"handle", "cut"} /\ rmsg[n].op = "READ_REQ" THEN {ubuf[n]} ELSE {}

\* Untagged queue 1 never runs dry and never grows: the read buffers posted
\* by rdmap_init_stream are all in the queue, or all but one that rnic_recv holds
\* while it handles a read request, or held when it failed to receive the last one;
\* and none is there twice.
ReadBuffersConserved == \A n \in Node :
  LET free == utq[n]["READ_QN"] IN
  /\ \A i, j \in DOMAIN free : free[i] = free[j] => i = j
  /\ Items(free) \cup HeldReadBuffer(n) = {ReadBuf(i) : i \in 1..MaxPendingReads}
  /\ Items(free) \cap HeldReadBuffer(n) = {}

\* RDMA ordering: when a receive completion for a send of the peer is in the
\* completion queue, every RDMA write the peer posted before that send has
\* been placed in memory.
WriteBeforeSend == \A n \in Node : \A wc \in Items(cqRecv[n]) :
  wc.of # 0 => \A i \in 1..(wc.of - 1) :
    posted[Peer(n)][i].op = "WRITE" => <<Peer(n), i>> \in placed

\* The data of a read response comes from the region the read named: holds
\* for an application with one read outstanding, because rnic_recv has one
\* sge for all the responses it queues.
ReadSourceRequested == \A n \in Node :
  rpc[n] = "handle" /\ rmsg[n].op = "READ_RESP" =>
    rmsg[n].src = posted[n][rmsg[n].of].rbuf

\* With receives posted in time every send ends as the polled completion of a receive
\* of the peer whose buffer holds that send's payload and no other send's, unless a
\* Terminate stops an end or one of the sends is to invalidate a tag.  (A Terminate,
\* request id 0, finds no buffer of its own and may land there.)
SendsIn(n, rid) == {p[2] : p \in {p \in got[n] : p[1] = rid}} \ {0}
Stopped(n) == rmsg[n] = [NoMessage EXCEPT !.msn = 1] \/ \E i \in DOMAIN posted[n] : posted[n][i].op \in InvalOps
SendsDelivered == \A n \in Node : \A i \in 1..MaxSends :
  (i <= Len(posted[n]) /\ IsUntaggedSend(posted[n][i])) ~>
    \/ Stopped(n) \/ Stopped(Peer(n))
    \/ \E p \in rdone[Peer(n)] : p[2] = i /\ SendsIn(Peer(n), p[1]) = {i}

\* A Terminate that rnic_recv comes to ends both threads of the endpoint, with one
\* exception.  No buffer is ever posted to queue 2, so ddp_recv places a Terminate in
\* the buffer of the last untagged message; when there is none (the first message, or a
\* tagged one came since) the call may fail, and rnic_send then goes on.
TerminateStopsThreads == \A n \in Node :
  (rpc[n] = "recv" /\ net[n] # <<>> /\ Head(net[n]).op = "TERMINATE") ~>
    \/ rpc[n] = "exit" /\ spc[n] = "exit"
    \/ rpc[n] = "cut" /\ ubuf[n] = Garbage

-----------------------------------------------------------------------------
(* What comments of the repository say and the code does not do.           *)

Quiet == \A n \in Node : /\ net[n] = <<>> /\ rpc[n] = "recv"
                         /\ spc[n] = "poll" /\ sqApp[n] = <<>> /\ sqRecv[n] = <<>>

\* rdmap.cpp:289-290: a read completion is shifted from `pending' to `cq'
\* when the read response is received.  So once everything has come to rest,
\* no completion of an answered read is left in `pending'.
AnsweredReadsShifted == Quiet => \A n \in Node : \A i \in Ids(pendq[n]) : <<n, i>> \notin placed

\* ddp.h:128-129: a buffer is registered for an untagged message and buffers
\* are consumed in FIFO manner: no buffer receives two messages.
BufferForOneMessage == \A n \in Node : \A p, q \in got[n] : p[1] = q[1] => p = q

\* cq.h:198 and rdmap.h:44: a send with invalidate carries the rkey to
\* invalidate; once the receiver has handled it, that rkey is gone.
RkeyInvalidated == [][\A n \in Node :
  rpc[n] = "handle" /\ rmsg[n].op \in InvalOps /\ rpc'[n] # "handle" =>
    tags'[n][StagOf[rmsg[n].to]] # rmsg[n].to]_vars
=============================================================================
