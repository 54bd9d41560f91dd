----------------------------- MODULE RdmapProofs -----------------------------
(***************************************************************************)
(* Theorems about Rdmap, for every value of its constants, in four parts:  *)
(* the types; the read buffers of untagged queue 1; the accounts of the    *)
(* send work requests; the order of writes and sends.  The order of reads  *)
(* is in RdmapStageProofs and RdmapReadProofs.                             *)
(***************************************************************************)
EXTENDS Rdmap, SequenceTheorems, TLAPS

\* An endpoint has one peer.
LEMMA PeerType == \A n \in Node : Peer(n) \in Node /\ Peer(n) # n /\ Peer(Peer(n)) = n
BY Zenon DEF Node, Peer

\* What is taken off a queue, and what is left of it.
LEMMA TailType ==
  ASSUME NEW S, NEW q \in Seq(S), q # <<>>
  PROVE  Head(q) \in S /\ Tail(q) \in Seq(S)
BY Zenon, HeadTailProperties

\* Enqueue and dequeue on the queue of one endpoint.
LEMMA AppendAt ==
  ASSUME NEW S, NEW f \in [Node -> Seq(S)], NEW n \in Node, NEW x \in S
  PROVE  [f EXCEPT ![n] = Append(@, x)] \in [Node -> Seq(S)]
OBVIOUS

\* The same on the queue of one endpoint.
LEMMA TailAt ==
  ASSUME NEW S, NEW f \in [Node -> Seq(S)], NEW n \in Node, f[n] # <<>>
  PROVE  [f EXCEPT ![n] = Tail(@)] \in [Node -> Seq(S)] /\ Head(f[n]) \in S
BY Zenon, TailType

\* One untagged queue of one endpoint changes.
LEMMA QueueAt ==
  ASSUME utq \in [Node -> [Queues -> Seq(Buffer)]], NEW n \in Node, NEW q \in Queues,
         NEW t \in Seq(Buffer)
  PROVE  [utq EXCEPT ![n][q] = t] \in [Node -> [Queues -> Seq(Buffer)]]
<1>. DEFINE SB == Seq(Buffer)
<1>1. t \in SB /\ utq \in [Node -> [Queues -> SB]]
  BY Zenon
<1>. HIDE DEF SB
<1>2. [utq EXCEPT ![n][q] = t] \in [Node -> [Queues -> SB]]
  BY Zenon, <1>1
<1>. QED
  BY Zenon, <1>2 DEF SB

\* A message made from a well-typed request is well typed.
LEMMA MessageOfType ==
  ASSUME TypeOK, NEW n \in Node, NEW w \in SendWr
  PROVE  MessageOf(n, w) \in Message
<1>1. Class(w.op) \in MsnClasses
  BY Zenon DEF Class, MsnClasses
<1>2. msn[n][Class(w.op)] \in Nat
  BY <1>1, MsnAssumption DEF TypeOK
<1>3. Gathered(n, w) \in RegionOrNo
  BY Zenon DEF Gathered, TypeOK, SendWr, RegionOrNo
<1>4. Content(n, Gathered(n, w)) \in Val
  BY <1>3 DEF Content, TypeOK, Val, RegionOrNo
<1>. QED
  BY Zenon, <1>2, <1>3, <1>4 DEF MessageOf, Message, SendWr

\* The MSNs stay below MsnMod: they are counted modulo it.
LEMMA CountMsnType ==
  ASSUME TypeOK, NEW n \in Node, CountMsn(n)
  PROVE  msn' \in [Node -> [MsnClasses -> 0..(MsnMod - 1)]]
<1>. DEFINE c == Class(sreq[n].op)
           M == 0..(MsnMod - 1)
           x == NextMsn(msn[n][c])
<1>1. c \in MsnClasses
  BY Zenon DEF Class, MsnClasses
<1>2. \A m \in M : NextMsn(m) \in M
  BY MsnAssumption DEF NextMsn
<1>3. msn \in [Node -> [MsnClasses -> M]]
  BY Zenon DEF TypeOK
<1>4. x \in M
  <2>1. msn[n] \in [MsnClasses -> M]
    BY Zenon, <1>3
  <2>2. msn[n][c] \in M
    BY Zenon, <1>1, <2>1
  <2>. QED BY Zenon, <1>2, <2>2
<1>5. msn' = [msn EXCEPT ![n][c] = x] \/ msn' = msn
  BY Zenon DEF CountMsn
<1>. HIDE DEF c, x, M
<1>6. msn' \in [Node -> [MsnClasses -> M]]
  BY <1>1, <1>3, <1>4, <1>5
<1>. QED
  BY Zenon, <1>6 DEF M

\* The types hold at first.
LEMMA InitType == Init => TypeOK
<1>. SUFFICES ASSUME Init PROVE TypeOK
  BY Zenon
<1>. DEFINE rb == [i \in 1..MaxPendingReads |-> ReadBuf(i)]
<1>1. \A n \in Node : utq[n] \in [Queues -> Seq(Buffer)]
  <2>1. rb \in [1..MaxPendingReads -> Buffer]
    BY ReadsAssumption DEF ReadBuf, Buffer, RegionOrNo
  <2>2. rb \in Seq(Buffer) /\ <<>> \in Seq(Buffer)
    BY <2>1, ReadsAssumption, SeqDef, EmptySeq
  <2>3. \A n \in Node : utq[n] = [q \in Queues |-> IF q = "READ_QN" THEN rb ELSE <<>>]
    BY Zenon DEF Init
  <2>. HIDE DEF rb
  <2>. QED BY Zenon, <2>2, <2>3
<1>2. mem \in [Node -> [Region -> Val]]
  BY Zenon DEF Init, Val, RegionOrNo
<1>3. rmsg \in [Node -> Message] /\ sreq \in [Node -> SendWr] /\ ubuf \in [Node -> Buffer]
  BY Zenon DEF Init, NoMessage, NoRequest, Garbage, Message, SendWr, Buffer, RegionOrNo, Opcode,
         Val, Node
<1>4. msn \in [Node -> [MsnClasses -> 0..(MsnMod - 1)]]
  BY MsnAssumption DEF Init
<1>5. utq \in [Node -> [Queues -> Seq(Buffer)]]
  BY Zenon, <1>1 DEF Init
<1>. QED
  BY <1>2, <1>3, <1>4, <1>5 DEF Init, TypeOK, RegionOrNo

\* The application's calls.
LEMMA AppType ==
  ASSUME TypeOK, NEW n \in Node, App(n)
  PROVE  TypeOK'
<1>1. ASSUME NEW t \in Requests, Post(n, t) PROVE TypeOK'
  <2>1. posted \in [Node -> Seq(Request)] /\ sqApp \in [Node -> Seq(SendWr)]
    BY Zenon DEF TypeOK
  <2>2. t \in Request /\ Len(posted[n]) + 1 \in Nat
    BY <2>1, RequestAssumption
  <2>. DEFINE w == [op |-> t.op, id |-> Len(posted[n]) + 1, lbuf |-> t.lbuf,
                    rbuf |-> t.rbuf, nsge |-> t.nsge]
  <2>3. w \in SendWr
    BY Zenon, <2>2 DEF Request, SendWr, RegionOrNo
  <2>4. sqApp' = [sqApp EXCEPT ![n] = Append(@, w)]
    BY Zenon, <1>1 DEF Post, Enqueue
  <2>5. posted' \in [Node -> Seq(Request)]
    BY <1>1, <2>1, <2>2 DEF Post
  <2>. HIDE DEF w
  <2>6. sqApp' \in [Node -> Seq(SendWr)]
    BY <2>1, <2>3, <2>4
  <2>. QED
    BY Zenon, <1>1, <2>5, <2>6 DEF TypeOK, Post, sendVars, recvVars
<1>2. CASE RdmapSend(n) \/ RdmapWrite(n) \/ RdmapRead(n)
  BY Zenon, <1>1, <1>2 DEF RdmapSend, RdmapWrite, RdmapRead
<1>3. CASE PostRecvBuffers(n)
  <2>1. PICK l \in RecvLists : PostRecvBuffers(n)!(l)
    BY Zenon, <1>3 DEF PostRecvBuffers
  <2>. DEFINE B == l.bufs
              new == [i \in 1..Len(B) |-> [addr |-> B[i], rid |-> nrecv[n] + 1]]
  <2>2. /\ nrecv \in [Node -> Nat] /\ posting \in [Node -> Nat]
        /\ utq \in [Node -> [Queues -> Seq(Buffer)]]
    BY Zenon DEF TypeOK
  <2>3. B \in Seq(Region) /\ nrecv[n] + 1 \in Nat
    BY <2>2, RecvAssumption
  <2>4. utq' = [utq EXCEPT ![n]["SEND_QN"] = utq[n]["SEND_QN"] \o new]
    BY Zenon, <2>1
  <2>5. new \in Seq(Buffer)
    <3>. HIDE DEF B
    <3>1. Len(B) \in Nat /\ \A i \in 1..Len(B) : B[i] \in Region
      BY <2>3
    <3>2. new \in [1..Len(B) -> Buffer]
      BY Zenon, <2>3, <3>1 DEF Buffer, RegionOrNo
    <3>. HIDE DEF new
    <3>. QED
      BY Zenon, <3>1, <3>2, SeqDef
  <2>. HIDE DEF new
  <2>6. "SEND_QN" \in Queues /\ utq[n]["SEND_QN"] \o new \in Seq(Buffer)
    BY ZenonT(30), <2>2, <2>5, ConcatProperties DEF Queues
  <2>7. utq' \in [Node -> [Queues -> Seq(Buffer)]]
    BY Zenon, <2>2, <2>4, <2>6
  <2>8. posting' \in [Node -> Nat] /\ nrecv' \in [Node -> Nat]
    BY <2>1, <2>2
  <2>. QED
    BY Zenon, <2>1, <2>7, <2>8 DEF TypeOK, sendVars, recvVars
<1>4. CASE PostRecvRequest(n)
  <2>1. rq' \in [Node -> Seq(Nat)] /\ posting' \in [Node -> Nat]
    BY <1>4 DEF PostRecvRequest, TypeOK
  <2>. QED
    BY Zenon, <1>4, <2>1 DEF TypeOK, PostRecvRequest, sendVars, recvVars
<1>5. ASSUME NEW wc \in Wc, Polled(n, wc)
      PROVE  /\ done' \in [Node -> SUBSET Nat]
             /\ rdone' \in [Node -> SUBSET Match]
  <2>1. wc.id \in Nat /\ <<wc.id, wc.of>> \in Match
    BY Zenon DEF Wc, Match
  <2>2. done \in [Node -> SUBSET Nat] /\ rdone \in [Node -> SUBSET Match]
    BY Zenon DEF TypeOK
  <2>. QED
    BY Zenon, <1>5, <2>1, <2>2 DEF Polled
<1>6. CASE PollCq(n)
  <2>1. cqSend \in [Node -> Seq(Wc)] /\ cqRecv \in [Node -> Seq(Wc)]
    BY Zenon DEF TypeOK
  <2>2. /\ cqSend' \in [Node -> Seq(Wc)] /\ cqRecv' \in [Node -> Seq(Wc)]
        /\ \E wc \in Wc : Polled(n, wc)
    <3>1. CASE /\ cqSend[n] # <<>> /\ cqSend' = [cqSend EXCEPT ![n] = Tail(@)]
               /\ UNCHANGED cqRecv /\ Polled(n, Head(cqSend[n]))
      BY Zenon, <2>1, <3>1, TailAt
    <3>2. CASE /\ cqRecv[n] # <<>> /\ cqRecv' = [cqRecv EXCEPT ![n] = Tail(@)]
               /\ UNCHANGED cqSend /\ Polled(n, Head(cqRecv[n]))
      BY Zenon, <2>1, <3>2, TailAt
    <3>. QED
      BY Zenon, <1>6, <3>1, <3>2 DEF PollCq
  <2>3. done' \in [Node -> SUBSET Nat] /\ rdone' \in [Node -> SUBSET Match]
    BY Zenon, <1>5, <2>2
  <2>. QED
    BY Zenon, <1>6, <2>2, <2>3 DEF TypeOK, PollCq, sendVars, recvVars
<1>7. CASE Register(n) \/ Invalidate(n)
  <2>1. \A r \in Region : StagOf[r] \in Tag /\ r \in RegionOrNo /\ NoRegion \in RegionOrNo
    BY Zenon DEF Tag, RegionOrNo
  <2>2. PICK t \in Tag, r \in RegionOrNo : tags' = [tags EXCEPT ![n][t] = r]
    BY Zenon, <1>7, <2>1 DEF Register, Invalidate
  <2>3. tags' \in [Node -> [Tag -> RegionOrNo]]
    BY Zenon, <2>2 DEF TypeOK
  <2>. QED
    BY Zenon, <1>7, <2>3 DEF TypeOK, Register, Invalidate, sendVars, recvVars, appVars
<1>. QED
  BY Zenon, <1>2, <1>3, <1>4, <1>6, <1>7 DEF App

\* The steps of rnic_send.
LEMMA SendThreadType ==
  ASSUME TypeOK, NEW n \in Node, SendThread(n)
  PROVE  TypeOK'
<1>. DEFINE Pc == {"poll", "send", "complete", "exit", "killed"}
<1>1. CASE SendDequeue(n)
  <2>1. /\ sqApp \in [Node -> Seq(SendWr)] /\ sqRecv \in [Node -> Seq(SendWr)]
        /\ sreq \in [Node -> SendWr] /\ spc \in [Node -> Pc]
    BY Zenon DEF TypeOK
  <2>2. /\ sqApp' \in [Node -> Seq(SendWr)] /\ sqRecv' \in [Node -> Seq(SendWr)]
        /\ sreq' \in [Node -> SendWr]
    <3>1. CASE /\ sqApp[n] # <<>> /\ sreq' = [sreq EXCEPT ![n] = Head(sqApp[n])]
               /\ sqApp' = [sqApp EXCEPT ![n] = Tail(@)] /\ UNCHANGED sqRecv
      BY Zenon, <2>1, <3>1, TailAt
    <3>2. CASE /\ sqRecv[n] # <<>> /\ sreq' = [sreq EXCEPT ![n] = Head(sqRecv[n])]
               /\ sqRecv' = [sqRecv EXCEPT ![n] = Tail(@)] /\ UNCHANGED sqApp
      BY Zenon, <2>1, <3>2, TailAt
    <3>. QED
      BY Zenon, <1>1, <3>1, <3>2 DEF SendDequeue
  <2>3. spc' \in [Node -> Pc]
    BY Zenon, <1>1, <2>1 DEF SendDequeue
  <2>. QED
    BY Zenon, <1>1, <2>2, <2>3 DEF TypeOK, SendDequeue, recvVars, appVars
<1>2. CASE SendTransmit(n)
  <2>0. net \in [Node -> Seq(Message)]
    BY Zenon DEF TypeOK
  <2>1. /\ sreq[n] \in SendWr
        /\ spc \in [Node -> Pc] /\ sret \in [Node -> BOOLEAN]
    BY Zenon DEF TypeOK
  <2>2. MessageOf(n, sreq[n]) \in Message /\ Peer(n) \in Node
    BY Zenon, <2>1, MessageOfType, PeerType
  <2>3. [net EXCEPT ![Peer(n)] = Append(@, MessageOf(n, sreq[n]))] \in [Node -> Seq(Message)]
    BY <2>0, <2>2, AppendAt, Zenon
  <2>4. net' \in [Node -> Seq(Message)]
    BY Zenon, <1>2, <2>0, <2>3 DEF SendTransmit
  <2>5. spc' \in [Node -> Pc] /\ sret' \in [Node -> BOOLEAN]
    BY Zenon, <1>2, <2>1 DEF SendTransmit, PollAgain
  <2>6. msn' \in [Node -> [MsnClasses -> 0..(MsnMod - 1)]]
    BY Zenon, <1>2, CountMsnType DEF SendTransmit
  <2>. QED
    BY Zenon, <1>2, <2>4, <2>5, <2>6 DEF TypeOK, SendTransmit, recvVars, appVars
<1>3. CASE SendReject(n)
  <2>1. msn' \in [Node -> [MsnClasses -> 0..(MsnMod - 1)]]
    BY Zenon, <1>3, CountMsnType DEF SendReject
  <2>2. spc' \in [Node -> Pc]
    BY Zenon, <1>3 DEF SendReject, PollAgain, TypeOK
  <2>. QED
    BY Zenon, <1>3, <2>1, <2>2 DEF TypeOK, SendReject, recvVars, appVars
<1>4. CASE SendComplete(n)
  <2>1. /\ cqSend \in [Node -> Seq(Wc)] /\ pendq \in [Node -> Seq(Wc)]
        /\ sreq[n] \in SendWr /\ sret[n] \in BOOLEAN
    BY Zenon DEF TypeOK
  <2>2. WceOf(n) \in Wc
    BY Zenon, <2>1 DEF WceOf, Wc, SendWr
  <2>3. /\ [pendq EXCEPT ![n] = Append(@, WceOf(n))] \in [Node -> Seq(Wc)]
        /\ [cqSend EXCEPT ![n] = Append(@, WceOf(n))] \in [Node -> Seq(Wc)]
    BY <2>1, <2>2, AppendAt, Zenon
  <2>5. cqSend' \in [Node -> Seq(Wc)] /\ pendq' \in [Node -> Seq(Wc)]
    BY Zenon, <1>4, <2>1, <2>3 DEF SendComplete
  <2>4. spc' \in [Node -> Pc]
    <3>1. spc \in [Node -> Pc] /\ PollAgain(n) \in Pc /\ spc' = [spc EXCEPT ![n] = PollAgain(n)]
      BY Zenon, <1>4 DEF SendComplete, PollAgain, TypeOK
    <3>. QED BY Zenon, <3>1
  <2>. QED
    BY Zenon, <1>4, <2>5, <2>4 DEF TypeOK, SendComplete, recvVars, appVars
<1>5. CASE SendExit(n) \/ SendKilled(n)
  <2>1. spc' \in [Node -> Pc]
    <3>1. spc \in [Node -> Pc] /\ \E c \in Pc : spc' = [spc EXCEPT ![n] = c]
      BY Zenon, <1>5 DEF SendExit, SendKilled, TypeOK
    <3>. QED BY Zenon, <3>1
  <2>. QED
    BY Zenon, <1>5, <2>1 DEF TypeOK, SendExit, SendKilled, recvVars, appVars
<1>. QED
  BY Zenon, <1>1, <1>2, <1>3, <1>4, <1>5 DEF SendThread

\* ddp_recv.
LEMMA DdpRecvType ==
  ASSUME TypeOK, NEW n \in Node, RecvTagged(n) \/ RecvError(n) \/ RecvUntagged(n)
  PROVE  TypeOK'
<1>. DEFINE Pc == {"recv", "handle", "exit", "dead", "cut"}
<1>0. /\ net \in [Node -> Seq(Message)] /\ rmsg \in [Node -> Message]
      /\ rpc \in [Node -> Pc] /\ ubuf \in [Node -> Buffer]
      /\ mem \in [Node -> [Region -> Val]] /\ placed \subseteq Node \X Nat
      /\ got \in [Node -> SUBSET Match] /\ utq \in [Node -> [Queues -> Seq(Buffer)]]
  BY Zenon DEF TypeOK
<1>1. ASSUME net[n] # <<>>
      PROVE  /\ Head(net[n]) \in Message
             /\ [net EXCEPT ![n] = Tail(@)] \in [Node -> Seq(Message)]
  BY <1>0, <1>1, TailAt, Zenon
<1>2. Garbage \in Buffer
  BY Zenon DEF Garbage, Buffer, RegionOrNo
<1>3. CASE RecvTagged(n)
  <2>1. PICK m \in Message :
          /\ mem' = [mem EXCEPT ![n][m.to] = m.data] /\ m.to \in Region
          /\ placed' = placed \cup {<<IF m.op = "WRITE" THEN Peer(n) ELSE n, m.of>>}
          /\ rmsg' = [rmsg EXCEPT ![n] = m]
    BY Zenon, <1>1, <1>3 DEF RecvTagged, StagOk
  <2>2. m.data \in Val /\ m.of \in Nat
    BY Zenon DEF Message
  <2>3. mem' \in [Node -> [Region -> Val]]
    BY Zenon, <1>0, <2>1, <2>2
  <2>4. placed' \subseteq Node \X Nat
    BY <1>0, <2>1, <2>2, PeerType
  <2>5. net' \in [Node -> Seq(Message)]
    BY Zenon, <1>1, <1>3 DEF RecvTagged
  <2>6. rmsg' \in [Node -> Message] /\ ubuf' \in [Node -> Buffer] /\ rpc' \in [Node -> Pc]
    BY <1>0, <1>2, <1>3, <2>1 DEF RecvTagged
  <2>. QED
    BY Zenon, <1>3, <2>3, <2>4, <2>5, <2>6 DEF TypeOK, RecvTagged, sendVars, appVars
<1>4. CASE RecvError(n)
  <2>1. net' \in [Node -> Seq(Message)]
    BY Zenon, <1>0, <1>1, <1>4 DEF RecvError
  <2>2. rpc' \in [Node -> Pc]
    BY Zenon, <1>0, <1>4 DEF RecvError
  <2>3. mem' \in [Node -> [Region -> Val]]
    <3>1. Head(net[n]) \in Message => Head(net[n]).data \in Val
      BY Zenon DEF Message
    <3>2. \/ mem' = mem
          \/ \E r \in Region, v \in Val : mem' = [mem EXCEPT ![n][r] = v]
      BY Zenon, <1>1, <1>4, <3>1 DEF RecvError, StagOk
    <3>3. ASSUME NEW r \in Region, NEW v \in Val, mem' = [mem EXCEPT ![n][r] = v]
          PROVE  mem' \in [Node -> [Region -> Val]]
      BY Zenon, <1>0, <3>3
    <3>. QED
      BY Zenon, <1>0, <3>2, <3>3
  <2>. QED
    BY Zenon, <1>4, <2>1, <2>2, <2>3 DEF TypeOK, RecvError, sendVars, appVars
<1>5. CASE RecvUntagged(n)
  <2>. DEFINE m == Head(net[n])
              q == Qn(m.op)
              b == NextBuffer(n, q)
  <2>1. m \in Message /\ m.data \in Val /\ m.of \in Nat /\ q \in Queues
    BY Zenon, <1>1, <1>5 DEF RecvUntagged, Message, Qn, Queues
  <2>2. utq[n][q] \in Seq(Buffer)
    BY Zenon, <1>0, <2>1
  <2>3. ASSUME utq[n][q] # <<>> PROVE Head(utq[n][q]) \in Buffer /\ Tail(utq[n][q]) \in Seq(Buffer)
    BY Zenon, <2>2, <2>3, TailType
  <2>4. b \in Buffer
    BY Zenon, <1>0, <2>3 DEF NextBuffer
  <2>5. /\ (utq' = [utq EXCEPT ![n][q] = Tail(utq[n][q])] /\ utq[n][q] # <<>>) \/ utq' = utq
        /\ ubuf' = [ubuf EXCEPT ![n] = b] /\ rmsg' = [rmsg EXCEPT ![n] = m]
        /\ \/ b.addr \in Region /\ mem' = [mem EXCEPT ![n][b.addr] = m.data]
              /\ got' = [got EXCEPT ![n] = @ \cup {<<b.rid, m.of>>}]
           \/ mem' = mem /\ got' = got
        /\ \E pc \in Pc : rpc' = [rpc EXCEPT ![n] = pc]
    BY Zenon, <1>5 DEF RecvUntagged
  <2>6. net' \in [Node -> Seq(Message)]
    BY Zenon, <1>1, <1>5 DEF RecvUntagged
  <2>7. <<b.rid, m.of>> \in Match
    BY Zenon, <2>1, <2>4 DEF Buffer, Match
  <2>. HIDE DEF m, q, b
  <2>8. utq' \in [Node -> [Queues -> Seq(Buffer)]]
    <3>1. PICK t \in Seq(Buffer) : utq' = utq \/ utq' = [utq EXCEPT ![n][q] = t]
      BY Zenon, <2>2, <2>3, <2>5
    <3>2. [utq EXCEPT ![n][q] = t] \in [Node -> [Queues -> Seq(Buffer)]]
      BY Zenon, <1>0, <2>1, QueueAt
    <3>. QED
      BY Zenon, <1>0, <3>1, <3>2
  <2>9. mem' \in [Node -> [Region -> Val]] /\ got' \in [Node -> SUBSET Match]
    <3>1. CASE mem' = mem /\ got' = got
      BY Zenon, <1>0, <3>1
    <3>2. CASE b.addr \in Region /\ mem' = [mem EXCEPT ![n][b.addr] = m.data]
               /\ got' = [got EXCEPT ![n] = @ \cup {<<b.rid, m.of>>}]
      <4>1. PICK r \in Region, v \in Val, x \in Match :
              /\ mem' = [mem EXCEPT ![n][r] = v]
              /\ got' = [got EXCEPT ![n] = @ \cup {x}]
        BY Zenon, <2>1, <2>7, <3>2
      <4>2. mem' \in [Node -> [Region -> Val]]
        BY Zenon, <1>0, <4>1
      <4>3. got' \in [Node -> SUBSET Match]
        BY Zenon, <1>0, <4>1
      <4>. QED BY Zenon, <4>2, <4>3
    <3>. QED
      BY Zenon, <2>5, <3>1, <3>2
  <2>10. ubuf' \in [Node -> Buffer] /\ rmsg' \in [Node -> Message] /\ rpc' \in [Node -> Pc]
    BY Zenon, <1>0, <2>1, <2>4, <2>5
  <2>. QED
    BY Zenon, <1>5, <2>6, <2>8, <2>9, <2>10 DEF TypeOK, RecvUntagged, sendVars, appVars
<1>. QED
  BY Zenon, <1>3, <1>4, <1>5

\* The switch over the opcode in rnic_recv.
LEMMA CompleteRecvType ==
  ASSUME TypeOK, NEW n \in Node, CompleteRecv(n)
  PROVE  rq' \in [Node -> Seq(Nat)] /\ cqRecv' \in [Node -> Seq(Wc)]
<1>. DEFINE w == [id |-> Head(rq[n]), op |-> rmsg[n].op, ok |-> TRUE, of |-> rmsg[n].of]
<1>1. rq \in [Node -> Seq(Nat)] /\ cqRecv \in [Node -> Seq(Wc)] /\ rmsg[n] \in Message
  BY Zenon DEF TypeOK
<1>2. CASE rq[n] = <<>>
  BY Zenon, <1>1, <1>2 DEF CompleteRecv
<1>3. CASE rq[n] # <<>>
  <2>1. [rq EXCEPT ![n] = Tail(@)] \in [Node -> Seq(Nat)] /\ Head(rq[n]) \in Nat
    BY <1>1, <1>3, TailAt, Zenon
  <2>2. w \in Wc
    BY Zenon, <1>1, <2>1 DEF Wc, Message
  <2>3. rq' = [rq EXCEPT ![n] = Tail(@)] /\ cqRecv' = [cqRecv EXCEPT ![n] = Append(@, w)]
    BY Zenon, <1>3 DEF CompleteRecv
  <2>. HIDE DEF w
  <2>4. [cqRecv EXCEPT ![n] = Append(@, w)] \in [Node -> Seq(Wc)]
    BY <1>1, <2>2, AppendAt, Zenon
  <2>. QED
    BY Zenon, <2>1, <2>3, <2>4
<1>. QED
  BY Zenon, <1>2, <1>3

\* The handlers of rnic_recv keep the types.
LEMMA HandlerType ==
  ASSUME TypeOK, NEW n \in Node,
         \/ HandleWrite(n) \/ HandleReadReq(n) \/ HandleReadResp(n)
         \/ HandleSend(n) \/ HandleSendInval(n) \/ HandleTerminate(n)
  PROVE  TypeOK'
<1>. DEFINE Pc == {"recv", "handle", "exit", "dead", "cut"}
<1>0. /\ rpc \in [Node -> Pc] /\ rmsg[n] \in Message /\ ubuf[n] \in Buffer
      /\ connected \in [Node -> BOOLEAN] /\ tags \in [Node -> [Tag -> RegionOrNo]]
      /\ pendq \in [Node -> Seq(Wc)] /\ cqRecv \in [Node -> Seq(Wc)]
      /\ sqRecv \in [Node -> Seq(SendWr)] /\ rsg \in [Node -> RegionOrNo]
      /\ utq \in [Node -> [Queues -> Seq(Buffer)]]
  BY Zenon DEF TypeOK
<1>1. LoopAgain(n) \in [Node -> Pc]
  BY Zenon, <1>0 DEF LoopAgain
<1>2. CASE HandleWrite(n)
  BY Zenon, <1>1, <1>2 DEF TypeOK, HandleWrite, sendVars, appVars
<1>3. CASE HandleReadReq(n)
  <2>. DEFINE w == [op |-> "READ_RESP", id |-> rmsg[n].of, lbuf |-> NoRegion,
                    rbuf |-> rmsg[n].to, nsge |-> 1]
  <2>1. w \in SendWr /\ ReadSource(rmsg[n]) \in RegionOrNo
    BY Zenon, <1>0 DEF SendWr, Message, Opcode, TaggedOps, RegionOrNo, ReadSource
  <2>2. sqRecv' = [sqRecv EXCEPT ![n] = Append(@, w)]
    BY Zenon, <1>3 DEF HandleReadReq
  <2>. HIDE DEF w
  <2>3. [sqRecv EXCEPT ![n] = Append(@, w)] \in [Node -> Seq(SendWr)]
    BY <1>0, <2>1, AppendAt, Zenon
  <2>4. "READ_QN" \in Queues /\ Replenished(n) \in Seq(Buffer)
    BY <1>0 DEF Replenished, Queues
  <2>5. utq' \in [Node -> [Queues -> Seq(Buffer)]]
    BY Zenon, <1>0, <1>3, <2>4, QueueAt DEF HandleReadReq
  <2>6. rsg' \in [Node -> RegionOrNo]
    BY Zenon, <1>0, <1>3, <2>1 DEF HandleReadReq
  <2>. QED
    BY Zenon, <1>1, <1>3, <2>2, <2>3, <2>5, <2>6 DEF TypeOK, HandleReadReq, sendVars, appVars
<1>4. CASE HandleReadResp(n)
  <2>1. pendq' \in [Node -> Seq(Wc)] /\ cqRecv' \in [Node -> Seq(Wc)]
    <3>1. CASE pendq[n] = <<>>
      BY Zenon, <1>0, <1>4, <3>1 DEF HandleReadResp
    <3>2. CASE pendq[n] # <<>>
      <4>1. [pendq EXCEPT ![n] = Tail(@)] \in [Node -> Seq(Wc)] /\ Head(pendq[n]) \in Wc
        BY <1>0, <3>2, TailAt, Zenon
      <4>2. [cqRecv EXCEPT ![n] = Append(@, Head(pendq[n]))] \in [Node -> Seq(Wc)]
        BY <1>0, <4>1, AppendAt, Zenon
      <4>. QED
        BY Zenon, <1>4, <3>2, <4>1, <4>2 DEF HandleReadResp
    <3>. QED BY Zenon, <3>1, <3>2
  <2>. QED
    BY Zenon, <1>1, <1>4, <2>1 DEF TypeOK, HandleReadResp, sendVars, appVars
<1>5. CASE HandleSend(n)
  <2>1. rq' \in [Node -> Seq(Nat)] /\ cqRecv' \in [Node -> Seq(Wc)]
    BY Zenon, <1>5, CompleteRecvType DEF HandleSend
  <2>. QED
    BY Zenon, <1>1, <1>5, <2>1 DEF TypeOK, HandleSend, sendVars, appVars
<1>6. CASE HandleSendInval(n)
  <2>1. rq' \in [Node -> Seq(Nat)] /\ cqRecv' \in [Node -> Seq(Wc)]
    <3>1. CASE CompleteRecv(n)
      BY Zenon, <3>1, CompleteRecvType
    <3>2. CASE UNCHANGED <<rq, cqRecv>>
      BY Zenon, <3>2 DEF TypeOK
    <3>. QED BY Zenon, <1>6, <3>1, <3>2 DEF HandleSendInval
  <2>2. tags' \in [Node -> [Tag -> RegionOrNo]]
    <3>1. NoRegion \in RegionOrNo
      BY Zenon DEF RegionOrNo
    <3>2. CASE tags' = tags
      BY Zenon, <1>0, <3>2
    <3>3. ASSUME NEW t \in Tag, tags' = [tags EXCEPT ![n][t] = NoRegion]
          PROVE  tags' \in [Node -> [Tag -> RegionOrNo]]
      BY Zenon, <1>0, <3>1, <3>3
    <3>. QED
      BY Zenon, <1>6, <3>2, <3>3 DEF HandleSendInval
  <2>3. rpc' \in [Node -> Pc]
    BY Zenon, <1>0, <1>1, <1>6 DEF HandleSendInval
  <2>. QED
    BY Zenon, <1>6, <2>1, <2>2, <2>3 DEF TypeOK, HandleSendInval, sendVars, appVars
<1>7. CASE HandleTerminate(n)
  <2>1. connected' \in [Node -> BOOLEAN] /\ rpc' \in [Node -> Pc]
    BY Zenon, <1>0, <1>7 DEF HandleTerminate
  <2>. QED
    BY Zenon, <1>7, <2>1 DEF TypeOK, HandleTerminate, sendVars, appVars
<1>. QED
  BY Zenon, <1>2, <1>3, <1>4, <1>5, <1>6, <1>7

\* The environment.
LEMMA EnvironmentType ==
  ASSUME TypeOK, Reset \/ \E n \in Node : PeerTerminates(n)
  PROVE  TypeOK'
<1>0. net \in [Node -> Seq(Message)]
  BY Zenon DEF TypeOK
<1>1. CASE Reset
  <2>1. PICK c \in 0..Len(net["client"]), s \in 0..Len(net["server"]) :
          net' = [n \in Node |-> SubSeq(net[n], 1, IF n = "client" THEN c ELSE s)]
    BY Zenon, <1>1 DEF Reset
  <2>2. ASSUME NEW n \in Node, NEW k \in 0..Len(net[n])
        PROVE  SubSeq(net[n], 1, k) \in Seq(Message)
    BY <1>0
  <2>3. \A n \in Node : SubSeq(net[n], 1, IF n = "client" THEN c ELSE s) \in Seq(Message)
    BY Zenon, <2>2 DEF Node
  <2>4. net' \in [Node -> Seq(Message)]
    BY Zenon, <2>1, <2>3
  <2>. QED
    BY Zenon, <1>1, <2>4 DEF TypeOK, Reset, sendVars, recvVars, appVars
<1>2. ASSUME NEW n \in Node, PeerTerminates(n) PROVE TypeOK'
  <2>. DEFINE m == [NoMessage EXCEPT !.msn = 1]
  <2>1. m \in Message
    BY Zenon DEF NoMessage, Message, Opcode, RegionOrNo, Val, Node
  <2>2. net' = [net EXCEPT ![n] = Append(@, m)]
    BY Zenon, <1>2 DEF PeerTerminates
  <2>. HIDE DEF m
  <2>3. [net EXCEPT ![n] = Append(@, m)] \in [Node -> Seq(Message)]
    BY <1>0, <2>1, AppendAt, Zenon
  <2>. QED
    BY Zenon, <1>2, <2>2, <2>3 DEF TypeOK, PeerTerminates, sendVars, recvVars, appVars
<1>. QED
  BY Zenon, <1>1, <1>2

\* Every reachable state is well typed, for every set of regions, requests and
\* bounds: the queues of rdmap.cpp never hold an ill-formed element and the
\* static msn counters stay in their 32 bits.
THEOREM TypeCorrect == Spec => []TypeOK
<1>1. TypeOK /\ [Next]_vars => TypeOK'
  <2>. SUFFICES ASSUME TypeOK, [Next]_vars PROVE TypeOK'
    BY Zenon
  <2>1. CASE UNCHANGED vars
    BY Zenon, <2>1 DEF TypeOK, vars, sendVars, recvVars, appVars
  <2>2. CASE Next
    BY Zenon, <2>2, AppType, SendThreadType, DdpRecvType, HandlerType, EnvironmentType
       DEF Next, Process, RecvThread
  <2>. QED BY Zenon, <2>1, <2>2
<1>. QED
  BY InitType, <1>1, PTL DEF Spec

-----------------------------------------------------------------------------
(* The read buffers of untagged queue 1.                                   *)

Conserved(free, held) ==
  /\ \A i, j \in DOMAIN free : free[i] = free[j] => i = j
  /\ Items(free) \cup held = {ReadBuf(i) : i \in 1..MaxPendingReads}
  /\ Items(free) \cap held = {}

\* Taking the first buffer, as ddp_recv does.
LEMMA ConservedTake ==
  ASSUME NEW free \in Seq(Buffer), Conserved(free, {})
  PROVE  /\ free # <<>> /\ Head(free) # Garbage
         /\ Conserved(Tail(free), {Head(free)})
<1>1. ReadBuf(1) \in Items(free)
  BY ReadsAssumption DEF Conserved
<1>2. free # <<>>
  BY <1>1 DEF Items
<1>3. /\ DOMAIN free = 1..Len(free) /\ Len(free) \in Nat \ {0}
      /\ DOMAIN Tail(free) = 1..(Len(free) - 1)
      /\ \A i \in 1..(Len(free) - 1) : Tail(free)[i] = free[i + 1]
      /\ Head(free) = free[1]
  BY <1>2
<1>4. Items(free) = Items(Tail(free)) \cup {Head(free)}
  <2>1. \A x \in Items(free) : x \in Items(Tail(free)) \cup {Head(free)}
    <3>. SUFFICES ASSUME NEW i \in 1..Len(free), i # 1 PROVE free[i] \in Items(Tail(free))
      BY <1>3 DEF Items
    <3>1. i - 1 \in 1..(Len(free) - 1) /\ Tail(free)[i - 1] = free[i]
      BY <1>3
    <3>. QED BY Zenon, <1>3, <3>1 DEF Items
  <2>2. \A x \in Items(Tail(free)) \cup {Head(free)} : x \in Items(free)
    BY <1>3 DEF Items
  <2>. QED BY Zenon, <2>1, <2>2
<1>5. \A i, j \in DOMAIN Tail(free) : Tail(free)[i] = Tail(free)[j] => i = j
  BY <1>3 DEF Conserved
<1>6. Head(free) \notin Items(Tail(free))
  BY <1>3 DEF Conserved, Items
<1>7. Head(free) # Garbage
  <2>1. Head(free) \in {ReadBuf(i) : i \in 1..MaxPendingReads}
    BY Zenon, <1>4 DEF Conserved
  <2>2. PICK i \in 1..MaxPendingReads : Head(free) = ReadBuf(i)
    BY Zenon, <2>1
  <2>3. Head(free).rid = i /\ Garbage.rid = 0
    BY <2>2 DEF ReadBuf, Garbage
  <2>. QED BY <2>3, ReadsAssumption
<1>. QED
  BY Zenon, <1>2, <1>4, <1>5, <1>6, <1>7 DEF Conserved

\* Putting the held buffer back, as the READ_REQ arm of rnic_recv does.
LEMMA ConservedPut ==
  ASSUME NEW free \in Seq(Buffer), NEW b \in Buffer, Conserved(free, {b})
  PROVE  Conserved(Append(free, b), {})
<1>1. /\ DOMAIN free = 1..Len(free) /\ Len(free) \in Nat
      /\ DOMAIN Append(free, b) = 1..(Len(free) + 1)
      /\ \A i \in 1..Len(free) : Append(free, b)[i] = free[i]
      /\ Append(free, b)[Len(free) + 1] = b
  OBVIOUS
<1>2. b \notin Items(free)
  BY Zenon DEF Conserved
<1>3. \A i, j \in DOMAIN Append(free, b) : Append(free, b)[i] = Append(free, b)[j] => i = j
  <2>. SUFFICES ASSUME NEW i \in 1..(Len(free) + 1), NEW j \in 1..(Len(free) + 1),
                       Append(free, b)[i] = Append(free, b)[j]
                PROVE  i = j
    BY Zenon, <1>1
  <2>1. CASE i \in 1..Len(free) /\ j \in 1..Len(free)
    BY Zenon, <1>1, <2>1 DEF Conserved
  <2>2. CASE i = Len(free) + 1 \/ j = Len(free) + 1
    BY <1>1, <1>2, <2>2 DEF Items
  <2>. QED BY <1>1, <2>1, <2>2
<1>4. Items(Append(free, b)) = Items(free) \cup {b}
  BY <1>1 DEF Items
<1>. QED
  BY Zenon, <1>3, <1>4 DEF Conserved

RBC(n) == Conserved(utq[n]["READ_QN"], HeldReadBuffer(n))

\* As many read buffers are in place as the queue was filled with.
LEMMA RBCInit == Init => \A n \in Node : RBC(n)
<1>. SUFFICES ASSUME Init, NEW n \in Node PROVE RBC(n)
  BY Zenon
<1>. DEFINE rb == [i \in 1..MaxPendingReads |-> ReadBuf(i)]
<1>1. utq[n]["READ_QN"] = rb /\ HeldReadBuffer(n) = {}
  BY Zenon DEF Init, Queues, HeldReadBuffer
<1>2. \A i, j \in DOMAIN rb : rb[i] = rb[j] => i = j
  BY Zenon DEF ReadBuf
<1>3. Items(rb) = {ReadBuf(i) : i \in 1..MaxPendingReads}
  BY Zenon DEF Items
<1>. HIDE DEF rb
<1>. QED
  BY Zenon, <1>1, <1>2, <1>3 DEF RBC, Conserved

\* A step that leaves queue 1 and the buffer held as they are.
LEMMA RBCFrame ==
  ASSUME NEW k \in Node, RBC(k), utq'[k]["READ_QN"] = utq[k]["READ_QN"],
         HeldReadBuffer(k)' = HeldReadBuffer(k)
  PROVE  RBC(k)'
BY Zenon DEF RBC

\* rnic_recv takes a read buffer for a Read Request and puts one back.
LEMMA RBCRecv ==
  ASSUME TypeOK, NEW n \in Node, NEW k \in Node, RBC(k), RecvThread(n)
  PROVE  RBC(k)'
<1>0. /\ rpc \in [Node -> {"recv", "handle", "exit", "dead", "cut"}] /\ rmsg \in [Node -> Message]
      /\ ubuf \in [Node -> Buffer] /\ utq \in [Node -> [Queues -> Seq(Buffer)]]
      /\ "READ_QN" \in Queues
  BY Zenon DEF TypeOK, Queues
<1>1. CASE k # n
  <2>1. /\ rpc'[k] = rpc[k] /\ rmsg'[k] = rmsg[k] /\ ubuf'[k] = ubuf[k]
    BY Zenon, <1>0, <1>1 DEF RecvThread, RecvTagged, RecvError, RecvUntagged, HandleWrite, HandleReadReq,
       HandleReadResp, HandleSend, HandleSendInval, HandleTerminate, LoopAgain
  <2>2. utq'[k] = utq[k]
    BY Zenon, <1>0, <1>1 DEF RecvThread, RecvTagged, RecvError, RecvUntagged, HandleWrite, HandleReadReq,
       HandleReadResp, HandleSend, HandleSendInval, HandleTerminate
  <2>. QED
    BY Zenon, <2>1, <2>2, RBCFrame DEF HeldReadBuffer
<1>2. CASE k = n
  <2>1. CASE RecvTagged(n)
    <3>1. utq' = utq /\ HeldReadBuffer(n) = {} /\ HeldReadBuffer(n)' = {}
      BY Zenon, <1>0, <2>1 DEF RecvTagged, HeldReadBuffer, TaggedOps
    <3>. QED BY Zenon, <1>2, <3>1, RBCFrame
  <2>2. CASE RecvError(n)
    <3>1. utq' = utq /\ HeldReadBuffer(n) = {} /\ HeldReadBuffer(n)' = {}
      BY Zenon, <1>0, <2>2 DEF RecvError, HeldReadBuffer
    <3>. QED BY Zenon, <1>2, <3>1, RBCFrame
  <2>3. CASE RecvUntagged(n)
    <3>. DEFINE m == Head(net[n])
                free == utq[n]["READ_QN"]
    <3>1. HeldReadBuffer(n) = {} /\ rmsg'[n] = m
      BY Zenon, <1>0, <2>3 DEF RecvUntagged, HeldReadBuffer
    <3>2. CASE m.op = "READ_REQ"
      <4>1. free \in Seq(Buffer) /\ Conserved(free, {})
        BY Zenon, <1>0, <1>2, <3>1 DEF RBC
      <4>2. free # <<>> /\ Head(free) # Garbage /\ Conserved(Tail(free), {Head(free)})
        BY Zenon, <4>1, ConservedTake
      <4>3. Qn(m.op) = "READ_QN" /\ NextBuffer(n, Qn(m.op)) = Head(free)
        BY Zenon, <3>2, <4>2 DEF Qn, NextBuffer
      <4>4. utq' = [utq EXCEPT ![n]["READ_QN"] = Tail(@)]
        BY Zenon, <2>3, <4>2, <4>3 DEF RecvUntagged
      <4>5. utq'[n]["READ_QN"] = Tail(free)
        BY Zenon, <1>0, <4>4
      <4>6. ubuf'[n] = Head(free) /\ rpc'[n] \in {"handle", "cut"}
        BY Zenon, <1>0, <2>3, <4>2, <4>3 DEF RecvUntagged
      <4>7. HeldReadBuffer(n)' = {Head(free)}
        BY Zenon, <3>1, <3>2, <4>6 DEF HeldReadBuffer
      <4>. QED BY Zenon, <1>2, <4>2, <4>5, <4>7 DEF RBC
    <3>3. CASE m.op # "READ_REQ"
      <4>1. HeldReadBuffer(n)' = {}
        BY Zenon, <3>1, <3>3 DEF HeldReadBuffer
      <4>2. Qn(m.op) # "READ_QN"
        BY Zenon, <3>3 DEF Qn
      <4>3. utq'[n]["READ_QN"] = free
        BY Zenon, <1>0, <2>3, <4>2 DEF RecvUntagged
      <4>. QED BY Zenon, <1>2, <3>1, <4>1, <4>3, RBCFrame
    <3>. QED BY Zenon, <3>2, <3>3
  <2>4. CASE HandleReadReq(n)
    <3>1. HeldReadBuffer(n) = {ubuf[n]} /\ HeldReadBuffer(n)' = {}
      BY Zenon, <1>0, <2>4 DEF HandleReadReq, HeldReadBuffer, LoopAgain
    <3>2. utq'[n]["READ_QN"] = Append(utq[n]["READ_QN"], ubuf[n])
      BY Zenon, <1>0, <2>4 DEF HandleReadReq, Replenished
    <3>3. utq[n]["READ_QN"] \in Seq(Buffer) /\ ubuf[n] \in Buffer
      BY Zenon, <1>0
    <3>4. Conserved(Append(utq[n]["READ_QN"], ubuf[n]), {})
      BY Zenon, <1>2, <3>1, <3>3, ConservedPut DEF RBC
    <3>. QED BY Zenon, <1>2, <3>1, <3>2, <3>4 DEF RBC
  <2>5. CASE \/ HandleWrite(n) \/ HandleReadResp(n) \/ HandleSend(n)
             \/ HandleSendInval(n) \/ HandleTerminate(n)
    <3>1. utq' = utq
      BY Zenon, <2>5 DEF HandleWrite, HandleReadResp, HandleSend, HandleSendInval, HandleTerminate
    <3>2. rmsg[n].op # "READ_REQ" /\ rmsg' = rmsg
      BY Zenon, <2>5 DEF HandleWrite, HandleReadResp, HandleSend, HandleSendInval, HandleTerminate,
         SendOps, InvalOps
    <3>3. HeldReadBuffer(n) = {} /\ HeldReadBuffer(n)' = {}
      BY Zenon, <3>2 DEF HeldReadBuffer
    <3>. QED BY Zenon, <1>2, <3>1, <3>3, RBCFrame
  <2>. QED
    BY Zenon, <2>1, <2>2, <2>3, <2>4, <2>5 DEF RecvThread
<1>. QED
  BY Zenon, <1>1, <1>2

\* Untagged queue 1 never runs dry, never grows and never holds a buffer
\* twice, for every number of read buffers: ddp_recv always finds one for a
\* read request, and rnic_recv puts the same one back unless it failed to receive the
\* request, which was then its last message.
THEOREM ReadBuffersSafe == Spec => []ReadBuffersConserved
<1>. DEFINE Inv == \A k \in Node : RBC(k)
<1>1. TypeOK /\ Inv /\ [Next]_vars => Inv'
  <2>. SUFFICES ASSUME TypeOK, Inv, [Next]_vars, NEW k \in Node PROVE RBC(k)'
    BY Zenon
  <2>1. utq \in [Node -> [Queues -> Seq(Buffer)]]
    BY Zenon DEF TypeOK
  <2>2. ASSUME NEW n \in Node, PostRecvBuffers(n) PROVE RBC(k)'
    <3>1. utq'[k]["READ_QN"] = utq[k]["READ_QN"]
      BY <2>1, <2>2 DEF PostRecvBuffers
    <3>2. HeldReadBuffer(k)' = HeldReadBuffer(k)
      BY Zenon, <2>2 DEF PostRecvBuffers, HeldReadBuffer, recvVars
    <3>. QED BY Zenon, <3>1, <3>2, RBCFrame
  <2>3. ASSUME UNCHANGED <<utq, rpc, rmsg, ubuf>> PROVE RBC(k)'
    BY Zenon, <2>3, RBCFrame DEF HeldReadBuffer
  <2>4. CASE UNCHANGED vars \/ Reset
    BY Zenon, <2>3, <2>4 DEF vars, recvVars, Reset
  <2>5. ASSUME NEW n \in Node, App(n), ~PostRecvBuffers(n) PROVE RBC(k)'
    BY Zenon, <2>3, <2>5 DEF App, RdmapSend, RdmapWrite, RdmapRead, Post, PostRecvRequest, PollCq,
       Register, Invalidate, recvVars
  <2>6. ASSUME NEW n \in Node, SendThread(n) \/ PeerTerminates(n) PROVE RBC(k)'
    BY Zenon, <2>3, <2>6 DEF SendThread, SendDequeue, SendTransmit, SendReject, SendComplete, SendExit,
       SendKilled, PeerTerminates, recvVars
  <2>7. ASSUME NEW n \in Node, RecvThread(n) PROVE RBC(k)'
    BY Zenon, <2>7, RBCRecv
  <2>. QED
    BY Zenon, <2>2, <2>4, <2>5, <2>6, <2>7 DEF Next, Process
<1>2. Inv => ReadBuffersConserved
  BY Zenon DEF RBC, Conserved, ReadBuffersConserved
<1>3. Init => Inv
  BY Zenon, RBCInit
<1>. HIDE DEF Inv
<1>. QED
  BY TypeCorrect, <1>1, <1>2, <1>3, PTL DEF Spec

-----------------------------------------------------------------------------
(* The accounts of the send work requests.  Of the requests posted, those  *)
(* still in the send queue are the last ones, in order; every other one    *)
(* that rnic_send can process is in exactly one other place.               *)

\* a: the send queue; p: the requests posted.
InOrder(a, p) ==
  /\ Len(a) <= Len(p)
  /\ \A i \in 1..Len(a) : LET k == Len(p) - Len(a) + i IN
       a[i].id = k /\ a[i].op = p[k].op /\ a[i].nsge = p[k].nsge
Taken(a, p) == 1..(Len(p) - Len(a))

\* U: the requests taken from the send queue; S: the ones that must be kept;
\* T, P, C, R, D: in rnic_send, in `pending', completed by rnic_send, completed
\* by rnic_recv, polled.
Ledger(U, S, T, P, C, R, D) ==
  /\ T \subseteq U /\ P \subseteq U /\ C \subseteq U /\ R \subseteq U /\ D \subseteq U
  /\ S \subseteq T \cup P \cup C \cup R \cup D
  /\ T \cap (P \cup C \cup R \cup D) = {}
  /\ P \cap (C \cup R \cup D) = {} /\ C \cap (R \cup D) = {} /\ R \cap D = {}

AllOwn(s) == \A i \in DOMAIN s : s[i].of = 0
Kept(a, p) == {i \in Taken(a, p) : Sendable(p[i])}

Books(a, p, T, q, s, r, D) ==
  /\ InOrder(a, p)
  /\ AllOwn(q) /\ AllOwn(s)
  /\ NoRepeat(q) /\ NoRepeat(s) /\ NoRepeat(r)
  /\ Ledger(Taken(a, p), Kept(a, p), T, OwnIds(q), OwnIds(s), OwnIds(r), D)

Balanced(n) ==
  Books(sqApp[n], posted[n], InThread(n), pendq[n], cqSend[n], cqRecv[n], done[n])

\* What rnic_send holds is the request it last took from the application's
\* part of the send queue, or a read response.
InHand(n) ==
  /\ spc[n] = "send" => sreq[n].id # 0
  /\ spc[n] = "complete" => sreq[n].op # "READ_RESP"
  /\ spc[n] \in {"send", "complete"} /\ sreq[n].op # "READ_RESP" =>
       LET i == sreq[n].id IN
       /\ i = Len(posted[n]) - Len(sqApp[n])
       /\ sreq[n].op = posted[n][i].op /\ sreq[n].nsge = posted[n][i].nsge

\* A message that is not a Terminate names the request it comes from; all that
\* rnic_recv enqueues for rnic_send is read responses.
Named(m) == m.op # "TERMINATE" => m.of # 0
Response(w) == w.op = "READ_RESP" /\ w.id # 0
Sourced(n) ==
  /\ \A i \in DOMAIN net[n] : Named(net[n][i])
  /\ Named(rmsg[n])
  /\ \A i \in DOMAIN sqRecv[n] : Response(sqRecv[n][i])

Accounts == \A n \in Node : Balanced(n) /\ InHand(n) /\ Sourced(n)

\* Polling a completion queue takes one id out of it, which is not there again.
LEMMA OwnTail ==
  ASSUME NEW s \in Seq(Wc), s # <<>>, NoRepeat(s)
  PROVE  /\ Head(s).of = 0 => /\ OwnIds(s) = OwnIds(Tail(s)) \cup {Head(s).id}
                              /\ Head(s).id \notin OwnIds(Tail(s))
         /\ Head(s).of # 0 => OwnIds(s) = OwnIds(Tail(s))
         /\ NoRepeat(Tail(s))
         /\ AllOwn(s) => AllOwn(Tail(s)) /\ Head(s).of = 0
<1>. PICK z : z = Tail(s)
  BY Zenon
<1>1. /\ DOMAIN s = 1..Len(s) /\ Len(s) \in Nat \ {0} /\ DOMAIN z = 1..(Len(s) - 1)
      /\ \A i \in 1..(Len(s) - 1) : z[i] = s[i + 1]
      /\ Head(s) = s[1]
  OBVIOUS
<1>2. \A i \in DOMAIN s : i # 1 => i - 1 \in DOMAIN z /\ z[i - 1] = s[i]
  BY <1>1
<1>3. \A i \in DOMAIN z : i + 1 \in DOMAIN s /\ i + 1 # 1 /\ z[i] = s[i + 1]
  BY <1>1
<1>4. 1 \in DOMAIN s /\ \A i, j \in DOMAIN z : i + 1 = j + 1 => i = j
  BY <1>1
<1>a. ASSUME NEW x \in OwnIds(s), x \notin OwnIds(z) PROVE Head(s).of = 0 /\ x = Head(s).id
  <2>1. PICK i \in DOMAIN s : s[i].of = 0 /\ x = s[i].id
    BY Zenon DEF OwnIds
  <2>2. CASE i # 1
    <3>1. i - 1 \in DOMAIN z /\ z[i - 1] = s[i]
      BY Zenon, <1>2, <2>2
    <3>. PICK j : j = i - 1
      BY Zenon
    <3>. QED BY Zenon, <1>a, <2>1, <3>1 DEF OwnIds
  <2>. QED BY Zenon, <1>1, <2>1, <2>2
<1>b. OwnIds(z) \subseteq OwnIds(s)
  BY <1>3 DEF OwnIds
<1>c. Head(s).of = 0 => Head(s).id \in OwnIds(s)
  BY Zenon, <1>1, <1>4 DEF OwnIds
<1>5. Head(s).of = 0 => OwnIds(s) = OwnIds(z) \cup {Head(s).id}
  BY Zenon, <1>a, <1>b, <1>c
<1>6. Head(s).of = 0 => Head(s).id \notin OwnIds(z)
  BY <1>1, <1>3, <1>4 DEF OwnIds, NoRepeat
<1>7. Head(s).of # 0 => OwnIds(s) = OwnIds(z)
  BY Zenon, <1>a, <1>b
<1>8. NoRepeat(z)
  BY <1>3, <1>4 DEF NoRepeat
<1>9. AllOwn(s) => AllOwn(z) /\ Head(s).of = 0
  BY ZenonT(30), <1>1, <1>3, <1>4 DEF AllOwn
<1>. QED
  BY Zenon, <1>5, <1>6, <1>7, <1>8, <1>9

\* rnic_send dequeues the oldest request of the application.
LEMMA TakeInOrder ==
  ASSUME NEW a \in Seq(SendWr), NEW p \in Seq(Request), InOrder(a, p), a # <<>>
  PROVE  /\ InOrder(Tail(a), p) /\ Head(a).id \notin Taken(a, p)
         /\ Head(a).id = Len(p) - Len(Tail(a)) /\ Head(a).id \in 1..Len(p)
         /\ Head(a).op = p[Head(a).id].op /\ Head(a).nsge = p[Head(a).id].nsge
         /\ Taken(Tail(a), p) = Taken(a, p) \cup {Head(a).id}
         /\ Kept(Tail(a), p) \subseteq Kept(a, p) \cup {Head(a).id}
<1>. PICK b : b = Tail(a)
  BY Zenon
<1>1. /\ Len(a) \in Nat \ {0} /\ Len(p) \in Nat /\ Len(b) = Len(a) - 1
      /\ \A i \in 1..(Len(a) - 1) : b[i] = a[i + 1]
      /\ Head(a) = a[1]
  OBVIOUS
<1>2. Len(a) <= Len(p)
  BY Zenon DEF InOrder
<1>. PICK h : h = Len(p) - Len(a) + 1
  BY Zenon
<1>3. 1 \in 1..Len(a)
  BY <1>1
<1>4. Head(a).id = h /\ Head(a).op = p[h].op /\ Head(a).nsge = p[h].nsge
  BY Zenon, <1>1, <1>3 DEF InOrder
<1>5. h \in 1..Len(p) /\ h = Len(p) - Len(b)
  BY <1>1, <1>2
<1>6. h \notin Taken(a, p) /\ Taken(b, p) = Taken(a, p) \cup {h}
  BY <1>1, <1>2 DEF Taken
<1>7. Kept(b, p) \subseteq Kept(a, p) \cup {h}
  BY Zenon, <1>6 DEF Kept
<1>8. ASSUME NEW i \in 1..Len(b)
      PROVE  LET k == Len(p) - Len(b) + i IN
             b[i].id = k /\ b[i].op = p[k].op /\ b[i].nsge = p[k].nsge
  <2>. PICK k, j : k = Len(p) - Len(b) + i /\ j = i + 1
    BY Zenon
  <2>1. j \in 1..Len(a) /\ k = Len(p) - Len(a) + j /\ b[i] = a[j]
    BY <1>1
  <2>. QED BY Zenon, <2>1 DEF InOrder
<1>9. Len(b) <= Len(p)
  BY <1>1, <1>2
<1>. QED
  BY Zenon, <1>4, <1>5, <1>6, <1>7, <1>8, <1>9 DEF InOrder

\* A step that leaves the accounts of endpoint k alone.
Untouched(k) ==
  /\ sqApp'[k] = sqApp[k] /\ posted'[k] = posted[k] /\ spc'[k] = spc[k] /\ sreq'[k] = sreq[k]
  /\ pendq'[k] = pendq[k] /\ cqSend'[k] = cqSend[k] /\ cqRecv'[k] = cqRecv[k]
  /\ done'[k] = done[k]

\* The threads of an endpoint leave the other one's books alone.
LEMMA Elsewhere ==
  ASSUME TypeOK, NEW n \in Node, NEW k \in Node, k # n, App(n) \/ SendThread(n) \/ RecvThread(n)
  PROVE  Untouched(k)
<1>0. /\ DOMAIN sqApp = Node /\ DOMAIN posted = Node /\ DOMAIN spc = Node /\ DOMAIN sreq = Node
      /\ DOMAIN pendq = Node /\ DOMAIN cqSend = Node /\ DOMAIN cqRecv = Node
      /\ DOMAIN done = Node
  BY Zenon DEF TypeOK
<1>1. ASSUME NEW t, Post(n, t) PROVE Untouched(k)
  BY Zenon, <1>0, <1>1 DEF Post, Untouched, sendVars
<1>2. CASE PostRecvBuffers(n) \/ PostRecvRequest(n) \/ Register(n) \/ Invalidate(n)
  BY Zenon, <1>2 DEF PostRecvBuffers, PostRecvRequest, Register, Invalidate, Untouched, sendVars,
     appVars
<1>3. CASE PollCq(n)
  BY Zenon, <1>0, <1>3 DEF PollCq, Polled, Untouched, sendVars
<1>4. CASE App(n)
  BY Zenon, <1>1, <1>2, <1>3, <1>4 DEF App, RdmapSend, RdmapWrite, RdmapRead
<1>5. CASE SendDequeue(n) \/ SendComplete(n)
  BY Zenon, <1>0, <1>5 DEF SendDequeue, SendComplete, Untouched, appVars
<1>6. CASE SendTransmit(n) \/ SendReject(n) \/ SendExit(n) \/ SendKilled(n)
  BY Zenon, <1>0, <1>6 DEF SendTransmit, SendReject, SendExit, SendKilled, Untouched, appVars
<1>7. CASE \/ RecvTagged(n) \/ RecvError(n) \/ RecvUntagged(n) \/ HandleWrite(n)
           \/ HandleReadReq(n) \/ HandleTerminate(n)
  BY Zenon, <1>7 DEF RecvTagged, RecvError, RecvUntagged, HandleWrite, HandleReadReq,
     HandleTerminate, Untouched, sendVars, appVars
<1>8. CASE HandleReadResp(n)
  BY Zenon, <1>0, <1>8 DEF HandleReadResp, Untouched, sendVars, appVars
<1>9. CASE HandleSend(n) \/ HandleSendInval(n)
  BY Zenon, <1>0, <1>9 DEF HandleSend, HandleSendInval, CompleteRecv, Untouched, sendVars, appVars
<1>. QED
  BY Zenon, <1>4, <1>5, <1>6, <1>7, <1>8, <1>9 DEF SendThread, RecvThread

\* The requests in rnic_send were posted.
LEMMA HeldPosted ==
  ASSUME TypeOK, NEW n \in Node, Balanced(n), NEW x \in InThread(n)
  PROVE  x \in 1..Len(posted[n])
<1>1. x \in Taken(sqApp[n], posted[n])
  BY Zenon DEF Balanced, Books, Ledger
<1>2. sqApp[n] \in Seq(SendWr) /\ posted[n] \in Seq(Request)
  BY Zenon DEF TypeOK
<1>3. Len(sqApp[n]) \in Nat /\ Len(posted[n]) \in Nat
  BY <1>2
<1>. QED
  BY <1>1, <1>3 DEF Taken

\* Where messages and read responses come from.  First the queues.
LEMMA AllAppend ==
  ASSUME NEW S, NEW s \in Seq(S), NEW x \in S
  PROVE  \A i \in DOMAIN Append(s, x) :
           Append(s, x)[i] = x \/ (i \in DOMAIN s /\ Append(s, x)[i] = s[i])
OBVIOUS

\* The places of a queue without its head ...
LEMMA AllTail ==
  ASSUME NEW S, NEW s \in Seq(S), s # <<>>
  PROVE  /\ 1 \in DOMAIN s /\ Head(s) = s[1]
         /\ \A i \in DOMAIN Tail(s) : i + 1 \in DOMAIN s /\ Tail(s)[i] = s[i + 1]
OBVIOUS

AllNamed(s)  == \A i \in DOMAIN s : Named(s[i])
Responses(s) == \A i \in DOMAIN s : Response(s[i])

\* The accounts of the send work requests are right at every endpoint: what the
\* application posts (rdmap_send, rdmap_write, rdmap_read), rnic_send takes and
\* completes, and rnic_recv shifts from `pending' moves from one book to the next.
THEOREM AccountsKept == Spec => []Accounts
\* The queues of completions.
<1>OwnAppend.
  ASSUME NEW s \in Seq(Wc), NEW w \in Wc
  PROVE  /\ w.of = 0 => OwnIds(Append(s, w)) = OwnIds(s) \cup {w.id}
         /\ w.of # 0 => OwnIds(Append(s, w)) = OwnIds(s)
         /\ NoRepeat(s) /\ (w.of = 0 => w.id \notin OwnIds(s)) => NoRepeat(Append(s, w))
         /\ AllOwn(s) /\ w.of = 0 => AllOwn(Append(s, w))
  <2>. PICK z : z = Append(s, w)
    BY Zenon
  <2>1. /\ DOMAIN s = 1..Len(s) /\ Len(s) \in Nat /\ DOMAIN z = 1..(Len(s) + 1)
        /\ \A i \in 1..Len(s) : z[i] = s[i]
        /\ z[Len(s) + 1] = w
    OBVIOUS
  <2>2. \A i \in DOMAIN z : i = Len(s) + 1 \/ i \in DOMAIN s
    BY <2>1
  <2>3. \A i \in DOMAIN s : i \in DOMAIN z /\ z[i] = s[i]
    BY <2>1
  <2>4. Len(s) + 1 \in DOMAIN z /\ Len(s) + 1 \notin DOMAIN s
    BY <2>1
  <2>. PICK k : k = Len(s) + 1
    BY Zenon
  <2>5. /\ \A i \in DOMAIN z : i = k \/ i \in DOMAIN s
        /\ k \in DOMAIN z /\ k \notin DOMAIN s /\ z[k] = w
    BY Zenon, <2>1, <2>2, <2>4
  <2>6. w.of = 0 => OwnIds(z) = OwnIds(s) \cup {w.id}
    BY <2>3, <2>5 DEF OwnIds
  <2>7. w.of # 0 => OwnIds(z) = OwnIds(s)
    BY <2>3, <2>5 DEF OwnIds
  <2>8. NoRepeat(s) /\ (w.of = 0 => w.id \notin OwnIds(s)) => NoRepeat(z)
    BY <2>3, <2>5 DEF OwnIds, NoRepeat
  <2>9. AllOwn(s) /\ w.of = 0 => AllOwn(z)
    BY Zenon, <2>3, <2>5 DEF AllOwn
  <2>. QED
    BY Zenon, <2>6, <2>7, <2>8, <2>9

\* A request moves from one place to another.
<1>LedgerMoves.
  ASSUME NEW U, NEW S, NEW P, NEW C, NEW R, NEW D, NEW x
  PROVE  /\ Ledger(U, S, {x}, P, C, R, D) =>
              /\ Ledger(U, S, {}, P \cup {x}, C, R, D) /\ x \notin P
              /\ Ledger(U, S, {}, P, C \cup {x}, R, D) /\ x \notin C
              /\ x \notin S => Ledger(U, S, {}, P, C, R, D)
  BY Zenon DEF Ledger

\* A request whose completion is shifted moves from the pending ones to the
\* receive completions ...
<1>LedgerShift.
  ASSUME NEW U, NEW S, NEW T, NEW P, NEW C, NEW R, NEW D, NEW x, x \notin P,
         Ledger(U, S, T, P \cup {x}, C, R, D)
  PROVE  Ledger(U, S, T, P, C, R \cup {x}, D) /\ x \notin R
  BY Zenon, <1>LedgerShift DEF Ledger

\* ... one that is polled moves to the ones that are done ...
<1>LedgerPolls.
  ASSUME NEW U, NEW S, NEW T, NEW P, NEW C, NEW R, NEW D, NEW x
  PROVE  /\ Ledger(U, S, T, P, C \cup {x}, R, D) /\ x \notin C =>
              Ledger(U, S, T, P, C, R, D \cup {x})
         /\ Ledger(U, S, T, P, C, R \cup {x}, D) /\ x \notin R =>
              Ledger(U, S, T, P, C, R, D \cup {x})
  BY ZenonT(30) DEF Ledger

\* ... and one that rnic_send takes is in its hands.
<1>LedgerTake.
  ASSUME NEW U, NEW S, NEW V, NEW W, NEW P, NEW C, NEW R, NEW D, NEW x, x \notin U,
         V = U \cup {x}, W \subseteq S \cup {x}, Ledger(U, S, {}, P, C, R, D)
  PROVE  Ledger(V, W, {x}, P, C, R, D)
  BY Zenon, <1>LedgerTake DEF Ledger

\* rdmap_send, rdmap_write and rdmap_read enqueue at the end of the send queue.
<1>PostInOrder.
  ASSUME NEW a \in Seq(SendWr), NEW p \in Seq(Request), InOrder(a, p),
         NEW w \in SendWr, NEW t \in Request,
         w.id = Len(p) + 1, w.op = t.op, w.nsge = t.nsge
  PROVE  /\ InOrder(Append(a, w), Append(p, t))
         /\ Taken(Append(a, w), Append(p, t)) = Taken(a, p)
         /\ Kept(Append(a, w), Append(p, t)) = Kept(a, p)
  <2>. USE <1>PostInOrder
  <2>. PICK b, q : b = Append(a, w) /\ q = Append(p, t)
    BY Zenon
  <2>1. /\ Len(a) \in Nat /\ Len(p) \in Nat /\ Len(b) = Len(a) + 1 /\ Len(q) = Len(p) + 1
        /\ \A i \in 1..Len(a) : b[i] = a[i]
        /\ \A i \in 1..Len(p) : q[i] = p[i]
        /\ b[Len(a) + 1] = w /\ q[Len(p) + 1] = t
    OBVIOUS
  <2>2. Len(a) <= Len(p)
    BY Zenon DEF InOrder
  <2>3. ASSUME NEW i \in 1..Len(b)
        PROVE  LET k == Len(q) - Len(b) + i IN
               b[i].id = k /\ b[i].op = q[k].op /\ b[i].nsge = q[k].nsge
    <3>. PICK k : k = Len(p) - Len(a) + i
      BY Zenon
    <3>1. k = Len(q) - Len(b) + i
      BY <2>1
    <3>2. CASE i = Len(a) + 1
      <4>1. k = Len(p) + 1
        BY <2>1, <3>2
      <4>. QED BY ZenonT(30), <2>1, <3>1, <3>2, <4>1
    <3>3. CASE i \in 1..Len(a)
      <4>1. k \in 1..Len(p)
        BY <2>1, <2>2, <3>3
      <4>2. a[i].id = k /\ a[i].op = p[k].op /\ a[i].nsge = p[k].nsge
        BY Zenon, <3>3 DEF InOrder
      <4>. QED BY Zenon, <2>1, <3>1, <3>3, <4>1, <4>2
    <3>4. i = Len(a) + 1 \/ i \in 1..Len(a)
      BY <2>1
    <3>. QED BY Zenon, <3>2, <3>3, <3>4
  <2>4. Len(b) <= Len(q) /\ Len(q) - Len(b) = Len(p) - Len(a)
    BY <2>1, <2>2
  <2>5. Taken(b, q) = Taken(a, p)
    BY Zenon, <2>4 DEF Taken
  <2>6. \A i \in Taken(a, p) : q[i] = p[i]
    BY <2>1, <2>2 DEF Taken
  <2>7. Kept(b, q) = Kept(a, p)
    BY Zenon, <2>5, <2>6 DEF Kept
  <2>. QED
    BY Zenon, <2>3, <2>4, <2>5, <2>7 DEF InOrder

\* The steps of the accounts: b is the state of the books of one endpoint.
<1>BooksPost.
  ASSUME NEW a \in Seq(SendWr), NEW p \in Seq(Request), NEW T, NEW q, NEW s, NEW r, NEW D,
         Books(a, p, T, q, s, r, D), NEW w \in SendWr, NEW t \in Request,
         w.id = Len(p) + 1, w.op = t.op, w.nsge = t.nsge
  PROVE  Books(Append(a, w), Append(p, t), T, q, s, r, D)
  <2>. USE <1>BooksPost
  <2>1. InOrder(a, p)
    BY Zenon DEF Books
  <2>2. /\ InOrder(Append(a, w), Append(p, t))
        /\ Taken(Append(a, w), Append(p, t)) = Taken(a, p)
        /\ Kept(Append(a, w), Append(p, t)) = Kept(a, p)
    BY Zenon, <2>1, <1>PostInOrder
  <2>. QED
    BY Zenon, <2>2 DEF Books

\* rnic_send takes the oldest request off the send queue.
<1>BooksTake.
  ASSUME NEW a \in Seq(SendWr), NEW p \in Seq(Request), NEW q, NEW s, NEW r, NEW D,
         Books(a, p, {}, q, s, r, D), a # <<>>
  PROVE  Books(Tail(a), p, {Head(a).id}, q, s, r, D)
  <2>. USE <1>BooksTake
  <2>1. InOrder(a, p)
    BY Zenon DEF Books
  <2>2. /\ InOrder(Tail(a), p) /\ Head(a).id \notin Taken(a, p)
        /\ Taken(Tail(a), p) = Taken(a, p) \cup {Head(a).id}
        /\ Kept(Tail(a), p) \subseteq Kept(a, p) \cup {Head(a).id}
    BY Zenon, <2>1, TakeInOrder
  <2>. QED
    BY Zenon, <2>2, <1>LedgerTake DEF Books

\* rnic_send drops a request it cannot process; no completion is owed for it.
<1>BooksReject.
  ASSUME NEW a, NEW p, NEW x, NEW q, NEW s, NEW r, NEW D,
         Books(a, p, {x}, q, s, r, D), ~Sendable(p[x])
  PROVE  Books(a, p, {}, q, s, r, D)
  <2>. USE <1>BooksReject
  <2>1. x \notin Kept(a, p)
    BY Zenon DEF Kept
  <2>. QED
    BY Zenon, <2>1, <1>LedgerMoves DEF Books

\* The request in hand gets its completion, or waits for its Read Response.
<1>BooksComplete.
  ASSUME NEW a, NEW p, NEW q \in Seq(Wc), NEW s \in Seq(Wc), NEW r, NEW D,
         NEW w \in Wc, w.of = 0, Books(a, p, {w.id}, q, s, r, D)
  PROVE  /\ Books(a, p, {}, Append(q, w), s, r, D)
         /\ Books(a, p, {}, q, Append(s, w), r, D)
  <2>. USE <1>BooksComplete
  <2>. PICK U, S, P, C, R : /\ U = Taken(a, p) /\ S = Kept(a, p)
                            /\ P = OwnIds(q) /\ C = OwnIds(s) /\ R = OwnIds(r)
    BY Zenon
  <2>1. /\ Ledger(U, S, {}, P \cup {w.id}, C, R, D) /\ w.id \notin P
        /\ Ledger(U, S, {}, P, C \cup {w.id}, R, D) /\ w.id \notin C
    BY Zenon, <1>LedgerMoves DEF Books
  <2>2. /\ OwnIds(Append(q, w)) = P \cup {w.id}
        /\ NoRepeat(Append(q, w)) /\ AllOwn(Append(q, w))
    BY Zenon, <2>1, <1>OwnAppend DEF Books
  <2>3. /\ OwnIds(Append(s, w)) = C \cup {w.id}
        /\ NoRepeat(Append(s, w)) /\ AllOwn(Append(s, w))
    BY Zenon, <2>1, <1>OwnAppend DEF Books
  <2>. QED
    BY Zenon, <2>1, <2>2, <2>3 DEF Books

\* A Read Response completes the oldest read that waits.
<1>BooksShift.
  ASSUME NEW a, NEW p, NEW T, NEW q \in Seq(Wc), NEW s, NEW r \in Seq(Wc), NEW D,
         Books(a, p, T, q, s, r, D), q # <<>>
  PROVE  Books(a, p, T, Tail(q), s, Append(r, Head(q)), D)
  <2>. USE <1>BooksShift
  <2>. PICK w : w = Head(q)
    BY Zenon
  <2>. PICK U, S, P, C, R : /\ U = Taken(a, p) /\ S = Kept(a, p)
                            /\ P = OwnIds(Tail(q)) /\ C = OwnIds(s) /\ R = OwnIds(r)
    BY Zenon
  <2>1. /\ w.of = 0 /\ OwnIds(q) = P \cup {w.id} /\ w.id \notin P
        /\ NoRepeat(Tail(q)) /\ AllOwn(Tail(q))
    BY Zenon, OwnTail DEF Books
  <2>a. Ledger(U, S, T, P \cup {w.id}, C, R, D)
    BY Zenon, <2>1 DEF Books
  <2>2. Ledger(U, S, T, P, C, R \cup {w.id}, D) /\ w.id \notin R
    BY Zenon, <2>1, <2>a, <1>LedgerShift
  <2>3. w \in Wc
    BY Zenon, TailType
  <2>4. OwnIds(Append(r, w)) = R \cup {w.id} /\ NoRepeat(Append(r, w))
    BY Zenon, <2>1, <2>2, <2>3, <1>OwnAppend DEF Books
  <2>. QED
    BY Zenon, <2>1, <2>2, <2>4 DEF Books

\* A completion of the peer's send or write is no request of one's own.
<1>BooksReceive.
  ASSUME NEW a, NEW p, NEW T, NEW q, NEW s, NEW r \in Seq(Wc), NEW D,
         Books(a, p, T, q, s, r, D), NEW w \in Wc, w.of # 0
  PROVE  Books(a, p, T, q, s, Append(r, w), D)
  BY Zenon, <1>BooksReceive, <1>OwnAppend DEF Books

\* The application polls a send completion ...
<1>BooksPollSend.
  ASSUME NEW a, NEW p, NEW T, NEW q, NEW s \in Seq(Wc), NEW r, NEW D,
         Books(a, p, T, q, s, r, D), s # <<>>
  PROVE  /\ Head(s).of = 0
         /\ Books(a, p, T, q, Tail(s), r, D \cup {Head(s).id})
  <2>. USE <1>BooksPollSend
  <2>. PICK w : w = Head(s)
    BY Zenon
  <2>. PICK U, S, P, C, R : /\ U = Taken(a, p) /\ S = Kept(a, p)
                            /\ P = OwnIds(q) /\ C = OwnIds(Tail(s)) /\ R = OwnIds(r)
    BY Zenon
  <2>1. /\ w.of = 0 /\ OwnIds(s) = C \cup {w.id} /\ w.id \notin C
        /\ NoRepeat(Tail(s)) /\ AllOwn(Tail(s))
    BY Zenon, OwnTail DEF Books
  <2>a. Ledger(U, S, T, P, C \cup {w.id}, R, D)
    BY Zenon, <2>1 DEF Books
  <2>2. Ledger(U, S, T, P, C, R, D \cup {w.id})
    BY Zenon, <2>1, <2>a, <1>LedgerPolls
  <2>. QED
    BY Zenon, <2>1, <2>2 DEF Books

\* ... or a receive completion, which may be one of a read.
<1>BooksPollRecv.
  ASSUME NEW a, NEW p, NEW T, NEW q, NEW s, NEW r \in Seq(Wc), NEW D,
         Books(a, p, T, q, s, r, D), r # <<>>
  PROVE  /\ Head(r).of = 0 => Books(a, p, T, q, s, Tail(r), D \cup {Head(r).id})
         /\ Head(r).of # 0 => Books(a, p, T, q, s, Tail(r), D)
  <2>. USE <1>BooksPollRecv
  <2>. PICK w : w = Head(r)
    BY Zenon
  <2>. PICK U, S, P, C, R : /\ U = Taken(a, p) /\ S = Kept(a, p)
                            /\ P = OwnIds(q) /\ C = OwnIds(s) /\ R = OwnIds(Tail(r))
    BY Zenon
  <2>1. /\ w.of = 0 => OwnIds(r) = R \cup {w.id} /\ w.id \notin R
        /\ w.of # 0 => OwnIds(r) = R
        /\ NoRepeat(Tail(r))
    BY Zenon, OwnTail DEF Books
  <2>a. w.of = 0 => Ledger(U, S, T, P, C, R \cup {w.id}, D)
    BY Zenon, <2>1 DEF Books
  <2>2. w.of = 0 => Ledger(U, S, T, P, C, R, D \cup {w.id})
    BY Zenon, <2>1, <2>a, <1>LedgerPolls
  <2>. QED
    BY Zenon, <2>1, <2>2 DEF Books

\* What an endpoint's books are made of, left alone, leaves them balanced.
<1>UntouchedKept.
  ASSUME NEW k \in Node, Balanced(k), InHand(k), Untouched(k)
  PROVE  Balanced(k)' /\ InHand(k)'
  <2>. USE <1>UntouchedKept
  <2>1. InThread(k)' = InThread(k)
    BY Zenon DEF Untouched, InThread
  <2>2. Balanced(k)'
    BY Zenon, <2>1 DEF Balanced, Untouched
  <2>3. InHand(k)'
    BY Zenon DEF InHand, Untouched
  <2>. QED
    BY Zenon, <2>2, <2>3

\* The application's calls keep the accounts.
<1>AppAccounts.
  ASSUME TypeOK, NEW n \in Node, Balanced(n), InHand(n), App(n)
  PROVE  Balanced(n)' /\ InHand(n)'
  <2>. USE <1>AppAccounts
  <2>0. /\ sqApp[n] \in Seq(SendWr) /\ posted[n] \in Seq(Request) /\ cqSend[n] \in Seq(Wc)
        /\ cqRecv[n] \in Seq(Wc) /\ n \in DOMAIN sqApp /\ n \in DOMAIN posted
        /\ n \in DOMAIN cqSend /\ n \in DOMAIN cqRecv /\ n \in DOMAIN done
    BY Zenon DEF TypeOK
  <2>1. ASSUME NEW t \in Requests, Post(n, t) PROVE Balanced(n)' /\ InHand(n)'
    <3>. PICK w : w = [op |-> t.op, id |-> Len(posted[n]) + 1, lbuf |-> t.lbuf,
                       rbuf |-> t.rbuf, nsge |-> t.nsge]
      BY Zenon
    <3>1. t \in Request
      BY Zenon, RequestAssumption
    <3>2. w \in SendWr /\ w.id = Len(posted[n]) + 1 /\ w.op = t.op /\ w.nsge = t.nsge
      BY <2>0, <3>1 DEF Request, SendWr, RegionOrNo
    <3>3. /\ sqApp'[n] = Append(sqApp[n], w) /\ posted'[n] = Append(posted[n], t)
          /\ spc' = spc /\ sreq' = sreq /\ pendq' = pendq /\ cqSend' = cqSend /\ cqRecv' = cqRecv
          /\ done' = done
      BY Zenon, <2>0, <2>1 DEF Post, Enqueue, sendVars
    <3>4. InThread(n)' = InThread(n)
      BY Zenon, <3>3 DEF InThread
    <3>a. Books(Append(sqApp[n], w), Append(posted[n], t), InThread(n), pendq[n], cqSend[n],
                cqRecv[n], done[n])
      <4>1. Books(sqApp[n], posted[n], InThread(n), pendq[n], cqSend[n], cqRecv[n], done[n])
        BY Zenon DEF Balanced
      <4>. QED BY Zenon, <2>0, <3>1, <3>2, <4>1, <1>BooksPost
    <3>5. Balanced(n)'
      BY Zenon, <3>3, <3>4, <3>a DEF Balanced
    <3>6. \A x \in InThread(n) : posted'[n][x] = posted[n][x]
      BY <2>0, <3>1, <3>3, HeldPosted
    <3>7. Len(posted'[n]) - Len(sqApp'[n]) = Len(posted[n]) - Len(sqApp[n])
      BY <2>0, <3>1, <3>2, <3>3
    <3>8. InHand(n)'
      BY Zenon, <3>3, <3>6, <3>7 DEF InHand, InThread
    <3>. QED BY Zenon, <3>5, <3>8
  <2>2. CASE PostRecvBuffers(n) \/ PostRecvRequest(n) \/ Register(n) \/ Invalidate(n)
    <3>1. Untouched(n)
      BY Zenon, <2>2 DEF PostRecvBuffers, PostRecvRequest, Register, Invalidate, Untouched,
         sendVars, appVars
    <3>. QED BY Zenon, <3>1, <1>UntouchedKept
  <2>3. CASE PollCq(n)
    <3>1. /\ sqApp' = sqApp /\ posted' = posted /\ spc' = spc /\ sreq' = sreq /\ pendq' = pendq
          /\ InThread(n)' = InThread(n)
      BY Zenon, <2>3 DEF PollCq, sendVars, InThread
    <3>2. InHand(n)'
      BY Zenon, <3>1 DEF InHand
    <3>3. CASE cqSend[n] # <<>> /\ cqSend' = [cqSend EXCEPT ![n] = Tail(@)] /\ UNCHANGED cqRecv
               /\ Polled(n, Head(cqSend[n]))
      <4>1. Head(cqSend[n]).of = 0
        BY Zenon, <2>0, <3>3, <1>BooksPollSend DEF Balanced
      <4>2. cqSend'[n] = Tail(cqSend[n]) /\ cqRecv' = cqRecv
            /\ done'[n] = done[n] \cup {Head(cqSend[n]).id}
        BY Zenon, <2>0, <3>3, <4>1 DEF Polled
      <4>a. Books(sqApp[n], posted[n], InThread(n), pendq[n], Tail(cqSend[n]), cqRecv[n],
                  done[n] \cup {Head(cqSend[n]).id})
        BY Zenon, <2>0, <3>3, <1>BooksPollSend DEF Balanced
      <4>3. Balanced(n)'
        BY Zenon, <3>1, <4>2, <4>a DEF Balanced
      <4>. QED BY Zenon, <3>2, <4>3
    <3>4. CASE cqRecv[n] # <<>> /\ cqRecv' = [cqRecv EXCEPT ![n] = Tail(@)] /\ UNCHANGED cqSend
               /\ Polled(n, Head(cqRecv[n]))
      <4>1. cqRecv'[n] = Tail(cqRecv[n]) /\ cqSend' = cqSend
        BY Zenon, <2>0, <3>4
      <4>2. /\ Head(cqRecv[n]).of = 0 => done'[n] = done[n] \cup {Head(cqRecv[n]).id}
            /\ Head(cqRecv[n]).of # 0 => done'[n] = done[n]
        BY Zenon, <2>0, <3>4 DEF Polled
      <4>a. Books(sqApp[n], posted[n], InThread(n), pendq[n], cqSend[n], Tail(cqRecv[n]), done'[n])
        <5>1. Books(sqApp[n], posted[n], InThread(n), pendq[n], cqSend[n], cqRecv[n], done[n])
          BY Zenon DEF Balanced
        <5>2. CASE Head(cqRecv[n]).of = 0
          <6>1. Books(sqApp[n], posted[n], InThread(n), pendq[n], cqSend[n], Tail(cqRecv[n]),
                      done[n] \cup {Head(cqRecv[n]).id})
            BY Zenon, <2>0, <3>4, <5>1, <5>2, <1>BooksPollRecv
          <6>. QED BY Zenon, <4>2, <5>2, <6>1
        <5>3. CASE Head(cqRecv[n]).of # 0
          BY Zenon, <2>0, <3>4, <4>2, <5>1, <5>3, <1>BooksPollRecv
        <5>. QED BY Zenon, <5>2, <5>3
      <4>3. Balanced(n)'
        BY Zenon, <3>1, <4>1, <4>a DEF Balanced
      <4>. QED BY Zenon, <3>2, <4>3
    <3>. QED BY Zenon, <2>3, <3>3, <3>4 DEF PollCq
  <2>. QED
    BY Zenon, <2>1, <2>2, <2>3 DEF App, RdmapSend, RdmapWrite, RdmapRead

\* The steps of rnic_send keep the accounts.
<1>SendAccounts.
  ASSUME TypeOK, NEW n \in Node, Balanced(n), InHand(n), Sourced(n), SendThread(n)
  PROVE  Balanced(n)' /\ InHand(n)'
  <2>. USE <1>SendAccounts
  <2>0. /\ sqApp[n] \in Seq(SendWr) /\ sqRecv[n] \in Seq(SendWr) /\ posted[n] \in Seq(Request)
        /\ cqSend[n] \in Seq(Wc) /\ pendq[n] \in Seq(Wc) /\ n \in DOMAIN sqApp
        /\ n \in DOMAIN spc /\ n \in DOMAIN sreq /\ n \in DOMAIN cqSend /\ n \in DOMAIN pendq
    BY Zenon DEF TypeOK
  <2>1. Books(sqApp[n], posted[n], InThread(n), pendq[n], cqSend[n], cqRecv[n], done[n])
    BY Zenon DEF Balanced
  <2>2. CASE SendDequeue(n)
    <3>1. /\ posted' = posted /\ cqSend' = cqSend /\ cqRecv' = cqRecv /\ pendq' = pendq
          /\ done' = done /\ spc[n] = "poll" /\ spc'[n] = "send"
      BY Zenon, <2>0, <2>2 DEF SendDequeue, appVars
    <3>2. InThread(n) = {}
      BY Zenon, <3>1 DEF InThread
    <3>3. CASE sqApp[n] # <<>> /\ sreq' = [sreq EXCEPT ![n] = Head(sqApp[n])]
               /\ sqApp' = [sqApp EXCEPT ![n] = Tail(@)]
      <4>. PICK h : h = Head(sqApp[n])
        BY Zenon
      <4>1. sreq'[n] = h /\ sqApp'[n] = Tail(sqApp[n])
        BY Zenon, <2>0, <3>3
      <4>2. /\ h.id \in 1..Len(posted[n]) /\ h.id = Len(posted[n]) - Len(Tail(sqApp[n]))
            /\ h.op = posted[n][h.id].op /\ h.nsge = posted[n][h.id].nsge
        BY Zenon, <2>0, <2>1, <3>3, TakeInOrder DEF Books
      <4>3. posted[n][h.id] \in Request /\ h.id # 0
        BY <2>0, <4>2
      <4>4. h.op # "READ_RESP"
        BY Zenon, <4>2, <4>3 DEF Request
      <4>5. InThread(n)' = {h.id}
        BY Zenon, <3>1, <4>1, <4>4 DEF InThread
      <4>6. Books(Tail(sqApp[n]), posted[n], {h.id}, pendq[n], cqSend[n], cqRecv[n], done[n])
        BY Zenon, <2>0, <2>1, <3>2, <3>3, <1>BooksTake
      <4>7. Balanced(n)'
        BY Zenon, <3>1, <4>1, <4>5, <4>6 DEF Balanced
      <4>8. InHand(n)'
        BY Zenon, <3>1, <4>1, <4>2, <4>3 DEF InHand
      <4>. QED BY Zenon, <4>7, <4>8
    <3>4. CASE sqRecv[n] # <<>> /\ sreq' = [sreq EXCEPT ![n] = Head(sqRecv[n])]
               /\ UNCHANGED sqApp
      <4>1. Head(sqRecv[n]) = sqRecv[n][1] /\ 1 \in DOMAIN sqRecv[n]
        BY <2>0, <3>4
      <4>2. sreq'[n].op = "READ_RESP" /\ sreq'[n].id # 0
        BY Zenon, <2>0, <3>4, <4>1 DEF Sourced, Response
      <4>3. InThread(n)' = {}
        BY Zenon, <4>2 DEF InThread
      <4>4. Balanced(n)'
        BY Zenon, <2>1, <3>1, <3>2, <3>4, <4>3 DEF Balanced
      <4>5. InHand(n)'
        BY Zenon, <3>1, <4>2 DEF InHand
      <4>. QED BY Zenon, <4>4, <4>5
    <3>. QED BY Zenon, <2>2, <3>3, <3>4 DEF SendDequeue
  <2>3. ASSUME UNCHANGED <<sqApp, posted, sreq, cqSend, cqRecv, pendq, done>>,
               InThread(n)' = InThread(n)
        PROVE  Balanced(n)'
    BY Zenon, <2>1, <2>3 DEF Balanced
  <2>4. CASE SendTransmit(n)
    <3>1. UNCHANGED <<sqApp, posted, sreq, cqSend, cqRecv, pendq, done>> /\ spc[n] = "send"
      BY Zenon, <2>4 DEF SendTransmit, appVars
    <3>2. CASE sreq[n].op = "READ_RESP"
      <4>1. spc'[n] \in {"poll", "exit"}
        BY Zenon, <2>0, <2>4, <3>2 DEF SendTransmit, PollAgain
      <4>2. InThread(n)' = InThread(n)
        BY Zenon, <3>1, <3>2 DEF InThread
      <4>3. InHand(n)'
        BY Zenon, <4>1 DEF InHand
      <4>. QED BY Zenon, <2>3, <3>1, <4>2, <4>3
    <3>3. CASE sreq[n].op # "READ_RESP"
      <4>1. spc'[n] = "complete"
        BY Zenon, <2>0, <2>4, <3>3 DEF SendTransmit
      <4>2. InThread(n)' = InThread(n)
        BY Zenon, <3>1, <4>1 DEF InThread
      <4>3. InHand(n)'
        BY Zenon, <3>1, <3>3, <4>1 DEF InHand
      <4>. QED BY Zenon, <2>3, <3>1, <4>2, <4>3
    <3>. QED BY Zenon, <3>2, <3>3
  <2>5. CASE SendReject(n)
    <3>1. /\ UNCHANGED <<sqApp, posted, sreq, cqSend, cqRecv, pendq, done>> /\ spc[n] = "send"
          /\ ~Sendable(sreq[n]) /\ spc'[n] \in {"poll", "exit"}
      BY Zenon, <2>0, <2>5 DEF SendReject, appVars, PollAgain
    <3>2. sreq[n].op # "READ_RESP"
      BY Zenon, <3>1 DEF Sendable
    <3>3. InThread(n) = {sreq[n].id} /\ InThread(n)' = {}
      BY Zenon, <3>1, <3>2 DEF InThread
    <3>4. ~Sendable(posted[n][sreq[n].id])
      BY Zenon, <3>1, <3>2 DEF InHand, Sendable
    <3>5. Books(sqApp[n], posted[n], {}, pendq[n], cqSend[n], cqRecv[n], done[n])
      BY Zenon, <2>1, <3>3, <3>4, <1>BooksReject
    <3>6. Balanced(n)'
      BY Zenon, <3>1, <3>3, <3>5 DEF Balanced
    <3>7. InHand(n)'
      BY Zenon, <3>1 DEF InHand
    <3>. QED BY Zenon, <3>6, <3>7
  <2>6. CASE SendComplete(n)
    <3>. PICK w : w = WceOf(n)
      BY Zenon
    <3>1. w \in Wc /\ w.of = 0 /\ w.id = sreq[n].id
      BY Zenon DEF TypeOK, WceOf, Wc, SendWr
    <3>2. /\ sqApp' = sqApp /\ posted' = posted /\ cqRecv' = cqRecv /\ done' = done
          /\ spc[n] = "complete" /\ spc'[n] \in {"poll", "exit"}
          /\ \/ pendq'[n] = Append(pendq[n], w) /\ cqSend' = cqSend
             \/ cqSend'[n] = Append(cqSend[n], w) /\ pendq' = pendq
      BY Zenon, <2>0, <2>6 DEF SendComplete, appVars, PollAgain
    <3>3. InThread(n) = {w.id} /\ InThread(n)' = {}
      BY Zenon, <3>1, <3>2 DEF InThread, InHand
    <3>4. /\ Books(sqApp[n], posted[n], {}, Append(pendq[n], w), cqSend[n], cqRecv[n], done[n])
          /\ Books(sqApp[n], posted[n], {}, pendq[n], Append(cqSend[n], w), cqRecv[n], done[n])
      BY Zenon, <2>0, <2>1, <3>1, <3>3, <1>BooksComplete
    <3>5. Balanced(n)'
      BY Zenon, <3>2, <3>3, <3>4 DEF Balanced
    <3>6. InHand(n)'
      BY Zenon, <3>2 DEF InHand
    <3>. QED BY Zenon, <3>5, <3>6
  <2>7. CASE SendExit(n)
    <3>1. /\ UNCHANGED <<sqApp, posted, sreq, cqSend, cqRecv, pendq, done>>
          /\ spc[n] = "poll" /\ spc'[n] = "exit"
      BY Zenon, <2>0, <2>7 DEF SendExit, appVars
    <3>2. InThread(n)' = InThread(n)
      BY Zenon, <3>1 DEF InThread
    <3>3. InHand(n)'
      BY Zenon, <3>1 DEF InHand
    <3>. QED BY Zenon, <2>3, <3>1, <3>2, <3>3
  <2>8. CASE SendKilled(n)
    <3>1. /\ UNCHANGED <<sqApp, posted, sreq, cqSend, cqRecv, pendq, done>>
          /\ spc[n] = "send" /\ spc'[n] = "killed"
      BY Zenon, <2>0, <2>8 DEF SendKilled, appVars
    <3>2. InThread(n)' = InThread(n)
      BY Zenon, <3>1 DEF InThread
    <3>3. InHand(n)'
      BY Zenon, <3>1 DEF InHand
    <3>. QED BY Zenon, <2>3, <3>1, <3>2, <3>3
  <2>. QED
    BY Zenon, <2>2, <2>4, <2>5, <2>6, <2>7, <2>8 DEF SendThread

\* The steps of rnic_recv keep the accounts.
<1>RecvAccounts.
  ASSUME TypeOK, NEW n \in Node, Balanced(n), InHand(n), Sourced(n), RecvThread(n)
  PROVE  Balanced(n)' /\ InHand(n)'
  <2>. USE <1>RecvAccounts
  <2>0. /\ cqRecv[n] \in Seq(Wc) /\ pendq[n] \in Seq(Wc) /\ rq[n] \in Seq(Nat)
        /\ n \in DOMAIN cqRecv /\ n \in DOMAIN pendq /\ rmsg[n] \in Message
    BY Zenon DEF TypeOK
  <2>1. Books(sqApp[n], posted[n], InThread(n), pendq[n], cqSend[n], cqRecv[n], done[n])
    BY Zenon DEF Balanced
  <2>2. CASE \/ RecvTagged(n) \/ RecvError(n) \/ RecvUntagged(n) \/ HandleWrite(n)
             \/ HandleReadReq(n) \/ HandleTerminate(n)
    <3>1. Untouched(n)
      BY Zenon, <2>2 DEF RecvTagged, RecvError, RecvUntagged, HandleWrite, HandleReadReq,
         HandleTerminate, Untouched, sendVars, appVars
    <3>. QED BY Zenon, <3>1, <1>UntouchedKept
  <2>3. ASSUME UNCHANGED <<sqApp, posted, spc, sreq, cqSend, done>>,
               Books(sqApp[n], posted[n], InThread(n), pendq'[n], cqSend[n], cqRecv'[n], done[n])
        PROVE  Balanced(n)' /\ InHand(n)'
    <3>1. InThread(n)' = InThread(n)
      BY Zenon, <2>3 DEF InThread
    <3>2. Balanced(n)'
      BY Zenon, <2>3, <3>1 DEF Balanced
    <3>3. InHand(n)'
      BY Zenon, <2>3 DEF InHand
    <3>. QED BY Zenon, <3>2, <3>3
  <2>4. CASE HandleReadResp(n)
    <3>1. UNCHANGED <<sqApp, posted, spc, sreq, cqSend, done>>
      BY Zenon, <2>4 DEF HandleReadResp, sendVars, appVars
    <3>2. CASE pendq[n] = <<>>
      BY Zenon, <2>1, <2>3, <2>4, <3>1, <3>2 DEF HandleReadResp
    <3>3. CASE pendq[n] # <<>>
      <4>1. pendq'[n] = Tail(pendq[n]) /\ cqRecv'[n] = Append(cqRecv[n], Head(pendq[n]))
        BY Zenon, <2>0, <2>4, <3>3 DEF HandleReadResp
      <4>2. Books(sqApp[n], posted[n], InThread(n), Tail(pendq[n]), cqSend[n],
                  Append(cqRecv[n], Head(pendq[n])), done[n])
        BY Zenon, <2>0, <2>1, <3>3, <1>BooksShift
      <4>. QED BY Zenon, <2>3, <3>1, <4>1, <4>2
    <3>. QED BY Zenon, <3>2, <3>3
  <2>5. ASSUME CompleteRecv(n), rmsg[n].op # "TERMINATE", UNCHANGED pendq,
               UNCHANGED <<sqApp, posted, spc, sreq, cqSend, done>>
        PROVE  Balanced(n)' /\ InHand(n)'
    <3>1. CASE rq[n] = <<>>
      BY Zenon, <2>1, <2>3, <2>5, <3>1 DEF CompleteRecv
    <3>2. CASE rq[n] # <<>>
      <4>. PICK w : w = [id |-> Head(rq[n]), op |-> rmsg[n].op, ok |-> TRUE, of |-> rmsg[n].of]
        BY Zenon
      <4>1. Head(rq[n]) \in Nat
        BY Zenon, <2>0, <3>2, TailType
      <4>2. w \in Wc /\ w.of = rmsg[n].of
        BY Zenon, <2>0, <4>1 DEF Wc, Message
      <4>3. w.of # 0
        BY Zenon, <2>5, <4>2 DEF Sourced, Named
      <4>4. cqRecv'[n] = Append(cqRecv[n], w)
        BY Zenon, <2>0, <2>5, <3>2 DEF CompleteRecv
      <4>5. Books(sqApp[n], posted[n], InThread(n), pendq[n], cqSend[n], Append(cqRecv[n], w),
                  done[n])
        BY Zenon, <2>0, <2>1, <4>2, <4>3, <1>BooksReceive
      <4>. QED BY Zenon, <2>3, <2>5, <4>4, <4>5
    <3>. QED BY Zenon, <3>1, <3>2
  <2>6. CASE HandleSend(n)
    <3>1. UNCHANGED <<sqApp, posted, spc, sreq, cqSend, done>> /\ UNCHANGED pendq
          /\ CompleteRecv(n) /\ rmsg[n].op # "TERMINATE"
      BY Zenon, <2>6 DEF HandleSend, sendVars, appVars, SendOps
    <3>. QED BY Zenon, <2>5, <3>1
  <2>7. CASE HandleSendInval(n)
    <3>1. UNCHANGED <<sqApp, posted, spc, sreq, cqSend, done>> /\ UNCHANGED pendq
          /\ (CompleteRecv(n) \/ UNCHANGED cqRecv) /\ rmsg[n].op # "TERMINATE"
      BY Zenon, <2>7 DEF HandleSendInval, sendVars, appVars, InvalOps
    <3>. QED BY Zenon, <2>1, <2>3, <2>5, <3>1
  <2>. QED
    BY Zenon, <2>2, <2>4, <2>6, <2>7 DEF RecvThread

\* ... and of the part of it that a reset connection still delivers.
<1>AllPrefix.
  ASSUME NEW S, NEW s \in Seq(S), NEW k \in 0..Len(s)
  PROVE  /\ DOMAIN SubSeq(s, 1, k) = 1..k
         /\ \A i \in DOMAIN SubSeq(s, 1, k) : i \in DOMAIN s /\ SubSeq(s, 1, k)[i] = s[i]
  OBVIOUS

\* What holds of all messages of a queue does when it is shifted, extended or cut.
<1>QueueKeeps.
  ASSUME NEW S, NEW s \in Seq(S)
  PROVE  /\ s # <<>> => /\ AllNamed(s) => Named(Head(s)) /\ AllNamed(Tail(s))
                        /\ Responses(s) => Response(Head(s)) /\ Responses(Tail(s))
         /\ \A x \in S : /\ AllNamed(s) /\ Named(x) => AllNamed(Append(s, x))
                         /\ Responses(s) /\ Response(x) => Responses(Append(s, x))
         /\ \A k \in 0..Len(s) : AllNamed(s) => AllNamed(SubSeq(s, 1, k))
  <2>1. ASSUME s # <<>>
        PROVE  /\ AllNamed(s) => Named(Head(s)) /\ AllNamed(Tail(s))
               /\ Responses(s) => Response(Head(s)) /\ Responses(Tail(s))
    <3>1. /\ 1 \in DOMAIN s /\ Head(s) = s[1]
          /\ \A i \in DOMAIN Tail(s) : i + 1 \in DOMAIN s /\ Tail(s)[i] = s[i + 1]
      BY Zenon, <2>1, AllTail
    <3>. QED BY Zenon, <3>1 DEF AllNamed, Responses
  <2>2. ASSUME NEW x \in S
        PROVE  /\ AllNamed(s) /\ Named(x) => AllNamed(Append(s, x))
               /\ Responses(s) /\ Response(x) => Responses(Append(s, x))
    <3>1. \A i \in DOMAIN Append(s, x) :
            Append(s, x)[i] = x \/ (i \in DOMAIN s /\ Append(s, x)[i] = s[i])
      BY AllAppend
    <3>2. AllNamed(s) /\ Named(x) => AllNamed(Append(s, x))
      BY Zenon, <3>1 DEF AllNamed
    <3>3. Responses(s) /\ Response(x) => Responses(Append(s, x))
      BY Zenon, <3>1 DEF Responses
    <3>. QED BY Zenon, <3>2, <3>3
  <2>3. ASSUME NEW k \in 0..Len(s), AllNamed(s) PROVE AllNamed(SubSeq(s, 1, k))
    <3>1. \A i \in DOMAIN SubSeq(s, 1, k) : i \in DOMAIN s /\ SubSeq(s, 1, k)[i] = s[i]
      BY Zenon, <1>AllPrefix
    <3>. QED BY Zenon, <2>3, <3>1 DEF AllNamed
  <2>. QED
    BY Zenon, <2>1, <2>2, <2>3

\* Sourced is about the messages on the way and in hand only.
<1>SourcedFrame.
  ASSUME NEW k \in Node, Sourced(k), net'[k] = net[k], rmsg'[k] = rmsg[k],
         sqRecv'[k] = sqRecv[k]
  PROVE  Sourced(k)'
  BY Zenon, <1>SourcedFrame DEF Sourced

\* rnic_send names, in a message, the request it has in hand.
<1>SendSourced.
  ASSUME TypeOK, NEW n \in Node, NEW k \in Node, Sourced(k), InHand(n), SendThread(n)
  PROVE  Sourced(k)'
  <2>. USE <1>SendSourced
  <2>0. /\ net[k] \in Seq(Message) /\ sqRecv[k] \in Seq(SendWr) /\ DOMAIN net = Node
        /\ DOMAIN sqRecv = Node /\ sreq[n] \in SendWr
    BY Zenon DEF TypeOK
  <2>s. AllNamed(net[k]) /\ Responses(sqRecv[k]) /\ Named(rmsg[k])
    BY Zenon DEF Sourced, AllNamed, Responses
  <2>1. CASE SendDequeue(n)
    <3>1. net' = net /\ rmsg' = rmsg /\ (sqRecv' = sqRecv \/ k # n => sqRecv'[k] = sqRecv[k])
      BY Zenon, <2>0, <2>1 DEF SendDequeue, recvVars
    <3>2. CASE sqRecv' = sqRecv \/ k # n
      BY Zenon, <3>1, <3>2, <1>SourcedFrame
    <3>3. CASE k = n /\ sqRecv' # sqRecv
      <4>1. sqRecv[n] # <<>> /\ sqRecv'[n] = Tail(sqRecv[n])
        BY Zenon, <2>0, <2>1, <3>3 DEF SendDequeue
      <4>2. Responses(sqRecv'[n])
        BY Zenon, <2>s, <2>0, <3>3, <4>1, <1>QueueKeeps
      <4>. QED BY Zenon, <3>1, <3>3, <2>s, <4>2 DEF Sourced, AllNamed, Responses
    <3>. QED BY Zenon, <3>2, <3>3
  <2>2. CASE SendTransmit(n)
    <3>. PICK m : m = MessageOf(n, sreq[n])
      BY Zenon
    <3>1. m \in Message
      BY Zenon, <2>0, MessageOfType
    <3>2. m.of = sreq[n].id
      BY Zenon DEF MessageOf
    <3>3. Named(m)
      BY Zenon, <2>2, <3>2 DEF SendTransmit, InHand, Named
    <3>4. /\ rmsg' = rmsg /\ sqRecv' = sqRecv
          /\ net'[k] = net[k] \/ net'[k] = Append(net[k], m)
      BY Zenon, <2>0, <2>2, PeerType DEF SendTransmit, recvVars
    <3>5. CASE net'[k] = net[k]
      BY Zenon, <3>4, <3>5, <1>SourcedFrame
    <3>6. CASE net'[k] = Append(net[k], m)
      <4>1. AllNamed(net'[k])
        BY Zenon, <2>s, <2>0, <3>1, <3>3, <3>6, <1>QueueKeeps
      <4>. QED BY Zenon, <3>4, <2>s, <4>1 DEF Sourced, AllNamed, Responses
    <3>. QED BY Zenon, <3>4, <3>5, <3>6
  <2>3. CASE SendReject(n) \/ SendComplete(n) \/ SendExit(n) \/ SendKilled(n)
    <3>1. net' = net /\ rmsg' = rmsg /\ sqRecv' = sqRecv
      BY Zenon, <2>3 DEF SendReject, SendComplete, SendExit, SendKilled, recvVars
    <3>. QED BY Zenon, <3>1, <1>SourcedFrame
  <2>. QED
    BY Zenon, <2>1, <2>2, <2>3 DEF SendThread

\* rnic_recv answers a Read Request under the request's own name.
<1>RecvSourced.
  ASSUME TypeOK, NEW n \in Node, NEW k \in Node, Sourced(k), RecvThread(n)
  PROVE  Sourced(k)'
  <2>. USE <1>RecvSourced
  <2>0. /\ net[k] \in Seq(Message) /\ sqRecv[k] \in Seq(SendWr) /\ DOMAIN net = Node
        /\ DOMAIN sqRecv = Node /\ DOMAIN rmsg = Node /\ rmsg[n] \in Message
    BY Zenon DEF TypeOK
  <2>s. AllNamed(net[k]) /\ Responses(sqRecv[k]) /\ Named(rmsg[k])
    BY Zenon DEF Sourced, AllNamed, Responses
  <2>1. CASE RecvTagged(n) \/ RecvUntagged(n) \/ (RecvError(n) /\ net' # net)
    <3>1. /\ net[n] # <<>> /\ net' = [net EXCEPT ![n] = Tail(@)] /\ sqRecv' = sqRecv
          /\ rmsg' = rmsg \/ rmsg' = [rmsg EXCEPT ![n] = Head(net[n])]
      BY Zenon, <2>1 DEF RecvTagged, RecvUntagged, RecvError
    <3>2. CASE k # n
      BY Zenon, <2>0, <3>1, <3>2, <1>SourcedFrame
    <3>3. CASE k = n
      <4>1. net'[n] = Tail(net[n]) /\ (rmsg'[n] = rmsg[n] \/ rmsg'[n] = Head(net[n]))
        BY Zenon, <2>0, <3>1
      <4>2. AllNamed(net'[n])
        BY Zenon, <2>s, <2>0, <3>1, <3>3, <4>1, <1>QueueKeeps
      <4>3. Named(rmsg'[n])
        BY Zenon, <2>s, <2>0, <3>1, <3>3, <4>1, <1>QueueKeeps
      <4>. QED BY Zenon, <3>1, <3>3, <2>s, <4>2, <4>3 DEF Sourced, AllNamed, Responses, Named
    <3>. QED BY Zenon, <3>2, <3>3
  <2>2. CASE HandleReadReq(n)
    <3>. PICK w : w = [op |-> "READ_RESP", id |-> rmsg[n].of, lbuf |-> NoRegion,
                       rbuf |-> rmsg[n].to, nsge |-> 1]
      BY Zenon
    <3>1. w \in SendWr /\ w.op = "READ_RESP" /\ w.id = rmsg[n].of
      BY Zenon, <2>0 DEF SendWr, Message, Opcode, TaggedOps, RegionOrNo
    <3>2. net' = net /\ rmsg' = rmsg /\ sqRecv' = [sqRecv EXCEPT ![n] = Append(@, w)]
      BY Zenon, <2>2 DEF HandleReadReq
    <3>3. CASE k # n
      BY Zenon, <2>0, <3>2, <3>3, <1>SourcedFrame
    <3>4. CASE k = n
      <4>1. rmsg[n].of # 0
        BY Zenon, <2>2, <3>4 DEF HandleReadReq, Sourced, Named
      <4>2. sqRecv'[n] = Append(sqRecv[n], w)
        BY Zenon, <2>0, <3>2
      <4>3. Responses(sqRecv'[n])
        BY Zenon, <2>s, <2>0, <3>1, <3>4, <4>1, <4>2, <1>QueueKeeps DEF Response
      <4>. QED BY Zenon, <3>2, <3>4, <2>s, <4>3 DEF Sourced, AllNamed, Responses
    <3>. QED BY Zenon, <3>3, <3>4
  <2>3. CASE \/ HandleWrite(n) \/ HandleReadResp(n) \/ HandleSend(n) \/ HandleSendInval(n)
             \/ HandleTerminate(n) \/ (RecvError(n) /\ net' = net)
    <3>1. net' = net /\ rmsg' = rmsg /\ sqRecv' = sqRecv
      BY Zenon, <2>3 DEF HandleWrite, HandleReadResp, HandleSend, HandleSendInval, HandleTerminate,
         RecvError
    <3>. QED BY Zenon, <3>1, <1>SourcedFrame
  <2>. QED
    BY Zenon, <2>1, <2>2, <2>3 DEF RecvThread

\* A reset, or the peer's Terminate, names no request.
<1>EnvironmentSourced.
  ASSUME TypeOK, NEW k \in Node, Sourced(k), Reset \/ \E n \in Node : PeerTerminates(n)
  PROVE  Sourced(k)'
  <2>. USE <1>EnvironmentSourced
  <2>0. net[k] \in Seq(Message) /\ DOMAIN net = Node
    BY Zenon DEF TypeOK
  <2>s. AllNamed(net[k]) /\ Responses(sqRecv[k]) /\ Named(rmsg[k])
    BY Zenon DEF Sourced, AllNamed, Responses
  <2>1. CASE Reset
    <3>1. rmsg' = rmsg /\ sqRecv' = sqRecv
      BY Zenon, <2>1 DEF Reset, recvVars
    <3>2. PICK j \in 0..Len(net[k]) : net'[k] = SubSeq(net[k], 1, j)
      BY Zenon, <2>1 DEF Reset, Node
    <3>3. AllNamed(net'[k])
      BY Zenon, <2>s, <2>0, <3>2, <1>QueueKeeps
    <3>. QED BY Zenon, <2>s, <3>1, <3>3 DEF Sourced, AllNamed, Responses
  <2>2. ASSUME NEW n \in Node, PeerTerminates(n) PROVE Sourced(k)'
    <3>. PICK m : m = [NoMessage EXCEPT !.msn = 1]
      BY Zenon
    <3>1. m \in Message /\ m.op = "TERMINATE"
      BY Zenon DEF NoMessage, Message, Opcode, RegionOrNo, Val, Node
    <3>2. rmsg' = rmsg /\ sqRecv' = sqRecv /\ (net'[k] = net[k] \/ net'[k] = Append(net[k], m))
      BY Zenon, <2>0, <2>2 DEF PeerTerminates, recvVars
    <3>3. CASE net'[k] = net[k]
      BY Zenon, <3>2, <3>3, <1>SourcedFrame
    <3>4. CASE net'[k] = Append(net[k], m)
      <4>1. AllNamed(net'[k])
        BY Zenon, <2>s, <2>0, <3>1, <3>4, <1>QueueKeeps DEF Named
      <4>. QED BY Zenon, <3>2, <2>s, <4>1 DEF Sourced, AllNamed, Responses
    <3>. QED BY Zenon, <3>2, <3>3, <3>4
  <2>. QED
    BY Zenon, <2>1, <2>2

\* Every step keeps the messages named.
<1>SourcedKept.
  ASSUME TypeOK, Accounts, [Next]_vars, NEW k \in Node
  PROVE  Sourced(k)'
  <2>. USE <1>SourcedKept
  <2>0. Sourced(k) /\ \A n \in Node : InHand(n)
    BY Zenon DEF Accounts
  <2>1. ASSUME NEW n \in Node, App(n) PROVE Sourced(k)'
    <3>1. net' = net /\ rmsg' = rmsg /\ sqRecv' = sqRecv
      BY Zenon, <2>1 DEF App, RdmapSend, RdmapWrite, RdmapRead, Post, PostRecvBuffers,
         PostRecvRequest, PollCq, Register, Invalidate, recvVars
    <3>. QED BY Zenon, <2>0, <3>1, <1>SourcedFrame
  <2>2. CASE UNCHANGED vars
    BY Zenon, <2>0, <2>2, <1>SourcedFrame DEF vars, recvVars
  <2>. QED
    BY Zenon, <2>0, <2>1, <2>2, <1>SendSourced, <1>RecvSourced, <1>EnvironmentSourced DEF Next, Process

\* The books balance at first.
<1>InitAccounts. Init => Accounts
  <2>. SUFFICES ASSUME Init, NEW n \in Node PROVE Balanced(n) /\ InHand(n) /\ Sourced(n)
    BY Zenon DEF Accounts
  <2>1. /\ sqApp[n] = <<>> /\ posted[n] = <<>> /\ pendq[n] = <<>> /\ cqSend[n] = <<>>
        /\ cqRecv[n] = <<>> /\ done[n] = {} /\ net[n] = <<>> /\ sqRecv[n] = <<>>
        /\ spc[n] = "poll" /\ rmsg[n] = NoMessage
    BY Zenon DEF Init
  <2>2. Len(<<>>) = 0 /\ DOMAIN <<>> = {} /\ 1..(0 - 0) = {} /\ 1..0 = {} /\ 0 <= 0
    OBVIOUS
  <2>3. InThread(n) = {} /\ InHand(n)
    BY Zenon, <2>1 DEF InThread, InHand
  <2>4. /\ OwnIds(<<>>) = {} /\ NoRepeat(<<>>) /\ AllOwn(<<>>)
        /\ InOrder(<<>>, <<>>) /\ Taken(<<>>, <<>>) = {} /\ Kept(<<>>, <<>>) = {}
    BY Zenon, <2>2 DEF OwnIds, NoRepeat, AllOwn, InOrder, Taken, Kept
  <2>5. Ledger({}, {}, {}, {}, {}, {}, {})
    BY Zenon DEF Ledger
  <2>6. Balanced(n)
    BY Zenon, <2>1, <2>3, <2>4, <2>5 DEF Balanced, Books
  <2>7. Sourced(n)
    <3>1. NoMessage.op = "TERMINATE"
      BY Zenon DEF NoMessage
    <3>. QED BY Zenon, <2>1, <2>2, <3>1 DEF Sourced, Named
  <2>. QED
    BY Zenon, <2>3, <2>6, <2>7

\* Every step keeps them balanced.
<1>NextAccounts.
  ASSUME TypeOK, Accounts, [Next]_vars
  PROVE  Accounts'
  <2>. USE <1>NextAccounts
  <2>. SUFFICES ASSUME NEW k \in Node PROVE Balanced(k)' /\ InHand(k)' /\ Sourced(k)'
    BY Zenon DEF Accounts
  <2>0. Balanced(k) /\ InHand(k) /\ Sourced(k)
    BY Zenon DEF Accounts
  <2>1. CASE UNCHANGED vars \/ Reset \/ \E n \in Node : PeerTerminates(n)
    <3>1. Untouched(k)
      BY Zenon, <2>1 DEF vars, Reset, PeerTerminates, Untouched, sendVars, appVars
    <3>. QED BY Zenon, <2>0, <3>1, <1>UntouchedKept, <1>SourcedKept
  <2>2. ASSUME NEW n \in Node, App(n) \/ SendThread(n) \/ RecvThread(n)
        PROVE  Balanced(k)' /\ InHand(k)'
    <3>1. CASE k # n
      BY Zenon, <2>0, <2>2, <3>1, Elsewhere, <1>UntouchedKept
    <3>2. CASE k = n
      BY Zenon, <2>0, <2>2, <3>2, <1>AppAccounts, <1>SendAccounts, <1>RecvAccounts
    <3>. QED BY Zenon, <3>1, <3>2
  <2>. QED
    BY Zenon, <2>1, <2>2, <1>SourcedKept DEF Next, Process

<1>Step. TypeOK /\ Accounts /\ [Next]_vars => Accounts'
  BY Zenon, <1>NextAccounts
<1>. QED
  BY TypeCorrect, <1>InitAccounts, <1>Step, PTL DEF Spec

\* No send work request is lost or completed twice, for every mix of requests,
\* receives and resets: rnic_send, rnic_recv and poll_cq move a request from
\* the send queue through `pending' or the completion queue to the application
\* and it is always in exactly one of these places.
THEOREM RequestsAccounted == Spec => []WorkRequestsAccounted
\* The last l of m places.
<1>LastOnes.
  ASSUME NEW l \in Nat, NEW m \in Nat, l <= m
  PROVE  /\ \A i \in 1..l : m - l + i \notin 1..(m - l)
         /\ \A i \in 1..m : i \notin 1..(m - l) =>
              i - (m - l) \in 1..l /\ i = m - l + (i - (m - l))
  BY <1>LastOnes

\* A request posted is in the send queue or has been taken off it.
<1>QueuedOrTaken.
  ASSUME NEW a \in Seq(SendWr), NEW p \in Seq(Request), InOrder(a, p)
  PROVE  /\ Ids(a) \cap Taken(a, p) = {}
         /\ \A i \in DOMAIN p : i \notin Taken(a, p) => i \in Ids(a)
  <2>. USE <1>QueuedOrTaken
  <2>1. /\ DOMAIN a = 1..Len(a) /\ DOMAIN p = 1..Len(p) /\ Len(a) \in Nat /\ Len(p) \in Nat
    OBVIOUS
  <2>5. Len(a) <= Len(p)
    BY Zenon DEF InOrder
  <2>6. \A i \in DOMAIN a : a[i].id = Len(p) - Len(a) + i
    BY Zenon, <2>1 DEF InOrder
  <2>7. Ids(a) \cap Taken(a, p) = {}
    <3>1. ASSUME NEW i \in DOMAIN a PROVE a[i].id \notin Taken(a, p)
      <4>1. a[i].id = Len(p) - Len(a) + i /\ i \in 1..Len(a)
        BY Zenon, <2>1, <2>6
      <4>2. Len(p) - Len(a) + i \notin 1..(Len(p) - Len(a))
        BY Zenon, <2>1, <2>5, <4>1, <1>LastOnes
      <4>. QED BY Zenon, <4>1, <4>2 DEF Taken
    <3>. QED BY Zenon, <3>1 DEF Ids
  <2>8. ASSUME NEW i \in DOMAIN p, i \notin Taken(a, p) PROVE i \in Ids(a)
    <3>. PICK j : j = i - (Len(p) - Len(a))
      BY Zenon
    <3>1. i \in 1..Len(p) /\ i \notin 1..(Len(p) - Len(a))
      BY Zenon, <2>1, <2>8 DEF Taken
    <3>2. j \in 1..Len(a) /\ i = Len(p) - Len(a) + j
      BY ZenonT(30), <2>1, <2>5, <3>1, <1>LastOnes
    <3>. QED BY Zenon, <2>1, <2>6, <3>2 DEF Ids
  <2>. QED
    BY Zenon, <2>7, <2>8

\* The books give the property: six places, pairwise disjoint.
<1>BooksAccount.
  ASSUME TypeOK, Accounts
  PROVE  WorkRequestsAccounted
  <2>. USE <1>BooksAccount
  <2>. SUFFICES ASSUME NEW n \in Node
                PROVE  /\ \A i \in DOMAIN posted[n] : Sendable(posted[n][i]) =>
                             \E k \in DOMAIN Places(n) : i \in Places(n)[k]
                       /\ \A j, k \in DOMAIN Places(n) : j # k => Places(n)[j] \cap Places(n)[k] = {}
                       /\ NoRepeat(cqSend[n]) /\ NoRepeat(cqRecv[n]) /\ NoRepeat(pendq[n])
    BY Zenon DEF WorkRequestsAccounted
  <2>. PICK a, p, T, q, s, r, D :
         /\ a = sqApp[n] /\ p = posted[n] /\ T = InThread(n) /\ q = pendq[n] /\ s = cqSend[n]
         /\ r = cqRecv[n] /\ D = done[n]
    BY Zenon
  <2>1. Books(a, p, T, q, s, r, D)
    BY Zenon DEF Accounts, Balanced
  <2>2. a \in Seq(SendWr) /\ p \in Seq(Request)
    BY Zenon DEF TypeOK
  <2>3. Ids(q) = OwnIds(q) /\ Ids(s) = OwnIds(s)
    BY Zenon, <2>1 DEF Books, AllOwn, Ids, OwnIds
  <2>4. /\ Ids(a) \cap Taken(a, p) = {}
        /\ \A i \in DOMAIN p : i \notin Taken(a, p) => i \in Ids(a)
    BY Zenon, <2>1, <2>2, <1>QueuedOrTaken DEF Books
  <2>9. Ledger(Taken(a, p), Kept(a, p), T, Ids(q), Ids(s), OwnIds(r), D)
    BY Zenon, <2>1, <2>3 DEF Books
  <2>. PICK A, P, C, R : A = Ids(a) /\ P = Ids(q) /\ C = Ids(s) /\ R = OwnIds(r)
    BY Zenon
  <2>10. /\ A \cap (T \cup P \cup C \cup R \cup D) = {}
         /\ T \cap (P \cup C \cup R \cup D) = {}
         /\ P \cap (C \cup R \cup D) = {} /\ C \cap (R \cup D) = {} /\ R \cap D = {}
    <3>1. /\ T \subseteq Taken(a, p) /\ P \subseteq Taken(a, p) /\ C \subseteq Taken(a, p)
          /\ R \subseteq Taken(a, p) /\ D \subseteq Taken(a, p)
      BY Zenon, <2>9 DEF Ledger
    <3>2. A \cap (T \cup P \cup C \cup R \cup D) = {}
      BY Zenon, <2>4, <3>1
    <3>. QED BY Zenon, <2>9, <3>2 DEF Ledger
  <2>11. \A i \in DOMAIN p : Sendable(p[i]) => i \in A \cup T \cup P \cup C \cup R \cup D
    BY Zenon, <2>4, <2>9 DEF Ledger, Kept
  <2>12. Places(n) = <<A, T, P, C, R, D>>
    BY Zenon DEF Places
  <2>13. \A i \in DOMAIN posted[n] : Sendable(posted[n][i]) =>
           \E k \in DOMAIN Places(n) : i \in Places(n)[k]
    BY <2>11, <2>12
  <2>14. \A j, k \in DOMAIN Places(n) : j # k => Places(n)[j] \cap Places(n)[k] = {}
    BY <2>10, <2>12
  <2>. QED
    BY Zenon, <2>1, <2>13, <2>14 DEF Books

<1>Account. TypeOK /\ Accounts => WorkRequestsAccounted
  BY Zenon, <1>BooksAccount
<1>. QED
  BY TypeCorrect, AccountsKept, <1>Account, PTL

-----------------------------------------------------------------------------
(* The order of writes and sends.  The messages on their way to an         *)
(* endpoint are in the order in which its peer posted them, so a write     *)
(* posted before a send has been placed when the send is handled.          *)

Live(n)      == rpc[n] \in {"recv", "handle"}
IsRequest(m) == m.op \notin {"READ_RESP", "TERMINATE"}

\* q: the requests posted at one end; s: the messages on their way to the other;
\* L: the writes placed there.
Before(q, x)  == {i \in 1..Len(q) : i < x /\ q[i].op = "WRITE"}
Carried(s, k) == {s[j].of : j \in {i \in 1..k : s[i].op = "WRITE"}}
Follows(m, q, S) == IsRequest(m) => m.of \in 1..Len(q) /\ Before(q, m.of) \subseteq S
Lined(s, q, L)   == \A k \in 1..Len(s) : Follows(s[k], q, L \cup Carried(s, k - 1))
Reached(s, q, L, x) == Before(q, x) \subseteq L \cup Carried(s, Len(s))

\* The writes of the peer that have been placed; the next request rnic_send
\* will hand to ddp_send_*; the receive completions.
Landed(n) == {i \in Nat : <<Peer(n), i>> \in placed}
Due(n) == IF spc[n] = "send" /\ sreq[n].op # "READ_RESP" THEN sreq[n].id
          ELSE Len(posted[n]) - Len(sqApp[n]) + 1
Answers(wc, q, L)   == wc.of # 0 => wc.of \in 1..Len(q) /\ Before(q, wc.of) \subseteq L
AllAnswer(s, q, L) == \A i \in DOMAIN s : Answers(s[i], q, L)

InLine(n) ==
  /\ Live(n) => Lined(net[n], posted[Peer(n)], Landed(n))
  /\ Live(n) /\ up => Reached(net[n], posted[Peer(n)], Landed(n), Due(Peer(n)))
  /\ rpc[n] = "handle" => Follows(rmsg[n], posted[Peer(n)], Landed(n))
  /\ AllAnswer(cqRecv[n], posted[Peer(n)], Landed(n))

\* The next request to be taken is one that is posted or the one to come ...
LEMMA DueBound ==
  ASSUME NEW l \in Nat, NEW m \in Nat, l <= m
  PROVE  m - l + 1 \in 1..(m + 1) /\ (m - l # 0 => m - l \in 1..(m + 1))
OBVIOUS

\* ... so its number is one past the others at most.
LEMMA DueType ==
  ASSUME TypeOK, Accounts, NEW n \in Node
  PROVE  Due(n) \in 1..(Len(posted[n]) + 1)
<1>1. sqApp[n] \in Seq(SendWr) /\ posted[n] \in Seq(Request) /\ sreq[n] \in SendWr
  BY Zenon DEF TypeOK
<1>2. Len(sqApp[n]) \in Nat /\ Len(posted[n]) \in Nat /\ sreq[n].id \in Nat
  BY <1>1 DEF SendWr
<1>3. Len(sqApp[n]) <= Len(posted[n]) /\ InHand(n)
  BY Zenon DEF Accounts, Balanced, Books, InOrder
<1>4. CASE spc[n] = "send" /\ sreq[n].op # "READ_RESP"
  <2>1. Due(n) = sreq[n].id /\ sreq[n].id # 0 /\ sreq[n].id = Len(posted[n]) - Len(sqApp[n])
    BY Zenon, <1>3, <1>4 DEF InHand, Due
  <2>2. sreq[n].id \in 1..(Len(posted[n]) + 1)
    BY Zenon, <1>2, <1>3, <2>1, DueBound
  <2>. QED BY Zenon, <2>1, <2>2
<1>5. CASE ~(spc[n] = "send" /\ sreq[n].op # "READ_RESP")
  <2>1. Due(n) = Len(posted[n]) - Len(sqApp[n]) + 1
    BY Zenon, <1>5 DEF Due
  <2>2. Len(posted[n]) - Len(sqApp[n]) + 1 \in 1..(Len(posted[n]) + 1)
    BY Zenon, <1>2, <1>3, DueBound
  <2>. QED BY Zenon, <2>1, <2>2
<1>. QED
  BY Zenon, <1>4, <1>5

\* What ddp_send_* is asked to send is the request due; once rnic_send has done
\* with it, the next one is due.
LEMMA DueStep ==
  ASSUME TypeOK, Accounts, NEW n \in Node, SendThread(n)
  PROVE  /\ \/ Due(n)' = Due(n)
            \/ /\ spc[n] = "send" /\ sreq[n].op # "READ_RESP" /\ Due(n) = sreq[n].id
               /\ sreq[n].op = posted[n][sreq[n].id].op /\ sreq[n].id \in 1..Len(posted[n])
               /\ Due(n)' = sreq[n].id + 1
         /\ posted' = posted
<1>1. sqApp[n] \in Seq(SendWr) /\ posted[n] \in Seq(Request) /\ n \in DOMAIN sqApp
      /\ n \in DOMAIN spc /\ n \in DOMAIN sreq
  BY Zenon DEF TypeOK
<1>2. InHand(n) /\ Balanced(n) /\ InOrder(sqApp[n], posted[n]) /\ Sourced(n)
  BY Zenon DEF Accounts, Balanced, Books
<1>3. posted' = posted
  BY Zenon DEF SendThread, SendDequeue, SendTransmit, SendReject, SendComplete, SendExit,
     SendKilled, appVars
<1>4. CASE SendDequeue(n)
  <2>1. spc[n] = "poll" /\ spc'[n] = "send"
    BY Zenon, <1>1, <1>4 DEF SendDequeue
  <2>2. Due(n) = Len(posted[n]) - Len(sqApp[n]) + 1
    BY Zenon, <2>1 DEF Due
  <2>3. CASE sqApp[n] # <<>> /\ sreq' = [sreq EXCEPT ![n] = Head(sqApp[n])]
             /\ sqApp' = [sqApp EXCEPT ![n] = Tail(@)]
    <3>1. sreq'[n] = Head(sqApp[n]) /\ sqApp'[n] = Tail(sqApp[n])
      BY Zenon, <1>1, <2>3
    <3>2. Head(sqApp[n]).id = Len(posted[n]) - Len(Tail(sqApp[n]))
      BY Zenon, <1>1, <1>2, <2>3, TakeInOrder
    <3>3. /\ Len(posted[n]) - Len(Tail(sqApp[n])) = Len(posted[n]) - Len(sqApp[n]) + 1
      BY <1>1, <2>3
    <3>4. Head(sqApp[n]).op = posted[n][Head(sqApp[n]).id].op /\ Head(sqApp[n]).id \in 1..Len(posted[n])
      BY Zenon, <1>1, <1>2, <2>3, TakeInOrder
    <3>5. posted[n][Head(sqApp[n]).id] \in Request
      BY <1>1, <3>4
    <3>6. sreq'[n].op # "READ_RESP"
      BY Zenon, <3>1, <3>4, <3>5 DEF Request
    <3>7. Due(n)' = Due(n)
      BY Zenon, <2>1, <2>2, <3>1, <3>2, <3>3, <3>6 DEF Due
    <3>. QED BY Zenon, <1>3, <3>7
  <2>4. CASE sqRecv[n] # <<>> /\ sreq' = [sreq EXCEPT ![n] = Head(sqRecv[n])]
             /\ UNCHANGED sqApp
    <3>1. Head(sqRecv[n]) = sqRecv[n][1] /\ 1 \in DOMAIN sqRecv[n]
      BY <2>4 DEF TypeOK
    <3>2. sreq'[n].op = "READ_RESP"
      BY Zenon, <1>1, <1>2, <2>4, <3>1 DEF Sourced, Response
    <3>3. Due(n)' = Due(n)
      BY Zenon, <1>3, <2>2, <2>4, <3>2 DEF Due
    <3>. QED BY Zenon, <1>3, <3>3
  <2>. QED BY Zenon, <1>4, <2>3, <2>4 DEF SendDequeue
<1>5. CASE SendTransmit(n) \/ SendReject(n) \/ SendKilled(n)
  <2>1. sqApp' = sqApp /\ sreq' = sreq /\ spc[n] = "send" /\ spc'[n] # "send"
    BY Zenon, <1>1, <1>5 DEF SendTransmit, SendReject, SendKilled, PollAgain
  <2>2. Due(n)' = Len(posted[n]) - Len(sqApp[n]) + 1
    BY Zenon, <1>3, <2>1 DEF Due
  <2>3. CASE sreq[n].op = "READ_RESP"
    BY Zenon, <1>3, <2>2, <2>3 DEF Due
  <2>4. CASE sreq[n].op # "READ_RESP"
    <3>1. /\ Due(n) = sreq[n].id /\ sreq[n].id = Len(posted[n]) - Len(sqApp[n])
          /\ sreq[n].op = posted[n][sreq[n].id].op /\ sreq[n].id \in InThread(n)
      BY Zenon, <1>2, <2>1, <2>4 DEF InHand, Due, InThread
    <3>2. sreq[n].id \in 1..Len(posted[n])
      BY Zenon, <1>2, <3>1, HeldPosted
    <3>. QED BY Zenon, <1>3, <2>1, <2>2, <2>4, <3>1, <3>2
  <2>. QED BY Zenon, <2>3, <2>4
<1>6. CASE SendComplete(n) \/ SendExit(n)
  <2>1. sqApp' = sqApp /\ spc[n] # "send" /\ spc'[n] # "send"
    BY Zenon, <1>1, <1>6 DEF SendComplete, SendExit, PollAgain
  <2>. QED BY Zenon, <1>3, <2>1 DEF Due
<1>. QED
  BY Zenon, <1>4, <1>5, <1>6 DEF SendThread

AllInLine == \A n \in Node : InLine(n)

\* RDMA ordering, for every mix of requests, resets and Terminates: the channel
\* keeps the order in which rnic_send takes the requests, ddp_recv places a
\* write before it looks at the next message, and so a receive completion says
\* that the writes posted before the send are in memory.
THEOREM WritesPrecedeSends == Spec => []WriteBeforeSend
\* The writes among the first messages on the way.
<1>CarriedProperties.
  ASSUME NEW s \in Seq(Message)
  PROVE  /\ \A k, l \in 0..Len(s) : k <= l => Carried(s, k) \subseteq Carried(s, l)
         /\ \A k \in 1..Len(s) : s[k].op = "WRITE" => s[k].of \in Carried(s, k)
         /\ Carried(s, 0) = {}
  <2>1. Len(s) \in Nat
    OBVIOUS
  <2>2. \A k, l \in 0..Len(s) : k <= l => 1..k \subseteq 1..l
    BY <2>1
  <2>3. 1..0 = {} /\ \A k \in 1..Len(s) : k \in 1..k
    BY <2>1
  <2>4. \A k, l \in 0..Len(s) : k <= l => Carried(s, k) \subseteq Carried(s, l)
    BY Zenon, <2>2 DEF Carried
  <2>5. \A k \in 1..Len(s) : s[k].op = "WRITE" => s[k].of \in Carried(s, k)
    BY Zenon, <2>3 DEF Carried
  <2>6. Carried(s, 0) = {}
    BY Zenon, <2>3 DEF Carried
  <2>. QED
    BY Zenon, <2>4, <2>5, <2>6

\* A message is sent.
<1>LinedAppend.
  ASSUME NEW s \in Seq(Message), NEW m \in Message, NEW q, NEW L, Lined(s, q, L),
         Follows(m, q, L \cup Carried(s, Len(s)))
  PROVE  /\ Lined(Append(s, m), q, L)
         /\ \A x : Reached(s, q, L, x) => Reached(Append(s, m), q, L, x)
         /\ m.op = "WRITE" => m.of \in Carried(Append(s, m), Len(Append(s, m)))
  <2>. USE <1>LinedAppend
  <2>. PICK z : z = Append(s, m)
    BY Zenon
  <2>1. /\ Len(s) \in Nat /\ z \in Seq(Message) /\ Len(z) = Len(s) + 1
        /\ \A i \in 1..Len(s) : z[i] = s[i]
        /\ z[Len(s) + 1] = m
    OBVIOUS
  <2>2. ASSUME NEW k \in 0..Len(s) PROVE Carried(z, k) = Carried(s, k)
    <3>1. \A i \in 1..k : z[i] = s[i]
      BY <2>1
    <3>. QED BY Zenon, <3>1 DEF Carried
  <2>3. ASSUME NEW k \in 1..Len(z) PROVE Follows(z[k], q, L \cup Carried(z, k - 1))
    <3>1. CASE k = Len(s) + 1
      <4>1. k - 1 = Len(s) /\ Len(s) \in 0..Len(s)
        BY <2>1, <3>1
      <4>. QED BY Zenon, <2>1, <2>2, <3>1, <4>1
    <3>2. CASE k \in 1..Len(s)
      <4>1. k - 1 \in 0..Len(s)
        BY <2>1, <3>2
      <4>. QED BY Zenon, <2>1, <2>2, <3>2, <4>1 DEF Lined
    <3>3. k = Len(s) + 1 \/ k \in 1..Len(s)
      BY <2>1
    <3>. QED BY Zenon, <3>1, <3>2, <3>3
  <2>4. Len(z) \in 1..Len(z) /\ Len(s) \in 0..Len(s) /\ Len(s) \in 0..Len(z) /\ Len(z) \in 0..Len(z)
        /\ Len(s) <= Len(z)
    BY <2>1
  <2>5. Carried(s, Len(s)) \subseteq Carried(z, Len(z))
    <3>1. Carried(z, Len(s)) \subseteq Carried(z, Len(z))
      BY Zenon, <2>1, <2>4, <1>CarriedProperties
    <3>. QED BY Zenon, <2>2, <2>4, <3>1
  <2>6. m.op = "WRITE" => m.of \in Carried(z, Len(z))
    BY Zenon, <2>1, <2>4, <1>CarriedProperties
  <2>7. Lined(z, q, L)
    BY Zenon, <2>3 DEF Lined
  <2>8. \A x : Reached(s, q, L, x) => Reached(z, q, L, x)
    BY Zenon, <2>5 DEF Reached
  <2>. QED
    BY Zenon, <2>6, <2>7, <2>8

\* The first message is received; M is what has been placed then.
<1>LinedTail.
  ASSUME NEW s \in Seq(Message), s # <<>>, NEW q, NEW L, Lined(s, q, L), NEW M, L \subseteq M,
         Head(s).op = "WRITE" => Head(s).of \in M
  PROVE  /\ Lined(Tail(s), q, M)
         /\ \A x : Reached(s, q, L, x) => Reached(Tail(s), q, M, x)
         /\ Follows(Head(s), q, M)
  <2>. USE <1>LinedTail
  <2>. PICK z : z = Tail(s)
    BY Zenon
  <2>1. /\ Len(s) \in Nat \ {0} /\ Len(z) = Len(s) - 1
        /\ \A i \in 1..Len(z) : z[i] = s[i + 1]
        /\ Head(s) = s[1] /\ z \in Seq(Message)
    OBVIOUS
  <2>2. ASSUME NEW k \in 0..Len(z) PROVE L \cup Carried(s, k + 1) \subseteq M \cup Carried(z, k)
    <3>. SUFFICES ASSUME NEW j \in 1..(k + 1), s[j].op = "WRITE", s[j].of \notin M
                  PROVE  s[j].of \in Carried(z, k)
      BY Zenon DEF Carried
    <3>1. j # 1
      BY Zenon, <2>1
    <3>. PICK i : i = j - 1
      BY Zenon
    <3>2. i \in 1..k /\ i \in 1..Len(z) /\ i + 1 = j
      BY <2>1, <3>1
    <3>3. z[i] = s[j]
      BY Zenon, <2>1, <3>2
    <3>. QED BY Zenon, <3>2, <3>3 DEF Carried
  <2>3. ASSUME NEW k \in 1..Len(z) PROVE Follows(z[k], q, M \cup Carried(z, k - 1))
    <3>1. k + 1 \in 1..Len(s) /\ k - 1 \in 0..Len(z) /\ (k + 1) - 1 = (k - 1) + 1
      BY <2>1
    <3>2. Follows(s[k + 1], q, L \cup Carried(s, (k + 1) - 1))
      BY Zenon, <3>1 DEF Lined
    <3>3. Follows(s[k + 1], q, M \cup Carried(z, k - 1))
      BY Zenon, <2>2, <3>1, <3>2 DEF Follows
    <3>. QED BY Zenon, <2>1, <3>3
  <2>4. Len(s) = Len(z) + 1 /\ Len(z) \in 0..Len(z)
    BY <2>1
  <2>5. \A x : Reached(s, q, L, x) => Reached(z, q, M, x)
    BY Zenon, <2>2, <2>4 DEF Reached
  <2>6. Follows(Head(s), q, M)
    <3>1. 1 \in 1..Len(s) /\ 1 - 1 = 0
      BY <2>1
    <3>2. Follows(s[1], q, L \cup Carried(s, 0))
      BY Zenon, <3>1 DEF Lined
    <3>. QED BY Zenon, <2>1, <3>2, <1>CarriedProperties DEF Follows
  <2>. QED
    BY Zenon, <2>3, <2>5, <2>6 DEF Lined

\* More has been placed; more has been posted; the last messages are cut off.
<1>LinedMore.
  ASSUME NEW s, NEW q, NEW L, NEW M, L \subseteq M
  PROVE  /\ Lined(s, q, L) => Lined(s, q, M)
         /\ \A x : Reached(s, q, L, x) => Reached(s, q, M, x)
         /\ \A m : Follows(m, q, L) => Follows(m, q, M)
  BY Zenon, <1>LinedMore DEF Lined, Reached, Follows

\* Another request posted changes nothing for the ones before it.
<1>LinedPost.
  ASSUME NEW q \in Seq(Request), NEW t \in Request
  PROVE  /\ \A x \in 1..(Len(q) + 1) : Before(Append(q, t), x) = Before(q, x)
         /\ \A m, S : Follows(m, q, S) => Follows(m, Append(q, t), S)
  <2>. PICK z : z = Append(q, t)
    BY Zenon
  <2>1. /\ Len(q) \in Nat /\ Len(z) = Len(q) + 1 /\ \A i \in 1..Len(q) : z[i] = q[i]
    OBVIOUS
  <2>2. ASSUME NEW x \in 1..(Len(q) + 1) PROVE Before(z, x) = Before(q, x)
    <3>1. \A i : (i \in 1..Len(z) /\ i < x) <=> (i \in 1..Len(q) /\ i < x)
      BY <2>1
    <3>. QED BY Zenon, <2>1, <3>1 DEF Before
  <2>3. 1..Len(q) \subseteq 1..Len(z) /\ 1..Len(q) \subseteq 1..(Len(q) + 1)
    BY <2>1
  <2>4. \A m, S : Follows(m, q, S) => Follows(m, z, S)
    BY Zenon, <2>2, <2>3 DEF Follows
  <2>. QED
    BY Zenon, <2>2, <2>4

\* A reset that drops the last messages keeps the order of the others.
<1>LinedPrefix.
  ASSUME NEW s \in Seq(Message), NEW k \in 0..Len(s), NEW q, NEW L, Lined(s, q, L)
  PROVE  Lined(SubSeq(s, 1, k), q, L)
  <2>. USE <1>LinedPrefix
  <2>. PICK z : z = SubSeq(s, 1, k)
    BY Zenon
  <2>1. /\ Len(s) \in Nat /\ Len(z) = k /\ 1..k \subseteq 1..Len(s)
        /\ \A i \in 1..k : z[i] = s[i]
    OBVIOUS
  <2>2. ASSUME NEW l \in 1..k PROVE Follows(z[l], q, L \cup Carried(z, l - 1))
    <3>1. \A i \in 1..(l - 1) : i \in 1..k
      BY <2>1
    <3>2. Carried(z, l - 1) = Carried(s, l - 1)
      BY Zenon, <2>1, <3>1 DEF Carried
    <3>. QED BY Zenon, <2>1, <3>2 DEF Lined
  <2>. QED
    BY Zenon, <2>1, <2>2 DEF Lined

\* The completion queue is shifted and extended.
<1>AnswerQueue.
  ASSUME NEW s \in Seq(Wc), NEW q, NEW L, AllAnswer(s, q, L)
  PROVE  /\ s # <<>> => AllAnswer(Tail(s), q, L)
         /\ \A wc \in Wc : Answers(wc, q, L) => AllAnswer(Append(s, wc), q, L)
  <2>. USE <1>AnswerQueue
  <2>1. ASSUME s # <<>> PROVE AllAnswer(Tail(s), q, L)
    <3>1. \A i \in DOMAIN Tail(s) : i + 1 \in DOMAIN s /\ Tail(s)[i] = s[i + 1]
      BY Zenon, <2>1, AllTail
    <3>. QED BY Zenon, <3>1 DEF AllAnswer
  <2>2. ASSUME NEW x \in Wc, Answers(x, q, L) PROVE AllAnswer(Append(s, x), q, L)
    <3>1. \A i \in DOMAIN Append(s, x) :
            Append(s, x)[i] = x \/ (i \in DOMAIN s /\ Append(s, x)[i] = s[i])
      BY AllAppend
    <3>. QED BY Zenon, <2>2, <3>1 DEF AllAnswer
  <2>. QED
    BY Zenon, <2>1, <2>2

\* A step that sends nothing to n and receives nothing there.
<1>InLineFrame.
  ASSUME NEW n \in Node, InLine(n), net'[n] = net[n], posted'[Peer(n)] = posted[Peer(n)],
         placed \subseteq placed', Live(n)' => Live(n),
         rpc'[n] = "handle" => rpc[n] = "handle" /\ rmsg'[n] = rmsg[n],
         up' => up /\ Before(posted[Peer(n)], Due(Peer(n))') \subseteq
                      Before(posted[Peer(n)], Due(Peer(n))),
         AllAnswer(cqRecv'[n], posted[Peer(n)], Landed(n))
  PROVE  InLine(n)'
  <2>. USE <1>InLineFrame
  <2>. PICK q, L, M : q = posted[Peer(n)] /\ L = Landed(n) /\ M = Landed(n)'
    BY Zenon
  <2>1. L \subseteq M
    BY Zenon DEF Landed
  <2>2. Live(n)' => Lined(net[n], q, M)
    BY Zenon, <2>1, <1>LinedMore DEF InLine
  <2>3. Live(n)' /\ up' => Reached(net[n], q, M, Due(Peer(n))')
    <3>. SUFFICES ASSUME Live(n)', up' PROVE Reached(net[n], q, M, Due(Peer(n))')
      BY Zenon
    <3>1. Reached(net[n], q, L, Due(Peer(n)))
      BY Zenon DEF InLine
    <3>. QED BY Zenon, <2>1, <3>1 DEF Reached
  <2>4. rpc'[n] = "handle" => Follows(rmsg'[n], q, M)
    BY Zenon, <2>1, <1>LinedMore DEF InLine
  <2>5. AllAnswer(cqRecv'[n], q, M)
    BY Zenon, <2>1 DEF AllAnswer, Answers
  <2>. QED
    BY Zenon, <2>2, <2>3, <2>4, <2>5 DEF InLine

\* The writes before the next request.
<1>BeforeStep.
  ASSUME NEW q \in Seq(Request), NEW i \in 1..Len(q), NEW x \in Before(q, i + 1)
  PROVE  x \in Before(q, i) \/ (x = i /\ q[i].op = "WRITE")
  <2>1. x \in 1..Len(q) /\ x < i + 1 /\ q[x].op = "WRITE"
    BY Zenon DEF Before
  <2>2. x < i \/ x = i
    BY <2>1
  <2>. QED
    BY Zenon, <2>1, <2>2 DEF Before

\* The peer of k posts a request.
<1>PostInLine.
  ASSUME TypeOK, Accounts, NEW k \in Node, InLine(k), NEW t \in Requests, Post(Peer(k), t)
  PROVE  InLine(k)'
  <2>. USE <1>PostInLine
  <2>. PICK p : p = Peer(k)
    BY Zenon
  <2>0. p \in Node /\ posted[p] \in Seq(Request) /\ sqApp[p] \in Seq(SendWr) /\ t \in Request
        /\ p \in DOMAIN posted /\ p \in DOMAIN sqApp
    BY Zenon, PeerType, RequestAssumption DEF TypeOK
  <2>1. /\ net' = net /\ rpc' = rpc /\ rmsg' = rmsg /\ cqRecv' = cqRecv /\ placed' = placed
        /\ up' = up /\ spc' = spc /\ sreq' = sreq
        /\ posted'[p] = Append(posted[p], t)
    BY Zenon, <2>0 DEF Post, sendVars, recvVars
  <2>2. \E w \in SendWr : sqApp'[p] = Append(sqApp[p], w)
    <3>. PICK w : w = [op |-> t.op, id |-> Len(posted[p]) + 1, lbuf |-> t.lbuf, rbuf |-> t.rbuf,
                       nsge |-> t.nsge]
      BY Zenon
    <3>1. w \in SendWr
      BY <2>0 DEF Request, SendWr, RegionOrNo
    <3>2. sqApp'[p] = Append(sqApp[p], w)
      BY Zenon, <2>0 DEF Post, Enqueue
    <3>. QED BY Zenon, <3>1, <3>2
  <2>3. Len(posted'[p]) - Len(sqApp'[p]) = Len(posted[p]) - Len(sqApp[p])
    BY <2>0, <2>1, <2>2
  <2>4. Due(p)' = Due(p)
    BY Zenon, <2>1, <2>3 DEF Due
  <2>. PICK q, z, L, x : q = posted[p] /\ z = Append(posted[p], t) /\ L = Landed(k) /\ x = Due(p)
    BY Zenon
  <2>5. Before(z, x) = Before(q, x) /\ \A m, S : Follows(m, q, S) => Follows(m, z, S)
    BY Zenon, <2>0, <1>LinedPost, DueType
  <2>6. Lined(net[k], q, L) => Lined(net[k], z, L)
    BY Zenon, <2>5 DEF Lined
  <2>7. Reached(net[k], q, L, x) => Reached(net[k], z, L, x)
    BY Zenon, <2>5 DEF Reached
  <2>8. AllAnswer(cqRecv[k], q, L) => AllAnswer(cqRecv[k], z, L)
    <3>1. Len(q) \in Nat /\ Len(z) = Len(q) + 1
      BY <2>0
    <3>2. 1..Len(q) \subseteq 1..Len(z) /\ 1..Len(q) \subseteq 1..(Len(q) + 1)
      BY <3>1
    <3>3. \A y \in 1..Len(q) : Before(z, y) = Before(q, y)
      BY Zenon, <2>0, <3>2, <1>LinedPost
    <3>. QED BY Zenon, <3>2, <3>3 DEF AllAnswer, Answers
  <2>9. Landed(k)' = L /\ Live(k)' = Live(k)
    BY Zenon, <2>1 DEF Landed, Live
  <2>10. /\ Live(k) => Lined(net[k], z, L)
         /\ Live(k) /\ up => Reached(net[k], z, L, x)
         /\ rpc[k] = "handle" => Follows(rmsg[k], z, L)
         /\ AllAnswer(cqRecv[k], z, L)
    BY Zenon, <2>5, <2>6, <2>7, <2>8 DEF InLine
  <2>. QED
    BY Zenon, <2>1, <2>4, <2>9, <2>10 DEF InLine

\* rnic_send of the peer of k sends a message.
<1>TransmitInLine.
  ASSUME TypeOK, Accounts, NEW k \in Node, InLine(k), SendTransmit(Peer(k)), up
  PROVE  InLine(k)'
  <2>. USE <1>TransmitInLine
  <2>. PICK p : p = Peer(k)
    BY Zenon
  <2>. PICK m : m = MessageOf(p, sreq[p])
    BY Zenon
  <2>0. p \in Node /\ net[k] \in Seq(Message) /\ k = Peer(p) /\ posted[p] \in Seq(Request)
        /\ sreq[p] \in SendWr /\ k \in DOMAIN net /\ k # p
    BY Zenon, PeerType DEF TypeOK
  <2>1. m \in Message
    BY Zenon, <2>0, MessageOfType
  <2>2. m.of = sreq[p].id /\ m.op = sreq[p].op
    BY Zenon DEF MessageOf
  <2>3. /\ net'[k] = Append(net[k], m) /\ rpc' = rpc /\ rmsg' = rmsg /\ cqRecv' = cqRecv
        /\ placed' = placed /\ up' = up /\ posted' = posted
    BY Zenon, <2>0 DEF SendTransmit, recvVars, appVars
  <2>. PICK q, L, s : q = posted[p] /\ L = Landed(k) /\ s = net[k]
    BY Zenon
  <2>4. /\ Landed(k)' = L /\ Live(k)' = Live(k)
    BY Zenon, <2>3 DEF Landed, Live
  <2>5. CASE ~Live(k)
    BY Zenon, <2>3, <2>4, <2>5 DEF InLine, Live
  <2>6. CASE Live(k)
    <3>1. Lined(s, q, L) /\ Reached(s, q, L, Due(p))
      BY Zenon, <2>6 DEF InLine
    <3>2. SendThread(p)
      BY Zenon DEF SendThread
    <3>3. CASE sreq[p].op = "READ_RESP"
      <4>1. Due(p)' = Due(p)
        BY Zenon, <2>0, <3>2, <3>3, DueStep
      <4>2. Follows(m, q, L \cup Carried(s, Len(s)))
        BY Zenon, <2>2, <3>3 DEF Follows, IsRequest
      <4>3. Lined(Append(s, m), q, L) /\ Reached(Append(s, m), q, L, Due(p))
        BY Zenon, <2>0, <2>1, <3>1, <4>2, <1>LinedAppend
      <4>. QED BY Zenon, <2>3, <2>4, <4>1, <4>3 DEF InLine
    <3>4. CASE sreq[p].op # "READ_RESP"
      <4>1. spc[p] = "send" /\ Due(p) = sreq[p].id
        BY Zenon, <3>4 DEF SendTransmit, Due
      <4>2. /\ sreq[p].id = Len(q) - Len(sqApp[p]) /\ sreq[p].op = q[sreq[p].id].op
            /\ sreq[p].id \in InThread(p)
        BY Zenon, <2>0, <3>4, <4>1 DEF Accounts, InHand, InThread
      <4>3. sreq[p].id \in 1..Len(q)
        BY Zenon, <2>0, <4>2, HeldPosted DEF Accounts
      <4>4. Follows(m, q, L \cup Carried(s, Len(s)))
        BY Zenon, <2>2, <3>1, <4>1, <4>3 DEF Follows, Reached
      <4>5. /\ Lined(Append(s, m), q, L) /\ Reached(Append(s, m), q, L, Due(p))
            /\ m.op = "WRITE" => m.of \in Carried(Append(s, m), Len(Append(s, m)))
        BY Zenon, <2>0, <2>1, <3>1, <4>4, <1>LinedAppend
      <4>6. Reached(Append(s, m), q, L, sreq[p].id + 1)
        <5>0. q \in Seq(Request)
          BY Zenon, <2>0
        <5>1. ASSUME NEW x \in Before(q, sreq[p].id + 1)
              PROVE  x \in Before(q, sreq[p].id) \/ (x = sreq[p].id /\ q[sreq[p].id].op = "WRITE")
          BY Zenon, <4>3, <5>0, <1>BeforeStep
        <5>. QED BY Zenon, <2>2, <4>1, <4>2, <4>5, <5>1 DEF Reached
      <4>7. Reached(Append(s, m), q, L, Due(p)')
        BY Zenon, <2>0, <3>2, <4>1, <4>5, <4>6, DueStep
      <4>. QED BY Zenon, <2>3, <2>4, <4>5, <4>7 DEF InLine
    <3>. QED BY Zenon, <3>3, <3>4
  <2>. QED
    BY Zenon, <2>5, <2>6

\* The other steps of rnic_send of the peer.
<1>SendInLine.
  ASSUME TypeOK, Accounts, NEW k \in Node, InLine(k), SendThread(Peer(k)),
         SendTransmit(Peer(k)) => ~up
  PROVE  InLine(k)'
  <2>. USE <1>SendInLine
  <2>. PICK p : p = Peer(k)
    BY Zenon
  <2>0. p \in Node /\ posted[p] \in Seq(Request) /\ cqRecv[k] \in Seq(Wc)
    BY Zenon, PeerType DEF TypeOK
  <2>1. /\ net' = net /\ rpc' = rpc /\ rmsg' = rmsg /\ cqRecv' = cqRecv /\ placed' = placed
        /\ up' = up /\ posted' = posted
    BY Zenon DEF SendThread, SendDequeue, SendTransmit, SendReject, SendComplete, SendExit,
       SendKilled, recvVars, appVars
  <2>2. ASSUME up PROVE Before(posted[p], Due(p)') \subseteq Before(posted[p], Due(p))
    <3>1. CASE Due(p)' = Due(p)
      BY Zenon, <3>1
    <3>2. CASE Due(p)' # Due(p)
      <4>1. /\ spc[p] = "send" /\ Due(p) = sreq[p].id
            /\ sreq[p].op = posted[p][sreq[p].id].op /\ sreq[p].id \in 1..Len(posted[p])
            /\ Due(p)' = sreq[p].id + 1
        BY Zenon, <2>0, <3>2, DueStep
      <4>2. SendReject(p)
        BY Zenon, <2>2, <4>1 DEF SendThread, SendDequeue, SendComplete, SendExit, SendKilled
      <4>3. sreq[p].op # "WRITE"
        BY Zenon, <4>2 DEF SendReject, Sendable
      <4>. QED BY Zenon, <2>0, <4>1, <4>3, <1>BeforeStep
    <3>. QED BY Zenon, <3>1, <3>2
  <2>3. AllAnswer(cqRecv'[k], posted[p], Landed(k))
    BY Zenon, <2>1 DEF InLine
  <2>. QED
    BY Zenon, <2>1, <2>2, <2>3, <1>InLineFrame DEF Live

\* ddp_recv at k takes the first message.
<1>ReceiveInLine.
  ASSUME TypeOK, NEW k \in Node, InLine(k), RecvTagged(k) \/ RecvUntagged(k)
  PROVE  InLine(k)'
  <2>. USE <1>ReceiveInLine
  <2>. PICK p, q, L, M, s : /\ p = Peer(k) /\ q = posted[p] /\ s = net[k] /\ L = Landed(k)
                            /\ M = Landed(k)'
    BY Zenon
  <2>0. s \in Seq(Message) /\ p \in Node /\ k \in DOMAIN net /\ k \in DOMAIN rmsg /\ k \in DOMAIN rpc
    BY Zenon, PeerType DEF TypeOK
  <2>1. /\ s # <<>> /\ net'[k] = Tail(s) /\ rmsg'[k] = Head(s) /\ rpc[k] = "recv"
        /\ cqRecv' = cqRecv /\ posted' = posted /\ up' = up /\ UNCHANGED sendVars
        /\ sqApp' = sqApp
    BY Zenon, <2>0 DEF RecvTagged, RecvUntagged, appVars
  <2>2. Head(s) \in Message /\ Head(s).of \in Nat
    <3>1. Head(s) \in Message
      BY Zenon, <2>0, <2>1, TailType
    <3>. QED BY Zenon, <3>1 DEF Message
  <2>3. placed \subseteq placed' /\ (Head(s).op = "WRITE" => <<p, Head(s).of>> \in placed')
    BY Zenon DEF RecvTagged, RecvUntagged, TaggedOps
  <2>4. L \subseteq M /\ (Head(s).op = "WRITE" => Head(s).of \in M)
    BY Zenon, <2>2, <2>3 DEF Landed
  <2>5. Live(k) /\ Due(p)' = Due(p)
    BY Zenon, <2>1 DEF Live, Due, sendVars
  <2>6. Lined(s, q, L) /\ (up => Reached(s, q, L, Due(p)))
    BY Zenon, <2>5 DEF InLine
  <2>7. Lined(Tail(s), q, M) /\ Follows(Head(s), q, M) /\ (up => Reached(Tail(s), q, M, Due(p)))
    BY Zenon, <2>0, <2>1, <2>4, <2>6, <1>LinedTail
  <2>8. AllAnswer(cqRecv[k], q, L)
    BY Zenon DEF InLine
  <2>9. AllAnswer(cqRecv[k], q, M)
    BY Zenon, <2>4, <2>8 DEF AllAnswer, Answers
  <2>. QED
    BY Zenon, <2>1, <2>5, <2>7, <2>9 DEF InLine

\* rnic_recv of k fails or handles the message.
<1>HandleInLine.
  ASSUME TypeOK, Accounts, NEW k \in Node, InLine(k),
         \/ RecvError(k) \/ HandleWrite(k) \/ HandleReadReq(k) \/ HandleReadResp(k)
         \/ HandleSend(k) \/ HandleSendInval(k) \/ HandleTerminate(k)
  PROVE  InLine(k)'
  <2>. USE <1>HandleInLine
  <2>. PICK p, q, L : p = Peer(k) /\ q = posted[p] /\ L = Landed(k)
    BY Zenon
  <2>0. /\ cqRecv[k] \in Seq(Wc) /\ pendq[k] \in Seq(Wc) /\ rq[k] \in Seq(Nat) /\ rmsg[k] \in Message
        /\ k \in DOMAIN cqRecv /\ k \in DOMAIN rpc /\ k \in DOMAIN net
    BY Zenon DEF TypeOK
  <2>1. posted' = posted /\ placed' = placed /\ up' = up /\ UNCHANGED sendVars /\ sqApp' = sqApp
        /\ rmsg' = rmsg
    BY Zenon DEF RecvError, HandleWrite, HandleReadReq, HandleReadResp, HandleSend,
       HandleSendInval, HandleTerminate, appVars
  <2>2. rpc'[k] # "handle" /\ (Live(k)' => Live(k) /\ net' = net)
    BY Zenon, <2>0 DEF RecvError, HandleWrite, HandleReadReq, HandleReadResp, HandleSend,
       HandleSendInval, HandleTerminate, LoopAgain, Live
  <2>3. Due(p)' = Due(p) /\ Landed(k)' = L
    BY Zenon, <2>1 DEF Due, Landed, sendVars
  <2>4. AllAnswer(cqRecv[k], q, L)
    BY Zenon DEF InLine
  <2>5. ASSUME CompleteRecv(k), rpc[k] = "handle", IsRequest(rmsg[k])
        PROVE  AllAnswer(cqRecv'[k], q, L)
    <3>1. CASE rq[k] = <<>>
      BY Zenon, <2>4, <2>5, <3>1 DEF CompleteRecv
    <3>2. CASE rq[k] # <<>>
      <4>. PICK w : w = [id |-> Head(rq[k]), op |-> rmsg[k].op, ok |-> TRUE, of |-> rmsg[k].of]
        BY Zenon
      <4>1. Head(rq[k]) \in Nat
        BY Zenon, <2>0, <3>2, TailType
      <4>2. w \in Wc /\ w.of = rmsg[k].of
        BY Zenon, <2>0, <4>1 DEF Wc, Message
      <4>3. Answers(w, q, L)
        BY Zenon, <2>5, <4>2 DEF InLine, Follows, Answers
      <4>4. cqRecv'[k] = Append(cqRecv[k], w)
        BY Zenon, <2>0, <2>5, <3>2 DEF CompleteRecv
      <4>. QED BY Zenon, <2>0, <2>4, <4>2, <4>3, <4>4, <1>AnswerQueue
    <3>. QED BY Zenon, <3>1, <3>2
  <2>6. AllAnswer(cqRecv'[k], q, L)
    <3>1. CASE RecvError(k) \/ HandleWrite(k) \/ HandleReadReq(k) \/ HandleTerminate(k)
      BY Zenon, <2>4, <3>1 DEF RecvError, HandleWrite, HandleReadReq, HandleTerminate
    <3>2. CASE HandleReadResp(k)
      <4>1. CASE pendq[k] = <<>>
        BY Zenon, <2>4, <3>2, <4>1 DEF HandleReadResp
      <4>2. CASE pendq[k] # <<>>
        <5>1. Head(pendq[k]) \in Wc /\ cqRecv'[k] = Append(cqRecv[k], Head(pendq[k]))
          BY Zenon, <2>0, <3>2, <4>2, TailType DEF HandleReadResp
        <5>2. Head(pendq[k]).of = 0
          BY Zenon, <2>0, <4>2, OwnTail DEF Accounts, Balanced, Books
        <5>3. Answers(Head(pendq[k]), q, L)
          BY Zenon, <5>2 DEF Answers
        <5>. QED BY Zenon, <2>0, <2>4, <5>1, <5>3, <1>AnswerQueue
      <4>. QED BY Zenon, <4>1, <4>2
    <3>3. CASE HandleSend(k)
      <4>1. CompleteRecv(k) /\ rpc[k] = "handle" /\ IsRequest(rmsg[k])
        BY Zenon, <3>3 DEF HandleSend, IsRequest, SendOps
      <4>. QED BY Zenon, <2>5, <4>1
    <3>4. CASE HandleSendInval(k)
      <4>1. (CompleteRecv(k) \/ cqRecv' = cqRecv) /\ rpc[k] = "handle" /\ IsRequest(rmsg[k])
        BY Zenon, <3>4 DEF HandleSendInval, IsRequest, InvalOps
      <4>. QED BY Zenon, <2>4, <2>5, <4>1
    <3>. QED BY Zenon, <3>1, <3>2, <3>3, <3>4
  <2>7. CASE Live(k)'
    BY Zenon, <2>1, <2>2, <2>3, <2>6, <2>7, <1>InLineFrame
  <2>8. CASE ~Live(k)'
    BY Zenon, <2>1, <2>2, <2>3, <2>6, <2>8 DEF InLine
  <2>. QED
    BY Zenon, <2>7, <2>8

\* The connection breaks, or k is sent a Terminate.
<1>EnvironmentInLine.
  ASSUME TypeOK, NEW k \in Node, InLine(k), Reset \/ \E n \in Node : PeerTerminates(n)
  PROVE  InLine(k)'
  <2>. USE <1>EnvironmentInLine
  <2>. PICK p, q, L, s : p = Peer(k) /\ q = posted[p] /\ L = Landed(k) /\ s = net[k]
    BY Zenon
  <2>0. s \in Seq(Message) /\ DOMAIN net = Node
    BY Zenon DEF TypeOK
  <2>1. posted' = posted /\ placed' = placed /\ rpc' = rpc /\ rmsg' = rmsg /\ cqRecv' = cqRecv
        /\ UNCHANGED sendVars /\ sqApp' = sqApp
    BY Zenon DEF Reset, PeerTerminates, recvVars, appVars
  <2>2. Due(p)' = Due(p) /\ Landed(k)' = L /\ Live(k)' = Live(k)
    BY Zenon, <2>1 DEF Due, Landed, Live, sendVars
  <2>3. CASE Reset
    <3>1. PICK j \in 0..Len(s) : net'[k] = SubSeq(s, 1, j)
      BY Zenon, <2>3 DEF Reset, Node
    <3>2. up' = FALSE
      BY Zenon, <2>3 DEF Reset
    <3>3. Lined(s, q, L) => Lined(net'[k], q, L)
      BY Zenon, <2>0, <3>1, <1>LinedPrefix
    <3>. QED BY Zenon, <2>1, <2>2, <3>2, <3>3 DEF InLine
  <2>4. ASSUME NEW n \in Node, PeerTerminates(n) PROVE InLine(k)'
    <3>. PICK m : m = [NoMessage EXCEPT !.msn = 1]
      BY Zenon
    <3>1. m \in Message /\ m.op = "TERMINATE"
      BY Zenon DEF NoMessage, Message, Opcode, RegionOrNo, Val, Node
    <3>2. up' = up /\ (net'[k] = s \/ net'[k] = Append(s, m))
      BY Zenon, <2>0, <2>4 DEF PeerTerminates
    <3>3. CASE net'[k] = s
      BY Zenon, <2>1, <2>2, <3>2, <3>3 DEF InLine
    <3>4. CASE net'[k] = Append(s, m)
      <4>1. Follows(m, q, L \cup Carried(s, Len(s)))
        BY Zenon, <3>1 DEF Follows, IsRequest
      <4>2. Lined(s, q, L) => /\ Lined(Append(s, m), q, L)
                              /\ \A x : Reached(s, q, L, x) => Reached(Append(s, m), q, L, x)
        BY Zenon, <2>0, <3>1, <4>1, <1>LinedAppend
      <4>. QED BY Zenon, <2>1, <2>2, <3>2, <3>4, <4>2 DEF InLine
    <3>. QED BY Zenon, <3>2, <3>3, <3>4
  <2>. QED
    BY Zenon, <2>3, <2>4

\* The calls of the application at k, or at its peer unless it posts a request.
<1>AppInLine.
  ASSUME TypeOK, NEW k \in Node, InLine(k), NEW n \in Node, App(n),
         n = Peer(k) => posted' = posted
  PROVE  InLine(k)'
  <2>. USE <1>AppInLine
  <2>. PICK p : p = Peer(k)
    BY Zenon
  <2>0. p \in Node /\ p # k /\ cqRecv[k] \in Seq(Wc) /\ DOMAIN posted = Node /\ DOMAIN sqApp = Node
        /\ DOMAIN cqRecv = Node
    BY Zenon, PeerType DEF TypeOK
  <2>1. /\ net' = net /\ rpc' = rpc /\ rmsg' = rmsg /\ placed' = placed /\ up' = up
        /\ spc' = spc /\ sreq' = sreq
    BY Zenon DEF App, RdmapSend, RdmapWrite, RdmapRead, Post, PostRecvBuffers,
       PostRecvRequest, PollCq, Register, Invalidate, sendVars, recvVars
  <2>2. posted'[p] = posted[p] /\ sqApp'[p] = sqApp[p]
    <3>1. CASE n = k
      BY Zenon, <2>0, <3>1, Elsewhere DEF Untouched
    <3>2. CASE n # k
      <4>0. n = p
        BY Zenon, <2>0, <3>2 DEF Node
      <4>1. n = p /\ posted' = posted
        BY Zenon, <4>0
      <4>2. ASSUME NEW t \in Requests, Post(n, t) PROVE FALSE
        <5>0. posted[n] \in Seq(Request) /\ t \in Request
          BY Zenon, RequestAssumption DEF TypeOK
        <5>1. posted'[n] = Append(posted[n], t) /\ posted[n] \in Seq(Request) /\ t \in Request
          BY Zenon, <4>2, <5>0, <2>0 DEF Post
        <5>. QED BY <5>1, <4>1
      <4>. QED BY Zenon, <4>1, <4>2 DEF App, RdmapSend, RdmapWrite, RdmapRead, PostRecvBuffers,
                  PostRecvRequest, PollCq, Register, Invalidate
    <3>. QED BY Zenon, <3>1, <3>2
  <2>3. AllAnswer(cqRecv[k], posted[p], Landed(k))
    BY Zenon DEF InLine
  <2>4. AllAnswer(cqRecv'[k], posted[p], Landed(k))
    <3>1. CASE cqRecv'[k] = cqRecv[k]
      BY Zenon, <2>3, <3>1
    <3>2. CASE cqRecv'[k] # cqRecv[k]
      <4>1. cqRecv[k] # <<>> /\ cqRecv'[k] = Tail(cqRecv[k])
        BY Zenon, <2>0, <3>2 DEF App, RdmapSend, RdmapWrite, RdmapRead, Post, PostRecvBuffers,
           PostRecvRequest, PollCq, Register, Invalidate
      <4>. QED BY Zenon, <2>0, <2>3, <4>1, <1>AnswerQueue
    <3>. QED BY Zenon, <3>1, <3>2
  <2>5. Due(p)' = Due(p)
    BY Zenon, <2>1, <2>2 DEF Due
  <2>. QED
    BY Zenon, <2>1, <2>2, <2>4, <2>5, <1>InLineFrame DEF Live

\* rnic_send of k sends to its peer; rnic_recv of the peer receives from k.
<1>ElsewhereInLine.
  ASSUME TypeOK, NEW k \in Node, InLine(k), SendThread(k) \/ RecvThread(Peer(k))
  PROVE  InLine(k)'
  <2>. USE <1>ElsewhereInLine
  <2>. PICK p : p = Peer(k)
    BY Zenon
  <2>0. p \in Node /\ p # k /\ k = Peer(p) /\ DOMAIN net = Node /\ DOMAIN rpc = Node
        /\ DOMAIN rmsg = Node /\ DOMAIN cqRecv = Node
    BY Zenon, PeerType DEF TypeOK
  <2>1. AllAnswer(cqRecv[k], posted[p], Landed(k))
    BY Zenon DEF InLine
  <2>2. CASE SendThread(k)
    <3>1. Untouched(p)
      BY Zenon, <2>0, <2>2, Elsewhere
    <3>2. /\ net'[k] = net[k] /\ rpc' = rpc /\ rmsg' = rmsg /\ cqRecv' = cqRecv /\ placed' = placed
          /\ up' = up
      BY Zenon, <2>0, <2>2 DEF SendThread, SendDequeue, SendTransmit, SendReject, SendComplete,
         SendExit, SendKilled, recvVars
    <3>3. Due(p)' = Due(p) /\ posted'[p] = posted[p]
      BY Zenon, <3>1 DEF Due, Untouched
    <3>. QED BY Zenon, <2>1, <3>2, <3>3, <1>InLineFrame DEF Live
  <2>3. CASE RecvThread(p)
    <3>1. Untouched(k)
      BY Zenon, <2>0, <2>3, Elsewhere
    <3>2. /\ net'[k] = net[k] /\ rpc'[k] = rpc[k] /\ rmsg'[k] = rmsg[k] /\ placed \subseteq placed'
          /\ up' = up /\ posted' = posted /\ sqApp' = sqApp /\ UNCHANGED sendVars
      BY Zenon, <2>0, <2>3 DEF RecvThread, RecvTagged, RecvUntagged, RecvError, HandleWrite,
         HandleReadReq, HandleReadResp, HandleSend, HandleSendInval, HandleTerminate, LoopAgain,
         appVars
    <3>3. Due(p)' = Due(p)
      BY Zenon, <3>2 DEF Due, sendVars
    <3>4. cqRecv'[k] = cqRecv[k]
      BY Zenon, <3>1 DEF Untouched
    <3>. QED BY Zenon, <2>1, <3>2, <3>3, <3>4, <1>InLineFrame DEF Live
  <2>. QED
    BY Zenon, <2>2, <2>3

\* Nothing is on its way at first.
<1>InitInLine. Init => AllInLine
  <2>. SUFFICES ASSUME Init, NEW k \in Node PROVE InLine(k)
    BY Zenon DEF AllInLine
  <2>1. net[k] = <<>> /\ cqRecv[k] = <<>> /\ rpc[k] = "recv"
    BY Zenon DEF Init
  <2>2. posted[Peer(k)] = <<>> /\ sqApp[Peer(k)] = <<>> /\ spc[Peer(k)] = "poll"
    BY Zenon, PeerType DEF Init
  <2>3. Len(<<>>) = 0 /\ DOMAIN <<>> = {} /\ 1..0 = {}
    OBVIOUS
  <2>4. AllAnswer(<<>>, <<>>, Landed(k)) /\ Lined(<<>>, <<>>, Landed(k))
        /\ \A x : Reached(<<>>, <<>>, Landed(k), x)
    BY Zenon, <2>3 DEF AllAnswer, Lined, Reached, Before
  <2>. QED
    BY Zenon, <2>1, <2>2, <2>4 DEF InLine

\* Every step keeps the messages in the order of their requests.
<1>NextInLine.
  ASSUME TypeOK, Accounts, AllInLine, [Next]_vars
  PROVE  AllInLine'
  <2>. USE <1>NextInLine
  <2>. SUFFICES ASSUME NEW k \in Node PROVE InLine(k)'
    BY Zenon DEF AllInLine
  <2>0. InLine(k) /\ \A n \in Node : n = k \/ n = Peer(k)
    BY Zenon DEF AllInLine, Node, Peer
  <2>1. ASSUME NEW n \in Node, App(n) PROVE InLine(k)'
    <3>1. CASE n = Peer(k) /\ \E t \in Requests : Post(n, t)
      BY Zenon, <2>0, <3>1, <1>PostInLine
    <3>2. CASE ~(n = Peer(k) /\ \E t \in Requests : Post(n, t))
      <4>1. n = Peer(k) => posted' = posted
        BY Zenon, <2>1, <3>2 DEF App, RdmapSend, RdmapWrite, RdmapRead, PostRecvBuffers,
           PostRecvRequest, PollCq, Register, Invalidate, appVars
      <4>. QED BY Zenon, <2>0, <2>1, <4>1, <1>AppInLine
    <3>. QED BY Zenon, <3>1, <3>2
  <2>2. ASSUME NEW n \in Node, SendThread(n) PROVE InLine(k)'
    BY Zenon, <2>0, <2>2, <1>TransmitInLine, <1>SendInLine, <1>ElsewhereInLine
  <2>3. ASSUME NEW n \in Node, RecvThread(n) PROVE InLine(k)'
    BY Zenon, <2>0, <2>3, <1>ReceiveInLine, <1>HandleInLine, <1>ElsewhereInLine DEF RecvThread
  <2>4. CASE UNCHANGED vars
    BY Zenon, <2>0, <2>4 DEF vars, sendVars, recvVars, appVars, InLine, Live, Due, Landed
  <2>. QED
    BY Zenon, <2>0, <2>1, <2>2, <2>3, <2>4, <1>EnvironmentInLine DEF Next, Process

\* In that order, a send is handled after the writes posted before it are placed.
<1>InLineOrders. TypeOK /\ AllInLine => WriteBeforeSend
  <2>. SUFFICES ASSUME TypeOK, NEW n \in Node, InLine(n), NEW j \in DOMAIN cqRecv[n],
                       cqRecv[n][j].of # 0, NEW i \in 1..(cqRecv[n][j].of - 1),
                       posted[Peer(n)][i].op = "WRITE"
                PROVE  <<Peer(n), i>> \in placed
    BY Zenon DEF WriteBeforeSend, Items, AllInLine
  <2>. PICK q, x : q = posted[Peer(n)] /\ x = cqRecv[n][j].of
    BY Zenon
  <2>1. x \in 1..Len(q) /\ Before(q, x) \subseteq Landed(n) /\ i \in 1..(x - 1)
    BY Zenon DEF InLine, AllAnswer, Answers
  <2>2. q \in Seq(Request)
    BY Zenon, PeerType DEF TypeOK
  <2>3. i \in 1..Len(q) /\ i < x
    BY <2>1, <2>2
  <2>4. i \in Before(q, x)
    BY Zenon, <2>3 DEF Before
  <2>. QED
    BY Zenon, <2>1, <2>4 DEF Landed

<1>Step. TypeOK /\ Accounts /\ AllInLine /\ [Next]_vars => AllInLine'
  BY Zenon, <1>NextInLine
<1>. QED
  BY TypeCorrect, AccountsKept, <1>InitInLine, <1>InLineOrders, <1>Step, PTL DEF Spec
==============================================================================
