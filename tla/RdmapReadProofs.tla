---------------------------- MODULE RdmapReadProofs ----------------------------
(***************************************************************************)
(* A read that completes with success has its data in place: the proof of  *)
(* ReadCompletionSound.  RdmapStageProofs has the stages of a read and what *)
(* rnic_send does to them; here are the steps of rnic_recv on either side, *)
(* of the application, and of a reset and a Terminate, and then the        *)
(* completions.                                                            *)
(***************************************************************************)
EXTENDS RdmapStageProofs

\* The steps of rnic_recv of n that leave the responses as they are.
LEMMA RecvKeptReads ==
  ASSUME TypeOK, TypeOK', Accounts, NEW n \in Node, Lines(n), Flow(n), RecvThread(n),
         Handling(n)' = Handling(n), Returning(n)' = Returning(n), pendq'[n] = pendq[n],
         Ascending(net'[n], "READ_RESP")
  PROVE  Lines(n)' /\ Flow(n)'
<1>. DEFINE p == Peer(n)
<1>1. /\ Answering(p)' = Answering(p) /\ ToAnswer(p)' = ToAnswer(p) /\ Asked(p)' = Asked(p)
      /\ Asking(p)' = Asking(p) /\ Answered(n)' = Answered(n) /\ Back(n) \subseteq Back(n)'
      /\ Due(n)' = Due(n) /\ up' = up /\ net'[p] = net[p] /\ sqRecv'[p] = sqRecv[p]
      /\ Waiting(n)' = Waiting(n)
  BY Zenon, RecvAsker
<1>2. Lines(n)'
  BY Zenon, <1>1 DEF Lines
<1>3. Answered(n)' => Answered(n) /\ Asking(p)' = Asking(p)
  BY Zenon, <1>1
<1>4. Due(n)' \in Nat /\ Due(n) <= Due(n)'
  <2>1. Due(n) \in Nat
    BY Zenon, DueNat
  <2>. QED BY <1>1, <2>1
<1>5. Flow(n)'
  BY Zenon, <1>1, <1>3, <1>4, FlowKept
<1>. QED
  BY Zenon, <1>2, <1>5

\* ddp_recv of n places a read response.
LEMMA RespReads ==
  ASSUME TypeOK, TypeOK', Accounts, NEW n \in Node, Lines(n), Flow(n), RecvThread(n),
         RecvTagged(n), Head(net[n]).op = "READ_RESP"
  PROVE  Lines(n)' /\ Flow(n)'
<1>. DEFINE p == Peer(n)
            s == net[n]
            x == Head(s).of
            st == Stages(n)
            u  == Stages(n)'
<1>1. /\ rpc[n] = "recv" /\ s # <<>> /\ net'[n] = Tail(s) /\ rmsg'[n] = Head(s)
      /\ rpc'[n] = "handle" /\ placed' = placed \cup {<<n, x>>} /\ pendq' = pendq
  <2>1. /\ rpc[n] = "recv" /\ s # <<>> /\ net' = [net EXCEPT ![n] = Tail(@)]
        /\ rmsg' = [rmsg EXCEPT ![n] = Head(s)] /\ rpc' = [rpc EXCEPT ![n] = "handle"]
        /\ placed' = placed \cup {<<IF Head(s).op = "WRITE" THEN Peer(n) ELSE n, x>>}
        /\ pendq' = pendq
    BY Zenon DEF RecvTagged
  <2>2. /\ net \in [Node -> Seq(Message)] /\ rmsg \in [Node -> Message]
        /\ rpc \in [Node -> {"recv", "handle", "exit", "dead", "cut"}]
    BY Zenon DEF TypeOK
  <2>. QED BY Zenon, <2>1, <2>2
<1>2. s \in Seq(Message) /\ x \in Nat
  <2>1. s \in Seq(Message)
    BY Zenon DEF TypeOK
  <2>2. Head(s) \in Message
    BY Zenon, <1>1, <2>1, TailType
  <2>. QED BY Zenon, <2>1, <2>2 DEF Message
<1>3. x \in Back(n)'
  BY Zenon, <1>1, <1>2 DEF Back
<1>4. /\ Answering(p)' = Answering(p) /\ ToAnswer(p)' = ToAnswer(p) /\ Asked(p)' = Asked(p)
      /\ Asking(p)' = Asking(p) /\ Answered(n)' = Answered(n) /\ Back(n) \subseteq Back(n)'
      /\ Due(n)' = Due(n) /\ up' = up /\ net'[p] = net[p] /\ sqRecv'[p] = sqRecv[p]
      /\ Waiting(n)' = Waiting(n)
  BY Zenon, <1>1, RecvAsker
<1>5. Handling(n) = {} /\ Handling(n)' = {x}
  BY Zenon, <1>1 DEF Handling, Only
<1>6. /\ OfIds(s, "READ_RESP") = OfIds(Tail(s), "READ_RESP") \cup {x}
      /\ Ascending(Tail(s), "READ_RESP") /\ Below({x}, OfIds(Tail(s), "READ_RESP"))
  <2>1. Ascending(s, "READ_RESP")
    BY Zenon DEF Lines
  <2>2. /\ Head(s).op = "READ_RESP" => OfIds(s, "READ_RESP") = OfIds(Tail(s), "READ_RESP") \cup {x}
        /\ Ascending(s, "READ_RESP") =>
             /\ Ascending(Tail(s), "READ_RESP")
             /\ Head(s).op = "READ_RESP" => Below({x}, OfIds(Tail(s), "READ_RESP"))
    BY Zenon, <1>1, <1>2, OfIdsTail
  <2>. QED BY Zenon, <2>1, <2>2
<1>7. Lines(n)'
  BY Zenon, <1>1, <1>4, <1>6 DEF Lines
<1>8. st \in Pipeline /\ u \in Pipeline
  BY Zenon, ReadsFacts
<1>9. /\ st[1] = {} /\ u[1] = {x} /\ st[2] = OfIds(s, "READ_RESP")
      /\ u[2] = OfIds(Tail(s), "READ_RESP")
  BY Zenon, ReadsFacts, <1>1, <1>5 DEF Returning
<1>10. u[3] = st[3] /\ u[4] = st[4] /\ u[5] = st[5] /\ u[6] = st[6]
  BY Zenon, StageKept, <1>4
<1>. HIDE DEF st, u, x, s
<1>11. Moves(st, u, 1, x)
  <2>1. st[2] = u[2] \cup {x} /\ Below({x}, u[2]) /\ u[1] = st[1] \cup {x}
    BY Zenon, <1>6, <1>9
  <2>2. Same(st, u, {3, 4, 5, 6})
    BY Zenon, <1>10 DEF Same
  <2>. QED BY Zenon, <1>8, <2>1, <2>2, PartsMove
<1>12. Flow(n)'
  BY Zenon, <1>3, <1>4, <1>11, FlowMoves DEF st, u
<1>. QED
  BY Zenon, <1>7, <1>12

\* rnic_recv of n handles a read response: it is of the read that waits longest.
LEMMA DoneReads ==
  ASSUME TypeOK, TypeOK', Accounts, NEW n \in Node, Lines(n), Flow(n), RecvThread(n),
         HandleReadResp(n)
  PROVE  Lines(n)' /\ Flow(n)' /\ (pendq[n] # <<>> => Head(pendq[n]).id \in Back(n))
<1>. DEFINE p == Peer(n)
            q == pendq[n]
            x == rmsg[n].of
            h == Head(q).id
            st == Stages(n)
            u  == Stages(n)'
            P  == Back(n)
            d  == Due(n)
            on == Answered(n)
            W  == Waiting(n)
<1>1. /\ rpc[n] = "handle" /\ rmsg[n].op = "READ_RESP" /\ rpc'[n] # "handle" /\ net' = net
      /\ placed' = placed /\ pendq'[n] = IF q = <<>> THEN q ELSE Tail(q)
  <2>1. /\ rpc[n] = "handle" /\ rmsg[n].op = "READ_RESP" /\ net' = net /\ placed' = placed
        /\ rpc' = [rpc EXCEPT ![n] = IF connected[n] THEN "recv" ELSE "exit"]
        /\ pendq' = IF q = <<>> THEN pendq ELSE [pendq EXCEPT ![n] = Tail(@)]
    BY Zenon DEF HandleReadResp, LoopAgain
  <2>2. pendq \in [Node -> Seq(Wc)] /\ rpc \in [Node -> {"recv", "handle", "exit", "dead", "cut"}]
    BY Zenon DEF TypeOK
  <2>3. rpc'[n] # "handle"
    BY Zenon, <2>1, <2>2
  <2>. QED BY Zenon, <2>1, <2>2, <2>3
<1>2. /\ Answering(p)' = Answering(p) /\ ToAnswer(p)' = ToAnswer(p) /\ Asked(p)' = Asked(p)
      /\ Asking(p)' = Asking(p) /\ Answered(n)' = on
      /\ Due(n)' = d /\ up' = up /\ net'[p] = net[p] /\ sqRecv'[p] = sqRecv[p]
      /\ pendq'[n] = q => Waiting(n)' = W
  BY Zenon, RecvAsker
<1>3. Back(n)' = P
  BY Zenon, <1>1 DEF Back
<1>4. Handling(n) = {x} /\ Handling(n)' = {} /\ Returning(n)' = Returning(n)
  BY Zenon, <1>1 DEF Handling, Returning, Only
<1>5. st \in Pipeline /\ u \in Pipeline /\ W \in SUBSET Nat /\ d \in Nat
  BY Zenon, ReadsFacts
<1>6. Orderly(st, W, P, d, on)
  BY Zenon DEF Flow
<1>7. st[1] = {x} /\ u[1] = {}
  BY Zenon, ReadsFacts, <1>4
<1>8. Same(st, u, {2, 3, 4, 5, 6})
  <2>1. u[2] = st[2] /\ u[3] = st[3] /\ u[4] = st[4] /\ u[5] = st[5] /\ u[6] = st[6]
    BY Zenon, StageKept, <1>2, <1>4
  <2>. QED BY Zenon, <2>1 DEF Same
<1>9. CASE q = <<>>
  <2>1. Lines(n)'
    BY Zenon, <1>1, <1>2, <1>9 DEF Lines
  <2>2. Waiting(n)' = W
    BY Zenon, <1>1, <1>2, <1>9
  <2>3. Orderly(u, W, P, d, on)
    <3>. HIDE DEF st, u, W, P, d, on, x
    <3>. QED BY Zenon, <1>5, <1>6, <1>7, <1>8, PartsEnds
  <2>4. Flow(n)'
    BY Zenon, <1>2, <1>3, <2>2, <2>3 DEF Flow
  <2>. QED BY Zenon, <1>9, <2>1, <2>4
<1>10. CASE q # <<>>
  <2>. DEFINE V == Waiting(n)'
              O == Only(spc[n] = "complete" /\ ToPending(n), {sreq[n].id})
  <2>1. q \in Seq(Wc) /\ IdsUp(q)
    BY Zenon DEF TypeOK, Lines
  <2>2. Ids(q) = Ids(Tail(q)) \cup {h} /\ IdsUp(Tail(q)) /\ Below({h}, Ids(Tail(q)))
    BY Zenon, <1>10, <2>1, IdsTail
  <2>3. W = Ids(q) \cup O /\ V = Ids(Tail(q)) \cup O
    <3>1. spc' = spc /\ sreq' = sreq /\ sret' = sret
      BY Zenon, RecvLocal
    <3>2. pendq'[n] = Tail(q)
      BY Zenon, <1>1, <1>10
    <3>. QED BY Zenon, <3>1, <3>2 DEF Waiting, ToPending
  <2>4. Below({h}, O)
    <3>1. spc[n] = "complete" /\ ToPending(n) => Below(Ids(q), {sreq[n].id})
      BY Zenon, LastToWait
    <3>. QED BY Zenon, <2>2, <3>1 DEF Below, Only
  <2>5. W = V \cup {h} /\ Below({h}, V)
    <3>. HIDE DEF O, W, V, h, q
    <3>1. W = V \cup {h}
      BY Zenon, <2>2, <2>3
    <3>. QED BY Zenon, <2>2, <2>3, <2>4, <3>1 DEF Below
  <2>6. h \in P /\ Orderly(u, V, P, d, on)
    <3>. HIDE DEF st, u, W, V, P, d, on, x, h
    <3>. QED BY Zenon, <1>5, <1>6, <1>7, <1>8, <2>5, PartsEnds
  <2>7. Flow(n)'
    BY Zenon, <1>2, <1>3, <2>6 DEF Flow
  <2>8. Lines(n)'
    BY Zenon, <1>1, <1>2, <1>10, <2>2 DEF Lines
  <2>. QED BY Zenon, <2>6, <2>7, <2>8
<1>. QED
  BY Zenon, <1>9, <1>10

\* ddp_recv of k takes another message than one of class o.
LEMMA OtherTaken ==
  ASSUME TypeOK, NEW k \in Node, RecvTagged(k) \/ RecvUntagged(k), NEW o, Head(net[k]).op # o,
         Ascending(net[k], o)
  PROVE  /\ OfIds(net'[k], o) = OfIds(net[k], o) /\ Ascending(net'[k], o)
<1>1. net' = [net EXCEPT ![k] = Tail(@)] /\ net[k] # <<>>
  BY Zenon DEF RecvTagged, RecvUntagged
<1>2. net \in [Node -> Seq(Message)]
  BY Zenon DEF TypeOK
<1>3. net'[k] = Tail(net[k]) /\ net[k] \in Seq(Message)
  BY Zenon, <1>1, <1>2
<1>4. /\ Head(net[k]).op # o => OfIds(Tail(net[k]), o) = OfIds(net[k], o)
      /\ Ascending(net[k], o) => Ascending(Tail(net[k]), o)
  BY Zenon, <1>1, <1>3, OfIdsTail
<1>. QED
  BY Zenon, <1>3, <1>4

\* The message ddp_recv has taken, the one rnic_recv has handled.
LEMMA TakenMessage ==
  ASSUME TypeOK, NEW k \in Node
  PROVE  /\ RecvTagged(k) \/ RecvUntagged(k) =>
              rpc[k] = "recv" /\ rmsg'[k] = Head(net[k]) /\ pendq' = pendq /\ sqRecv' = sqRecv
         /\ RecvError(k) => rpc[k] = "recv" /\ rpc'[k] = "dead" /\ sqRecv' = sqRecv
<1>1. /\ RecvTagged(k) \/ RecvUntagged(k) =>
           /\ rpc[k] = "recv" /\ rmsg' = [rmsg EXCEPT ![k] = Head(net[k])]
           /\ pendq' = pendq /\ sqRecv' = sqRecv
      /\ RecvError(k) => rpc[k] = "recv" /\ rpc' = [rpc EXCEPT ![k] = "dead"] /\ sqRecv' = sqRecv
  BY Zenon DEF RecvTagged, RecvUntagged, RecvError
<1>2. rmsg \in [Node -> Message] /\ rpc \in [Node -> {"recv", "handle", "exit", "dead", "cut"}]
  BY Zenon DEF TypeOK
<1>. QED
  BY Zenon, <1>1, <1>2

HandleOther(k) == HandleWrite(k) \/ HandleSend(k) \/ HandleSendInval(k) \/ HandleTerminate(k)

\* The handlers of the other messages have no part in reads.
LEMMA HandledOther ==
  ASSUME TypeOK, NEW k \in Node, HandleOther(k)
  PROVE  /\ rpc[k] = "handle" /\ rpc'[k] # "handle" /\ rmsg' = rmsg
         /\ rmsg[k].op # "READ_REQ" /\ rmsg[k].op # "READ_RESP"
         /\ net' = net /\ pendq' = pendq /\ sqRecv' = sqRecv
<1>1. /\ rpc[k] = "handle" /\ rmsg' = rmsg /\ net' = net /\ pendq' = pendq /\ sqRecv' = sqRecv
      /\ rmsg[k].op \in {"WRITE", "TERMINATE"} \cup SendOps \cup InvalOps
  BY Zenon DEF HandleOther, HandleWrite, HandleSend, HandleSendInval, HandleTerminate
<1>2. \E c \in {"recv", "exit", "dead"} : rpc' = [rpc EXCEPT ![k] = c]
  BY Zenon DEF HandleOther, HandleWrite, HandleSend, HandleSendInval, HandleTerminate, LoopAgain
<1>3. rpc \in [Node -> {"recv", "handle", "exit", "dead", "cut"}]
  BY Zenon DEF TypeOK
<1>4. rpc'[k] # "handle"
  BY Zenon, <1>2, <1>3
<1>5. rmsg[k].op # "READ_REQ" /\ rmsg[k].op # "READ_RESP"
  BY Zenon, <1>1 DEF SendOps, InvalOps
<1>. QED
  BY Zenon, <1>1, <1>4, <1>5

\* rnic_recv of the endpoint that reads: a response completes the oldest read.
LEMMA RecvReads ==
  ASSUME TypeOK, TypeOK', Accounts, NEW n \in Node, Reads(n), RecvThread(n)
  PROVE  Reads(n)'
<1>. SUFFICES ASSUME Live(n)' PROVE Lines(n)' /\ Flow(n)'
  BY Zenon DEF Reads
<1>1. CASE RecvTagged(n) \/ RecvUntagged(n)
  <2>1. rpc[n] = "recv" /\ rmsg'[n] = Head(net[n]) /\ pendq' = pendq
    BY Zenon, <1>1, TakenMessage
  <2>2. Lines(n) /\ Flow(n)
    BY Zenon, <2>1 DEF Reads, Live
  <2>3. RecvUntagged(n) => Head(net[n]).op # "READ_RESP"
    BY Zenon DEF RecvUntagged, TaggedOps
  <2>4. CASE Head(net[n]).op = "READ_RESP"
    <3>1. RecvTagged(n)
      BY Zenon, <1>1, <2>3, <2>4
    <3>. QED BY Zenon, <2>2, <2>4, <3>1, RespReads
  <2>5. CASE Head(net[n]).op # "READ_RESP"
    <3>1. Ascending(net[n], "READ_RESP")
      BY Zenon, <2>2 DEF Lines
    <3>2. /\ OfIds(net'[n], "READ_RESP") = OfIds(net[n], "READ_RESP")
          /\ Ascending(net'[n], "READ_RESP")
      BY Zenon, <1>1, <2>5, <3>1, OtherTaken
    <3>3. Handling(n) = {} /\ Handling(n)' = {}
      BY Zenon, <2>1, <2>5 DEF Handling, Only
    <3>4. Handling(n)' = Handling(n) /\ Returning(n)' = Returning(n) /\ pendq'[n] = pendq[n]
      BY Zenon, <2>1, <3>2, <3>3 DEF Returning
    <3>. QED BY Zenon, <2>2, <3>2, <3>4, RecvKeptReads
  <2>. QED BY Zenon, <2>4, <2>5
<1>2. CASE RecvError(n)
  BY Zenon, <1>2, TakenMessage DEF Live
<1>3. CASE HandleReadResp(n)
  <2>1. Lines(n) /\ Flow(n)
    BY Zenon, <1>3 DEF HandleReadResp, Reads, Live
  <2>. QED BY Zenon, <1>3, <2>1, DoneReads
<1>4. CASE HandleReadReq(n) \/ HandleOther(n)
  <2>1. /\ rpc[n] = "handle" /\ rpc'[n] # "handle" /\ rmsg[n].op # "READ_RESP"
        /\ net' = net /\ pendq' = pendq
    <3>1. CASE HandleReadReq(n)
      <4>1. /\ rpc[n] = "handle" /\ rmsg[n].op # "READ_RESP" /\ net' = net /\ pendq' = pendq
            /\ rpc' = [rpc EXCEPT ![n] = IF connected[n] THEN "recv" ELSE "exit"]
        BY Zenon, <3>1 DEF HandleReadReq, LoopAgain
      <4>2. rpc \in [Node -> {"recv", "handle", "exit", "dead", "cut"}]
        BY Zenon DEF TypeOK
      <4>3. rpc'[n] # "handle"
        BY Zenon, <4>1, <4>2
      <4>. QED BY Zenon, <4>1, <4>3
    <3>2. CASE HandleOther(n)
      BY Zenon, <3>2, HandledOther
    <3>. QED BY Zenon, <1>4, <3>1, <3>2
  <2>2. Lines(n) /\ Flow(n)
    BY Zenon, <2>1 DEF Reads, Live
  <2>3. Handling(n) = {} /\ Handling(n)' = {}
    BY Zenon, <2>1 DEF Handling, Only
  <2>4. /\ Handling(n)' = Handling(n) /\ Returning(n)' = Returning(n) /\ pendq'[n] = pendq[n]
        /\ Ascending(net'[n], "READ_RESP")
    BY Zenon, <2>1, <2>2, <2>3 DEF Returning, Lines
  <2>. QED BY Zenon, <2>2, <2>4, RecvKeptReads
<1>. QED
  BY Zenon, <1>1, <1>2, <1>3, <1>4 DEF RecvThread, HandleOther

\* The steps of rnic_recv of the peer that leave the requests as they are, or
\* after which it receives no more.
LEMMA AskedKept ==
  ASSUME TypeOK, TypeOK', Accounts, NEW n \in Node, Lines(n), Flow(n), RecvThread(Peer(n)),
         ToAnswer(Peer(n))' = ToAnswer(Peer(n)), Asked(Peer(n))' = Asked(Peer(n)),
         up => sqRecv'[Peer(n)] = sqRecv[Peer(n)],
         Answered(n)' => /\ Answered(n)
                         /\ OfIds(net'[Peer(n)], "READ_REQ") = OfIds(net[Peer(n)], "READ_REQ")
                         /\ Ascending(net'[Peer(n)], "READ_REQ")
  PROVE  Lines(n)' /\ Flow(n)'
<1>. DEFINE p == Peer(n)
<1>1. /\ Handling(n)' = Handling(n) /\ Returning(n)' = Returning(n)
      /\ Answering(p)' = Answering(p) /\ Waiting(n)' = Waiting(n)
      /\ Due(n)' = Due(n) /\ Back(n) \subseteq Back(n)' /\ up' = up
      /\ pendq'[n] = pendq[n] /\ net'[n] = net[n]
  BY Zenon, RecvAnswerer
<1>2. Lines(n)'
  BY Zenon, <1>1 DEF Lines
<1>3. Answered(n)' => Answered(n) /\ Asking(p)' = Asking(p)
  <2>1. Answered(n) => Asking(p) = OfIds(net[p], "READ_REQ")
    BY Zenon DEF Answered, Asking, Only
  <2>2. Answered(n)' => Asking(p)' = OfIds(net'[p], "READ_REQ")
    BY Zenon DEF Answered, Asking, Only, Live
  <2>. QED BY Zenon, <2>1, <2>2
<1>4. Due(n)' \in Nat /\ Due(n) <= Due(n)'
  <2>1. Due(n) \in Nat
    BY Zenon, DueNat
  <2>. QED BY <1>1, <2>1
<1>5. Flow(n)'
  BY Zenon, <1>1, <1>3, <1>4, FlowKept
<1>. QED
  BY Zenon, <1>2, <1>5

\* ddp_recv of the peer takes a read request.
LEMMA AskReads ==
  ASSUME TypeOK, TypeOK', Accounts, NEW n \in Node, Lines(n), Flow(n), RecvThread(Peer(n)),
         RecvUntagged(Peer(n)), Head(net[Peer(n)]).op = "READ_REQ", up, rpc'[Peer(n)] = "handle"
  PROVE  Lines(n)' /\ Flow(n)'
<1>. DEFINE p == Peer(n)
            s == net[p]
            x == Head(s).of
            st == Stages(n)
            u  == Stages(n)'
<1>0. p \in Node
  BY Zenon, PeerType
<1>1. /\ rpc[p] = "recv" /\ s # <<>> /\ net'[p] = Tail(s) /\ rmsg'[p] = Head(s)
      /\ sqRecv' = sqRecv /\ s \in Seq(Message)
  <2>1. /\ rpc[p] = "recv" /\ s # <<>> /\ net' = [net EXCEPT ![p] = Tail(@)]
        /\ rmsg' = [rmsg EXCEPT ![p] = Head(s)] /\ sqRecv' = sqRecv
    BY Zenon DEF RecvUntagged
  <2>2. net \in [Node -> Seq(Message)] /\ rmsg \in [Node -> Message]
    BY Zenon DEF TypeOK
  <2>. QED BY Zenon, <1>0, <2>1, <2>2
<1>2. /\ Handling(n)' = Handling(n) /\ Returning(n)' = Returning(n)
      /\ Answering(p)' = Answering(p) /\ Waiting(n)' = Waiting(n)
      /\ Due(n)' = Due(n) /\ Back(n) \subseteq Back(n)' /\ up' = up
      /\ pendq'[n] = pendq[n] /\ net'[n] = net[n]
  BY Zenon, RecvAnswerer
<1>3. Answered(n) = TRUE /\ Answered(n)' = TRUE
  BY Zenon, <1>1, <1>2 DEF Answered, Live
<1>4. ToAnswer(p)' = ToAnswer(p)
  BY Zenon, <1>1, <1>2 DEF ToAnswer
<1>5. Asked(p) = {} /\ Asked(p)' = {x}
  BY Zenon, <1>1, <1>2 DEF Asked, Only
<1>6. Asking(p) = OfIds(s, "READ_REQ") /\ Asking(p)' = OfIds(Tail(s), "READ_REQ")
  BY Zenon, <1>1, <1>2 DEF Asking, Only, Live
<1>7. /\ OfIds(s, "READ_REQ") = OfIds(Tail(s), "READ_REQ") \cup {x}
      /\ Ascending(Tail(s), "READ_REQ") /\ Below({x}, OfIds(Tail(s), "READ_REQ"))
  <2>1. Ascending(s, "READ_REQ")
    BY Zenon, <1>3 DEF Lines
  <2>2. /\ Head(s).op = "READ_REQ" => OfIds(s, "READ_REQ") = OfIds(Tail(s), "READ_REQ") \cup {x}
        /\ Ascending(s, "READ_REQ") =>
             /\ Ascending(Tail(s), "READ_REQ")
             /\ Head(s).op = "READ_REQ" => Below({x}, OfIds(Tail(s), "READ_REQ"))
    BY Zenon, <1>1, OfIdsTail
  <2>. QED BY Zenon, <2>1, <2>2
<1>8. Lines(n)'
  BY Zenon, <1>1, <1>2, <1>7 DEF Lines
<1>9. st \in Pipeline /\ u \in Pipeline
  BY Zenon, ReadsFacts
<1>10. /\ st[5] = {} /\ u[5] = {x} /\ st[6] = OfIds(s, "READ_REQ")
       /\ u[6] = OfIds(Tail(s), "READ_REQ")
  BY Zenon, ReadsFacts, <1>5, <1>6
<1>11. u[1] = st[1] /\ u[2] = st[2] /\ u[3] = st[3] /\ u[4] = st[4]
  BY Zenon, StageKept, <1>2, <1>4
<1>12. Answered(n)' = Answered(n) /\ (5 = 1 => x \in Back(n)')
  <2>1. 5 # 1
    OBVIOUS
  <2>. QED BY Zenon, <2>1, <1>3
<1>. HIDE DEF st, u, x, s
<1>13. Moves(st, u, 5, x)
  <2>1. st[6] = u[6] \cup {x} /\ Below({x}, u[6]) /\ u[5] = st[5] \cup {x}
    BY Zenon, <1>7, <1>10
  <2>2. Same(st, u, {1, 2, 3, 4})
    BY Zenon, <1>11 DEF Same
  <2>. QED BY Zenon, <1>9, <2>1, <2>2, PartsMove
<1>14. Flow(n)'
  BY Zenon, <1>2, <1>12, <1>13, FlowMoves DEF st, u
<1>. QED
  BY Zenon, <1>8, <1>14

\* rnic_recv of the peer enqueues a read response.
LEMMA QueueReads ==
  ASSUME TypeOK, TypeOK', Accounts, NEW n \in Node, Lines(n), Flow(n), RecvThread(Peer(n)),
         HandleReadReq(Peer(n)), up
  PROVE  Lines(n)' /\ Flow(n)'
<1>. DEFINE p == Peer(n)
            q == sqRecv[p]
            w == [op |-> "READ_RESP", id |-> rmsg[p].of, lbuf |-> NoRegion,
                  rbuf |-> rmsg[p].to, nsge |-> 1]
            x == rmsg[p].of
            st == Stages(n)
            u  == Stages(n)'
            W  == Waiting(n)
            P  == Back(n)
            Q  == Back(n)'
            d  == Due(n)
            on == Answered(n)
            off == Answered(n)'
<1>0. p \in Node
  BY Zenon, PeerType
<1>1. /\ rpc[p] = "handle" /\ rmsg[p].op = "READ_REQ" /\ net' = net
      /\ sqRecv'[p] = Append(q, w) /\ rpc'[p] # "handle" /\ q \in Seq(SendWr)
  <2>1. /\ rpc[p] = "handle" /\ rmsg[p].op = "READ_REQ" /\ net' = net
        /\ sqRecv' = [sqRecv EXCEPT ![p] = Append(@, w)]
        /\ rpc' = [rpc EXCEPT ![p] = IF connected[p] THEN "recv" ELSE "exit"]
    BY Zenon DEF HandleReadReq, LoopAgain
  <2>2. sqRecv \in [Node -> Seq(SendWr)] /\ rpc \in [Node -> {"recv", "handle", "exit", "dead", "cut"}]
    BY Zenon DEF TypeOK
  <2>3. rpc'[p] # "handle"
    BY Zenon, <1>0, <2>1, <2>2
  <2>4. sqRecv'[p] = Append(q, w) /\ q \in Seq(SendWr)
    <3>. HIDE DEF w
    <3>. QED BY Zenon, <1>0, <2>1, <2>2
  <2>. QED BY Zenon, <2>1, <2>3, <2>4
<1>2. w \in SendWr /\ w.id = x
  <2>1. rmsg[p] \in Message
    BY Zenon, <1>0 DEF TypeOK
  <2>2. rmsg[p].of \in Nat /\ rmsg[p].to \in RegionOrNo
    BY Zenon, <2>1 DEF Message
  <2>3. "READ_RESP" \in Opcode /\ NoRegion \in RegionOrNo
    BY Zenon DEF Opcode, TaggedOps, RegionOrNo
  <2>. QED BY Zenon, <2>2, <2>3 DEF SendWr
<1>3. /\ Handling(n)' = Handling(n) /\ Returning(n)' = Returning(n)
      /\ Answering(p)' = Answering(p) /\ Waiting(n)' = W
      /\ Due(n)' = d /\ P \subseteq Q /\ up' = up
      /\ pendq'[n] = pendq[n] /\ net'[n] = net[n]
  BY Zenon, RecvAnswerer
<1>. HIDE DEF w
<1>4. Asked(p) = {x} /\ Asked(p)' = {}
  BY Zenon, <1>1 DEF Asked, Only
<1>5. ToAnswer(p) = Ids(q) /\ ToAnswer(p)' = Ids(Append(q, w))
  BY Zenon, <1>1, <1>3 DEF ToAnswer, Only
<1>6. Ids(Append(q, w)) = Ids(q) \cup {x} /\ (IdsUp(q) /\ Below(Ids(q), {x}) => IdsUp(Append(q, w)))
  <2>1. /\ Ids(Append(q, w)) = Ids(q) \cup {w.id}
        /\ IdsUp(q) /\ Below(Ids(q), {w.id}) => IdsUp(Append(q, w))
    <3>1. w \in SendWr
      BY Zenon, <1>2
    <3>. QED BY Zenon, <1>1, <3>1, IdsAppend
  <2>. QED BY Zenon, <1>2, <2>1
<1>7. on = TRUE
  BY Zenon, <1>1 DEF Answered, Live
<1>8. Asking(p) = OfIds(net[p], "READ_REQ") /\ Asking(p)' = Only(off, OfIds(net[p], "READ_REQ"))
  BY Zenon, <1>1, <1>3 DEF Asking, Only, Live, Answered
<1>9. /\ st \in Pipeline /\ u \in Pipeline /\ W \in SUBSET Nat /\ d \in Nat
      /\ Orderly(st, W, P, d, on)
  BY Zenon, ReadsFacts DEF Flow
<1>10. /\ st[4] = Ids(q) /\ u[4] = Ids(q) \cup {x} /\ st[5] = {x} /\ u[5] = {}
       /\ u[6] = Only(off, st[6])
  <2>1. st[4] = Ids(q) /\ u[4] = Ids(q) \cup {x}
    BY Zenon, ReadsFacts, <1>5, <1>6
  <2>2. st[5] = {x} /\ u[5] = {}
    BY Zenon, ReadsFacts, <1>4
  <2>3. st[6] = OfIds(net[p], "READ_REQ") /\ u[6] = Only(off, OfIds(net[p], "READ_REQ"))
    BY Zenon, ReadsFacts, <1>8
  <2>. QED BY Zenon, <2>1, <2>2, <2>3
<1>11. u[1] = st[1] /\ u[2] = st[2] /\ u[3] = st[3]
  BY Zenon, StageKept, <1>3
<1>12. Lines(n)'
  <2>1. Sorted(st)
    BY Zenon, <1>9 DEF Orderly
  <2>2. Below(st[4], st[5])
    BY <2>1 DEF Sorted
  <2>3. Below(Ids(q), {x})
    BY Zenon, <1>10, <2>2
  <2>4. IdsUp(Append(q, w)) /\ Ascending(net[p], "READ_REQ")
    BY Zenon, <1>6, <1>7, <2>3 DEF Lines
  <2>. QED BY Zenon, <1>1, <1>3, <2>4 DEF Lines
<1>. HIDE DEF st, u, x, q, W, P, Q, d, on, off
<1>13. CASE off
  <2>1. Same(st, u, {1, 2, 3, 6})
    BY Zenon, <1>10, <1>11, <1>13 DEF Same, Only
  <2>2. st[5] = u[5] \cup {x} /\ Below({x}, u[5]) /\ u[4] = st[4] \cup {x}
    BY Zenon, <1>10 DEF Below
  <2>3. Moves(st, u, 4, x)
    BY Zenon, <1>9, <2>1, <2>2, PartsMove
  <2>4. Orderly(u, W, Q, d, on)
    <3>1. 4 = 1 => x \in Q
      OBVIOUS
    <3>2. P \subseteq Q
      BY Zenon, <1>3
    <3>. QED BY ZenonT(30), <1>9, <2>3, <3>1, <3>2, OrderlyMoves
  <2>5. Orderly(u, W, Q, d, off)
    <3>1. d <= d /\ Q \subseteq Q /\ (off => on)
      BY <1>7, <1>9
    <3>. QED BY Zenon, <1>9, <2>4, <3>1, OrderlyFrame
  <2>6. Flow(n)'
    BY Zenon, <1>3, <2>5 DEF Flow, u, W, Q, d, off
  <2>. QED BY Zenon, <1>12, <2>6
<1>14. CASE ~off
  <2>. PICK v \in Pipeline : /\ Same(st, v, {1, 2, 3, 4, 5}) /\ v[6] = {}
    <3>1. [st EXCEPT ![6] = {}] \in Pipeline
      BY Zenon, <1>9 DEF Pipeline
    <3>2. Same(st, [st EXCEPT ![6] = {}], {1, 2, 3, 4, 5}) /\ [st EXCEPT ![6] = {}][6] = {}
      BY <1>9 DEF Pipeline, Same
    <3>. QED BY Zenon, <3>1, <3>2
  <2>1. Orderly(v, W, Q, d, FALSE)
    BY Zenon, <1>3, <1>9, PartsCut
  <2>2. v[1] = st[1] /\ v[2] = st[2] /\ v[3] = st[3] /\ v[4] = st[4] /\ v[5] = st[5]
    BY Zenon DEF Same
  <2>3. Same(v, u, {1, 2, 3, 6})
    BY Zenon, <1>10, <1>11, <1>14, <2>2 DEF Same, Only
  <2>4. v[5] = u[5] \cup {x} /\ Below({x}, u[5]) /\ u[4] = v[4] \cup {x}
    BY Zenon, <1>10, <2>2 DEF Below
  <2>5. Moves(v, u, 4, x)
    BY Zenon, <1>9, <2>3, <2>4, PartsMove
  <2>6. Orderly(u, W, Q, d, FALSE)
    <3>1. (4 = 1 => x \in Q) /\ Q \subseteq Q
      OBVIOUS
    <3>. QED BY Zenon, <1>9, <2>1, <2>5, <3>1, OrderlyMoves
  <2>7. Orderly(u, W, Q, d, off)
    <3>1. d <= d /\ Q \subseteq Q /\ (off => FALSE)
      BY <1>9, <1>14
    <3>. QED BY Zenon, <1>9, <2>6, <3>1, OrderlyFrame
  <2>8. Flow(n)'
    BY Zenon, <1>3, <2>7 DEF Flow, u, W, Q, d, off
  <2>. QED BY Zenon, <1>12, <2>8
<1>. QED
  BY Zenon, <1>13, <1>14

\* rnic_recv of the endpoint that is read: a request becomes a response in turn.
LEMMA AskedReads ==
  ASSUME TypeOK, TypeOK', Accounts, NEW n \in Node, Reads(n), RecvThread(Peer(n))
  PROVE  Reads(n)'
<1>. DEFINE p == Peer(n)
<1>. SUFFICES ASSUME Live(n)' PROVE Lines(n)' /\ Flow(n)'
  BY Zenon DEF Reads
<1>0. p \in Node
  BY Zenon, PeerType
<1>1. Lines(n) /\ Flow(n) /\ up' = up
  BY Zenon, RecvAnswerer DEF Reads
<1>2. CASE RecvTagged(p) \/ RecvUntagged(p)
  <2>1. rpc[p] = "recv" /\ rmsg'[p] = Head(net[p]) /\ sqRecv' = sqRecv
    BY Zenon, <1>0, <1>2, TakenMessage
  <2>2. Asked(p) = {} /\ ToAnswer(p)' = ToAnswer(p) /\ (up => sqRecv'[p] = sqRecv[p])
    BY Zenon, <1>1, <2>1 DEF Asked, Only, ToAnswer
  <2>3. Answered(n)' => Answered(n)
    BY Zenon, <1>1, <2>1 DEF Answered, Live
  <2>4. CASE Head(net[p]).op # "READ_REQ"
    <3>1. Asked(p)' = Asked(p)
      BY Zenon, <2>1, <2>2, <2>4 DEF Asked, Only
    <3>2. ASSUME Answered(n)'
          PROVE  /\ Answered(n) /\ OfIds(net'[p], "READ_REQ") = OfIds(net[p], "READ_REQ")
                 /\ Ascending(net'[p], "READ_REQ")
      <4>1. Ascending(net[p], "READ_REQ")
        BY Zenon, <1>1, <2>3, <3>2 DEF Lines
      <4>2. OfIds(net'[p], "READ_REQ") = OfIds(net[p], "READ_REQ") /\ Ascending(net'[p], "READ_REQ")
        BY Zenon, <1>0, <1>2, <2>4, <4>1, OtherTaken
      <4>. QED BY Zenon, <2>3, <3>2, <4>2
    <3>. QED BY Zenon, <1>1, <2>2, <3>1, <3>2, AskedKept
  <2>5. CASE Head(net[p]).op = "READ_REQ" /\ up /\ rpc'[p] = "handle"
    <3>1. RecvUntagged(p)
      BY Zenon, <1>2, <2>5 DEF RecvTagged, TaggedOps
    <3>. QED BY Zenon, <1>1, <2>5, <3>1, AskReads
  <2>6. CASE ~up \/ rpc'[p] # "handle"
    <3>1. Asked(p)' = Asked(p)
      BY Zenon, <1>1, <2>2, <2>6 DEF Asked, Only
    <3>2. CASE Answered(n)'
      <4>1. RecvUntagged(p) \/ rpc'[p] = "handle"
        <5>1. rpc \in [Node -> {"recv", "handle", "exit", "dead", "cut"}]
          BY Zenon DEF TypeOK
        <5>2. RecvTagged(p) => rpc' = [rpc EXCEPT ![p] = "handle"]
          BY Zenon DEF RecvTagged
        <5>. QED BY Zenon, <1>0, <1>2, <5>1, <5>2
      <4>2. rpc'[p] = "handle" \/ rpc'[p] = "cut"
        <5>1. rpc \in [Node -> {"recv", "handle", "exit", "dead", "cut"}]
          BY Zenon DEF TypeOK
        <5>2. RecvUntagged(p) => \E c \in {"handle", "cut"} : rpc' = [rpc EXCEPT ![p] = c]
          BY Zenon DEF RecvUntagged
        <5>3. RecvUntagged(p) => rpc'[p] = "handle" \/ rpc'[p] = "cut"
          BY Zenon, <1>0, <5>1, <5>2
        <5>. QED BY Zenon, <4>1, <5>3
      <4>. QED BY Zenon, <1>1, <2>6, <3>2, <4>2 DEF Answered, Live
    <3>3. CASE ~Answered(n)'
      BY Zenon, <1>1, <2>2, <3>1, <3>3, AskedKept
    <3>. QED BY Zenon, <3>2, <3>3
  <2>. QED BY Zenon, <2>4, <2>5, <2>6
<1>3. CASE RecvError(p)
  <2>1. rpc[p] = "recv" /\ rpc'[p] = "dead" /\ sqRecv' = sqRecv
    BY Zenon, <1>0, <1>3, TakenMessage
  <2>2. /\ Asked(p)' = Asked(p) /\ ToAnswer(p)' = ToAnswer(p) /\ ~Answered(n)'
        /\ up => sqRecv'[p] = sqRecv[p]
    BY Zenon, <1>1, <2>1 DEF Asked, Only, ToAnswer, Answered, Live
  <2>. QED BY Zenon, <1>1, <2>2, AskedKept
<1>4. CASE HandleReadReq(p) /\ up
  BY Zenon, <1>1, <1>4, QueueReads
<1>5. CASE HandleReadReq(p) /\ ~up
  <2>1. Asked(p)' = Asked(p) /\ ToAnswer(p)' = ToAnswer(p) /\ ~Answered(n)'
    BY Zenon, <1>1, <1>5 DEF Asked, ToAnswer, Only, Answered
  <2>. QED BY Zenon, <1>1, <1>5, <2>1, AskedKept
<1>6. CASE HandleReadResp(p) \/ HandleOther(p)
  <2>1. /\ rpc[p] = "handle" /\ rpc'[p] # "handle" /\ rmsg[p].op # "READ_REQ"
        /\ net' = net /\ sqRecv' = sqRecv
    <3>1. CASE HandleReadResp(p)
      <4>1. /\ rpc[p] = "handle" /\ rmsg[p].op # "READ_REQ" /\ net' = net /\ sqRecv' = sqRecv
            /\ rpc' = [rpc EXCEPT ![p] = IF connected[p] THEN "recv" ELSE "exit"]
        BY Zenon, <3>1 DEF HandleReadResp, LoopAgain
      <4>2. rpc \in [Node -> {"recv", "handle", "exit", "dead", "cut"}]
        BY Zenon DEF TypeOK
      <4>3. rpc'[p] # "handle"
        BY Zenon, <1>0, <4>1, <4>2
      <4>. QED BY Zenon, <4>1, <4>3
    <3>2. CASE HandleOther(p)
      BY Zenon, <1>0, <3>2, HandledOther
    <3>. QED BY Zenon, <1>6, <3>1, <3>2
  <2>2. /\ Asked(p)' = Asked(p) /\ ToAnswer(p)' = ToAnswer(p)
        /\ up => sqRecv'[p] = sqRecv[p]
    BY Zenon, <1>1, <2>1 DEF Asked, Only, ToAnswer
  <2>3. Answered(n)' => Answered(n)
    BY Zenon, <1>1, <2>1 DEF Answered, Live
  <2>4. Answered(n)' => /\ Answered(n)
                        /\ OfIds(net'[p], "READ_REQ") = OfIds(net[p], "READ_REQ")
                        /\ Ascending(net'[p], "READ_REQ")
    BY Zenon, <1>1, <2>1, <2>3 DEF Lines
  <2>. QED BY Zenon, <1>1, <2>2, <2>4, AskedKept
<1>. QED
  BY Zenon, <1>2, <1>3, <1>4, <1>5, <1>6 DEF RecvThread, HandleOther

\* The connection breaks.
LEMMA ResetReads ==
  ASSUME TypeOK, TypeOK', Accounts, NEW n \in Node, Reads(n), Reset
  PROVE  Reads(n)'
<1>. DEFINE p == Peer(n)
            s == net[n]
            st == Stages(n)
            u  == Stages(n)'
            W  == Waiting(n)
            P  == Back(n)
            d  == Due(n)
            on == Answered(n)
<1>. SUFFICES ASSUME Live(n)' PROVE Lines(n)' /\ Flow(n)'
  BY Zenon DEF Reads
<1>1. /\ up' = FALSE /\ rpc' = rpc /\ rmsg' = rmsg /\ spc' = spc /\ sreq' = sreq /\ sret' = sret
      /\ pendq' = pendq /\ posted' = posted /\ sqApp' = sqApp /\ placed' = placed
  BY Zenon DEF Reset, recvVars, sendVars, appVars
<1>2. PICK k \in 0..Len(s) : net'[n] = SubSeq(s, 1, k)
  <2>1. PICK c \in 0..Len(net["client"]), r \in 0..Len(net["server"]) :
          net' = [j \in Node |-> SubSeq(net[j], 1, IF j = "client" THEN c ELSE r)]
    BY Zenon DEF Reset
  <2>2. n = "client" \/ n = "server"
    BY Zenon DEF Node
  <2>. QED BY Zenon, <2>1, <2>2
<1>3. Lines(n) /\ Flow(n)
  BY Zenon, <1>1 DEF Reads, Live
<1>4. s \in Seq(Message) /\ Ascending(s, "READ_RESP")
  BY Zenon, <1>3 DEF TypeOK, Lines
<1>5. /\ Ascending(net'[n], "READ_RESP") /\ OfIds(net'[n], "READ_RESP") \subseteq OfIds(s, "READ_RESP")
      /\ \A x \in OfIds(net'[n], "READ_RESP"), y \in OfIds(s, "READ_RESP") :
            y \in OfIds(net'[n], "READ_RESP") \/ x < y
  <2>1. /\ Ascending(SubSeq(s, 1, k), "READ_RESP")
        /\ OfIds(SubSeq(s, 1, k), "READ_RESP") \subseteq OfIds(s, "READ_RESP")
        /\ \A x \in OfIds(SubSeq(s, 1, k), "READ_RESP"), y \in OfIds(s, "READ_RESP") :
              y \in OfIds(SubSeq(s, 1, k), "READ_RESP") \/ x < y
    BY Zenon, <1>4, OfIdsPrefix
  <2>. QED BY Zenon, <1>2, <2>1
<1>6. Lines(n)'
  BY Zenon, <1>1, <1>3, <1>5 DEF Lines, Answered
<1>7. /\ Handling(n)' = Handling(n) /\ Answering(p)' = {} /\ ToAnswer(p)' = {} /\ Asked(p)' = {}
      /\ Asking(p)' = {}
  BY Zenon, <1>1 DEF Handling, Answering, ToAnswer, Asked, Asking, Only
<1>8. Waiting(n)' = W /\ Back(n)' = P /\ Due(n)' = d /\ Answered(n)' = FALSE
  <2>1. Waiting(n)' = W
    BY Zenon, <1>1 DEF Waiting, ToPending
  <2>2. Back(n)' = P /\ Due(n)' = d
    BY Zenon, <1>1 DEF Back, Due
  <2>3. Answered(n)' = FALSE
    BY Zenon, <1>1 DEF Answered
  <2>. QED BY Zenon, <2>1, <2>2, <2>3
<1>9. /\ st \in Pipeline /\ u \in Pipeline /\ W \in SUBSET Nat /\ d \in Nat
      /\ Orderly(st, W, P, d, on)
  BY Zenon, <1>3, ReadsFacts DEF Flow
<1>10. /\ u[1] = st[1] /\ u[3] = {} /\ u[4] = {} /\ u[5] = {} /\ u[6] = {}
       /\ st[2] = OfIds(s, "READ_RESP") /\ u[2] = OfIds(net'[n], "READ_RESP")
  <2>1. u[1] = st[1]
    BY Zenon, StageKept, <1>7
  <2>2. u[3] = {} /\ u[4] = {} /\ u[5] = {} /\ u[6] = {}
    BY Zenon, ReadsFacts, <1>7
  <2>3. st[2] = OfIds(s, "READ_RESP") /\ u[2] = OfIds(net'[n], "READ_RESP")
    BY Zenon, ReadsFacts DEF Returning
  <2>. QED BY Zenon, <2>1, <2>2, <2>3
<1>. HIDE DEF st, u, W, P, d, on
<1>11. u[2] \subseteq st[2] /\ \A x \in u[2], y \in st[2] : y \in u[2] \/ x < y
  BY Zenon, <1>5, <1>10
<1>12. Orderly(u, W, P, d, FALSE)
  <2>1. P \subseteq P
    BY Zenon
  <2>. QED BY Zenon, <1>9, <1>10, <1>11, <2>1, PartsCut
<1>13. Flow(n)'
  BY Zenon, <1>8, <1>12 DEF Flow, u, W, P, d
<1>. QED
  BY Zenon, <1>6, <1>13

\* Nothing happens to the reads of n.
LEMMA ReadsUnmoved ==
  ASSUME NEW n \in Node, Reads(n), net' = net, rpc' = rpc, rmsg' = rmsg, placed' = placed,
         up' = up, spc' = spc, sreq' = sreq, sret' = sret, pendq' = pendq, sqRecv' = sqRecv,
         Due(n)' = Due(n)
  PROVE  Reads(n)'
<1>1. Lines(n)' = Lines(n) /\ Live(n)' = Live(n) /\ Answered(n)' = Answered(n)
  BY Zenon DEF Lines, Live, Answered
<1>2. Waiting(n)' = Waiting(n) /\ Back(n)' = Back(n)
  BY Zenon DEF Waiting, ToPending, Back
<1>3. Handling(n)' = Handling(n) /\ Returning(n)' = Returning(n)
  BY Zenon DEF Handling, Returning
<1>4. /\ Answering(Peer(n))' = Answering(Peer(n)) /\ ToAnswer(Peer(n))' = ToAnswer(Peer(n))
      /\ Asked(Peer(n))' = Asked(Peer(n)) /\ Asking(Peer(n))' = Asking(Peer(n))
  BY Zenon DEF Answering, ToAnswer, Asked, Asking, Live
<1>5. Stages(n)' = Stages(n)
  BY Zenon, <1>3, <1>4 DEF Stages
<1>. QED
  BY Zenon, <1>1, <1>2, <1>5 DEF Reads, Flow

\* The calls of an application.
LEMMA AppReads ==
  ASSUME TypeOK, NEW n \in Node, Reads(n), NEW k \in Node, App(k)
  PROVE  Reads(n)'
<1>1. /\ net' = net /\ rpc' = rpc /\ rmsg' = rmsg /\ placed' = placed /\ up' = up
      /\ spc' = spc /\ sreq' = sreq /\ sret' = sret /\ pendq' = pendq /\ sqRecv' = sqRecv
  BY Zenon DEF App, RdmapSend, RdmapWrite, RdmapRead, Post, PostRecvBuffers,
     PostRecvRequest, PollCq, Register, Invalidate, sendVars, recvVars
<1>2. Due(n)' = Due(n)
  <2>1. CASE n # k
    BY Zenon, <1>1, <2>1, Elsewhere DEF Due, Untouched
  <2>2. CASE n = k
    <3>1. CASE \E t \in Requests : Post(n, t)
      <4>1. PICK t \in Requests : Post(n, t)
        BY Zenon, <3>1
      <4>. DEFINE w == [op |-> t.op, id |-> Len(posted[n]) + 1, lbuf |-> t.lbuf,
                        rbuf |-> t.rbuf, nsge |-> t.nsge]
      <4>2. /\ posted' = [posted EXCEPT ![n] = Append(@, t)]
            /\ sqApp' = [sqApp EXCEPT ![n] = Append(@, w)]
        BY Zenon, <4>1 DEF Post, Enqueue
      <4>0. t \in Request /\ w \in SendWr
        <5>1. t \in Request /\ posted[n] \in Seq(Request)
          BY Zenon, RequestAssumption DEF TypeOK
        <5>2. t.op \in Opcode /\ t.lbuf \in RegionOrNo /\ t.rbuf \in RegionOrNo /\ t.nsge \in Nat
          BY Zenon, <5>1 DEF Request, RegionOrNo
        <5>3. Len(posted[n]) + 1 \in Nat
          BY <5>1
        <5>. QED BY <5>1, <5>2, <5>3 DEF SendWr
      <4>. HIDE DEF w
      <4>3. /\ posted \in [Node -> Seq(Request)] /\ sqApp \in [Node -> Seq(SendWr)]
        BY Zenon DEF TypeOK
      <4>4. posted'[n] = Append(posted[n], t) /\ sqApp'[n] = Append(sqApp[n], w)
        BY Zenon, <4>2, <4>3
      <4>5. posted[n] \in Seq(Request) /\ sqApp[n] \in Seq(SendWr)
        BY Zenon, <4>3
      <4>6. Len(posted'[n]) - Len(sqApp'[n]) = Len(posted[n]) - Len(sqApp[n])
        <5>1. /\ Len(Append(posted[n], t)) = Len(posted[n]) + 1 /\ Len(posted[n]) \in Nat
              /\ Len(Append(sqApp[n], w)) = Len(sqApp[n]) + 1 /\ Len(sqApp[n]) \in Nat
          BY <4>0, <4>5, AppendProperties, LenProperties
        <5>2. /\ Len(posted'[n]) = Len(posted[n]) + 1 /\ Len(sqApp'[n]) = Len(sqApp[n]) + 1
          BY Zenon, <4>4, <5>1
        <5>. QED BY <5>1, <5>2
      <4>. QED BY Zenon, <1>1, <4>6 DEF Due
    <3>2. CASE ~\E t \in Requests : Post(n, t)
      <4>1. posted' = posted /\ sqApp' = sqApp
        BY Zenon, <2>2, <3>2 DEF App, RdmapSend, RdmapWrite, RdmapRead, PostRecvBuffers,
           PostRecvRequest, PollCq, Register, Invalidate, appVars
      <4>. QED BY Zenon, <1>1, <4>1 DEF Due
    <3>. QED BY Zenon, <3>1, <3>2
  <2>. QED BY Zenon, <2>1, <2>2
<1>. QED
  BY Zenon, <1>1, <1>2, ReadsUnmoved

\* An end is sent a Terminate.
LEMMA TerminateReads ==
  ASSUME TypeOK, TypeOK', Accounts, NEW n \in Node, Reads(n), NEW k \in Node, PeerTerminates(k)
  PROVE  Reads(n)'
<1>. DEFINE p == Peer(n)
<1>. SUFFICES ASSUME Live(n)' PROVE Lines(n)' /\ Flow(n)'
  BY Zenon DEF Reads
<1>0. p \in Node
  BY Zenon, PeerType
<1>1. /\ up' = up /\ rpc' = rpc /\ rmsg' = rmsg /\ spc' = spc /\ sreq' = sreq /\ sret' = sret
      /\ pendq' = pendq /\ posted' = posted /\ sqApp' = sqApp /\ placed' = placed
      /\ sqRecv' = sqRecv
  BY Zenon DEF PeerTerminates, recvVars, sendVars, appVars
<1>2. Lines(n) /\ Flow(n)
  BY Zenon, <1>1 DEF Reads, Live
<1>3. ASSUME NEW j \in Node, NEW o, o # "TERMINATE"
      PROVE  /\ OfIds(net'[j], o) = OfIds(net[j], o)
             /\ Ascending(net[j], o) => Ascending(net'[j], o)
  <2>. DEFINE t == [NoMessage EXCEPT !.msn = 1]
  <2>1. net' = [net EXCEPT ![k] = Append(@, t)]
    BY Zenon DEF PeerTerminates
  <2>2. t \in Message /\ t.op = "TERMINATE"
    <3>1. NoRegion \in RegionOrNo /\ "client" \in Node /\ "TERMINATE" \in Opcode
      BY Zenon DEF RegionOrNo, Node, Opcode
    <3>. QED BY Zenon, <3>1 DEF NoMessage, Message, Val
  <2>. HIDE DEF t
  <2>3. net \in [Node -> Seq(Message)]
    BY Zenon DEF TypeOK
  <2>4. net'[j] = net[j] \/ net'[j] = Append(net[j], t)
    BY Zenon, <2>1, <2>3
  <2>5. net[j] \in Seq(Message) /\ t \in Message /\ t.op # o
    BY Zenon, <1>3, <2>2, <2>3
  <2>6. /\ OfIds(Append(net[j], t), o) = OfIds(net[j], o)
        /\ Ascending(net[j], o) => Ascending(Append(net[j], t), o)
    BY ZenonT(30), <2>5, OfIdsAppend
  <2>. QED BY Zenon, <2>4, <2>6
<1>4. /\ OfIds(net'[n], "READ_RESP") = OfIds(net[n], "READ_RESP")
      /\ OfIds(net'[p], "READ_REQ") = OfIds(net[p], "READ_REQ")
      /\ Ascending(net[n], "READ_RESP") => Ascending(net'[n], "READ_RESP")
      /\ Ascending(net[p], "READ_REQ") => Ascending(net'[p], "READ_REQ")
  BY Zenon, <1>0, <1>3
<1>5. Answered(n)' = Answered(n)
  BY Zenon, <1>1 DEF Answered, Live
<1>6. Lines(n)'
  BY Zenon, <1>1, <1>2, <1>4, <1>5 DEF Lines
<1>7. /\ Handling(n)' = Handling(n) /\ Returning(n)' = Returning(n)
      /\ Answering(p)' = Answering(p) /\ ToAnswer(p)' = ToAnswer(p) /\ Asked(p)' = Asked(p)
  BY Zenon, <1>1, <1>4 DEF Handling, Returning, Answering, ToAnswer, Asked
<1>8. Asking(p)' = Asking(p)
  BY Zenon, <1>1, <1>4 DEF Asking, Live
<1>9. /\ Waiting(n)' = Waiting(n) /\ Back(n) \subseteq Back(n)' /\ Due(n)' = Due(n)
  BY Zenon, <1>1 DEF Waiting, ToPending, Back, Due
<1>10. Due(n)' \in Nat /\ Due(n) <= Due(n)'
  <2>1. Due(n) \in Nat
    BY Zenon, DueNat
  <2>. QED BY <1>9, <2>1
<1>11. Answered(n)' => Answered(n) /\ Asking(p)' = Asking(p)
  BY Zenon, <1>5, <1>8
<1>12. Flow(n)'
  BY Zenon, <1>2, <1>7, <1>9, <1>10, <1>11, FlowKept
<1>. QED
  BY Zenon, <1>6, <1>12

-----------------------------------------------------------------------------
(* The completions.                                                        *)

\* The completions of reads in the completion queue: from rnic_send the failed
\* ones, from rnic_recv those whose data is placed.
Failed(wc)   == wc.op = "READ_REQ" => ~wc.ok
Filled(wc, P) == wc.op = "READ_REQ" => wc.id \in P
AllFailed(s)    == \A i \in DOMAIN s : Failed(s[i])
AllFilled(s, P) == \A i \in DOMAIN s : Filled(s[i], P)
Sound(n) == AllFailed(cqSend[n]) /\ AllFilled(cqRecv[n], Back(n))

\* What holds of all completions does when the queue is shifted or extended.
LEMMA SoundQueue ==
  ASSUME NEW s \in Seq(Wc), NEW P
  PROVE  /\ AllFailed(s) => /\ s # <<>> => AllFailed(Tail(s))
                            /\ \A wc \in Wc : Failed(wc) => AllFailed(Append(s, wc))
         /\ AllFilled(s, P) => /\ s # <<>> => AllFilled(Tail(s), P)
                               /\ \A wc \in Wc : Filled(wc, P) => AllFilled(Append(s, wc), P)
<1>1. s # <<>> => \A i \in DOMAIN Tail(s) : \E j \in DOMAIN s : Tail(s)[i] = s[j]
  BY Zenon, AllTail
<1>2. \A wc \in Wc : \A i \in DOMAIN Append(s, wc) :
        Append(s, wc)[i] = wc \/ (i \in DOMAIN s /\ Append(s, wc)[i] = s[i])
  BY Zenon, AllAppend
<1>3. AllFailed(s) => /\ s # <<>> => AllFailed(Tail(s))
                      /\ \A wc \in Wc : Failed(wc) => AllFailed(Append(s, wc))
  BY Zenon, <1>1, <1>2 DEF AllFailed
<1>4. AllFilled(s, P) => /\ s # <<>> => AllFilled(Tail(s), P)
                         /\ \A wc \in Wc : Filled(wc, P) => AllFilled(Append(s, wc), P)
  BY Zenon, <1>1, <1>2 DEF AllFilled
<1>. QED
  BY Zenon, <1>3, <1>4

\* More data in place leaves the completions right.
LEMMA SoundGrows ==
  ASSUME NEW n \in Node, NEW s, AllFilled(s, Back(n)), Back(n) \subseteq Back(n)'
  PROVE  AllFilled(s, Back(n)')
BY Zenon DEF AllFilled, Filled

\* The application posts and polls.
LEMMA AppSound ==
  ASSUME TypeOK, NEW n \in Node, Sound(n), NEW k \in Node, App(k)
  PROVE  Sound(n)'
<1>0. cqSend \in [Node -> Seq(Wc)] /\ cqRecv \in [Node -> Seq(Wc)]
  BY Zenon DEF TypeOK
<1>1. placed' = placed
  BY Zenon DEF App, RdmapSend, RdmapWrite, RdmapRead, Post, PostRecvBuffers,
     PostRecvRequest, PollCq, Register, Invalidate
<1>2. cqSend'[n] = cqSend[n] \/ (cqSend[n] # <<>> /\ cqSend'[n] = Tail(cqSend[n]))
  <2>1. cqSend' = cqSend \/ (cqSend[k] # <<>> /\ cqSend' = [cqSend EXCEPT ![k] = Tail(@)])
    BY Zenon DEF App, RdmapSend, RdmapWrite, RdmapRead, Post, PostRecvBuffers,
       PostRecvRequest, PollCq, Register, Invalidate
  <2>. QED BY Zenon, <1>0, <2>1
<1>3. cqRecv'[n] = cqRecv[n] \/ (cqRecv[n] # <<>> /\ cqRecv'[n] = Tail(cqRecv[n]))
  <2>1. cqRecv' = cqRecv \/ (cqRecv[k] # <<>> /\ cqRecv' = [cqRecv EXCEPT ![k] = Tail(@)])
    BY Zenon DEF App, RdmapSend, RdmapWrite, RdmapRead, Post, PostRecvBuffers,
       PostRecvRequest, PollCq, Register, Invalidate
  <2>. QED BY Zenon, <1>0, <2>1
<1>4. Back(n)' = Back(n)
  BY Zenon, <1>1 DEF Back
<1>5. cqSend[n] \in Seq(Wc) /\ cqRecv[n] \in Seq(Wc)
  BY Zenon, <1>0
<1>6. AllFailed(cqSend'[n])
  <2>1. cqSend[n] # <<>> => AllFailed(Tail(cqSend[n]))
    BY Zenon, <1>5, SoundQueue DEF Sound
  <2>. QED BY Zenon, <1>2, <2>1 DEF Sound
<1>7. AllFilled(cqRecv'[n], Back(n))
  <2>1. cqRecv[n] # <<>> => AllFilled(Tail(cqRecv[n]), Back(n))
    BY Zenon, <1>5, SoundQueue DEF Sound
  <2>. QED BY Zenon, <1>3, <2>1 DEF Sound
<1>. QED
  BY Zenon, <1>4, <1>6, <1>7 DEF Sound

\* rnic_send completes a read itself only when sending it failed.
LEMMA SendSound ==
  ASSUME TypeOK, NEW n \in Node, Sound(n), SendThread(n)
  PROVE  Sound(n)'
<1>. DEFINE w == WceOf(n)
<1>1. cqRecv' = cqRecv /\ placed' = placed
  BY Zenon, SendLocal
<1>2. AllFilled(cqRecv'[n], Back(n)')
  <2>1. Back(n)' = Back(n)
    BY Zenon, <1>1 DEF Back
  <2>. QED BY Zenon, <1>1, <2>1 DEF Sound
<1>3. w \in Wc /\ w.op = sreq[n].op /\ w.ok = sret[n]
  <2>1. sreq[n] \in SendWr /\ sret[n] \in BOOLEAN
    BY Zenon DEF TypeOK
  <2>2. sreq[n].id \in Nat /\ sreq[n].op \in Opcode
    BY Zenon, <2>1 DEF SendWr
  <2>. QED BY Zenon, <2>1, <2>2 DEF WceOf, Wc
<1>4. ~ToPending(n) => Failed(w)
  BY Zenon, <1>3 DEF Failed, ToPending
<1>. HIDE DEF w
<1>5. cqSend' = cqSend \/ (~ToPending(n) /\ cqSend' = [cqSend EXCEPT ![n] = Append(@, w)])
  BY Zenon DEF SendThread, SendDequeue, SendTransmit, SendReject, SendComplete, SendExit,
     SendKilled, w
<1>6. cqSend \in [Node -> Seq(Wc)] /\ w \in Wc
  BY Zenon, <1>3 DEF TypeOK
<1>7. cqSend'[n] = cqSend[n] \/ (~ToPending(n) /\ cqSend'[n] = Append(cqSend[n], w))
  BY Zenon, <1>5, <1>6
<1>8. ~ToPending(n) => AllFailed(Append(cqSend[n], w))
  BY Zenon, <1>4, <1>6, SoundQueue DEF Sound
<1>9. AllFailed(cqSend'[n])
  BY Zenon, <1>7, <1>8 DEF Sound
<1>. QED
  BY Zenon, <1>2, <1>9 DEF Sound

\* rnic_recv completes the read that waits longest, and it has been answered.
LEMMA RecvSound ==
  ASSUME TypeOK, TypeOK', Accounts, NEW n \in Node, Reads(n), Sound(n), RecvThread(n)
  PROVE  Sound(n)'
<1>0. cqRecv \in [Node -> Seq(Wc)] /\ cqRecv[n] \in Seq(Wc)
  BY Zenon DEF TypeOK
<1>1. cqSend' = cqSend /\ Back(n) \subseteq Back(n)'
  BY Zenon, RecvLocal, RecvAsker
<1>2. AllFilled(cqRecv'[n], Back(n))
  <2>1. CASE HandleReadResp(n) /\ pendq[n] # <<>>
    <3>1. Lines(n) /\ Flow(n)
      BY Zenon, <2>1 DEF HandleReadResp, Reads, Live
    <3>2. Head(pendq[n]).id \in Back(n)
      BY Zenon, <2>1, <3>1, DoneReads
    <3>3. cqRecv' = [cqRecv EXCEPT ![n] = Append(@, Head(pendq[n]))]
      BY Zenon, <2>1 DEF HandleReadResp
    <3>4. cqRecv'[n] = Append(cqRecv[n], Head(pendq[n]))
      BY Zenon, <1>0, <3>3
    <3>5. Head(pendq[n]) \in Wc
      <4>1. pendq[n] \in Seq(Wc)
        BY Zenon DEF TypeOK
      <4>. QED BY Zenon, <2>1, <4>1, TailType
    <3>6. Filled(Head(pendq[n]), Back(n))
      BY Zenon, <3>2 DEF Filled
    <3>7. AllFilled(Append(cqRecv[n], Head(pendq[n])), Back(n))
      BY Zenon, <1>0, <3>5, <3>6, SoundQueue DEF Sound
    <3>. QED BY Zenon, <3>4, <3>7
  <2>2. CASE cqRecv' = cqRecv
    BY Zenon, <2>2 DEF Sound
  <2>3. CASE (HandleSend(n) \/ HandleSendInval(n)) /\ cqRecv' # cqRecv
    <3>. DEFINE w == [id |-> Head(rq[n]), op |-> rmsg[n].op, ok |-> TRUE, of |-> rmsg[n].of]
    <3>1. /\ rq[n] # <<>> /\ cqRecv' = [cqRecv EXCEPT ![n] = Append(@, w)]
          /\ rmsg[n].op \in SendOps \cup InvalOps
      BY Zenon, <2>3 DEF HandleSend, HandleSendInval, CompleteRecv
    <3>2. w \in Wc /\ w.op # "READ_REQ"
      <4>1. rq[n] \in Seq(Nat) /\ rmsg[n] \in Message
        BY Zenon DEF TypeOK
      <4>2. Head(rq[n]) \in Nat
        BY Zenon, <3>1, <4>1, TailType
      <4>3. rmsg[n].op \in Opcode /\ rmsg[n].of \in Nat
        BY Zenon, <4>1 DEF Message
      <4>4. rmsg[n].op # "READ_REQ"
        BY Zenon, <3>1 DEF SendOps, InvalOps
      <4>. QED BY <4>2, <4>3, <4>4 DEF Wc
    <3>. HIDE DEF w
    <3>3. cqRecv'[n] = Append(cqRecv[n], w)
      BY Zenon, <1>0, <3>1
    <3>4. Filled(w, Back(n)) /\ w \in Wc
      BY Zenon, <3>2 DEF Filled
    <3>5. AllFilled(Append(cqRecv[n], w), Back(n))
      BY Zenon, <1>0, <3>4, SoundQueue DEF Sound
    <3>. QED BY Zenon, <3>3, <3>5
  <2>4. \/ HandleReadResp(n) /\ pendq[n] # <<>>
        \/ HandleSend(n) \/ HandleSendInval(n)
        \/ cqRecv' = cqRecv
    BY Zenon DEF RecvThread, RecvTagged, RecvError, RecvUntagged, HandleWrite, HandleReadReq,
       HandleReadResp, HandleTerminate
  <2>. QED BY Zenon, <2>1, <2>2, <2>3, <2>4
<1>3. AllFilled(cqRecv'[n], Back(n)')
  BY Zenon, <1>1, <1>2, SoundGrows
<1>. QED
  BY Zenon, <1>1, <1>3 DEF Sound

\* The steps of the peer and of the connection.
LEMMA ElsewhereSound ==
  ASSUME TypeOK, NEW n \in Node, Sound(n),
         SendThread(Peer(n)) \/ RecvThread(Peer(n)) \/ Reset \/ \E k \in Node : PeerTerminates(k)
  PROVE  Sound(n)'
<1>0. Peer(n) \in Node /\ Peer(n) # n
  BY Zenon, PeerType
<1>1. CASE SendThread(Peer(n)) \/ RecvThread(Peer(n))
  <2>1. cqSend'[n] = cqSend[n] /\ cqRecv'[n] = cqRecv[n]
    BY Zenon, <1>0, <1>1, Elsewhere DEF Untouched
  <2>2. Back(n) \subseteq Back(n)'
    BY Zenon, <1>1, SendAnswerer, RecvAnswerer
  <2>3. AllFilled(cqRecv[n], Back(n)')
    BY Zenon, <2>2, SoundGrows DEF Sound
  <2>. QED BY Zenon, <2>1, <2>3 DEF Sound
<1>2. CASE Reset \/ \E k \in Node : PeerTerminates(k)
  <2>1. cqSend' = cqSend /\ cqRecv' = cqRecv /\ placed' = placed
    BY Zenon, <1>2 DEF Reset, PeerTerminates
  <2>. QED BY Zenon, <2>1 DEF Sound, Back
<1>. QED
  BY Zenon, <1>1, <1>2

InTurn == \A n \in Node : Reads(n) /\ Sound(n)

\* There are no reads at first.
LEMMA InitInTurn == TypeOK /\ Init => InTurn
<1>. SUFFICES ASSUME TypeOK, Init, NEW n \in Node PROVE Reads(n) /\ Sound(n)
  BY Zenon DEF InTurn
<1>0. Peer(n) \in Node
  BY Zenon, PeerType
<1>1. /\ net[n] = <<>> /\ pendq[n] = <<>> /\ cqSend[n] = <<>> /\ cqRecv[n] = <<>>
      /\ spc[n] = "poll" /\ rpc[n] = "recv"
  BY Zenon DEF Init
<1>2. /\ net[Peer(n)] = <<>> /\ sqRecv[Peer(n)] = <<>> /\ spc[Peer(n)] = "poll"
      /\ rpc[Peer(n)] = "recv"
  BY Zenon, <1>0 DEF Init
<1>3. DOMAIN <<>> = {}
  OBVIOUS
<1>4. Ids(<<>>) = {} /\ IdsUp(<<>>) /\ \A o : OfIds(<<>>, o) = {} /\ Ascending(<<>>, o)
  BY Zenon, <1>3 DEF Ids, IdsUp, OfIds, Ascending
<1>5. Sound(n)
  BY Zenon, <1>1, <1>3 DEF Sound, AllFailed, AllFilled
<1>6. Lines(n)
  BY Zenon, <1>1, <1>2, <1>4 DEF Lines
<1>7. /\ Handling(n) = {} /\ Returning(n) = {} /\ Answering(Peer(n)) = {}
      /\ ToAnswer(Peer(n)) = {} /\ Asked(Peer(n)) = {} /\ Asking(Peer(n)) = {}
  BY Zenon, <1>1, <1>2, <1>4 DEF Handling, Returning, Answering, ToAnswer, Asked, Asking, Only
<1>8. Waiting(n) = {}
  BY Zenon, <1>1, <1>4 DEF Waiting, Only
<1>9. ASSUME NEW i \in 1..6 PROVE Stages(n)[i] = {}
  <2>1. /\ Stages(n)[1] = {} /\ Stages(n)[2] = {} /\ Stages(n)[3] = {} /\ Stages(n)[4] = {}
        /\ Stages(n)[5] = {} /\ Stages(n)[6] = {}
    BY Zenon, StagesParts, <1>7 DEF AllParts
  <2>2. i = 1 \/ i = 2 \/ i = 3 \/ i = 4 \/ i = 5 \/ i = 6
    OBVIOUS
  <2>. QED BY Zenon, <2>1, <2>2
<1>10. All(Stages(n)) = {}
  BY Zenon, <1>9 DEF All
<1>11. Sorted(Stages(n)) /\ Stages(n)[1] = {}
  <2>1. 1 \in 1..6
    OBVIOUS
  <2>. QED BY Zenon, <1>9, <2>1 DEF Sorted, Below
<1>12. Flow(n)
  BY Zenon, <1>8, <1>10, <1>11 DEF Flow, Orderly
<1>. QED
  BY Zenon, <1>5, <1>6, <1>12 DEF Reads

\* Every step keeps the reads in turn and their completions right.
LEMMA NextInTurn ==
  ASSUME TypeOK, TypeOK', Accounts, InTurn, [Next]_vars
  PROVE  InTurn'
<1>. SUFFICES ASSUME NEW n \in Node PROVE Reads(n)' /\ Sound(n)'
  BY Zenon DEF InTurn
<1>0. Reads(n) /\ Sound(n) /\ \A k \in Node : k = n \/ k = Peer(n)
  BY Zenon DEF InTurn, Node, Peer
<1>1. ASSUME NEW k \in Node, App(k) PROVE Reads(n)' /\ Sound(n)'
  BY Zenon, <1>0, <1>1, AppReads, AppSound
<1>2. ASSUME NEW k \in Node, SendThread(k) PROVE Reads(n)' /\ Sound(n)'
  <2>1. CASE k = n
    BY Zenon, <1>0, <1>2, <2>1, SendReads, SendSound
  <2>2. CASE k = Peer(n)
    BY Zenon, <1>0, <1>2, <2>2, AnswerReads, ElsewhereSound
  <2>. QED BY Zenon, <1>0, <2>1, <2>2
<1>3. ASSUME NEW k \in Node, RecvThread(k) PROVE Reads(n)' /\ Sound(n)'
  <2>1. CASE k = n
    BY Zenon, <1>0, <1>3, <2>1, RecvReads, RecvSound
  <2>2. CASE k = Peer(n)
    BY Zenon, <1>0, <1>3, <2>2, AskedReads, ElsewhereSound
  <2>. QED BY Zenon, <1>0, <2>1, <2>2
<1>4. ASSUME NEW k \in Node, PeerTerminates(k) PROVE Reads(n)' /\ Sound(n)'
  BY Zenon, <1>0, <1>4, TerminateReads, ElsewhereSound
<1>5. CASE Reset
  BY Zenon, <1>0, <1>5, ResetReads, ElsewhereSound
<1>6. CASE UNCHANGED vars
  <2>1. /\ net' = net /\ rpc' = rpc /\ rmsg' = rmsg /\ placed' = placed /\ up' = up
        /\ spc' = spc /\ sreq' = sreq /\ sret' = sret /\ pendq' = pendq /\ sqRecv' = sqRecv
        /\ posted' = posted /\ sqApp' = sqApp /\ cqSend' = cqSend /\ cqRecv' = cqRecv
    BY Zenon, <1>6 DEF vars, sendVars, recvVars, appVars
  <2>2. Due(n)' = Due(n)
    BY Zenon, <2>1 DEF Due
  <2>3. Reads(n)'
    BY Zenon, <1>0, <2>1, <2>2, ReadsUnmoved
  <2>4. Sound(n)'
    BY Zenon, <1>0, <2>1 DEF Sound, Back
  <2>. QED BY Zenon, <2>3, <2>4
<1>. QED
  BY Zenon, <1>1, <1>2, <1>3, <1>4, <1>5, <1>6 DEF Next, Process

\* So a read completed with success has its data in place.
LEMMA InTurnSound == InTurn => ReadCompletionSound
<1>. SUFFICES ASSUME NEW n \in Node, Sound(n), NEW wc \in Items(cqSend[n]) \cup Items(cqRecv[n]),
                     wc.op = "READ_REQ", wc.ok
              PROVE  <<n, wc.id>> \in placed
  BY Zenon DEF InTurn, ReadCompletionSound
<1>1. wc \notin Items(cqSend[n])
  BY Zenon DEF Sound, AllFailed, Failed, Items
<1>2. wc.id \in Back(n)
  BY Zenon, <1>1 DEF Sound, AllFilled, Filled, Items
<1>. QED
  BY Zenon, <1>2 DEF Back

\* A read completed with success has its data in place, for every mix of
\* requests, resets and Terminates: a response names no request, but rnic_recv
\* always shifts the completion of a read that has been answered, because the
\* requests, the responses and `pending' all keep the order of the reads.
THEOREM ReadsCompleteInTurn == Spec => []ReadCompletionSound
<1>1. TypeOK /\ TypeOK' /\ Accounts /\ InTurn /\ [Next]_vars => InTurn'
  BY Zenon, NextInTurn
<1>. QED
  BY TypeCorrect, AccountsKept, InitInTurn, InTurnSound, <1>1, PTL DEF Spec
================================================================================
