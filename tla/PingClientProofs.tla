-------------------------- MODULE PingClientProofs --------------------------
(***************************************************************************)
(* ReadsThisPing for every number of texts and every bound: the argument   *)
(* is that main, cq_thread, the threads of the stream and the server pass  *)
(* one single token around.                                                *)
(***************************************************************************)
EXTENDS PingClient, TLAPS

Ad   == <<"ad">>
Read == <<"read">>
Go   == <<"go">>
Data(b) == <<"data", b>>

\* cq_thread has a go-ahead that it has not passed on.
Told == tpc \in {"repost", "repost_rq", "sem_post"}

\* The token is in one of the two queues or on one of the two ways ...
On(s, d, c) == /\ sq = s /\ toServer = d /\ toClient = c /\ rpc # "handle"
               /\ cqRecv = 0 /\ ~Told /\ sem = 0
\* ... or main has it, or it is lost ...
Still       == On(<<>>, <<>>, <<>>)
\* ... or it is a go-ahead that rnic_recv has in hand ...
InHand      == /\ sq = <<>> /\ toServer = <<>> /\ toClient = <<>> /\ rpc = "handle"
               /\ cqRecv = 0 /\ ~Told /\ sem = 0
\* ... or has completed.
Arrived     == /\ sq = <<>> /\ toServer = <<>> /\ toClient = <<>> /\ rpc # "handle"
               /\ \/ cqRecv = 1 /\ ~Told /\ sem = 0
                  \/ cqRecv = 0 /\ Told /\ sem = 0
                  \/ cqRecv = 0 /\ ~Told /\ sem = 1

Asking    == On(<<"ad">>, <<>>, <<>>) \/ On(<<>>, <<Ad>>, <<>>)
BeingRead == \/ On(<<>>, <<>>, <<Read>>) \/ On(<<"data">>, <<>>, <<>>)
             \/ On(<<>>, <<Data(buf)>>, <<>>)
GoingOn   == On(<<>>, <<>>, <<Go>>) \/ InHand \/ Arrived

Source  == spc = "source" /\ round = ping
Reading == spc = "reading" /\ round = ping
Sink    == spc = "sink" /\ round = ping
Turned  == spc = "source" /\ round = NextPing(ping)

\* What main waits for, and where the token and the server are.
WaitRead  == \/ Asking /\ Source
             \/ BeingRead /\ Reading
             \/ GoingOn /\ Sink
             \/ Still
WaitWrite == \/ Asking /\ Sink
             \/ On(<<>>, <<>>, <<Pong(ping), Go>>) /\ Turned
             \/ GoingOn /\ Turned
             \/ Still

OneToken ==
  /\ mpc \in {"tcp", "mpa", "init", "fill", "send_source"} => Still /\ Source
  /\ mpc = "wait_read"  => WaitRead
  /\ mpc = "send_sink"  => Still /\ Sink
  /\ mpc = "wait_write" => WaitWrite
  /\ mpc = "left"       => Still
  /\ mpc \in {"send_source", "wait_read"} => buf = Ping(ping)
  /\ mpc \in {"tcp", "mpa", "init", "fill", "send_source", "wait_read", "send_sink",
              "wait_write", "left"}

\* Once the server has ended the stream nothing is claimed of what is left of it.
InRound == spc # "ended" => OneToken /\ ReadsThisPing

\* What the queues do with one and with two messages.
LEMMA SeqFacts ==
  /\ \A x : Head(<<x>>) = x /\ Tail(<<x>>) = <<>> /\ <<x>> # <<>> /\ Append(<<>>, x) = <<x>>
  /\ \A x, y : Head(<<x, y>>) = x /\ Tail(<<x, y>>) = <<y>> /\ <<x, y>> # <<>>
  /\ \A x, y : <<>> \o <<x, y>> = <<x, y>>
OBVIOUS

\* The messages differ.
LEMMA MessageFacts ==
  /\ Ad # Read /\ Ad # Go /\ Read # Go /\ Read # <<"terminate">> /\ Go # <<"terminate">>
  /\ Ad[1] # "data" /\ Read[1] # "pong" /\ Go[1] # "pong"
  /\ \A b : Data(b) # Ad /\ Data(b)[1] = "data" /\ Data(b)[2] = b
  /\ \A k : Pong(k) # Read /\ Pong(k) # Go /\ Pong(k) # <<"terminate">> /\ Pong(k)[1] = "pong"
BY Zenon DEF Ad, Read, Go, Data, Pong

\* At first main has the token.
LEMMA InitInRound == Init => InRound
BY Zenon DEF Init, InRound, OneToken, ReadsThisPing, Still, Source, On, Told

\* main: the token goes into the send queue, and comes back with sem_wait.
LEMMA MainInRound ==
  ASSUME InRound, Main
  PROVE  InRound'
<1>. SUFFICES ASSUME spc # "ended", OneToken, ReadsThisPing PROVE OneToken' /\ ReadsThisPing'
  BY Zenon DEF InRound, Main, Connect, MpaConnect, Start, Fill, Advertise, Wait, serverVars
<1>0. ReadsThisPing'
  BY Zenon DEF ReadsThisPing, Main, Connect, MpaConnect, Start, Fill, Advertise, Wait, serverVars
<1>1. CASE Connect \/ MpaConnect \/ Start \/ Fill
  BY Zenon, <1>0, <1>1 DEF Connect, MpaConnect, Start, Fill, OneToken, Still, Source, On, Told,
    streamVars, serverVars
<1>2. CASE Advertise
  BY Zenon, <1>0, <1>2, SeqFacts
  DEF Advertise, OneToken, WaitRead, WaitWrite, Asking, Still, Source, Sink, On,
      Told, serverVars
<1>3. CASE Wait
  BY <1>0, <1>3, SeqFacts, MessageFacts
  DEF Wait, AfterWait, OneToken, WaitRead, WaitWrite, Asking, BeingRead, GoingOn, InHand, Arrived,
     Still, Source, Reading, Sink, Turned, On, Told, serverVars, streamVars
<1>. QED BY Zenon, <1>1, <1>2, <1>3 DEF Main

\* cq_thread turns the completion of a go-ahead into a sem_post.
LEMMA PollerInRound ==
  ASSUME InRound, Poller
  PROVE  InRound'
<1>. SUFFICES ASSUME spc # "ended", OneToken, ReadsThisPing PROVE OneToken' /\ ReadsThisPing'
  BY Zenon DEF InRound, Poller, PostBuffer, PostRequest, PollCompletion, SemPost, LeaveLoop, serverVars
<1>0. /\ ReadsThisPing' /\ UNCHANGED <<mpc, ping, buf, sq, toServer, toClient, rpc, spc, round>>
  BY Zenon DEF ReadsThisPing, Poller, PostBuffer, PostRequest, PollCompletion, SemPost, LeaveLoop,
     serverVars, mainVars, streamVars
<1>. USE DEF On, Still
<1>1. CASE PostBuffer \/ PostRequest \/ LeaveLoop
  <2>1. (Told' <=> Told) /\ UNCHANGED <<cqRecv, sem>>
    BY Zenon, <1>1 DEF PostBuffer, PostRequest, LeaveLoop, Order, Told, mainVars, streamVars
  <2>. QED BY Zenon, <1>0, <2>1 DEF OneToken, WaitRead, WaitWrite, Asking, BeingRead, GoingOn, InHand, Arrived,
     Source, Reading, Sink, Turned
<1>2. CASE PollCompletion
  <2>1. \/ (Told' <=> Told) /\ UNCHANGED <<cqRecv, sem>>
        \/ cqRecv > 0 /\ cqRecv' = cqRecv - 1 /\ ~Told /\ Told' /\ UNCHANGED sem
    BY Zenon, <1>2 DEF PollCompletion, IsGoAhead, Order, Told, mainVars
  <2>. QED BY <1>0, <2>1 DEF OneToken, WaitRead, WaitWrite, Asking, BeingRead, GoingOn, InHand, Arrived,
     Source, Reading, Sink, Turned
<1>3. CASE SemPost
  <2>1. Told /\ ~Told' /\ sem' = sem + 1 /\ UNCHANGED cqRecv
    BY Zenon, <1>3 DEF SemPost, Order, Told, streamVars
  <2>. QED BY <1>0, <2>1 DEF OneToken, WaitRead, WaitWrite, Asking, BeingRead, GoingOn, InHand, Arrived,
     Source, Reading, Sink, Turned
<1>. QED BY Zenon, <1>1, <1>2, <1>3 DEF Poller

\* rnic_send and rnic_recv carry the token along, or lose it.
LEMMA RnicInRound ==
  ASSUME InRound, RnicSend \/ RecvThread \/ RecvFails
  PROVE  InRound'
<1>. SUFFICES ASSUME spc # "ended", OneToken, ReadsThisPing PROVE OneToken' /\ ReadsThisPing'
  BY Zenon DEF InRound, RnicSend, RecvThread, RnicRecv, HandleGoAhead, RecvFails, serverVars
<1>0. /\ ReadsThisPing' /\ UNCHANGED <<mpc, ping, sem, tpc, spc, round>> /\ (Told' <=> Told)
  BY Zenon DEF ReadsThisPing, RnicSend, RecvThread, RnicRecv, HandleGoAhead, RecvFails, serverVars,
     mainVars, Told
<1>. USE SeqFacts, MessageFacts DEF On, Still
<1>1. CASE RecvFails
  BY Zenon, <1>0, <1>1 DEF RecvFails, OneToken, WaitRead, WaitWrite, Asking, BeingRead, GoingOn, InHand, Arrived,
     Source, Reading, Sink, Turned
<1>2. CASE RnicSend
  <2>1. /\ sq # <<>> /\ sq' = Tail(sq) /\ UNCHANGED <<buf, cqRecv, rpc, toClient>>
        /\ \/ toServer' = toServer
           \/ Head(sq) = "ad" /\ toServer' = Append(toServer, Ad)
           \/ Head(sq) # "ad" /\ toServer' = Append(toServer, Data(buf))
    BY Zenon, <1>2 DEF RnicSend, Ad, Data
  <2>. QED BY Zenon, <1>0, <2>1
       DEF OneToken, WaitRead, WaitWrite, Asking, BeingRead, GoingOn, InHand, Arrived,
           Source, Reading, Sink, Turned
<1>3. CASE RnicRecv
  <2>1. /\ toClient # <<>> /\ toClient' = Tail(toClient) /\ UNCHANGED <<toServer, cqRecv>>
        /\ \/ Head(toClient) = Go /\ UNCHANGED <<buf, sq>> /\ rpc' \in {"handle", "dead"}
           \/ Head(toClient) = Read /\ sq' = Append(sq, "data") /\ UNCHANGED <<buf, rpc>>
           \/ Head(toClient)[1] = "pong" /\ UNCHANGED <<sq, rpc>>
           \/ Head(toClient) = <<"terminate">>
    BY Zenon, <1>3 DEF RnicRecv, RecvGoAhead, Go, Read
  <2>2. mpc = "wait_read" \/ mpc = "wait_write"
    BY Zenon, <2>1 DEF OneToken, Source, Sink
  <2>3. CASE mpc = "wait_read"
    <3>1. \/ toClient = <<Read>> /\ On(<<>>, <<>>, <<Read>>) /\ Reading
          \/ toClient = <<Go>> /\ On(<<>>, <<>>, <<Go>>) /\ Sink
      BY Zenon, <2>1, <2>3 DEF OneToken, WaitRead, Asking, BeingRead, GoingOn, InHand, Arrived
    <3>2. WaitRead' /\ UNCHANGED buf
      BY <1>0, <2>1, <3>1 DEF WaitRead, BeingRead, GoingOn, InHand, Reading, Sink
    <3>. QED BY Zenon, <1>0, <2>3, <3>2 DEF OneToken
  <2>4. CASE mpc = "wait_write"
    <3>1. \/ toClient = <<Pong(ping), Go>> /\ On(<<>>, <<>>, <<Pong(ping), Go>>) /\ Turned
          \/ toClient = <<Go>> /\ On(<<>>, <<>>, <<Go>>) /\ Turned
      BY Zenon, <2>1, <2>4 DEF OneToken, WaitWrite, Asking, GoingOn, InHand, Arrived
    <3>2. ASSUME toClient = <<Pong(ping), Go>>, On(<<>>, <<>>, <<Pong(ping), Go>>), Turned
          PROVE  WaitWrite'
      <4>1. Head(toClient) # Go /\ Head(toClient) # Read /\ Head(toClient) # <<"terminate">>
        BY <3>2
      <4>2. toClient' = <<Go>> /\ UNCHANGED <<sq, rpc, cqRecv, toServer>>
        BY <2>1, <3>2, <4>1
      <4>. QED BY Zenon, <1>0, <3>2, <4>2 DEF WaitWrite, GoingOn, Turned
    <3>3. ASSUME toClient = <<Go>>, On(<<>>, <<>>, <<Go>>), Turned
          PROVE  WaitWrite'
      <4>1. toClient' = <<>> /\ UNCHANGED <<sq, toServer, cqRecv>> /\ rpc' \in {"handle", "dead"}
        BY <2>1, <3>3
      <4>. QED BY Zenon, <1>0, <3>3, <4>1 DEF WaitWrite, GoingOn, InHand, Turned
    <3>4. WaitWrite'
      BY Zenon, <3>1, <3>2, <3>3
    <3>. QED BY Zenon, <1>0, <2>4, <3>4 DEF OneToken
  <2>. QED BY Zenon, <2>2, <2>3, <2>4
<1>4. CASE HandleGoAhead
  <2>1. /\ rpc = "handle" /\ rpc' # "handle" /\ UNCHANGED <<buf, sq, toServer, toClient>>
        /\ cqRecv' = cqRecv + 1 \/ cqRecv' = cqRecv
    BY Zenon, <1>4 DEF HandleGoAhead
  <2>2. InHand /\ ((mpc = "wait_read" /\ Sink) \/ (mpc = "wait_write" /\ Turned))
    <3>1. (mpc = "wait_read" /\ WaitRead) \/ (mpc = "wait_write" /\ WaitWrite)
      BY Zenon, <2>1 DEF OneToken
    <3>2. WaitRead => InHand /\ Sink
      BY Zenon, <2>1 DEF WaitRead, Asking, BeingRead, GoingOn, Arrived
    <3>3. WaitWrite => InHand /\ Turned
      BY Zenon, <2>1 DEF WaitWrite, Asking, GoingOn, Arrived
    <3>. QED BY Zenon, <3>1, <3>2, <3>3
  <2>3. (Still \/ Arrived)'
    BY <1>0, <2>1, <2>2 DEF InHand, Arrived
  <2>4. CASE mpc = "wait_read" /\ Sink
    <3>1. WaitRead'
      BY Zenon, <1>0, <2>3, <2>4 DEF WaitRead, GoingOn, Sink
    <3>. QED BY Zenon, <1>0, <2>1, <2>4, <3>1 DEF OneToken
  <2>5. CASE mpc = "wait_write" /\ Turned
    <3>1. WaitWrite'
      BY Zenon, <1>0, <2>3, <2>5 DEF WaitWrite, GoingOn, Turned
    <3>. QED BY Zenon, <1>0, <2>1, <2>5, <3>1 DEF OneToken
  <2>. QED BY Zenon, <2>2, <2>4, <2>5
<1>. QED BY Zenon, <1>1, <1>2, <1>3, <1>4 DEF RecvThread

\* The server answers the one message there is.
LEMMA ServerInRound ==
  ASSUME InRound, Server \/ ServerTerminates
  PROVE  InRound'
<1>. SUFFICES ASSUME spc # "ended", spc' # "ended", OneToken, ReadsThisPing
              PROVE  OneToken' /\ ReadsThisPing'
  BY Zenon DEF InRound, Server, ServerReads, ServerHasRead, ServerWrites, ServerTerminates
<1>0. Server /\ UNCHANGED <<mpc, ping, sem, tpc, sq, cqRecv, rpc, buf>> /\ (Told' <=> Told)
  BY Zenon DEF Server, ServerReads, ServerHasRead, ServerWrites, ServerTerminates, mainVars, Told
<1>. USE SeqFacts, MessageFacts DEF On, Still
<1>1. CASE ServerReads
  <2>1. /\ spc = "source" /\ toServer # <<>> /\ Head(toServer) = Ad /\ toServer' = Tail(toServer)
        /\ toClient' = Append(toClient, Read) /\ spc' = "reading" /\ UNCHANGED round
    BY Zenon, <1>1 DEF ServerReads, Ad, Read
  <2>. QED BY Zenon, <1>0, <2>1
       DEF OneToken, WaitRead, WaitWrite, Asking, BeingRead, GoingOn, InHand, Arrived,
           Source, Reading, Sink, Turned, ReadsThisPing
<1>2. CASE ServerHasRead
  <2>1. /\ spc = "reading" /\ toServer # <<>> /\ Head(toServer)[1] = "data"
        /\ toServer' = Tail(toServer) /\ saw' = Head(toServer)[2]
        /\ toClient' = Append(toClient, Go) /\ spc' = "sink" /\ UNCHANGED round
    BY Zenon, <1>2 DEF ServerHasRead, Go
  <2>2. mpc = "wait_read" /\ On(<<>>, <<Data(buf)>>, <<>>) /\ Reading /\ buf = Ping(ping)
    BY Zenon, <2>1 DEF OneToken, WaitRead, WaitWrite, Asking, BeingRead, GoingOn, InHand, Arrived, Source, Sink,
       Turned
  <2>3. On(<<>>, <<>>, <<Go>>)' /\ Sink' /\ saw' = Ping(round')
    BY Zenon, <1>0, <2>1, <2>2 DEF Reading, Sink
  <2>. QED BY Zenon, <1>0, <2>2, <2>3 DEF OneToken, WaitRead, GoingOn, ReadsThisPing
<1>3. CASE ServerWrites
  <2>1. /\ spc = "sink" /\ toServer # <<>> /\ Head(toServer) = Ad /\ toServer' = Tail(toServer)
        /\ toClient' = toClient \o <<Pong(round), Go>> /\ spc' = "source"
        /\ round' = NextPing(round)
    BY Zenon, <1>3 DEF ServerWrites, Ad, Go
  <2>2. mpc = "wait_write" /\ On(<<>>, <<Ad>>, <<>>) /\ Sink
    BY Zenon, <2>1 DEF OneToken, WaitRead, WaitWrite, Asking, BeingRead, GoingOn, InHand, Arrived, Source,
       Reading, Turned
  <2>3. On(<<>>, <<>>, <<Pong(ping), Go>>)' /\ Turned'
    BY <1>0, <2>1, <2>2 DEF Sink, Turned, Pong
  <2>. QED BY Zenon, <1>0, <2>1, <2>2, <2>3 DEF OneToken, WaitWrite, ReadsThisPing
<1>. QED BY Zenon, <1>0, <1>1, <1>2, <1>3 DEF Server

\* Every step passes the token on or leaves it where it is.
LEMMA NextInRound == InRound /\ [Next]_vars => InRound'
<1>. SUFFICES ASSUME InRound, [Next]_vars PROVE InRound'
  BY Zenon
<1>1. CASE UNCHANGED vars
  BY <1>1 DEF vars, streamVars, mainVars, serverVars, InRound, OneToken, ReadsThisPing, WaitRead,
     WaitWrite, Asking, BeingRead, GoingOn, InHand, Arrived, Still, On, Told, Source, Reading, Sink, Turned
<1>. QED BY Zenon, <1>1, MainInRound, PollerInRound, RnicInRound, ServerInRound DEF Next

\* The server reads the text of the round it is in, whatever the interleaving
\* of main, cq_thread, rnic_send and rnic_recv with it: main refills the
\* buffer only after sem_wait, the semaphore counts a go-ahead only when
\* cq_thread has found one, and every go-ahead answers an advertisement.
THEOREM EveryReadOfItsRound == Spec => []ReadsThisPing
<1>1. InRound => ReadsThisPing
  BY Zenon DEF InRound, ReadsThisPing
<1>. QED BY <1>1, InitInRound, NextInRound, PTL DEF Spec
=============================================================================
