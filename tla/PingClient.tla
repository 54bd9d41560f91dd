----------------------------- MODULE PingClient -----------------------------
(***************************************************************************)
(* fake_ping_client.cpp: a client of rping over SoftUiWARP.  The main      *)
(* thread fills a buffer, advertises it with a send, waits for the         *)
(* server's go-ahead (it has read the buffer), advertises it again, waits  *)
(* for the second go-ahead (it has written the buffer), and repeats.  A    *)
(* second thread, cq_thread, posts receives, picks the go-aheads out of    *)
(* the completion queue, which also holds the completions of the client's  *)
(* own sends, and passes them on through a semaphore.                      *)
(*                                                                         *)
(* The server is another program; what it does is in the comment of main.  *)
(* The threads of the stream handle a message in one step (see Rdmap), but *)
(* rnic_recv finds a buffer and a request for a go-ahead in two.           *)
(***************************************************************************)
EXTENDS Integers, Sequences

CONSTANTS
  Pings,  \* the text of the buffer comes again after so many rounds
  MaxOwn  \* bound: own completions try_dequeue may leave and take a go-ahead

ASSUME PingsAssumption == Pings \in Nat \ {0, 1} /\ MaxOwn \in Nat

VARIABLES
  sock,           \* sockfd: none yet, connected, or a number that is no connection
  connected,      \* ctx->connected
  mpc, ping,      \* main: its next step, the number of the round
  buf,            \* the registered buffer: what it holds, and of which round
  sem,            \* ping_ctx.sem
  tpc,            \* cq_thread: its next step
  buffers, rq,    \* receives posted: in DDP, and in recv_q
  cqSend, cqRecv, \* completions of rnic_send and of rnic_recv
  rpc,            \* rnic_recv: in ddp_recv, at the case of a send, or returned with an error
  ubuf,           \* untag_buf of ddp_recv is a buffer, its own or of an earlier message
  sq,             \* send_q: advertisements and read responses
  toServer, toClient,  \* messages on their way
  spc, round,     \* the server: its next step, its number of the round
  saw,            \* the server: what its last read returned
  lost            \* the first go-ahead came before its receive was posted

streamVars == <<buffers, rq, cqSend, cqRecv, rpc, ubuf, sq, toServer, toClient>>
mainVars   == <<mpc, ping, sem>>
serverVars == <<spc, round, saw>>
vars == <<sock, connected, mainVars, buf, tpc, streamVars, serverVars, lost>>

Ping(k) == <<"ping", k>>
Pong(k) == <<"pong", k>>
NextPing(k) == (k + 1) % Pings

Init ==
  /\ sock = "none" /\ connected = FALSE /\ mpc = "tcp" /\ ping = 0
  /\ buf = Pong(Pings - 1) /\ sem = 0
  /\ tpc = "new" /\ buffers = 0 /\ rq = 0 /\ cqSend = 0 /\ cqRecv = 0 /\ rpc = "recv" /\ ubuf = FALSE
  /\ sq = <<>> /\ toServer = <<>> /\ toClient = <<>>
  /\ spc = "source" /\ round = 0 /\ saw = Ping(Pings - 1) /\ lost = FALSE

-----------------------------------------------------------------------------
(* The setup in main.                                                      *)

\* create_tcp_connection.  It returns a negative number only when the last socket call
\* fails: with no address it returns 1, and with every connection refused the number
\* of a socket it has closed.
Connect ==
  /\ mpc = "tcp"
  /\ \/ sock' \in {"open", "bad"} /\ mpc' = "mpa"
     \/ UNCHANGED sock /\ mpc' = "left"
  /\ UNCHANGED <<connected, ping, sem, buf, tpc, streamVars, serverVars, lost>>

\* mpa_client_connect; when it fails the socket is closed, and main goes on.
MpaConnect ==
  /\ mpc = "mpa"
  /\ \/ sock = "open" /\ UNCHANGED sock
     \/ sock' = "bad"
  /\ mpc' = "init"
  /\ UNCHANGED <<connected, ping, sem, buf, tpc, streamVars, serverVars, lost>>

\* rdmap_init_stream, the registration of the buffer, sem_init and pthread_create.
Start ==
  /\ mpc = "init"
  /\ connected' = TRUE /\ tpc' = "post" /\ mpc' = "fill"
  /\ UNCHANGED <<sock, ping, sem, buf, streamVars, serverVars, lost>>

-----------------------------------------------------------------------------
(* The loop of main.                                                       *)

\* The test of connected, and the text for the server to read.
Fill ==
  /\ mpc = "fill"
  /\ IF connected THEN buf' = Ping(ping) /\ mpc' = "send_source"
                  ELSE UNCHANGED buf /\ mpc' = "left"
  /\ UNCHANGED <<sock, connected, ping, sem, tpc, streamVars, serverVars, lost>>

\* rdmap_send(ctx, req), the same request both times.
Advertise ==
  /\ mpc \in {"send_source", "send_sink"}
  /\ sq' = Append(sq, "ad")
  /\ mpc' = IF mpc = "send_source" THEN "wait_read" ELSE "wait_write"
  /\ UNCHANGED <<sock, connected, ping, sem, buf, tpc, buffers, rq, cqSend, cqRecv, rpc, ubuf, toServer,
                 toClient, serverVars, lost>>

AfterWait == [wait_read |-> "send_sink", wait_write |-> "fill"]

\* sem_wait
Wait ==
  /\ mpc \in {"wait_read", "wait_write"} /\ sem > 0
  /\ sem' = sem - 1
  /\ mpc' = AfterWait[mpc]
  /\ ping' = IF AfterWait[mpc] = "send_sink" THEN ping ELSE NextPing(ping)
  /\ UNCHANGED <<sock, connected, buf, tpc, streamVars, serverVars, lost>>

-----------------------------------------------------------------------------
(* cq_thread.                                                              *)

\* The two enqueues of rdma_post_recv, for the first receive and for the
\* later ones.
PostBuffer ==
  /\ tpc \in {"post", "repost"}
  /\ buffers' = buffers + 1
  /\ tpc' = IF tpc = "post" THEN "post_rq" ELSE "repost_rq"
  /\ UNCHANGED <<sock, connected, mainVars, buf, rq, cqSend, cqRecv, rpc, ubuf, sq, toServer, toClient,
                 serverVars, lost>>

\* Slip: the main thread is told before a receive is posted again.
ToldFirst == [found |-> "sem_post", posted |-> "loop", told |-> "repost"]
\* What follows a go-ahead found, a receive posted again, and sem_post.
Order == [found |-> "repost", posted |-> "sem_post", told |-> "loop"]

PostRequest ==
  /\ tpc \in {"post_rq", "repost_rq"}
  /\ rq' = rq + 1
  /\ tpc' = IF tpc = "post_rq" THEN "loop" ELSE Order.posted
  /\ UNCHANGED <<sock, connected, mainVars, buf, buffers, cqSend, cqRecv, rpc, ubuf, sq, toServer, toClient,
                 serverVars, lost>>

\* Slip: the completion of an own send, which has the same opcode, is taken
\* for a go-ahead.
AnySend(own) == TRUE
IsGoAhead(own) == ~own

\* try_dequeue, which takes from the producer that seems to hold most, and
\* the two tests of the completion.
PollCompletion ==
  /\ tpc = "loop" /\ connected
  /\ \E own \in BOOLEAN :
       /\ IF own THEN cqSend > 0 /\ cqSend' = cqSend - 1 /\ UNCHANGED cqRecv
                 ELSE /\ cqRecv > 0 /\ cqRecv' = cqRecv - 1
                      /\ cqSend <= MaxOwn /\ UNCHANGED cqSend
       /\ tpc' = IF IsGoAhead(own) THEN Order.found ELSE "loop"
  /\ UNCHANGED <<sock, connected, mainVars, buf, buffers, rq, rpc, ubuf, sq, toServer, toClient,
                 serverVars, lost>>

SemPost ==
  /\ tpc = "sem_post"
  /\ sem' = sem + 1
  /\ tpc' = Order.told
  /\ UNCHANGED <<sock, connected, mpc, ping, buf, streamVars, serverVars, lost>>

LeaveLoop ==
  /\ tpc = "loop" /\ ~connected
  /\ tpc' = "left"
  /\ UNCHANGED <<sock, connected, mainVars, buf, streamVars, serverVars, lost>>

-----------------------------------------------------------------------------
(* The threads of the stream.  A read response takes what the buffer holds *)
(* when rnic_send comes to it.  Without a connection a send completes with *)
(* an error, which cq_thread passes over like any of its own sends, and    *)
(* rnic_recv returns.                                                      *)

RnicSend ==
  /\ connected /\ sq # <<>>
  /\ sq' = Tail(sq)
  /\ toServer' = IF sock = "bad" THEN toServer
                 ELSE Append(toServer, IF Head(sq) = "ad" THEN <<"ad">> ELSE <<"data", buf>>)
  /\ cqSend' = IF Head(sq) = "ad" THEN cqSend + 1 ELSE cqSend
  /\ UNCHANGED <<sock, connected, mainVars, buf, tpc, buffers, rq, cqRecv, rpc, ubuf, toClient,
                 serverVars, lost>>

\* ddp_recv of a go-ahead: with no buffer posted untag_buf is used as it is.  Into what
\* is no buffer recv() fails, or hits other memory.
RecvGoAhead ==
  /\ buffers' = IF buffers > 0 THEN buffers - 1 ELSE 0
  /\ ubuf' = (buffers > 0 \/ ubuf)
  /\ rpc' \in {"handle"} \cup (IF ubuf' THEN {} ELSE {"dead"})
  /\ UNCHANGED <<connected, buf, sq>>

RnicRecv ==
  /\ rpc = "recv" /\ connected /\ toClient # <<>>
  /\ toClient' = Tail(toClient)
  /\ \/ Head(toClient) = <<"go">> /\ RecvGoAhead
     \/ /\ Head(toClient) = <<"read">> /\ sq' = Append(sq, "data") /\ ubuf' = TRUE
        /\ UNCHANGED <<connected, buf, buffers, rpc>>
     \/ /\ Head(toClient)[1] = "pong" /\ buf' = Head(toClient) /\ ubuf' = FALSE
        /\ UNCHANGED <<connected, sq, buffers, rpc>>
     \/ /\ Head(toClient) = <<"terminate">>  \* for which no buffer is ever posted
        /\ \/ connected' = FALSE /\ UNCHANGED rpc
           \/ ~ubuf /\ rpc' = "dead" /\ UNCHANGED connected
        /\ UNCHANGED <<buf, sq, buffers, ubuf>>
  /\ UNCHANGED <<sock, mainVars, tpc, rq, cqSend, cqRecv, toServer, serverVars, lost>>

\* The case of a send: one with no entry in recv_q is dropped.
HandleGoAhead ==
  /\ rpc = "handle" /\ rpc' = "recv"
  /\ IF rq > 0 THEN rq' = rq - 1 /\ cqRecv' = cqRecv + 1 /\ UNCHANGED lost
               ELSE UNCHANGED <<rq, cqRecv>> /\ lost' = TRUE
  /\ UNCHANGED <<sock, connected, mainVars, buf, tpc, buffers, cqSend, ubuf, sq, toServer,
                 toClient, serverVars>>

RecvFails ==
  /\ rpc = "recv" /\ connected /\ sock = "bad"
  /\ rpc' = "dead"
  /\ UNCHANGED <<sock, connected, mainVars, buf, tpc, buffers, rq, cqSend, cqRecv, ubuf, sq, toServer,
                 toClient, serverVars, lost>>

-----------------------------------------------------------------------------
(* The server.                                                             *)

ServerReads ==
  /\ spc = "source" /\ toServer # <<>> /\ Head(toServer) = <<"ad">>
  /\ toServer' = Tail(toServer) /\ toClient' = Append(toClient, <<"read">>)
  /\ spc' = "reading"
  /\ UNCHANGED <<sock, connected, mainVars, buf, tpc, buffers, rq, cqSend, cqRecv, rpc, ubuf, sq, round, saw, lost>>

ServerHasRead ==
  /\ spc = "reading" /\ toServer # <<>> /\ Head(toServer)[1] = "data"
  /\ saw' = Head(toServer)[2]
  /\ toServer' = Tail(toServer) /\ toClient' = Append(toClient, <<"go">>)
  /\ spc' = "sink"
  /\ UNCHANGED <<sock, connected, mainVars, buf, tpc, buffers, rq, cqSend, cqRecv, rpc, ubuf, sq, round, lost>>

ServerWrites ==
  /\ spc = "sink" /\ toServer # <<>> /\ Head(toServer) = <<"ad">>
  /\ toServer' = Tail(toServer)
  /\ toClient' = toClient \o <<Pong(round), <<"go">>>>
  /\ spc' = "source" /\ round' = NextPing(round)
  /\ UNCHANGED <<sock, connected, mainVars, buf, tpc, buffers, rq, cqSend, cqRecv, rpc, ubuf, sq, saw, lost>>

ServerTerminates ==
  /\ spc = "source" /\ connected /\ sock = "open"
  /\ toClient' = Append(toClient, <<"terminate">>)
  /\ spc' = "ended"
  /\ UNCHANGED <<sock, connected, mainVars, buf, tpc, buffers, rq, cqSend, cqRecv, rpc, ubuf, sq, toServer,
                 round, saw, lost>>

Main == Connect \/ MpaConnect \/ Start \/ Fill \/ Advertise \/ Wait
Poller == PostBuffer \/ PostRequest \/ PollCompletion \/ SemPost \/ LeaveLoop
RecvThread == RnicRecv \/ HandleGoAhead
Server == ServerReads \/ ServerHasRead \/ ServerWrites

\* The process ends when main returns.
Next == \/ mpc # "left" /\ (Main \/ Poller \/ RnicSend \/ RecvThread \/ RecvFails)
        \/ Server \/ ServerTerminates
Spec == Init /\ [][Next]_vars

\* Every thread of the client runs, and the server answers.
FairSpec == /\ Spec /\ WF_vars(Main) /\ WF_vars(mpc # "left" /\ Poller)
            /\ WF_vars(mpc # "left" /\ RnicSend) /\ WF_vars(mpc # "left" /\ RecvThread)
            /\ WF_vars(Server)

-----------------------------------------------------------------------------
(* Properties.                                                             *)

Texts == {Ping(k) : k \in 0..(Pings - 1)} \cup {Pong(k) : k \in 0..(Pings - 1)}

\* Every variable keeps its type; the semaphore never counts more than one go-ahead,
\* no more than one request is posted, and no more than one buffer too many (the first
\* go-ahead may do without).
TypeOK ==
  /\ connected \in BOOLEAN /\ sem \in 0..1 /\ ping \in 0..(Pings - 1) /\ buf \in Texts
  /\ sock \in {"none", "open", "bad"}
  /\ mpc \in {"tcp", "mpa", "init", "fill", "send_source", "wait_read", "send_sink", "wait_write", "left"}
  /\ tpc \in {"new", "post", "post_rq", "loop", "repost", "repost_rq", "sem_post", "left"}
  /\ buffers \in 0..2 /\ rq \in 0..1 /\ cqSend \in Nat /\ cqRecv \in 0..1
  /\ rpc \in {"recv", "handle", "dead"} /\ ubuf \in BOOLEAN /\ sq \in Seq({"ad", "data"})
  /\ spc \in {"source", "reading", "sink", "ended"} /\ round \in 0..(Pings - 1)
  /\ saw \in Texts /\ lost \in BOOLEAN

\* The buffer is not refilled while the server reads it: a read returns the
\* text of the round the server is in, although the advertisements of the
\* two halves of a round, and all completions of sends, look the same.
ReadsThisPing == spc = "sink" => saw = Ping(round)

\* Once connected the rounds go on for ever unless the server ends the stream.  The
\* one go-ahead that may be lost is the first of the first round, whose request
\* cq_thread may not have posted; later it posts a receive before it wakes main.
FirstLost == lost /\ round = 0 /\ saw = Ping(0) /\ mpc = "wait_read"
RoundsGoOn == \/ []<>(mpc = "fill" /\ connected)
              \/ <>(FirstLost \/ spc = "ended") \/ <>[](sock # "open")
=============================================================================
