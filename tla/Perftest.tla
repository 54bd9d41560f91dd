------------------------------ MODULE Perftest ------------------------------
(***************************************************************************)
(* The benchmarks (src/perftest): two processes set up a stream and a      *)
(* second TCP connection to synchronise on, tell each other where their    *)
(* buffers are, run one of read_lat, read_bw, write_lat and write_bw for   *)
(* some iterations, and take the stream down.                              *)
(*                                                                         *)
(* What a process does between two branches is fixed, so its main thread   *)
(* is a script: a sequence of instructions, with a function of the code    *)
(* for every piece of it and one action for every instruction.  A loop     *)
(* over try_dequeue or over a byte of memory is a guard.                   *)
(*                                                                         *)
(* Below the script are the two threads of the stream.  A message is       *)
(* handled in one step here; Rdmap has their statements.  Kept from there: *)
(* the order of completions is open between the two threads that enqueue   *)
(* them, and rnic_send hands a read to `pending' only after sending it.    *)
(***************************************************************************)
EXTENDS Integers, Sequences, FiniteSets

CONSTANTS
  Benchmark,  \* the programs run
  Iters,      \* perftest_context.iters
  MaxReqs     \* perftest_context.max_reqs

Node == {"client", "server"}
Peer(n) == IF n = "client" THEN "server" ELSE "client"

ASSUME BenchmarkAssumption ==
  Benchmark \subseteq {"read_lat", "read_bw", "write_lat", "write_bw"}
ASSUME CountAssumption == Iters \in Nat /\ MaxReqs \in Nat \ {0}

VARIABLES
  bench,      \* the program run at both ends
  pc,         \* the next instruction of an end's main thread
  listening,  \* the server has called listen
  backlog,    \* connections not accepted yet
  tokens,     \* tokens[n]: messages of sync_with_remote on their way to n
  net,        \* net[n]: messages of the stream on their way to n
  closed,     \* closed[n]: n has closed its end of the stream, or is gone
  connected,  \* ctx->connected
  rthread,    \* rnic_recv: none, run (in ddp_recv), back (on its way there), or dead (returned)
  sthread,    \* rnic_send: none, run or ended
  sending,    \* the request rnic_send has sent and not completed, or None
  sqApp, sqRecv,   \* send_q: the requests of the main thread and of rnic_recv
  pendq,           \* cq->pending_q, a number of reads
  cqSend, cqRecv,  \* cq->q: the completions of rnic_send and of rnic_recv
  posted,     \* buffers posted for a send
  registered, \* the buffer of the benchmark is registered
  freed,      \* ddp_kill_stream has been called
  known,      \* their_sd has been received
  target,     \* test_init has copied a received their_sd into its requests
  byte,       \* the byte of the buffer that is watched, or checked
  failed,     \* test_iter returned -1
  overtaken,  \* a read response was handled before its read was pending
  writes      \* history: writes of the buffer placed at n

streamVars == <<rthread, sthread, sending, sqRecv, pendq, cqSend, cqRecv>>
tcpVars == <<bench, listening, backlog>>
appVars == <<posted, registered, freed, known, target, byte, failed, overtaken, writes>>
vars == <<tcpVars, pc, tokens, net, closed, connected, streamVars, sqApp, appVars>>

None == "none"

-----------------------------------------------------------------------------
(* The scripts.                                                            *)

Times(k, i) == [j \in 1..k |-> i]

mpa_client_connect == <<"mpa_send", "mpa_recv">>
mpa_server_accept == <<"mpa_recv", "mpa_peek", "mpa_send">>

rdmap_send_data == <<"send", "any">>
rdmap_recv_issue == <<"post">>
rdmap_recv_ack == <<"ack">>

sync_with_remote == <<"sync_send", "sync_recv">>

\* Slip: the loop over the completions starts at 1.
OneFewer == Times(MaxReqs, "read") \o Times(MaxReqs - 1, "read_done")
ReadAll == Times(MaxReqs, "read") \o Times(MaxReqs, "read_done")

read_lat_iter(n) == IF n = "client" THEN <<>> ELSE <<"read", "read_done", "check">>
read_bw_iter(n) == IF n = "client" THEN <<>> ELSE ReadAll \o <<"check">>

\* Slip: the write that ends the iteration goes out first.
EndFirst == <<"write_end", "write_done">> \o Times(MaxReqs, "write") \o Times(MaxReqs, "write_done")
WriteAll == Times(MaxReqs, "write") \o Times(MaxReqs, "write_done") \o <<"write_end", "write_done">>

write_bw_iter(n) == IF n = "client" THEN WriteAll ELSE <<"spin">>
write_lat_iter(n) == IF n = "client" THEN <<"spin", "write", "write_done">>
                                     ELSE <<"write", "write_done", "spin">>

test_iter(n) == CASE bench = "read_lat"  -> read_lat_iter(n)
                  [] bench = "read_bw"   -> read_bw_iter(n)
                  [] bench = "write_lat" -> write_lat_iter(n)
                  [] bench = "write_bw"  -> write_bw_iter(n)

Setup(n) == <<"tcp", "tcp">>
              \o (IF n = "client" THEN mpa_client_connect ELSE mpa_server_accept)
              \o <<"init_stream", "register">>
\* Slip: the receive is posted after the synchronisation.
PostLate == sync_with_remote \o rdmap_recv_issue \o rdmap_send_data \o rdmap_recv_ack
Exchange == rdmap_recv_issue \o sync_with_remote \o rdmap_send_data \o rdmap_recv_ack

Iterations[n \in Node, i \in 0..Iters] ==
  IF i = 0 THEN <<>> ELSE Iterations[n, i - 1] \o sync_with_remote \o test_iter(n)

\* Slip: the client does not wait for the server's result.
LeaveEarly(n) == IF n = "client" THEN rdmap_recv_issue \o sync_with_remote
                                 ELSE sync_with_remote \o rdmap_send_data
Finish(n) == IF n = "client" THEN rdmap_recv_issue \o sync_with_remote \o rdmap_recv_ack
                             ELSE sync_with_remote \o rdmap_send_data

rdmap_kill_stream == <<"kill_ddp", "disconnect", "join_recv", "join_send">>

Benchmarking(n) == Setup(n) \o Exchange \o <<"test_init">> \o Iterations[n, Iters] \o Finish(n)
perftest_run(n) == Benchmarking(n) \o rdmap_kill_stream \o <<"close">>

Cleanup(n) == Len(Benchmarking(n)) + 1
Gone(n) == Len(perftest_run(n)) + 1
Instr(n) == IF pc[n] >= Gone(n) THEN "gone" ELSE perftest_run(n)[pc[n]]

At(n, i) == Instr(n) = i
Go(n) == pc' = [pc EXCEPT ![n] = @ + 1]

Init ==
  /\ bench \in Benchmark
  /\ pc = [n \in Node |-> 1]
  /\ listening = FALSE /\ backlog = 0
  /\ tokens = [n \in Node |-> 0] /\ net = [n \in Node |-> <<>>]
  /\ closed = [n \in Node |-> FALSE] /\ connected = [n \in Node |-> FALSE]
  /\ rthread = [n \in Node |-> None] /\ sthread = [n \in Node |-> None]
  /\ sending = [n \in Node |-> None]
  /\ sqApp = [n \in Node |-> <<>>] /\ sqRecv = [n \in Node |-> <<>>]
  /\ pendq = [n \in Node |-> 0]
  /\ cqSend = [n \in Node |-> <<>>] /\ cqRecv = [n \in Node |-> <<>>]
  /\ posted = [n \in Node |-> 0]
  /\ registered = [n \in Node |-> FALSE] /\ freed = [n \in Node |-> FALSE]
  /\ known = [n \in Node |-> FALSE] /\ target = [n \in Node |-> FALSE]
  /\ byte = [n \in Node |-> 0] /\ failed = [n \in Node |-> FALSE]
  /\ overtaken = FALSE /\ writes = [n \in Node |-> 0]

-----------------------------------------------------------------------------
(* Connections.                                                            *)

\* create_tcp_connection.  The first call of the server also binds its
\* socket and listens; a client that comes before that is refused.
Listen ==
  /\ At("server", "tcp") /\ ~listening
  /\ listening' = TRUE
  /\ UNCHANGED <<bench, pc, backlog, tokens, net, closed, connected, streamVars, sqApp, appVars>>

Connect ==
  /\ At("client", "tcp")
  /\ IF listening
     THEN Go("client") /\ backlog' = backlog + 1 /\ UNCHANGED closed
     ELSE /\ pc' = [pc EXCEPT !["client"] = Gone("client")]
          /\ closed' = [closed EXCEPT !["client"] = TRUE] /\ UNCHANGED backlog
  /\ UNCHANGED <<bench, listening, tokens, net, connected, streamVars, sqApp, appVars>>

Accept ==
  /\ At("server", "tcp") /\ listening /\ backlog > 0
  /\ backlog' = backlog - 1
  /\ Go("server")
  /\ UNCHANGED <<bench, listening, tokens, net, closed, connected, streamVars, sqApp, appVars>>

Msg(op, val, ok) == [op |-> op, val |-> val, ok |-> ok]

mpa_send_rr(n) ==
  /\ At(n, "mpa_send") /\ Go(n)
  /\ net' = [net EXCEPT ![Peer(n)] = Append(@, Msg("MPA", 0, TRUE))]
  /\ UNCHANGED <<tcpVars, tokens, closed, connected, streamVars, sqApp, appVars>>

mpa_recv_rr(n) ==
  /\ At(n, "mpa_recv") /\ net[n] # <<>> /\ Go(n)
  /\ net' = [net EXCEPT ![n] = Tail(@)]
  /\ UNCHANGED <<tcpVars, tokens, closed, connected, streamVars, sqApp, appVars>>

\* The recv with MSG_DONTWAIT after a request: bytes it finds are lost.
mpa_peek(n) ==
  /\ At(n, "mpa_peek") /\ Go(n)
  /\ net' = [net EXCEPT ![n] = IF @ = <<>> THEN @ ELSE Tail(@)]
  /\ UNCHANGED <<tcpVars, tokens, closed, connected, streamVars, sqApp, appVars>>

SyncSend(n) ==
  /\ At(n, "sync_send") /\ Go(n)
  /\ tokens' = [tokens EXCEPT ![Peer(n)] = @ + 1]
  /\ UNCHANGED <<tcpVars, net, closed, connected, streamVars, sqApp, appVars>>

SyncRecv(n) ==
  /\ At(n, "sync_recv") /\ tokens[n] > 0 /\ Go(n)
  /\ tokens' = [tokens EXCEPT ![n] = @ - 1]
  /\ UNCHANGED <<tcpVars, net, closed, connected, streamVars, sqApp, appVars>>

-----------------------------------------------------------------------------
(* The stream as the main thread uses it.                                  *)

rdmap_init_stream(n) ==
  /\ At(n, "init_stream") /\ Go(n)
  /\ connected' = [connected EXCEPT ![n] = TRUE]
  /\ rthread' = [rthread EXCEPT ![n] = "run"] /\ sthread' = [sthread EXCEPT ![n] = "run"]
  /\ UNCHANGED <<tcpVars, tokens, net, closed, sending, sqApp, sqRecv, pendq,
                 cqSend, cqRecv, posted, registered, freed, known, target, byte, failed,
                 overtaken, writes>>

register_tagged_buffer(n) ==
  /\ At(n, "register") /\ Go(n)
  /\ registered' = [registered EXCEPT ![n] = TRUE]
  /\ UNCHANGED <<tcpVars, tokens, net, closed, connected, streamVars, sqApp,
                 posted, freed, known, target, byte, failed, overtaken, writes>>

rdma_post_recv(n) ==
  /\ At(n, "post") /\ Go(n)
  /\ posted' = [posted EXCEPT ![n] = @ + 1]
  /\ UNCHANGED <<tcpVars, tokens, net, closed, connected, streamVars, sqApp,
                 registered, freed, known, target, byte, failed, overtaken, writes>>

RequestOp(i) == CASE i = "send" -> "SEND" [] i = "read" -> "READ_REQ"
                  [] i = "write" -> "WRITE" [] i = "write_end" -> "WRITE_END"

\* rdmap_send, rdmap_read and rdmap_write.
PostRequest(n) ==
  /\ Instr(n) \in {"send", "read", "write", "write_end"} /\ Go(n)
  /\ sqApp' = [sqApp EXCEPT ![n] = Append(@, RequestOp(Instr(n)))]
  /\ UNCHANGED <<tcpVars, tokens, net, closed, connected, streamVars, appVars>>

\* try_dequeue of the one completion queue: what a caller may find there.
Completion(n, op) ==
  \/ /\ cqSend[n] # <<>> /\ op = Head(cqSend[n])
     /\ cqSend' = [cqSend EXCEPT ![n] = Tail(@)] /\ UNCHANGED cqRecv
  \/ /\ cqRecv[n] # <<>> /\ op = Head(cqRecv[n])
     /\ cqRecv' = [cqRecv EXCEPT ![n] = Tail(@)] /\ UNCHANGED cqSend

\* The loop at the end of rdmap_send_data, and rdmap_recv_ack, whose callers
\* log a wrong completion and go on.
AwaitAny(n) ==
  /\ Instr(n) \in {"any", "ack"} /\ Go(n)
  /\ \E op \in {"SEND", "READ_REQ", "WRITE"} : Completion(n, op)
  /\ UNCHANGED <<tcpVars, tokens, net, closed, connected, rthread, sthread,
                 sending, sqApp, sqRecv, pendq, posted, registered, freed, known, target, byte,
                 failed, overtaken, writes>>

Fails(n) == /\ pc' = [pc EXCEPT ![n] = Cleanup(n)]
            /\ failed' = [failed EXCEPT ![n] = TRUE]

\* The loops over completions of the benchmarks: a wrong one fails the test.
AwaitOwn(n) ==
  /\ Instr(n) \in {"read_done", "write_done"}
  /\ \E op \in {"SEND", "READ_REQ", "WRITE"} :
       /\ Completion(n, op)
       /\ IF op = (IF At(n, "read_done") THEN "READ_REQ" ELSE "WRITE")
          THEN Go(n) /\ UNCHANGED failed
          ELSE Fails(n)
  /\ UNCHANGED <<tcpVars, tokens, net, closed, connected, rthread, sthread,
                 sending, sqApp, sqRecv, pendq, posted, registered, freed, known, target, byte,
                 overtaken, writes>>

\* The byte the end watches or checks: buf[0] of write_bw, buf[1] of write_lat
\* and of the reads.  The filled buffer holds i in buf[i].
InitialByte(n) == CASE bench = "write_bw" -> 0
                    [] bench = "write_lat" -> IF n = "server" THEN 1 ELSE 0
                    [] OTHER -> IF n = "client" THEN 1 ELSE 0

test_init(n) ==
  /\ At(n, "test_init") /\ Go(n)
  /\ target' = [target EXCEPT ![n] = known[n]]
  /\ byte' = [byte EXCEPT ![n] = InitialByte(n)]
  /\ UNCHANGED <<tcpVars, tokens, net, closed, connected, streamVars, sqApp,
                 posted, registered, freed, known, failed, overtaken, writes>>

\* What the byte is before the other end has written, and is set back to.
Resting(n) == IF bench = "write_lat" /\ n = "server" THEN 1 ELSE 0

\* Slip: the byte is not set back.
NotReset(n) == byte[n]
ResetByte(n) == Resting(n)

\* The loop over the byte of write_bw_iter and write_lat_iter.
Spin(n) ==
  /\ At(n, "spin") /\ byte[n] # Resting(n) /\ Go(n)
  /\ byte' = [byte EXCEPT ![n] = ResetByte(n)]
  /\ UNCHANGED <<tcpVars, tokens, net, closed, connected, streamVars, sqApp,
                 posted, registered, freed, known, target, failed, overtaken, writes>>

\* PERFTEST_TEST: the data read is compared with the client's and erased.
CheckRead(n) ==
  /\ At(n, "check")
  /\ IF byte[n] = 1 THEN Go(n) /\ byte' = [byte EXCEPT ![n] = 0] /\ UNCHANGED failed
                    ELSE Fails(n) /\ UNCHANGED byte
  /\ UNCHANGED <<tcpVars, tokens, net, closed, connected, streamVars, sqApp,
                 posted, registered, freed, known, target, overtaken, writes>>

ddp_kill_stream(n) ==
  /\ At(n, "kill_ddp") /\ Go(n)
  /\ freed' = [freed EXCEPT ![n] = TRUE]
  /\ UNCHANGED <<tcpVars, tokens, net, closed, connected, streamVars, sqApp,
                 posted, registered, known, target, byte, failed, overtaken, writes>>

Disconnect(n) ==
  /\ At(n, "disconnect") /\ Go(n)
  /\ connected' = [connected EXCEPT ![n] = FALSE]
  /\ UNCHANGED <<tcpVars, tokens, net, closed, streamVars, sqApp, appVars>>

Join(n) ==
  /\ \/ At(n, "join_recv") /\ rthread[n] = "dead"
     \/ At(n, "join_send") /\ sthread[n] = "ended"
  /\ Go(n)
  /\ UNCHANGED <<tcpVars, tokens, net, closed, connected, streamVars, sqApp, appVars>>

Close(n) ==
  /\ At(n, "close") /\ Go(n)
  /\ closed' = [closed EXCEPT ![n] = TRUE]
  /\ UNCHANGED <<tcpVars, tokens, net, connected, streamVars, sqApp, appVars>>

\* Somebody ends a process that does not end by itself.
Interrupt(n) ==
  /\ At(n, "join_recv")
  /\ pc' = [pc EXCEPT ![n] = Gone(n) + 1]
  /\ closed' = [closed EXCEPT ![n] = TRUE]
  /\ UNCHANGED <<tcpVars, tokens, net, connected, streamVars, sqApp, appVars>>

Main(n) ==
  \/ n = "server" /\ (Listen \/ Accept)
  \/ n = "client" /\ Connect
  \/ mpa_send_rr(n) \/ mpa_recv_rr(n) \/ mpa_peek(n) \/ SyncSend(n) \/ SyncRecv(n)
  \/ rdmap_init_stream(n) \/ register_tagged_buffer(n) \/ rdma_post_recv(n)
  \/ PostRequest(n) \/ AwaitAny(n) \/ AwaitOwn(n) \/ test_init(n) \/ Spin(n) \/ CheckRead(n)
  \/ ddp_kill_stream(n) \/ Disconnect(n) \/ Join(n) \/ Close(n)

-----------------------------------------------------------------------------
(* rnic_send: a request is transmitted, then completed.                    *)

Carried(n, op) == CASE op = "WRITE_END" -> 1
                    [] op \in {"WRITE", "READ_RESP"} -> byte[n]
                    [] OTHER -> 0

SendRequest(n) ==
  /\ sthread[n] = "run" /\ sending[n] = None
  /\ \/ /\ sqApp[n] # <<>> /\ sending' = [sending EXCEPT ![n] = Head(sqApp[n])]
        /\ sqApp' = [sqApp EXCEPT ![n] = Tail(@)] /\ UNCHANGED sqRecv
     \/ /\ sqRecv[n] # <<>> /\ sending' = [sending EXCEPT ![n] = Head(sqRecv[n])]
        /\ sqRecv' = [sqRecv EXCEPT ![n] = Tail(@)] /\ UNCHANGED sqApp
  /\ net' = [net EXCEPT ![Peer(n)] = Append(@,
       Msg(sending'[n], Carried(n, sending'[n]),
           sending'[n] \in {"SEND", "READ_RESP"} \/ target[n]))]
  /\ UNCHANGED <<tcpVars, pc, tokens, closed, connected, rthread, sthread, pendq,
                 cqSend, cqRecv, appVars>>

Complete(n) ==
  /\ sending[n] # None
  /\ sending' = [sending EXCEPT ![n] = None]
  /\ pendq' = [pendq EXCEPT ![n] = IF sending[n] = "READ_REQ" THEN @ + 1 ELSE @]
  /\ cqSend' = [cqSend EXCEPT ![n] =
       CASE sending[n] = "SEND" -> Append(@, "SEND")
         [] sending[n] \in {"WRITE", "WRITE_END"} -> Append(@, "WRITE")
         [] OTHER -> @]
  /\ UNCHANGED <<tcpVars, pc, tokens, net, closed, connected, rthread, sthread, sqApp, sqRecv,
                 cqRecv, appVars>>

SendEnds(n) ==
  /\ sthread[n] = "run" /\ sending[n] = None /\ ~connected[n]
  /\ sthread' = [sthread EXCEPT ![n] = "ended"]
  /\ UNCHANGED <<tcpVars, pc, tokens, net, closed, connected, rthread, sending, sqApp, sqRecv,
                 pendq, cqSend, cqRecv, appVars>>

-----------------------------------------------------------------------------
(* rnic_recv: a message is taken from the connection and handled.          *)

\* ddp_recv accepts the message: a send finds a buffer, tagged data the
\* registered buffer it was meant for, and the frame is one of DDP.
Accepted(n, m) ==
  /\ ~freed[n]
  /\ CASE m.op = "SEND" -> posted[n] > 0
       [] m.op = "MPA"  -> FALSE
       [] m.op = "READ_REQ" -> TRUE
       [] OTHER -> m.ok /\ registered[n]

Looping(n) == rthread[n] = "run" /\ net[n] # <<>>
Handled(n) == /\ net' = [net EXCEPT ![n] = Tail(@)]
              /\ rthread' = [rthread EXCEPT ![n] = "back"]

RecvSend(n) ==
  /\ Looping(n) /\ Head(net[n]).op = "SEND" /\ Accepted(n, Head(net[n]))
  /\ posted' = [posted EXCEPT ![n] = @ - 1]
  /\ known' = [known EXCEPT ![n] = TRUE]
  /\ cqRecv' = [cqRecv EXCEPT ![n] = Append(@, "SEND")]
  /\ Handled(n)
  /\ UNCHANGED <<tcpVars, pc, tokens, closed, connected, sthread, sending, sqApp, sqRecv,
                 pendq, cqSend, registered, freed, target, byte, failed, overtaken, writes>>

RecvWrite(n) ==
  /\ Looping(n) /\ Head(net[n]).op \in {"WRITE", "WRITE_END"} /\ Accepted(n, Head(net[n]))
  /\ byte' = [byte EXCEPT ![n] = Head(net[n]).val]
  /\ writes' = [writes EXCEPT ![n] = IF Head(net[n]).op = "WRITE" THEN @ + 1 ELSE @]
  /\ Handled(n)
  /\ UNCHANGED <<tcpVars, pc, tokens, closed, connected, sthread, sending, sqApp, sqRecv,
                 pendq, cqSend, cqRecv, posted, registered, freed, known, target, failed, overtaken>>

RecvReadReq(n) ==
  /\ Looping(n) /\ Head(net[n]).op = "READ_REQ" /\ Accepted(n, Head(net[n]))
  /\ sqRecv' = [sqRecv EXCEPT ![n] = Append(@, "READ_RESP")]
  /\ Handled(n)
  /\ UNCHANGED <<tcpVars, pc, tokens, closed, connected, sthread, sending, sqApp, pendq,
                 cqSend, cqRecv, appVars>>

RecvReadResp(n) ==
  /\ Looping(n) /\ Head(net[n]).op = "READ_RESP" /\ Accepted(n, Head(net[n]))
  /\ byte' = [byte EXCEPT ![n] = Head(net[n]).val]
  /\ IF pendq[n] > 0
     THEN /\ pendq' = [pendq EXCEPT ![n] = @ - 1]
          /\ cqRecv' = [cqRecv EXCEPT ![n] = Append(@, "READ_REQ")]
          /\ UNCHANGED overtaken
     ELSE overtaken' = TRUE /\ UNCHANGED <<pendq, cqRecv>>
  /\ Handled(n)
  /\ UNCHANGED <<tcpVars, pc, tokens, closed, connected, sthread, sending, sqApp, sqRecv,
                 cqSend, posted, registered, freed, known, target, failed, writes>>

\* From the case of a message to the next recv: the test of connected, and the load of
\* the socket from the structures of DDP, which may be anything once they are freed.
RecvBack(n) ==
  /\ rthread[n] = "back"
  /\ \/ connected[n] /\ rthread' = [rthread EXCEPT ![n] = "run"]
     \/ (~connected[n] \/ freed[n]) /\ rthread' = [rthread EXCEPT ![n] = "dead"]
  /\ UNCHANGED <<tcpVars, pc, tokens, net, closed, connected, sthread, sending, sqApp, sqRecv,
                 pendq, cqSend, cqRecv, appVars>>

\* ddp_recv fails, on a message it refuses or on the end of the connection.
RecvError(n) ==
  /\ rthread[n] = "run"
  /\ IF net[n] = <<>> THEN closed[Peer(n)] ELSE ~Accepted(n, Head(net[n]))
  /\ rthread' = [rthread EXCEPT ![n] = "dead"]
  /\ UNCHANGED <<tcpVars, pc, tokens, net, closed, connected, sthread, sending, sqApp, sqRecv,
                 pendq, cqSend, cqRecv, appVars>>

SendThread(n) == SendRequest(n) \/ Complete(n) \/ SendEnds(n)
RecvThread(n) == \/ RecvSend(n) \/ RecvWrite(n) \/ RecvReadReq(n) \/ RecvReadResp(n)
                 \/ RecvBack(n) \/ RecvError(n)

Alive(n) == ~At(n, "gone")
Next == \E n \in Node : \/ Main(n) \/ Interrupt(n)
                        \/ Alive(n) /\ (SendThread(n) \/ RecvThread(n))
Spec == Init /\ [][Next]_vars

\* Three threads of an end, none of which is ever held up by the others.
FairSpec == Spec /\ \A n \in Node : /\ WF_vars(Main(n))
                                    /\ WF_vars(Alive(n) /\ SendThread(n))
                                    /\ WF_vars(Alive(n) /\ RecvThread(n))

-----------------------------------------------------------------------------
(* Properties.                                                             *)

Instructions == {"tcp", "mpa_send", "mpa_recv", "mpa_peek", "init_stream", "register", "post",
                 "sync_send", "sync_recv", "send", "any", "ack", "test_init", "read", "read_done",
                 "check", "write", "write_end", "write_done", "spin", "kill_ddp", "disconnect",
                 "join_recv", "join_send", "close", "gone"}
Op == {"SEND", "READ_REQ", "READ_RESP", "WRITE", "WRITE_END"}

\* Every variable keeps its type, and the second connection never holds more
\* than two of sync_with_remote's messages to an end.
TypeOK ==
  /\ bench \in Benchmark /\ \A n \in Node : Instr(n) \in Instructions
  /\ listening \in BOOLEAN /\ backlog \in 0..2
  /\ tokens \in [Node -> 0..2]
  /\ \A n \in Node : \A i \in DOMAIN net[n] :
       net[n][i] \in [op : Op \cup {"MPA"}, val : {0, 1}, ok : BOOLEAN]
  /\ closed \in [Node -> BOOLEAN] /\ connected \in [Node -> BOOLEAN]
  /\ rthread \in [Node -> {None, "run", "back", "dead"}]
  /\ sthread \in [Node -> {None, "run", "ended"}]
  /\ sending \in [Node -> Op \cup {None}]
  /\ sqApp \in [Node -> Seq(Op)] /\ sqRecv \in [Node -> Seq({"READ_RESP"})]
  /\ cqSend \in [Node -> Seq({"SEND", "WRITE"})] /\ cqRecv \in [Node -> Seq({"SEND", "READ_REQ"})]
  /\ pendq \in [Node -> 0..MaxReqs] /\ posted \in [Node -> 0..1]
  /\ registered \in [Node -> BOOLEAN] /\ freed \in [Node -> BOOLEAN]
  /\ known \in [Node -> BOOLEAN] /\ target \in [Node -> BOOLEAN]
  /\ byte \in [Node -> {0, 1}] /\ failed \in [Node -> BOOLEAN] /\ overtaken \in BOOLEAN
  /\ writes \in [Node -> Nat]

\* The synchronisation keeps the stream healthy: until the
\* stream is taken down, its receive thread never meets a send without a posted
\* receive, tagged data for a buffer not registered or not exchanged, or a
\* message of the MPA handshake, any of which would end it.
StreamHealthy == \A n \in Node : rthread[n] = "dead" => freed[n] \/ closed[Peer(n)]

\* perftest.cpp and the benchmarks share one completion queue, and
\* rdmap_send_data takes whatever completion comes first for its own.  The
\* accounts balance all the same: when an end starts to synchronise, every
\* request it posted has been completed and every completion taken, and no
\* test fails because it took another's completion or read stale data.
AccountsBalance == \A n \in Node :
  /\ ~failed[n]
  /\ At(n, "sync_send") =>
       sqApp[n] = <<>> /\ sending[n] \in {None, "READ_RESP"} /\ pendq[n] = 0
         /\ cqSend[n] = <<>> /\ cqRecv[n] = <<>>

\* The server of write_bw leaves its wait only when all the writes of the
\* iteration are in its buffer: the 4 bytes that end an iteration neither
\* overtake a write nor are seen twice.
Synced(n) == Cardinality({i \in 1..(pc[n] - 1) : perftest_run(n)[i] = "sync_recv"})
EndAfterWrites == [][
  (bench = "write_bw" /\ Spin("server") => writes["server"] = (Synced("server") - 1) * MaxReqs)]_vars

\* rdmap_kill_stream frees the structures of DDP before it ends the threads that use
\* them.  An end gets there only when nothing is left that would take its threads into
\* them again: no message is on its way to it, and no request waits to be sent.  A
\* receive thread still on its way back from its last message is another matter: see
\* FreedUnused.
QuietWhenKilled == \A n \in Node : freed[n] =>
  net[n] = <<>> /\ sqApp[n] = <<>> /\ sqRecv[n] = <<>> /\ sending[n] \in {None, "READ_RESP"}

\* The structures are not read after they are freed.  This does not hold: rnic_recv
\* completes its last message, the main thread takes the completion and frees them,
\* and rnic_recv loads the socket from them on its way back to recv.
FreedUnused == [][\A n \in Node : ~(freed[n] /\ connected[n] /\ RecvBack(n))]_vars

\* Once the client is connected both ends come to the results, unless the
\* response to a read overtakes rnic_send on its way to `pending'.
Finished == \A n \in Node : At(n, "gone") \/ pc[n] >= Cleanup(n)
RunFinishes == <>(Finished \/ overtaken \/ (At("client", "gone") /\ ~At("server", "gone")))
=============================================================================
