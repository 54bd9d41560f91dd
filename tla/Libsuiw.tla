------------------------------- MODULE Libsuiw -------------------------------
(***************************************************************************)
(* Connection management: the rdma_* calls of librdmacm that are more than *)
(* a stub (src/librdmacm/rdma_cma.cpp), the library they call              *)
(* (src/libsuiw/softuiwarp.cpp) and the daemon it talks to                 *)
(* (src/libsuiw/libsuiwd.cpp).  One process has loaded the library; its    *)
(* threads open event channels, one TCP connection each, and the daemon, a *)
(* single poll loop, sends every event back.                               *)
(*                                                                         *)
(* A socket carries whole messages: both ends only send messages of one    *)
(* size over the loopback.  Closing a socket that has unread data, or      *)
(* sending to one that is closed, resets the connection (Linux).  The      *)
(* threads keep to what rdma_cma.cpp asks of callers.                      *)
(***************************************************************************)
EXTENDS Naturals, Sequences, FiniteSets

CONSTANTS
  Thread,
  MaxChannel,          \* bound: event channels ever created
  MaxId,               \* bound: ids created on one channel
  MaxConnectFailures   \* bound: connects that fail although the daemon listens

ASSUME BoundAssumption == MaxChannel \in Nat /\ MaxId \in Nat /\ MaxConnectFailures \in Nat

Channel == 1..MaxChannel
NoChannel == 0              \* also the fd of a channel whose connect failed

VARIABLES
  lib,        \* "loaded", "unloaded", or "killed" (SIGPIPE)
  tpc, chan,  \* a thread: is it in a call; its channel
  id,         \* its rdma_cm_id: 0, or how many it has created so far
  ids,        \* the number of ids it has created on its channel
  resolved,   \* what it has asked for with its id: 1 the address, 2 the route too
  held,       \* events it got and has not acknowledged
  requests,   \* DAEMON_CREATE_EC messages on dfd
  backlog,    \* connections the daemon has not accepted
  sock,       \* a channel's connection, seen from the library
  up, down,   \* events on their way to the daemon, and back
  dpc,        \* the daemon: "loop", "handle", "accept", or its exit status
  ec_fds,
  fds,        \* the event channels in the pollfd array
  revents,    \* the result of the last poll that is not handled yet
  channels, failures,    \* counts, for the bounds
  pending,    \* history: events sent on a channel and not received
  abandoned   \* history: was a channel destroyed with such events?

threadVars == <<tpc, chan, id, ids, resolved, held>>
netVars == <<requests, backlog, sock, up, down>>
daemonVars == <<dpc, ec_fds, fds, revents>>
vars == <<lib, threadVars, netVars, daemonVars, channels, failures, pending, abandoned>>

Exited == dpc \in {"exit0", "exit-1"}

\* A send to a connection whose other end is gone raises SIGPIPE.
Sigpipe == /\ lib' = "killed"
           /\ UNCHANGED <<threadVars, netVars, daemonVars, channels, failures, pending, abandoned>>

-----------------------------------------------------------------------------
(* The library.                                                            *)

Asked == requests + 1

\* rdma_create_event_channel: ask the daemon to accept, then connect.
suiw_create_event_channel(t) ==
  /\ lib = "loaded" /\ tpc[t] = "idle" /\ chan[t] = NoChannel /\ channels < MaxChannel
  /\ IF Exited THEN Sigpipe
     ELSE /\ requests' = Asked
          /\ channels' = channels + 1
          /\ tpc' = [tpc EXCEPT ![t] = "connect"]
          /\ UNCHANGED <<lib, chan, id, ids, resolved, held, backlog, sock, up, down, daemonVars,
                         failures, pending, abandoned>>

\* The first channel that was never connected.
NewChannel == CHOOSE c \in Channel : sock[c] = "none" /\ \A d \in 1..(c - 1) : sock[d] # "none"

\* A connect that fails leaves the channel with the fd -1, on which every call
\* fails: the thread gives it up.
connect_to_daemon(t) ==
  /\ lib = "loaded" /\ tpc[t] = "connect"
  /\ tpc' = [tpc EXCEPT ![t] = "idle"]
  /\ \/ /\ ~Exited
        /\ chan' = [chan EXCEPT ![t] = NewChannel]
        /\ sock' = [sock EXCEPT ![NewChannel] = "open"]
        /\ backlog' = Append(backlog, NewChannel)
        /\ UNCHANGED failures
     \/ /\ Exited \/ failures < MaxConnectFailures
        /\ failures' = IF Exited THEN failures ELSE failures + 1
        /\ UNCHANGED <<chan, sock, backlog>>
  /\ UNCHANGED <<lib, id, ids, resolved, held, requests, up, down, daemonVars, channels,
                 pending, abandoned>>

suiw_create_id(t) ==
  /\ lib = "loaded" /\ chan[t] # NoChannel /\ id[t] = 0 /\ ids[t] < MaxId
  /\ ids' = [ids EXCEPT ![t] = @ + 1]
  /\ id' = [id EXCEPT ![t] = ids[t] + 1]
  /\ UNCHANGED <<lib, tpc, chan, resolved, held, netVars, daemonVars, channels, failures, pending, abandoned>>

\* rdma_destroy_id: free(id).  The caller has acknowledged the id's events.
suiw_destroy_id(t) ==
  /\ lib = "loaded" /\ id[t] # 0 /\ held[t] = <<>>
  /\ id' = [id EXCEPT ![t] = 0] /\ resolved' = [resolved EXCEPT ![t] = 0]
  /\ UNCHANGED <<lib, tpc, chan, ids, held, netVars, daemonVars, channels, failures, pending,
                 abandoned>>

SendEvent(t, type) ==
  LET c == chan[t]
      e == [event |-> type, of |-> id[t]]
  IN  /\ lib = "loaded" /\ id[t] # 0 /\ c # NoChannel
      /\ IF sock[c] = "reset" \/ Exited THEN Sigpipe
         ELSE /\ resolved' = [resolved EXCEPT ![t] = @ + 1]
              /\ up' = [up EXCEPT ![c] = Append(@, e)]
              /\ pending' = [pending EXCEPT ![c] = Append(@, e)]
              /\ UNCHANGED <<lib, tpc, chan, id, ids, held, requests, backlog, sock, down,
                             daemonVars, channels, failures, abandoned>>
\* The address is resolved before the route.
suiw_resolve_addr(t) == resolved[t] = 0 /\ SendEvent(t, "ADDR_RESOLVED")
suiw_resolve_route(t) == resolved[t] = 1 /\ SendEvent(t, "ROUTE_RESOLVED")

\* rdma_get_cm_event blocks until an event is there; it fails when the daemon is
\* gone.
suiw_get_cm_event(t) ==
  LET c == chan[t]
  IN  /\ lib = "loaded" /\ c # NoChannel /\ down[c] # <<>>
      /\ held' = [held EXCEPT ![t] = Append(@, Head(down[c]))]
      /\ down' = [down EXCEPT ![c] = Tail(@)]
      /\ pending' = [pending EXCEPT ![c] = Tail(@)]
      /\ UNCHANGED <<lib, tpc, chan, id, ids, resolved, requests, backlog, sock, up, daemonVars, channels,
                     failures, abandoned>>

suiw_ack_cm_event(t) ==
  /\ lib = "loaded" /\ held[t] # <<>>
  /\ held' = [held EXCEPT ![t] = Tail(@)]
  /\ UNCHANGED <<lib, tpc, chan, id, ids, resolved, netVars, daemonVars, channels, failures, pending,
                 abandoned>>

\* rdma_destroy_event_channel: the caller has destroyed the ids and acknowledged
\* the events it got.
suiw_destroy_event_channel(t) ==
  LET c == chan[t]
  IN  /\ lib = "loaded" /\ c # NoChannel /\ id[t] = 0 /\ held[t] = <<>>
      /\ chan' = [chan EXCEPT ![t] = NoChannel]
      /\ sock' = [sock EXCEPT ![c] = IF down[c] # <<>> \/ Exited \/ @ = "reset"
                                     THEN "reset" ELSE "closed"]
      /\ down' = [down EXCEPT ![c] = <<>>]
      /\ abandoned' = (abandoned \/ pending[c] # <<>>)
      /\ pending' = [pending EXCEPT ![c] = <<>>]
      /\ ids' = [ids EXCEPT ![t] = 0]
      /\ UNCHANGED <<lib, tpc, id, resolved, held, requests, backlog, up, daemonVars, channels,
                     failures>>

\* The library is unloaded when the process exits.
fini ==
  /\ lib = "loaded" /\ \A t \in Thread : tpc[t] = "idle" /\ chan[t] = NoChannel
  /\ lib' = "unloaded"
  /\ UNCHANGED <<threadVars, netVars, daemonVars, channels, failures, pending, abandoned>>

-----------------------------------------------------------------------------
(* The daemon.                                                             *)

Exit(status) == dpc' = status /\ revents' = {} /\ fds' = <<>> /\ ec_fds' = <<>>

\* The result of poll: 0 for the library's connection, and the place in fds of
\* the event channels.  POLLHUP and POLLERR are seen when revents is handled.
LibReadable == requests > 0 \/ lib # "loaded"
Readable(c) == up[c] # <<>> \/ sock[c] \in {"closed", "reset"} \/ lib = "killed"
PollResult(list) == (IF LibReadable THEN {0} ELSE {})
                      \cup {i \in 1..Len(list) : Readable(list[i])}

\* The array is built again when the number of channels has changed.  A poll
\* that times out changes nothing else.
PollList == IF Len(fds) # Len(ec_fds) THEN ec_fds ELSE fds
Poll ==
  /\ dpc = "loop"
  /\ fds' = PollList
  /\ revents' = PollResult(PollList)
  /\ dpc' = IF revents' = {} THEN "loop" ELSE "handle"
  /\ UNCHANGED <<lib, threadVars, netVars, ec_fds, channels, failures, pending, abandoned>>

First == CHOOSE i \in revents : \A j \in revents : i <= j

\* On to the next fd with revents, or back to poll.
\* Slip: one fd for each poll.
OneEach == {}
OtherReady == revents \ {First}
AfterOne == IF OtherReady = {} THEN "loop" ELSE "handle"
HandleNext == revents' = OtherReady /\ dpc' = AfterOne

\* lib_handle_recv: a request, or the end of the library.
lib_handle_recv ==
  /\ dpc = "handle" /\ First = 0
  /\ \/ /\ requests > 0
        /\ requests' = requests - 1
        /\ dpc' = "accept"
        /\ UNCHANGED <<ec_fds, fds, revents>>
     \/ requests = 0 /\ Exit("exit0") /\ UNCHANGED requests
  /\ UNCHANGED <<lib, threadVars, backlog, sock, up, down, channels, failures, pending,
                 abandoned>>

\* create_event_channel: the daemon waits in accept.
create_event_channel ==
  /\ dpc = "accept" /\ backlog # <<>>
  /\ ec_fds' = Append(ec_fds, Head(backlog))
  /\ backlog' = Tail(backlog)
  /\ HandleNext
  /\ UNCHANGED <<lib, threadVars, requests, sock, up, down, fds, channels, failures, pending,
                 abandoned>>

\* Where the answer goes.
\* Slip: to the channel that was opened last.
Newest(c) == ec_fds[Len(ec_fds)]
Answered(c) == c

\* A closed channel is not an error.
Broken(c) == sock[c] = "reset" \/ lib = "killed"

\* An event channel: an error ends the daemon, a closed channel is left in the
\* list, and an event is sent back.  An event for a closed socket resets the
\* connection.
ec_handle_recv ==
  /\ dpc = "handle" /\ First # 0
  /\ LET c == fds[First]
         a == Answered(c)
     IN  \/ Broken(c) /\ Exit("exit-1") /\ UNCHANGED <<sock, up, down>>
         \/ /\ ~Broken(c) /\ up[c] = <<>>
            /\ HandleNext /\ UNCHANGED <<sock, up, down, ec_fds, fds>>
         \/ /\ ~Broken(c) /\ up[c] # <<>>
            /\ up' = [up EXCEPT ![c] = Tail(@)]
            /\ IF sock[a] = "open"
               THEN down' = [down EXCEPT ![a] = Append(@, Head(up[c]))] /\ UNCHANGED sock
               ELSE sock' = [sock EXCEPT ![a] = "reset"] /\ UNCHANGED down
            /\ HandleNext /\ UNCHANGED <<ec_fds, fds>>
  /\ UNCHANGED <<lib, threadVars, requests, backlog, channels, failures, pending, abandoned>>

Daemon == Poll \/ lib_handle_recv \/ create_event_channel \/ ec_handle_recv

\* init has connected dfd and the daemon has accepted it.
Init ==
  /\ lib = "loaded"
  /\ tpc = [t \in Thread |-> "idle"] /\ chan = [t \in Thread |-> NoChannel]
  /\ id = [t \in Thread |-> 0] /\ ids = [t \in Thread |-> 0]
  /\ resolved = [t \in Thread |-> 0] /\ held = [t \in Thread |-> <<>>]
  /\ requests = 0 /\ backlog = <<>> /\ sock = [c \in Channel |-> "none"]
  /\ up = [c \in Channel |-> <<>>] /\ down = [c \in Channel |-> <<>>]
  /\ dpc = "loop" /\ ec_fds = <<>> /\ fds = <<>> /\ revents = {}
  /\ channels = 0 /\ failures = 0
  /\ pending = [c \in Channel |-> <<>>] /\ abandoned = FALSE

Calls(t) == \/ suiw_create_event_channel(t) \/ connect_to_daemon(t) \/ suiw_create_id(t)
            \/ suiw_destroy_id(t) \/ suiw_resolve_addr(t) \/ suiw_resolve_route(t)
            \/ suiw_get_cm_event(t) \/ suiw_ack_cm_event(t) \/ suiw_destroy_event_channel(t)
Next == Daemon \/ fini \/ \E t \in Thread : Calls(t)
Spec == Init /\ [][Next]_vars

\* The daemon's thread runs, and so does a thread inside a call.
FairSpec == Spec /\ WF_vars(Daemon) /\ \A t \in Thread : WF_vars(connect_to_daemon(t))

-----------------------------------------------------------------------------
(* Properties.                                                             *)

\* Every variable has its type: the daemon's poll list is never longer than its table
\* of descriptors, and it handles entries only while one is ready.
TypeOK ==
  /\ lib \in {"loaded", "unloaded", "killed"}
  /\ tpc \in [Thread -> {"idle", "connect"}] /\ chan \in [Thread -> Channel \cup {NoChannel}]
  /\ id \in [Thread -> 0..MaxId] /\ resolved \in [Thread -> 0..2] /\ requests \in 0..MaxChannel
  /\ sock \in [Channel -> {"none", "open", "closed", "reset"}]
  /\ dpc \in {"loop", "handle", "accept", "exit0", "exit-1"}
  /\ Len(fds) <= Len(ec_fds) /\ revents \subseteq 0..Len(fds)
  /\ dpc = "handle" => revents # {}

\* On every open channel the events come back in the order they were sent, none
\* of them twice and none that belongs to another channel, while the one daemon
\* thread goes back and forth between the channels.
EventsConserved == \A c \in Channel : sock[c] = "open" /\ ~Exited => pending[c] = down[c] \o up[c]

\* An event sent on an open channel is answered, although channels that were
\* closed stay in the poll list and make every poll return at once: no channel is
\* starved.  A failed connect, which leaves the daemon waiting in accept, and an
\* abandoned channel are the exceptions.
EventAnswered ==
  \A c \in Channel :
    up[c] # <<>> ~> up[c] = <<>> \/ sock[c] # "open" \/ failures > 0 \/ abandoned \/ lib # "loaded"

\* Every event a thread has in its hands, or may still get, names an id that is
\* not destroyed: rdma_destroy_id "cancels any outstanding asynchronous
\* operation".
EventsNameLiveIds ==
  \A t \in Thread : \A i \in 1..Len(held[t]) : held[t][i].of = id[t]
=============================================================================
