---------------------------- MODULE LibsuiwProofs ----------------------------
(***************************************************************************)
(* The theorems about the library an application links: no event of the    *)
(* event channels is lost, doubled or handed to another channel, for any   *)
(* number of threads and channels, and the four tables of rates agree.     *)
(***************************************************************************)
EXTENDS Libsuiw, Rates, FiniteSetTheorems, SequenceTheorems, TLAPS

Event == [event : {"ADDR_RESOLVED", "ROUTE_RESOLVED"}, of : Nat]

Typed ==
  /\ tpc \in [Thread -> {"idle", "connect"}] /\ chan \in [Thread -> Channel \cup {NoChannel}]
  /\ id \in [Thread -> Nat] /\ ids \in [Thread -> Nat]
  /\ sock \in [Channel -> {"none", "open", "closed", "reset"}]
  /\ up \in [Channel -> Seq(Event)] /\ down \in [Channel -> Seq(Event)]
  /\ pending = [c \in Channel |-> pending[c]]
  /\ channels \in 0..MaxChannel

\* A channel that was never connected is empty, and no thread has it.
Fresh == /\ \A c \in Channel : sock[c] = "none" => up[c] = <<>> /\ down[c] = <<>> /\ pending[c] = <<>>
         /\ \A t \in Thread : chan[t] # NoChannel => sock[chan[t]] # "none"

\* The channels are connected one after the other, and there is one left for every
\* thread that is connecting.
Connecting == {t \in Thread : tpc[t] = "connect"}
Room == /\ IsFiniteSet(Connecting)
        /\ \E k \in 0..MaxChannel : /\ k + Cardinality(Connecting) <= channels
                                    /\ \A c \in Channel : sock[c] # "none" <=> c <= k

InOrder == Typed /\ Fresh /\ Room /\ EventsConserved

\* An event that moves from the head of what goes up to the end of what comes
\* down leaves the two, one after the other, as they are.
LEMMA SeqOrder ==
  ASSUME NEW d \in Seq(Event), NEW u \in Seq(Event)
  PROVE  /\ \A e \in Event : Append(d \o u, e) = d \o Append(u, e) /\ Append(u, e) \in Seq(Event)
         /\ d # <<>> => Tail(d) \o u = Tail(d \o u) /\ Tail(d) \in Seq(Event)
         /\ u # <<>> => /\ Append(d, Head(u)) \o Tail(u) = d \o u
                        /\ Head(u) \in Event /\ Tail(u) \in Seq(Event)
<1>1. ASSUME NEW e \in Event PROVE Append(d \o u, e) = d \o Append(u, e) /\ Append(u, e) \in Seq(Event)
  OBVIOUS
<1>2. ASSUME d # <<>> PROVE Tail(d) \o u = Tail(d \o u) /\ Tail(d) \in Seq(Event)
  BY <1>2
<1>3. ASSUME u # <<>>
      PROVE  /\ Append(d, Head(u)) \o Tail(u) = d \o u
             /\ Head(u) \in Event /\ Tail(u) \in Seq(Event)
  BY <1>3
<1>. QED BY Zenon, <1>1, <1>2, <1>3

\* No channel is connected at first.
LEMMA InitInOrder == Init => InOrder
<1>. SUFFICES ASSUME Init PROVE InOrder
  BY Zenon
<1>0. <<>> \in Seq(Event) /\ <<>> \o <<>> = <<>>
  OBVIOUS
<1>1. Typed
  BY <1>0, BoundAssumption DEF Init, Typed
<1>2. Fresh
  BY Zenon DEF Init, Fresh
<1>3. Room
  <2>1. Connecting = {}
    BY Zenon DEF Init, Connecting
  <2>2. IsFiniteSet(Connecting) /\ Cardinality(Connecting) = 0
    BY Zenon, <2>1, FS_EmptySet
  <2>3. \A c \in Channel : sock[c] # "none" <=> c <= 0
    BY BoundAssumption DEF Init, Channel
  <2>. QED BY <2>2, <2>3, BoundAssumption DEF Init, Room
<1>4. EventsConserved
  BY Zenon, <1>0 DEF Init, EventsConserved
<1>. QED BY Zenon, <1>1, <1>2, <1>3, <1>4 DEF InOrder

\* Steps that connect no channel.
LEMMA RoomKept ==
  ASSUME Room, tpc' = tpc, channels' = channels,
         \A c \in Channel : sock'[c] = "none" <=> sock[c] = "none"
  PROVE  Room'
BY Zenon DEF Room, Connecting

\* The channel a connecting thread gets is the next one, and there is one.
LEMMA NewChannelIs ==
  ASSUME Typed, Room, NEW t \in Thread, tpc[t] = "connect", NEW k \in 0..MaxChannel,
         k + Cardinality(Connecting) <= channels, \A c \in Channel : sock[c] # "none" <=> c <= k
  PROVE  NewChannel = k + 1 /\ k + 1 \in Channel /\ sock[k + 1] = "none"
<1>1. Cardinality(Connecting) \in Nat /\ Cardinality(Connecting) # 0
  <2>1. t \in Connecting /\ IsFiniteSet(Connecting)
    BY Zenon DEF Connecting, Room
  <2>. QED BY Zenon, <2>1, FS_EmptySet, FS_CardinalityType
<1>2. k + 1 \in Channel
  BY <1>1, BoundAssumption DEF Channel, Typed
<1>3. sock[k + 1] = "none" /\ \A d \in 1..((k + 1) - 1) : sock[d] # "none"
  BY <1>2, BoundAssumption DEF Channel
<1>4. ASSUME NEW c \in Channel, sock[c] = "none", \A d \in 1..(c - 1) : sock[d] # "none"
      PROVE  c = k + 1
  <2>1. c > k
    BY <1>4, BoundAssumption DEF Channel
  <2>2. ~(k + 1 < c)
    BY <1>2, <1>3, <1>4, BoundAssumption DEF Channel
  <2>. QED BY <2>1, <2>2, BoundAssumption DEF Channel
<1>. QED BY Zenon, <1>2, <1>3, <1>4 DEF NewChannel

\* suiw_create_event_channel asks the daemon to accept; no channel is connected yet.
LEMMA CreateInOrder ==
  ASSUME InOrder, NEW t \in Thread, suiw_create_event_channel(t), ~Exited
  PROVE  InOrder'
<1>. USE DEF suiw_create_event_channel, InOrder
<1>1. Typed'
  <2>1. tpc' \in [Thread -> {"idle", "connect"}]
    BY Zenon DEF Typed
  <2>2. channels' \in 0..MaxChannel
    BY BoundAssumption DEF Typed
  <2>. QED BY Zenon, <2>1, <2>2 DEF Typed
<1>2. Fresh' /\ EventsConserved'
  BY Zenon DEF Fresh, EventsConserved, Exited, daemonVars
<1>3. Room'
  <2>1. Connecting' = Connecting \cup {t} /\ t \notin Connecting
    BY DEF Connecting, Typed
  <2>2. PICK k \in 0..MaxChannel : /\ k + Cardinality(Connecting) <= channels
                                   /\ \A c \in Channel : sock[c] # "none" <=> c <= k
    BY Zenon DEF Room
  <2>3. /\ IsFiniteSet(Connecting') /\ Cardinality(Connecting') = Cardinality(Connecting) + 1
        /\ Cardinality(Connecting) \in Nat
    BY Zenon, <2>1, FS_AddElement, FS_CardinalityType DEF Room
  <2>4. k + Cardinality(Connecting') <= channels'
    BY <2>2, <2>3 DEF Typed
  <2>. QED BY Zenon, <2>2, <2>3, <2>4 DEF Room
<1>. QED BY Zenon, <1>1, <1>2, <1>3

\* connect_to_daemon: the new connection is empty on both ways.
LEMMA ConnectInOrder ==
  ASSUME InOrder, NEW t \in Thread, connect_to_daemon(t)
  PROVE  InOrder'
<1>. USE DEF InOrder
<1>0. PICK k \in 0..MaxChannel : /\ k + Cardinality(Connecting) <= channels
                                 /\ \A c \in Channel : sock[c] # "none" <=> c <= k
  BY Zenon DEF Room
<1>1. NewChannel = k + 1 /\ k + 1 \in Channel /\ sock[k + 1] = "none"
  BY Zenon, <1>0, NewChannelIs DEF connect_to_daemon
<1>2. /\ tpc' = [tpc EXCEPT ![t] = "idle"]
      /\ UNCHANGED <<id, ids, up, down, pending, channels, dpc>>
      /\ \/ chan' = [chan EXCEPT ![t] = k + 1] /\ sock' = [sock EXCEPT ![k + 1] = "open"]
         \/ UNCHANGED <<chan, sock>>
  BY Zenon, <1>1 DEF connect_to_daemon, daemonVars
<1>3. Typed'
  <2>1. tpc' \in [Thread -> {"idle", "connect"}]
    BY Zenon, <1>2 DEF Typed
  <2>2. chan' \in [Thread -> Channel \cup {NoChannel}]
    BY Zenon, <1>1, <1>2 DEF Typed
  <2>3. sock' \in [Channel -> {"none", "open", "closed", "reset"}]
    BY Zenon, <1>1, <1>2 DEF Typed
  <2>. QED BY Zenon, <1>2, <2>1, <2>2, <2>3 DEF Typed
<1>4. Fresh'
  <2>1. \A c \in Channel : sock'[c] = "none" => sock[c] = "none"
    BY Zenon, <1>1, <1>2 DEF Typed
  <2>2. ASSUME NEW u \in Thread, chan'[u] # NoChannel PROVE sock'[chan'[u]] # "none"
    <3>1. CASE chan'[u] = chan[u]
      <4>1. chan[u] \in Channel /\ sock[chan[u]] # "none"
        BY Zenon, <2>2, <3>1 DEF Fresh, Typed
      <4>. QED BY Zenon, <2>1, <3>1, <4>1
    <3>2. CASE chan'[u] # chan[u]
      BY Zenon, <1>1, <1>2, <3>2 DEF Typed
    <3>. QED BY Zenon, <3>1, <3>2
  <2>. QED BY Zenon, <1>2, <2>1, <2>2 DEF Fresh
<1>5. EventsConserved'
  <2>1. <<>> \o <<>> = <<>>
    OBVIOUS
  <2>2. sock[k + 1] = "none" => pending[k + 1] = down[k + 1] \o up[k + 1]
    BY Zenon, <1>1, <2>1 DEF Fresh
  <2>. QED BY Zenon, <1>1, <1>2, <2>2 DEF EventsConserved, Exited, Typed
<1>6. Room'
  <2>1. Connecting' = Connecting \ {t} /\ t \in Connecting
    BY Zenon, <1>2 DEF Connecting, Typed, connect_to_daemon
  <2>2. /\ IsFiniteSet(Connecting') /\ Cardinality(Connecting') = Cardinality(Connecting) - 1
        /\ Cardinality(Connecting) \in Nat
    BY Zenon, <2>1, FS_RemoveElement, FS_CardinalityType DEF Room
  <2>3. \E j \in {k, k + 1} : j \in 0..MaxChannel /\ \A c \in Channel : sock'[c] # "none" <=> c <= j
    <3>1. CASE UNCHANGED sock
      BY Zenon, <1>0, <3>1
    <3>2. CASE sock' = [sock EXCEPT ![k + 1] = "open"]
      <4>1. \A c \in Channel : sock'[c] # "none" <=> c <= k \/ c = k + 1
        BY Zenon, <1>0, <1>1, <3>2 DEF Typed
      <4>2. \A c \in Channel : c <= k + 1 <=> c <= k \/ c = k + 1
        BY DEF Channel
      <4>3. k + 1 \in 0..MaxChannel
        BY <1>1 DEF Channel
      <4>. QED BY Zenon, <4>1, <4>2, <4>3
    <3>. QED BY Zenon, <1>2, <3>1, <3>2
  <2>4. \A j \in {k, k + 1} : j + Cardinality(Connecting') <= channels'
    BY <1>0, <1>2, <2>2 DEF Typed
  <2>. QED BY Zenon, <2>2, <2>3, <2>4 DEF Room
<1>. QED BY Zenon, <1>3, <1>4, <1>5, <1>6

\* suiw_resolve_addr and suiw_resolve_route send one event up.
LEMMA SendInOrder ==
  ASSUME InOrder, NEW t \in Thread, NEW type \in {"ADDR_RESOLVED", "ROUTE_RESOLVED"},
         SendEvent(t, type), ~Exited, sock[chan[t]] # "reset"
  PROVE  InOrder'
<1>. DEFINE c == chan[t]
            e == [event |-> type, of |-> id[t]]
<1>. USE DEF InOrder
<1>1. /\ c # NoChannel /\ up' = [up EXCEPT ![c] = Append(@, e)]
      /\ pending' = [pending EXCEPT ![c] = Append(@, e)]
      /\ UNCHANGED <<tpc, chan, id, ids, sock, down, channels, dpc>>
  BY Zenon DEF SendEvent, daemonVars
<1>2. c \in Channel /\ e \in Event
  BY Zenon, <1>1 DEF Typed, Event
<1>. HIDE DEF c, e
<1>3. up[c] \in Seq(Event) /\ down[c] \in Seq(Event)
  BY Zenon, <1>2 DEF Typed
<1>4. /\ Append(up[c], e) \in Seq(Event)
      /\ Append(down[c] \o up[c], e) = down[c] \o Append(up[c], e)
  BY ZenonT(30), <1>2, <1>3, SeqOrder
<1>5. Typed'
  BY Zenon, <1>1, <1>2, <1>4 DEF Typed
<1>6. Fresh'
  BY Zenon, <1>1, <1>2 DEF Fresh, Typed, c
<1>7. EventsConserved'
  BY Zenon, <1>1, <1>2, <1>4 DEF EventsConserved, Exited, Typed
<1>8. Room'
  BY Zenon, <1>1, RoomKept
<1>. QED BY Zenon, <1>5, <1>6, <1>7, <1>8

\* suiw_get_cm_event takes the oldest event that has come down.
LEMMA GetInOrder ==
  ASSUME InOrder, NEW t \in Thread, suiw_get_cm_event(t)
  PROVE  InOrder'
<1>. DEFINE c == chan[t]
<1>. USE DEF InOrder
<1>1. /\ c # NoChannel /\ down[c] # <<>>
      /\ down' = [down EXCEPT ![c] = Tail(@)] /\ pending' = [pending EXCEPT ![c] = Tail(@)]
      /\ UNCHANGED <<tpc, chan, id, ids, sock, up, channels, dpc>>
  BY Zenon DEF suiw_get_cm_event, daemonVars
<1>2. c \in Channel
  BY Zenon, <1>1 DEF Typed
<1>. HIDE DEF c
<1>3. up[c] \in Seq(Event) /\ down[c] \in Seq(Event)
  BY Zenon, <1>2 DEF Typed
<1>4. Tail(down[c]) \in Seq(Event) /\ Tail(down[c] \o up[c]) = Tail(down[c]) \o up[c]
  BY Zenon, <1>1, <1>3, SeqOrder
<1>5. Fresh'
  BY Zenon, <1>1, <1>2 DEF Fresh, Typed
<1>6. EventsConserved'
  BY Zenon, <1>1, <1>2, <1>4 DEF EventsConserved, Exited, Typed
<1>7. Room'
  BY Zenon, <1>1, RoomKept
<1>8. Typed'
  BY Zenon, <1>1, <1>2, <1>4 DEF Typed
<1>. QED BY Zenon, <1>5, <1>6, <1>7, <1>8

\* suiw_destroy_event_channel closes the connection; its events are gone.
LEMMA DestroyInOrder ==
  ASSUME InOrder, NEW t \in Thread, suiw_destroy_event_channel(t)
  PROVE  InOrder'
<1>. DEFINE c == chan[t]
            s == IF down[c] # <<>> \/ Exited \/ sock[c] = "reset" THEN "reset" ELSE "closed"
<1>. USE DEF InOrder
<1>1. /\ c # NoChannel /\ chan' = [chan EXCEPT ![t] = NoChannel]
      /\ sock' = [sock EXCEPT ![c] = s] /\ down' = [down EXCEPT ![c] = <<>>]
      /\ pending' = [pending EXCEPT ![c] = <<>>] /\ ids' = [ids EXCEPT ![t] = 0]
      /\ UNCHANGED <<tpc, id, up, channels, dpc>>
  BY Zenon DEF suiw_destroy_event_channel, daemonVars
<1>2. c \in Channel /\ sock[c] # "none" /\ s \in {"closed", "reset"}
  BY Zenon, <1>1 DEF Typed, Fresh
<1>. HIDE DEF c, s
<1>3. \A d \in Channel : d # c => sock'[d] = sock[d] /\ down'[d] = down[d] /\ pending'[d] = pending[d]
  BY Zenon, <1>1 DEF Typed
<1>4. sock'[c] = s
  BY Zenon, <1>1, <1>2 DEF Typed
<1>5. \A d \in Channel : sock'[d] = "none" <=> sock[d] = "none"
  <2>1. s # "none"
    BY Zenon, <1>2
  <2>. QED BY Zenon, <1>2, <1>3, <1>4, <2>1
<1>6. Room'
  BY Zenon, <1>1, <1>5, RoomKept
<1>7. EventsConserved'
  <2>1. s # "open"
    BY Zenon, <1>2
  <2>. QED BY Zenon, <1>1, <1>3, <1>4, <2>1 DEF EventsConserved, Exited
<1>8. Fresh'
  <2>1. \A d \in Channel : sock'[d] = "none" => up'[d] = <<>> /\ down'[d] = <<>> /\ pending'[d] = <<>>
    <3>1. s # "none"
      BY <1>2
    <3>. QED BY Zenon, <1>1, <1>3, <1>4, <3>1 DEF Fresh
  <2>2. ASSUME NEW u \in Thread, chan'[u] # NoChannel PROVE sock'[chan'[u]] # "none"
    <3>1. chan'[u] = chan[u]
      BY Zenon, <1>1, <2>2 DEF Typed
    <3>2. chan[u] \in Channel /\ sock[chan[u]] # "none"
      BY Zenon, <2>2, <3>1 DEF Fresh, Typed
    <3>. QED BY Zenon, <1>5, <3>1, <3>2
  <2>. QED BY Zenon, <2>1, <2>2 DEF Fresh
<1>9. Typed'
  <2>1. chan' \in [Thread -> Channel \cup {NoChannel}] /\ ids' \in [Thread -> Nat]
    BY Zenon, <1>1 DEF Typed
  <2>2. sock' \in [Channel -> {"none", "open", "closed", "reset"}]
    BY Zenon, <1>1, <1>2 DEF Typed
  <2>3. <<>> \in Seq(Event)
    OBVIOUS
  <2>4. down' \in [Channel -> Seq(Event)]
    BY Zenon, <1>1, <2>3 DEF Typed
  <2>5. pending' = [d \in Channel |-> pending'[d]]
    BY Zenon, <1>1 DEF Typed
  <2>. QED BY Zenon, <1>1, <2>1, <2>2, <2>4, <2>5 DEF Typed
<1>. QED BY Zenon, <1>6, <1>7, <1>8, <1>9

\* ec_handle_recv takes the oldest event of a connection and sends it back on it.
LEMMA AnswerInOrder ==
  ASSUME InOrder, ec_handle_recv
  PROVE  InOrder'
<1>. DEFINE c == fds[First]
<1>. USE DEF InOrder
<1>0. ~Exited
  BY Zenon DEF ec_handle_recv, Exited
<1>1. /\ UNCHANGED <<tpc, chan, id, ids, channels, pending>>
      /\ \/ UNCHANGED <<sock, up, down>>
         \/ /\ up[c] # <<>> /\ up' = [up EXCEPT ![c] = Tail(@)]
            /\ \/ /\ sock[c] = "open" /\ down' = [down EXCEPT ![c] = Append(@, Head(up[c]))]
                  /\ UNCHANGED sock
               \/ sock[c] # "open" /\ sock' = [sock EXCEPT ![c] = "reset"] /\ UNCHANGED down
  BY Zenon DEF ec_handle_recv, Answered, threadVars
<1>. HIDE DEF c
<1>2. CASE UNCHANGED <<sock, up, down>> \/ c \notin Channel
  <2>1. UNCHANGED <<sock, up, down>>
    BY <1>1, <1>2 DEF Typed
  <2>. QED BY Zenon, <1>0, <1>1, <2>1 DEF Typed, Fresh, Room, Connecting, EventsConserved
<1>3. CASE c \in Channel /\ ~UNCHANGED <<sock, up, down>>
  <2>1. /\ up[c] # <<>> /\ up' = [up EXCEPT ![c] = Tail(@)]
        /\ \/ /\ sock[c] = "open" /\ down' = [down EXCEPT ![c] = Append(@, Head(up[c]))]
              /\ UNCHANGED sock
           \/ sock[c] # "open" /\ sock' = [sock EXCEPT ![c] = "reset"] /\ UNCHANGED down
    BY Zenon, <1>1, <1>3
  <2>2. up[c] \in Seq(Event) /\ down[c] \in Seq(Event) /\ sock[c] # "none"
    BY Zenon, <1>3, <2>1 DEF Typed, Fresh
  <2>3. /\ Append(down[c], Head(up[c])) \o Tail(up[c]) = down[c] \o up[c]
        /\ Head(up[c]) \in Event /\ Tail(up[c]) \in Seq(Event)
    BY Zenon, <2>1, <2>2, SeqOrder
  <2>4. Append(down[c], Head(up[c])) \in Seq(Event)
    BY <2>2, <2>3
  <2>5. \A d \in Channel : d # c => sock'[d] = sock[d] /\ down'[d] = down[d] /\ up'[d] = up[d]
    BY Zenon, <2>1 DEF Typed
  <2>6. \/ sock[c] = "open" /\ down'[c] = Append(down[c], Head(up[c])) /\ up'[c] = Tail(up[c])
        \/ sock'[c] = "reset"
    BY Zenon, <1>3, <2>1 DEF Typed
  <2>7. sock'[c] \in {sock[c], "reset"}
    BY Zenon, <1>3, <2>1 DEF Typed
  <2>8. \A d \in Channel : sock'[d] = "none" <=> sock[d] = "none"
    <3>1. "reset" # "none"
      BY Zenon
    <3>2. sock'[c] # "none"
      BY Zenon, <2>2, <2>7, <3>1
    <3>. QED BY Zenon, <2>2, <2>5, <3>2
  <2>9. Room'
    BY Zenon, <1>1, <2>8, RoomKept
  <2>10. Fresh'
    <3>1. \A d \in Channel : sock'[d] = "none" => up'[d] = <<>> /\ down'[d] = <<>> /\ pending'[d] = <<>>
      BY Zenon, <1>1, <2>2, <2>5, <2>8 DEF Fresh
    <3>2. ASSUME NEW u \in Thread, chan[u] # NoChannel PROVE sock'[chan[u]] # "none"
      <4>1. chan[u] \in Channel /\ sock[chan[u]] # "none"
        BY Zenon, <3>2 DEF Fresh, Typed
      <4>. QED BY Zenon, <2>8, <4>1
    <3>. QED BY Zenon, <1>1, <3>1, <3>2 DEF Fresh
  <2>11. EventsConserved'
    <3>1. "reset" # "open"
      BY Zenon
    <3>2. sock'[c] = "open" => pending[c] = down'[c] \o up'[c]
      <4>1. sock'[c] = "open" => /\ sock[c] = "open" /\ down'[c] = Append(down[c], Head(up[c]))
                                 /\ up'[c] = Tail(up[c])
        BY Zenon, <2>6, <3>1
      <4>2. sock[c] = "open" => pending[c] = down[c] \o up[c]
        BY Zenon, <1>0, <1>3 DEF EventsConserved
      <4>. QED BY Zenon, <2>3, <4>1, <4>2
    <3>3. \A d \in Channel \ {c} : sock'[d] = "open" => pending[d] = down'[d] \o up'[d]
      BY Zenon, <1>0, <2>5 DEF EventsConserved
    <3>. QED BY Zenon, <1>1, <3>2, <3>3 DEF EventsConserved
  <2>12. Typed'
    <3>1. up' \in [Channel -> Seq(Event)]
      BY Zenon, <2>1, <2>3 DEF Typed
    <3>2. down' \in [Channel -> Seq(Event)]
      BY Zenon, <2>1, <2>4 DEF Typed
    <3>3. sock' \in [Channel -> {"none", "open", "closed", "reset"}]
      BY Zenon, <2>1 DEF Typed
    <3>. QED BY Zenon, <1>1, <3>1, <3>2, <3>3 DEF Typed
  <2>. QED BY Zenon, <2>9, <2>10, <2>11, <2>12
<1>. QED BY Zenon, <1>2, <1>3

\* Steps that touch neither a channel nor its events.
LEMMA OtherInOrder ==
  ASSUME InOrder, UNCHANGED <<tpc, chan, sock, up, down, pending, channels>>,
         id' \in [Thread -> Nat], ids' \in [Thread -> Nat], Exited => Exited'
  PROVE  InOrder'
<1>1. Typed'
  BY Zenon DEF InOrder, Typed
<1>2. Fresh' /\ Room' /\ EventsConserved'
  BY Zenon DEF InOrder, Fresh, Room, Connecting, EventsConserved
<1>. QED BY Zenon, <1>1, <1>2 DEF InOrder

\* Whatever a thread calls keeps the order.
LEMMA CallsInOrder ==
  ASSUME InOrder, NEW t \in Thread, Calls(t)
  PROVE  InOrder'
<1>1. CASE Sigpipe
  <2>1. /\ UNCHANGED <<tpc, chan, sock, up, down, pending, channels, id, ids, dpc>>
    BY Zenon, <1>1 DEF Sigpipe, threadVars, netVars, daemonVars
  <2>. QED BY Zenon, <2>1, OtherInOrder DEF Exited, InOrder, Typed
<1>2. CASE suiw_create_id(t)
  <2>1. UNCHANGED <<tpc, chan, sock, up, down, pending, channels, dpc>>
    BY Zenon, <1>2 DEF suiw_create_id, netVars, daemonVars
  <2>2. ids' \in [Thread -> Nat] /\ id' \in [Thread -> Nat]
    BY <1>2 DEF suiw_create_id, InOrder, Typed
  <2>. QED BY Zenon, <2>1, <2>2, OtherInOrder DEF Exited
<1>3. CASE suiw_destroy_id(t)
  <2>1. UNCHANGED <<tpc, chan, sock, up, down, pending, channels, dpc>>
    BY Zenon, <1>3 DEF suiw_destroy_id, netVars, daemonVars
  <2>2. ids' \in [Thread -> Nat] /\ id' \in [Thread -> Nat]
    BY Zenon, <1>3 DEF suiw_destroy_id, InOrder, Typed
  <2>. QED BY Zenon, <2>1, <2>2, OtherInOrder DEF Exited
<1>4. CASE suiw_ack_cm_event(t)
  <2>1. UNCHANGED <<tpc, chan, sock, up, down, pending, channels, dpc, id, ids>>
    BY Zenon, <1>4 DEF suiw_ack_cm_event, netVars, daemonVars
  <2>. QED BY Zenon, <2>1, OtherInOrder DEF Exited, InOrder, Typed
<1>5. CASE suiw_create_event_channel(t) /\ ~Sigpipe
  BY Zenon, <1>5, CreateInOrder DEF suiw_create_event_channel
<1>6. ASSUME NEW type \in {"ADDR_RESOLVED", "ROUTE_RESOLVED"}, SendEvent(t, type), ~Sigpipe
      PROVE  InOrder'
  BY Zenon, <1>6, SendInOrder DEF SendEvent
<1>7. CASE suiw_resolve_addr(t) \/ suiw_resolve_route(t)
  BY Zenon, <1>1, <1>6, <1>7 DEF suiw_resolve_addr, suiw_resolve_route
<1>. QED
  BY Zenon, <1>1, <1>2, <1>3, <1>4, <1>5, <1>7, ConnectInOrder, GetInOrder, DestroyInOrder DEF Calls

\* Every step of the application's threads and of the daemon keeps the order.
LEMMA NextInOrder == InOrder /\ [Next]_vars => InOrder'
<1>. SUFFICES ASSUME InOrder, [Next]_vars PROVE InOrder'
  BY Zenon
<1>1. CASE Poll \/ lib_handle_recv \/ create_event_channel \/ fini \/ UNCHANGED vars
  <2>1. UNCHANGED <<tpc, chan, sock, up, down, pending, channels, id, ids>>
    BY Zenon, <1>1 DEF Poll, lib_handle_recv, create_event_channel, fini, vars, threadVars, netVars
  <2>2. Exited => Exited'
    <3>1. dpc \in {"loop", "handle", "accept"} => ~Exited
      BY Zenon DEF Exited
    <3>2. dpc \in {"loop", "handle", "accept"} \/ dpc' = dpc
      BY Zenon, <1>1 DEF Poll, lib_handle_recv, create_event_channel, fini, vars, daemonVars
    <3>. QED BY Zenon, <3>1, <3>2 DEF Exited
  <2>. QED BY Zenon, <2>1, <2>2, OtherInOrder DEF InOrder, Typed
<1>. QED BY Zenon, <1>1, AnswerInOrder, CallsInOrder DEF Next, Daemon

\* Events come back in the order sent, once each and on their own channel, for
\* any number of threads and channels: the loop of the daemon takes an event
\* from a connection and sends it back on the same one before it looks at the
\* next, and a channel is new when a thread connects it.
THEOREM EventsComeBackInOrder == Spec => []EventsConserved
<1>1. InOrder => EventsConserved
  BY Zenon DEF InOrder
<1>. QED BY <1>1, InitInOrder, NextInOrder, PTL DEF Spec

-----------------------------------------------------------------------------
(* The tables of rates.                                                    *)

\* The rates are their numbers in every proof.
USE DEF RATE_MAX, RATE_2_5_GBPS, RATE_5_GBPS, RATE_10_GBPS, RATE_20_GBPS, RATE_30_GBPS,
        RATE_40_GBPS, RATE_60_GBPS, RATE_80_GBPS, RATE_120_GBPS, RATE_14_GBPS,
        RATE_56_GBPS, RATE_112_GBPS, RATE_168_GBPS, RATE_25_GBPS, RATE_100_GBPS,
        RATE_200_GBPS, RATE_300_GBPS

\* A rate that has a multiple is the rate of that multiple, and its Mbit/s are that
\* many times 2500: ibv_rate_to_mult, mult_to_ibv_rate and ibv_rate_to_mbps agree.
THEOREM MultOfRate ==
  ASSUME NEW r \in Rate, ibv_rate_to_mult(r) # -1
  PROVE  /\ mult_to_ibv_rate(ibv_rate_to_mult(r)) = r
         /\ ibv_rate_to_mbps(r) = 2500 * ibv_rate_to_mult(r)
BY SMT DEF Rate, ibv_rate_to_mult, mult_to_ibv_rate, ibv_rate_to_mbps

\* Of all integers, those that mult_to_ibv_rate knows come back from
\* ibv_rate_to_mult; every other one gives RATE_MAX, which has no multiple.
THEOREM RateOfMult ==
  ASSUME NEW m \in Int
  PROVE  ibv_rate_to_mult(mult_to_ibv_rate(m)) \in {m, -1}
BY SMT DEF ibv_rate_to_mult, mult_to_ibv_rate

\* The entries of ibv_rate_to_mbps, one by one ...
LEMMA ToMbps ==
     /\ ibv_rate_to_mbps(RATE_2_5_GBPS) = 2500 /\ ibv_rate_to_mbps(RATE_5_GBPS) = 5000
     /\ ibv_rate_to_mbps(RATE_10_GBPS) = 10000
     /\ ibv_rate_to_mbps(RATE_20_GBPS) = 20000
     /\ ibv_rate_to_mbps(RATE_30_GBPS) = 30000
     /\ ibv_rate_to_mbps(RATE_40_GBPS) = 40000
     /\ ibv_rate_to_mbps(RATE_60_GBPS) = 60000
     /\ ibv_rate_to_mbps(RATE_80_GBPS) = 80000
     /\ ibv_rate_to_mbps(RATE_120_GBPS) = 120000
     /\ ibv_rate_to_mbps(RATE_14_GBPS) = 14062
     /\ ibv_rate_to_mbps(RATE_56_GBPS) = 56250
     /\ ibv_rate_to_mbps(RATE_112_GBPS) = 112500
     /\ ibv_rate_to_mbps(RATE_168_GBPS) = 168750
     /\ ibv_rate_to_mbps(RATE_25_GBPS) = 25781
     /\ ibv_rate_to_mbps(RATE_100_GBPS) = 103125
     /\ ibv_rate_to_mbps(RATE_200_GBPS) = 206250
     /\ ibv_rate_to_mbps(RATE_300_GBPS) = 309375
     /\ ibv_rate_to_mbps(RATE_MAX) = -1
BY DEF ibv_rate_to_mbps

\* ... and of mbps_to_ibv_rate.
LEMMA FromMbps ==
     /\ mbps_to_ibv_rate(2500) = RATE_2_5_GBPS /\ mbps_to_ibv_rate(5000) = RATE_5_GBPS
     /\ mbps_to_ibv_rate(10000) = RATE_10_GBPS
     /\ mbps_to_ibv_rate(20000) = RATE_20_GBPS
     /\ mbps_to_ibv_rate(30000) = RATE_30_GBPS
     /\ mbps_to_ibv_rate(40000) = RATE_40_GBPS
     /\ mbps_to_ibv_rate(60000) = RATE_60_GBPS
     /\ mbps_to_ibv_rate(80000) = RATE_80_GBPS
     /\ mbps_to_ibv_rate(120000) = RATE_120_GBPS
     /\ mbps_to_ibv_rate(14062) = RATE_14_GBPS
     /\ mbps_to_ibv_rate(56250) = RATE_56_GBPS
     /\ mbps_to_ibv_rate(112500) = RATE_112_GBPS
     /\ mbps_to_ibv_rate(168750) = RATE_168_GBPS
     /\ mbps_to_ibv_rate(25781) = RATE_25_GBPS
     /\ mbps_to_ibv_rate(103125) = RATE_100_GBPS
     /\ mbps_to_ibv_rate(206250) = RATE_200_GBPS
     /\ mbps_to_ibv_rate(309375) = RATE_300_GBPS
BY DEF mbps_to_ibv_rate

\* Every rate but RATE_MAX has its Mbit/s, and no two have the same:
\* mbps_to_ibv_rate gives it back.
THEOREM MbpsOfRate ==
  ASSUME NEW r \in Rate \ {RATE_MAX}
  PROVE  ibv_rate_to_mbps(r) # -1 /\ mbps_to_ibv_rate(ibv_rate_to_mbps(r)) = r
BY ToMbps, FromMbps DEF Rate

\* Of all integers, those that mbps_to_ibv_rate knows come back from
\* ibv_rate_to_mbps; every other one gives RATE_MAX, which has no Mbit/s.
THEOREM RateOfMbps ==
  ASSUME NEW m \in Int
  PROVE  ibv_rate_to_mbps(mbps_to_ibv_rate(m)) \in {m, -1}
<1> DEFINE Known == {2500, 5000, 10000, 20000, 30000, 40000, 60000, 80000, 120000, 14062,
                     56250, 112500, 168750, 25781, 103125, 206250, 309375}
<1>1. CASE m \in Known
  BY <1>1, ToMbps, FromMbps
<1>2. CASE m \notin Known
  <2>1. mbps_to_ibv_rate(m) = RATE_MAX
    BY <1>2 DEF mbps_to_ibv_rate
  <2>2. QED
    BY <2>1, ToMbps
<1>3. QED
  BY <1>1, <1>2
=============================================================================
