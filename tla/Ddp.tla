--------------------------------- MODULE Ddp ---------------------------------
(***************************************************************************)
(* DDP over one direction of a stream: ddp_send_tagged, ddp_send_untagged, *)
(* ddp_post_recv and ddp_recv of src/suiw/ddp/ddp.cpp.  A message is cut   *)
(* into segments, each an ULPDU that MPA carries whole and in order        *)
(* (Channel, Mpa), and the receiver copies each payload to its place.      *)
(*                                                                         *)
(* The k-th byte of the i-th message is the pair <<i, k>>.  The offsets in *)
(* the headers are two digits in base Radix, and Swap is the change of     *)
(* byte order.                                                             *)
(***************************************************************************)
EXTENDS Integers, Sequences
LOCAL INSTANCE SequencesExt

CONSTANTS
  Radix,      \* the values of a digit of an offset
  Mulpdu,     \* bytes of payload in a segment (MULPDU)
  Region,     \* the registered region: [data, len]
  Bufs,       \* the addresses of the untagged buffers, in the order posted
  Messages,   \* what the ULP sends: [tagged, to, sges], sges a list of lengths
  MaxSends,   \* bound: messages sent
  MayEnd      \* may the connection end?

ASSUME DdpAssumption ==
  /\ Radix \in Nat \ {0} /\ Mulpdu \in Nat \ {0} /\ MaxSends \in Nat
  /\ Region \in [data : Nat, len : Nat] /\ Bufs \in Seq(Nat)
  /\ MayEnd \in BOOLEAN
  /\ \A m \in Messages : m.tagged \in BOOLEAN /\ m.to \in Nat /\ m.sges \in Seq(Nat)

VARIABLES
  sent,       \* history: the messages given to DDP: where they go, how long
  pend,       \* the segments of the last one that are still to be sent
  off,        \* hdr2.TO or hdr2.mo, as the bytes of the header hold it
  pos,        \* bytes of the last message sent so far
  wire,       \* segments sent and not yet received
  open,       \* is the connection up?
  posted,     \* untagged buffers posted so far
  utq,        \* ctx->queues[qn]: those not yet taken
  rpc,        \* ddp_recv: at its "first" segment, in the loop ("more"), "failed"
  msg,        \* the ddp_message being filled
  mem,        \* the memory written, address to byte
  received    \* history: the messages reported

sendVars == <<sent, pend, off, pos>>
recvVars == <<rpc, msg, mem, received>>
vars == <<sendVars, wire, open, posted, utq, recvVars>>

-----------------------------------------------------------------------------
(* Byte order.  htonll, ntohll and ntohl all exchange the digits.          *)

Swap(x) == (x % Radix) * Radix + ((x \div Radix) % Radix)

-----------------------------------------------------------------------------
(* The sender.                                                             *)

Total(m) == FoldLeft(LAMBDA x, y : x + y, 0, m.sges)
NumPackets(l) == (l + Mulpdu - 1) \div Mulpdu
Remaining(l, j) == l - (j - 1) * Mulpdu

PacketLen(l, j) == IF Remaining(l, j) > Mulpdu THEN Mulpdu ELSE Remaining(l, j)

\* Slip: the flag is set only if the last packet is a full one.
LastIfFull(m, i, j) == i = Len(m.sges) /\ Mulpdu = Remaining(m.sges[i], j)
LastPacket(m, i, j) ==
  i = Len(m.sges) /\ PacketLen(m.sges[i], j) = Remaining(m.sges[i], j)

\* Each sge is cut into packets on its own.
Packets(m) ==
  FlattenSeq([i \in DOMAIN m.sges |->
    [j \in 1..NumPackets(m.sges[i]) |->
       [len |-> PacketLen(m.sges[i], j), last |-> LastPacket(m, i, j)]]])

NumUntagged == Len(SelectSeq(sent, LAMBDA s : ~s.tagged))

\* The ULP sends an untagged message only for a buffer it knows is posted.
DdpSend == \E m \in Messages :
  /\ Len(sent) < MaxSends /\ pend = <<>> /\ open
  /\ ~m.tagged => NumUntagged < posted
  /\ sent' = Append(sent, [tagged |-> m.tagged, len |-> Total(m),
                           at |-> IF m.tagged THEN m.to ELSE Bufs[NumUntagged + 1]])
  /\ pend' = Packets(m)
  /\ off' = IF m.tagged THEN Swap(m.to) ELSE 0
  /\ pos' = 0
  /\ UNCHANGED <<wire, open, posted, utq, recvVars>>

\* Slip: the offset of the first segment is sent with every segment.
SameOffset(tagged, n) == off
\* hdr2.TO is converted to be added to, hdr2.mo is not.
NextOffset(tagged, n) == IF tagged THEN Swap(Swap(off) + n) ELSE off + n

Transmit ==
  LET m == sent[Len(sent)]  p == Head(pend) IN
  /\ pend # <<>> /\ open
  /\ wire' = Append(wire, [tagged |-> m.tagged, last |-> p.last, off |-> off, cut |-> FALSE,
                           bytes |-> [k \in 1..p.len |-> <<Len(sent), pos + k>>]])
  /\ off' = NextOffset(m.tagged, p.len)
  /\ pos' = pos + p.len
  /\ pend' = Tail(pend)
  /\ UNCHANGED <<sent, open, posted, utq, recvVars>>

TransmitFails ==
  /\ pend # <<>> /\ ~open
  /\ pend' = <<>>
  /\ UNCHANGED <<sent, off, pos, wire, open, posted, utq, recvVars>>

\* The connection ends: the segments after some point are lost, and the one
\* at that point may be cut short.
Cut(s, k) == [s EXCEPT !.bytes = SubSeq(s.bytes, 1, k), !.cut = TRUE]
End ==
  /\ MayEnd /\ open /\ open' = FALSE
  /\ \E n \in 0..Len(wire) :
       \/ wire' = SubSeq(wire, 1, n)
       \/ /\ n > 0
          /\ \E k \in 0..(Len(wire[n].bytes) - 1) : wire' = [SubSeq(wire, 1, n) EXCEPT ![n] = Cut(@, k)]
  /\ UNCHANGED <<sendVars, posted, utq, recvVars>>

-----------------------------------------------------------------------------
(* The receiver.                                                           *)

\* ddp_post_recv
PostRecv ==
  /\ posted < Len(Bufs) /\ posted' = posted + 1
  /\ utq' = Append(utq, Bufs[posted + 1])
  /\ UNCHANGED <<sendVars, wire, open, recvVars>>

\* ddp_check_stag: the offset lies in the region (its end included).
CheckStag(to) == Region.data <= to /\ to <= Region.data + Region.len

Write(a, bytes) ==
  LET at == a..(a + Len(bytes) - 1)
  IN  mem' = [x \in DOMAIN mem \cup at |-> IF x \in at THEN bytes[x - a + 1] ELSE mem[x]]

\* Slip: the length reported is that of the last segment.
LenOfSegment(m, s) == Len(s.bytes)
LenSoFar(m, s) == m.len + Len(s.bytes)

\* The body of the loop: the payload of segment s goes to address a; the last
\* segment completes the message m.
Segment(s, m, a) ==
  LET n == [m EXCEPT !.len = LenSoFar(m, s)] IN
  /\ Write(a, s.bytes)
  /\ msg' = n
  /\ IF s.cut THEN rpc' = "failed" /\ UNCHANGED received
     ELSE IF s.last
          THEN rpc' = "first" /\ received' = Append(received, n)
          ELSE rpc' = "more" /\ UNCHANGED received

RecvTagged ==
  LET s == Head(wire)  to == Swap(s.off) IN
  /\ rpc = "first" /\ wire # <<>> /\ s.tagged
  /\ wire' = Tail(wire)
  /\ IF CheckStag(to)
     THEN Segment(s, [msg EXCEPT !.tagged = TRUE, !.at = to, !.len = 0], to)
     ELSE rpc' = "failed" /\ UNCHANGED <<msg, mem, received>>
  /\ UNCHANGED <<sendVars, open, posted, utq>>

\* An empty queue is logged and what the message struct holds is used as the
\* buffer.  The guard of DdpSend excludes it here; Rdmap looks at that case.
RecvUntagged ==
  LET s == Head(wire)
      buf == IF utq = <<>> THEN msg.at ELSE Head(utq) IN
  /\ rpc = "first" /\ wire # <<>> /\ ~s.tagged
  /\ wire' = Tail(wire)
  /\ utq' = IF utq = <<>> THEN utq ELSE Tail(utq)
  /\ Segment(s, [msg EXCEPT !.tagged = FALSE, !.at = buf, !.len = 0], buf + Swap(s.off))
  /\ UNCHANGED <<sendVars, open, posted>>

LaterOffset(x) == Swap(x)

RecvMore ==
  LET s == Head(wire) IN
  /\ rpc = "more" /\ wire # <<>>
  /\ wire' = Tail(wire)
  /\ Segment(s, msg, (IF msg.tagged THEN 0 ELSE msg.at) + LaterOffset(s.off))
  /\ UNCHANGED <<sendVars, open, posted, utq>>

RecvEnd ==
  /\ ~open /\ wire = <<>> /\ rpc # "failed"
  /\ rpc' = "failed"
  /\ UNCHANGED <<sendVars, wire, open, posted, utq, msg, mem, received>>

-----------------------------------------------------------------------------
Init ==
  /\ sent = <<>> /\ pend = <<>> /\ off = 0 /\ pos = 0
  /\ wire = <<>> /\ open = TRUE /\ posted = 0 /\ utq = <<>>
  /\ rpc = "first" /\ msg = [tagged |-> FALSE, at |-> 0, len |-> 0]
  /\ mem = [x \in {} |-> <<0, 0>>] /\ received = <<>>

Sender == Transmit \/ TransmitFails
Receiver == RecvTagged \/ RecvUntagged \/ RecvMore \/ RecvEnd
Next == DdpSend \/ End \/ PostRecv \/ Sender \/ Receiver
Spec == Init /\ [][Next]_vars

\* Both threads run; nothing makes the ULP send.
FairSpec == Spec /\ WF_vars(Sender) /\ WF_vars(Receiver)

-----------------------------------------------------------------------------
MaxLen == CHOOSE x \in {Total(m) : m \in Messages} : \A m \in Messages : Total(m) <= x
Item == [tagged : BOOLEAN, at : Nat, len : 1..MaxLen]

\* The state of both ends has the types the code gives it, and no more bytes
\* of a message are sent than it has.
TypeOK ==
  /\ sent \in Seq(Item) /\ received \in Seq(Item)
  /\ pend \in Seq([len : 1..Mulpdu, last : BOOLEAN])
  /\ off \in 0..(Radix * Radix - 1)
  /\ pos \in 0..(IF sent = <<>> THEN 0 ELSE sent[Len(sent)].len)
  /\ open \in BOOLEAN /\ posted \in 0..Len(Bufs)
  /\ rpc \in {"first", "more", "failed"}
  /\ \A x \in DOMAIN mem : mem[x] \in (1..MaxSends) \X (1..MaxLen)

Addr(i, k) == sent[i].at + k - 1

\* Every byte in memory is where its message was addressed to: at its offset
\* from the TO of a tagged message, or in the buffer posted for an untagged
\* one.  No segment, and no part of one cut short, ever lands elsewhere.
\* A message that ddp_recv has reported is in memory to its last byte, but for
\* bytes that a later message has overwritten: never a byte of an earlier one.
InPlace ==
  /\ \A x \in DOMAIN mem : x = Addr(mem[x][1], mem[x][2])
  /\ \A i \in DOMAIN received : \A k \in 1..sent[i].len :
       Addr(i, k) \in DOMAIN mem /\ mem[Addr(i, k)][1] >= i

\* DDP delivers messages: each is reported once, whole and in order, with the
\* place and the length it was sent with, however its segments were cut.
Reports == {[tagged |-> m.tagged, len |-> Total(m), at |-> a] :
              m \in Messages, a \in {Bufs[i] : i \in DOMAIN Bufs} \cup {n.to : n \in Messages}}
Abs == INSTANCE Channel WITH Item <- Reports
ImplementsChannel == Abs!Spec

\* Every message sent is eventually reported, unless the connection ends.
EventuallyReceived ==
  \A i \in 1..MaxSends : Len(sent) >= i ~> Len(received) >= i \/ ~open

\* ddp.h on ddp_post_recv: it "Registers a buffer in queue `qn` for an untagged
\* message".  An untagged message must then be placed in its buffer.
InItsBuffer == \A x \in DOMAIN mem :
  LET m == sent[mem[x][1]] IN ~m.tagged => x \in m.at..(m.at + m.len - 1)
=============================================================================
