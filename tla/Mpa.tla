--------------------------------- MODULE Mpa ---------------------------------
(***************************************************************************)
(* MPA framing over one direction of a TCP connection: mpa_send and        *)
(* mpa_recv of src/suiw/mpa/mpa.cpp, byte by byte, with a caller that, as  *)
(* ddp_recv does, reads an ULPDU in several calls.                         *)
(*                                                                         *)
(* A byte is its value v and its place `at', the number of its frame and   *)
(* its position in it.  Only the two bytes of the length field have a      *)
(* value that matters.                                                     *)
(***************************************************************************)
EXTENDS Integers, Sequences

CONSTANTS
  Radix,      \* the values of a byte (256; smaller in the instances)
  Lens,       \* the lengths of the ULPDUs sent
  MaxFrames,  \* bound: ULPDUs sent
  Asks,       \* the num_bytes a caller of mpa_recv passes
  Splits,     \* the parts of a frame that recv() may return in pieces
  Ends        \* how the connection may end: "closed", "reset"

Part == {"hdr", "payload", "pad", "crc"}

ASSUME LenAssumption  == Radix \in Nat \ {0} /\ Lens \subseteq 1..(Radix * Radix - 1)
ASSUME AskAssumption  == Asks \subseteq Nat \ {0}
ASSUME EnvAssumption  == Splits \subseteq Part /\ Ends \subseteq {"closed", "reset"}
ASSUME BoundAssumption == MaxFrames \in Nat

MPA_HDR_SIZE == 2
MPA_CRC_SIZE == 4

VARIABLES
  sent,       \* history: the ULPDUs given to mpa_send
  wire,       \* bytes sent and not yet taken by recv()
  conn,       \* "open", "closed" (recv returns 0), "reset" (the next returns -1)
  pc,         \* the reader: "idle" between calls, or the recv() it is in
  ask,        \* num_bytes
  ulpduLen, bytesRcvd,  \* the fields of siw_mpa_packet
  rcvd,       \* bytes of the payload read in this call
  taken,      \* history: bytes of this packet taken from the socket
  part,       \* history: bytes of this ULPDU handed to the caller
  received    \* history: the ULPDUs handed over completely

readVars == <<ask, ulpduLen, bytesRcvd, rcvd, taken, part, received>>
vars == <<sent, wire, conn, pc, readVars>>

-----------------------------------------------------------------------------
(* mpa_send.                                                               *)

SendPad(l) == (l + MPA_HDR_SIZE) % 4
Trailer(l) == SendPad(l) + MPA_CRC_SIZE
Frame(f, l) ==
  LET value == <<l \div Radix, l % Radix>> \o [i \in 1..(l + Trailer(l)) |-> IF i <= l THEN 1 ELSE 0]
  IN  [k \in DOMAIN value |-> [v |-> value[k], at |-> <<f, k>>]]
Ulpdu(f, l) == [i \in 1..l |-> <<f, MPA_HDR_SIZE + i>>]

MpaSend == \E l \in Lens :
  /\ conn = "open" /\ Len(sent) < MaxFrames
  /\ sent' = Append(sent, Ulpdu(Len(sent) + 1, l))
  /\ wire' = wire \o Frame(Len(sent) + 1, l)
  /\ UNCHANGED <<conn, pc, readVars>>

\* The connection ends; what was in flight may be cut off anywhere.
End == \E e \in Ends, k \in 0..Len(wire) :
  /\ conn = "open" /\ conn' = e
  /\ wire' = SubSeq(wire, 1, k)
  /\ UNCHANGED <<sent, pc, readVars>>

-----------------------------------------------------------------------------
(* mpa_recv.                                                               *)

Min2(x, y) == IF x < y THEN x ELSE y
Drop(k) == SubSeq(wire, k + 1, Len(wire))

\* How many bytes recv() may return when asked for n.
Recv(p, n) == IF p \in Splits THEN 1..Min2(n, Len(wire)) ELSE {n} \cap 1..Len(wire)

UlpduRem == ulpduLen - (bytesRcvd - MPA_HDR_SIZE)
ReadTrailers == UlpduRem <= ask
ToRead == IF ReadTrailers THEN UlpduRem ELSE ask

\* The packet has been read to its end; the caller sets bytes_rcvd to 0.
Whole == bytesRcvd >= MPA_HDR_SIZE /\ UlpduRem <= 0

NextPacket ==
  /\ pc = "idle" /\ Whole
  /\ bytesRcvd' = 0 /\ taken' = 0 /\ part' = <<>>
  /\ UNCHANGED <<sent, wire, conn, pc, ask, ulpduLen, rcvd, received>>

Call == \E n \in Asks :
  /\ pc = "idle" /\ ~Whole
  /\ ask' = n /\ rcvd' = 0
  /\ pc' = IF bytesRcvd < MPA_HDR_SIZE THEN "hdr" ELSE "payload"
  /\ UNCHANGED <<sent, wire, conn, ulpduLen, bytesRcvd, taken, part, received>>

\* Slip: the length field is not converted from network order.
HostOrder == wire[1].v + Radix * wire[2].v
Ntohs == Radix * wire[1].v + wire[2].v

RecvHdr == \E k \in Recv("hdr", MPA_HDR_SIZE - bytesRcvd) :
  /\ pc = "hdr"
  /\ wire' = Drop(k) /\ taken' = taken + k
  /\ IF k < MPA_HDR_SIZE - bytesRcvd
     THEN pc' = "failed" /\ UNCHANGED <<ulpduLen, bytesRcvd>>
     ELSE /\ ulpduLen' = Ntohs
          /\ bytesRcvd' = MPA_HDR_SIZE
          /\ pc' = IF ulpduLen' <= 0 THEN "failed" ELSE "payload"
  /\ UNCHANGED <<sent, conn, ask, rcvd, part, received>>

AfterCall == IF ReadTrailers THEN "pad" ELSE "idle"
\* Slip: one recv() is expected to return the whole payload.
OneRecv(k) == IF rcvd + k < ToRead THEN "failed" ELSE AfterCall
AfterRecv(k) == IF rcvd + k < ToRead THEN "payload" ELSE AfterCall

RecvPayload == \E k \in Recv("payload", ToRead - rcvd) :
  /\ pc = "payload"
  /\ wire' = Drop(k) /\ taken' = taken + k
  /\ part' = part \o [i \in 1..k |-> wire[i].at]
  /\ rcvd' = rcvd + k
  /\ bytesRcvd' = IF rcvd + k = ToRead THEN bytesRcvd + ToRead ELSE bytesRcvd
  /\ pc' = AfterRecv(k)
  /\ UNCHANGED <<sent, conn, ask, ulpduLen, received>>

\* Slip: the padding that would fill the last word.
RoundUpPad == (4 - ((ulpduLen + MPA_HDR_SIZE) % 4)) % 4
RecvPad == (ulpduLen + MPA_HDR_SIZE) % 4

RecvPadding ==
  /\ pc = "pad"
  /\ \E k \in IF RecvPad = 0 /\ (wire # <<>> \/ conn # "open") THEN {0} ELSE Recv("pad", RecvPad) :
       /\ wire' = Drop(k) /\ taken' = taken + k
       /\ IF k < RecvPad
          THEN pc' = "failed" /\ UNCHANGED bytesRcvd
          ELSE pc' = "crc" /\ bytesRcvd' = bytesRcvd + k
  /\ UNCHANGED <<sent, conn, ask, ulpduLen, rcvd, part, received>>

RecvCrc == \E k \in Recv("crc", MPA_CRC_SIZE) :
  /\ pc = "crc"
  /\ wire' = Drop(k) /\ taken' = taken + k
  /\ IF k # MPA_CRC_SIZE
     THEN pc' = "failed" /\ UNCHANGED <<bytesRcvd, received>>
     ELSE /\ pc' = "idle" /\ bytesRcvd' = bytesRcvd + k
          /\ received' = Append(received, part)
  /\ UNCHANGED <<sent, conn, ask, ulpduLen, rcvd, part>>

GoesOn(r) == rcvd + r > 0

\* recv() at the end of the stream: 0, or once -1 after a reset.  The loop
\* over the payload stops only when the sum so far is not positive.
RecvEnd ==
  LET r == IF conn = "reset" THEN -1 ELSE 0 IN
  /\ conn # "open" /\ wire = <<>>
  /\ pc \in Part /\ ~(pc = "pad" /\ RecvPad = 0)
  /\ conn' = "closed"
  /\ IF pc = "payload" /\ GoesOn(r)
     THEN rcvd' = rcvd + r /\ UNCHANGED pc
     ELSE pc' = "failed" /\ UNCHANGED rcvd
  /\ UNCHANGED <<sent, wire, ask, ulpduLen, bytesRcvd, taken, part, received>>

Reader == \/ NextPacket \/ Call \/ RecvHdr \/ RecvPayload \/ RecvPadding
          \/ RecvCrc \/ RecvEnd

-----------------------------------------------------------------------------
Init == /\ sent = <<>> /\ wire = <<>> /\ conn = "open"
        /\ pc = "idle" /\ ask = 0 /\ ulpduLen = 0 /\ bytesRcvd = 0 /\ rcvd = 0
        /\ taken = 0 /\ part = <<>> /\ received = <<>>
Next == MpaSend \/ End \/ Reader
Spec == Init /\ [][Next]_vars

\* The receive thread keeps running; nothing makes the peer send.
FairSpec == Spec /\ WF_vars(Reader)

-----------------------------------------------------------------------------
\* The state of both ends has the types the code gives it.
Byte == [v : 0..(Radix - 1), at : (1..MaxFrames) \X (Nat \ {0})]
TypeOK ==
  /\ sent \in Seq(Seq((1..MaxFrames) \X Nat)) /\ received \in Seq(Seq((1..MaxFrames) \X Nat))
  /\ wire \in Seq(Byte) /\ part \in Seq((1..MaxFrames) \X Nat)
  /\ conn \in {"open", "closed", "reset"} /\ pc \in Part \cup {"idle", "failed"}
  /\ ask \in Asks \cup {0}
  /\ ulpduLen \in 0..(Radix * Radix - 1)
  /\ bytesRcvd \in Nat /\ rcvd \in Nat /\ taken \in Nat

\* As long as no call has failed the reader is where the writer put it: the
\* next byte in the socket is the one mpa_recv is about to interpret, whatever
\* sizes the caller asked for and however recv() cut the stream into pieces.
Lockstep ==
  pc # "failed" /\ wire # <<>> =>
    Head(wire).at = <<Len(received) + 1, IF pc = "idle" /\ Whole THEN 1 ELSE taken + 1>>

\* mpa_send and mpa_recv implement the channel of ULPDUs that DDP assumes.
Ulpdus == {Ulpdu(f, l) : f \in 1..MaxFrames, l \in Lens}
Abs == INSTANCE Channel WITH Item <- Ulpdus
ImplementsChannel == Abs!Spec

\* A header, padding or CRC came back short: the call failed before the first
\* or after the last byte of the payload.
TrailerCut == pc = "failed" /\ (taken < MPA_HDR_SIZE \/ Len(part) = ulpduLen)

\* Every ULPDU sent is eventually delivered, unless the connection ends or a
\* header or trailer is cut: reads of the payload that come back short are
\* repeated by mpa_recv until it is complete, and never make it fail.
EventuallyDelivered ==
  \A i \in 1..MaxFrames :
    Len(sent) >= i ~> Len(received) >= i \/ conn # "open" \/ TrailerCut

\* mpa.h on mpa_recv: it returns the number of bytes received, "negative if
\* error".  A call on a connection that has ended must then return.
CallReturns == pc \in Part /\ conn = "closed" ~> pc \in {"idle", "failed"}
=============================================================================
