------------------------------ MODULE MpaProofs ------------------------------
(***************************************************************************)
(* For any lengths of ULPDUs, any sizes asked for and any cuts of the      *)
(* stream, mpa_recv stays in step with mpa_send, and the two implement a   *)
(* channel of ULPDUs.                                                      *)
(*                                                                         *)
(* The bytes in the socket are a contiguous stretch of the frames sent;    *)
(* it begins where the reader is, and while the connection is open it ends *)
(* with the last frame.  What the reader has counted is where it is.       *)
(***************************************************************************)
EXTENDS Mpa, SequenceTheorems, TLAPS

FrameLen(l) == MPA_HDR_SIZE + l + Trailer(l)
LenOf(f) == Len(sent[f])

\* Every ULPDU is what its call of mpa_send was given, and what the receiver
\* has is what was sent.
SentOK == \A f \in 1..Len(sent) : LenOf(f) \in Lens /\ sent[f] = Ulpdu(f, LenOf(f))
ReceivedOK == /\ Len(received) <= Len(sent)
              /\ \A f \in 1..Len(received) : received[f] = sent[f]

\* A byte in the socket is one of a frame sent.
ByteOK(b) ==
  /\ b.at[1] \in 1..Len(sent) /\ b.at[2] \in 1..FrameLen(LenOf(b.at[1]))
  /\ b.at[2] = 1 => b.v = LenOf(b.at[1]) \div Radix
  /\ b.at[2] = 2 => b.v = LenOf(b.at[1]) % Radix

\* The bytes of a frame follow each other, and a frame follows the one before.
RunOK ==
  \A i \in 1..Len(wire), d \in Nat :
    i + d <= Len(wire) /\ wire[i].at[2] + d <= FrameLen(LenOf(wire[i].at[1])) =>
      wire[i + d].at = <<wire[i].at[1], wire[i].at[2] + d>>
NextOK ==
  \A i \in 1..(Len(wire) - 1) :
    wire[i].at[2] = FrameLen(LenOf(wire[i].at[1])) => wire[i + 1].at = <<wire[i].at[1] + 1, 1>>

StreamOK == (\A i \in 1..Len(wire) : ByteOK(wire[i])) /\ RunOK /\ NextOK

\* The reader is between two packets.
Between == taken = 0 \/ (pc = "idle" /\ Whole)

\* While the connection is open everything sent is in the socket or read.
TailOK ==
  conn = "open" =>
    IF wire = <<>> THEN pc # "failed" => Between /\ Len(received) = Len(sent)
    ELSE wire[Len(wire)].at = <<Len(sent), FrameLen(LenOf(Len(sent)))>>

\* The frame being read: the next one, or the one just read.
Cur == Len(received) + (IF pc = "idle" /\ Whole THEN 0 ELSE 1)

\* recv() has returned 0 and will do so for ever.
AtEof == conn # "open" /\ wire = <<>>

ReaderOK ==
  pc # "failed" =>
    /\ pc = "hdr" => bytesRcvd = 0 /\ rcvd = 0 /\ ask \in Asks
    /\ bytesRcvd = 0 => taken = 0 /\ part = <<>> /\ pc \in {"idle", "hdr"}
    /\ bytesRcvd # 0 => /\ bytesRcvd >= MPA_HDR_SIZE /\ Cur \in 1..Len(sent)
                        /\ ulpduLen = LenOf(Cur) /\ part = Ulpdu(Cur, Len(part))
                        /\ taken >= MPA_HDR_SIZE
    /\ pc = "idle" /\ bytesRcvd # 0 =>
         /\ taken = bytesRcvd
         /\ IF Whole THEN taken = FrameLen(ulpduLen) ELSE Len(part) = taken - MPA_HDR_SIZE
    /\ pc = "payload" =>
         /\ bytesRcvd < MPA_HDR_SIZE + ulpduLen /\ ask \in Asks
         /\ ~AtEof => /\ taken = bytesRcvd + rcvd /\ rcvd < ToRead
                      /\ Len(part) = taken - MPA_HDR_SIZE
    /\ pc \in {"pad", "crc"} =>
         /\ taken = bytesRcvd /\ Len(part) = ulpduLen
         /\ bytesRcvd = MPA_HDR_SIZE + ulpduLen + (IF pc = "crc" THEN RecvPad ELSE 0)

Bytes == [v : Nat, at : Nat \X Nat]
Typed ==
  /\ sent \in Seq(Seq(Nat \X Nat)) /\ received \in Seq(Seq(Nat \X Nat))
  /\ wire \in Seq(Bytes) /\ part \in Seq(Nat \X Nat)
  /\ conn \in {"open", "closed", "reset"} /\ pc \in Part \cup {"idle", "failed"}
  /\ ask \in Nat /\ ulpduLen \in Nat /\ bytesRcvd \in Nat /\ rcvd \in Nat /\ taken \in Nat
  /\ Len(sent) <= MaxFrames

InStep ==
  /\ Typed /\ SentOK /\ ReceivedOK
  /\ StreamOK /\ TailOK /\ ReaderOK /\ Lockstep

-----------------------------------------------------------------------------
(* Lengths and frames.                                                     *)

\* The two bytes of the length field give the length back.
LEMMA LengthField ==
  ASSUME NEW l \in Nat
  PROVE  /\ l \div Radix \in Nat /\ l % Radix \in Nat
         /\ Radix * (l \div Radix) + (l % Radix) = l
BY LenAssumption

\* A frame has up to three bytes of padding and four of checksum after its ULPDU.
LEMMA TrailerType ==
  ASSUME NEW l \in Nat
  PROVE  /\ SendPad(l) \in 0..3 /\ Trailer(l) \in 4..7 /\ FrameLen(l) \in Nat
         /\ FrameLen(l) = l + 2 + SendPad(l) + 4
BY DEF SendPad, Trailer, FrameLen, MPA_HDR_SIZE, MPA_CRC_SIZE

\* The bytes mpa_send puts on the wire: a header with the length first.
LEMMA FrameBytes ==
  ASSUME NEW f \in Nat, NEW l \in Nat
  PROVE  /\ Frame(f, l) \in Seq(Bytes) /\ Len(Frame(f, l)) = FrameLen(l)
         /\ \A k \in 1..FrameLen(l) : Frame(f, l)[k].at = <<f, k>>
         /\ Frame(f, l)[1].v = l \div Radix /\ Frame(f, l)[2].v = l % Radix
<1> DEFINE a == <<l \div Radix, l % Radix>>
           b == [i \in 1..(l + Trailer(l)) |-> IF i <= l THEN 1 ELSE 0]
           w == a \o b
<1>1. a \in Seq(Nat) /\ Len(a) = 2 /\ a[1] = l \div Radix /\ a[2] = l % Radix
  BY LengthField
<1>2. l + Trailer(l) \in Nat /\ FrameLen(l) = 2 + (l + Trailer(l))
  <2>1. Trailer(l) \in 4..7
    BY Zenon, TrailerType
  <2>2. Trailer(l) \in Nat
    BY <2>1
  <2> QED
    BY <2>2 DEF FrameLen, MPA_HDR_SIZE
<1>3. b \in Seq(Nat) /\ Len(b) = l + Trailer(l)
  BY <1>2
<1>4. w \in Seq(Nat) /\ Len(w) = FrameLen(l) /\ w[1] = l \div Radix /\ w[2] = l % Radix
  BY <1>1, <1>2, <1>3, ConcatProperties
<1>5. Frame(f, l) = [k \in 1..FrameLen(l) |-> [v |-> w[k], at |-> <<f, k>>]]
  <2>1. DOMAIN w = 1..FrameLen(l)
    BY <1>4, <1>2
  <2>2. Frame(f, l) = [k \in DOMAIN w |-> [v |-> w[k], at |-> <<f, k>>]]
    BY Zenon DEF Frame
  <2> QED
    BY Zenon, <2>1, <2>2
<1> HIDE DEF w
<1>6. FrameLen(l) \in Nat /\ \A k \in 1..FrameLen(l) : w[k] \in Nat
  BY <1>4, <1>2
<1>7. \A k \in 1..FrameLen(l) : [v |-> w[k], at |-> <<f, k>>] \in Bytes
  BY <1>6 DEF Bytes
<1>8. Frame(f, l) \in Seq(Bytes) /\ Len(Frame(f, l)) = FrameLen(l)
  <2>1. Frame(f, l) \in [1..FrameLen(l) -> Bytes]
    BY Zenon, <1>5, <1>7
  <2> QED
    BY <2>1, <1>6
<1>9. 1 \in 1..FrameLen(l) /\ 2 \in 1..FrameLen(l)
  BY <1>2
<1> QED
  BY <1>4, <1>5, <1>8, <1>9

\* A ULPDU of length l has l bytes.
LEMMA UlpduType ==
  ASSUME NEW f \in Nat, NEW l \in Nat
  PROVE  Ulpdu(f, l) \in Seq(Nat \X Nat) /\ Len(Ulpdu(f, l)) = l
BY DEF Ulpdu, MPA_HDR_SIZE

\* What recv() leaves in the socket.
LEMMA DropProperties ==
  ASSUME Typed, NEW k \in 0..Len(wire)
  PROVE  /\ Drop(k) \in Seq(Bytes) /\ Len(Drop(k)) = Len(wire) - k
         /\ \A i \in 1..(Len(wire) - k) : Drop(k)[i] = wire[i + k]
<1>1. Len(wire) \in Nat /\ \A i \in 1..Len(wire) : wire[i] \in Bytes
  BY DEF Typed
<1>2. \A i \in (k + 1)..Len(wire) : wire[i] \in Bytes
  BY <1>1
<1> QED
  BY <1>1, <1>2, SubSeqProperties DEF Drop

\* A ULPDU read in pieces.
LEMMA UlpduGrows ==
  ASSUME NEW f \in Nat, NEW m \in Nat, NEW k \in Nat
  PROVE  Ulpdu(f, m) \o [i \in 1..k |-> <<f, MPA_HDR_SIZE + m + i>>] = Ulpdu(f, m + k)
<1>0. PICK s : s = [i \in 1..k |-> <<f, MPA_HDR_SIZE + m + i>>]
  BY Zenon
<1>1. Ulpdu(f, m) \in Seq(Nat \X Nat) /\ Len(Ulpdu(f, m)) = m
  BY Zenon, UlpduType
<1>2. s \in Seq(Nat \X Nat) /\ Len(s) = k
  <2>1. s \in [1..k -> Nat \X Nat]
    BY <1>0 DEF MPA_HDR_SIZE
  <2> QED
    BY <2>1
<1>3. Ulpdu(f, m + k) \in Seq(Nat \X Nat) /\ Len(Ulpdu(f, m + k)) = m + k
  <2>1. m + k \in Nat
    OBVIOUS
  <2> QED
    BY Zenon, <2>1, UlpduType
<1>4. Ulpdu(f, m) \o s \in Seq(Nat \X Nat) /\ Len(Ulpdu(f, m) \o s) = m + k
  BY Zenon, <1>1, <1>2, ConcatProperties
<1>5. ASSUME NEW i \in 1..(m + k)
      PROVE  (Ulpdu(f, m) \o s)[i] = Ulpdu(f, m + k)[i]
  <2>1. (Ulpdu(f, m) \o s)[i] = IF i <= m THEN Ulpdu(f, m)[i] ELSE s[i - m]
    <3>1. i \in 1..(Len(Ulpdu(f, m)) + Len(s))
      BY Zenon, <1>1, <1>2
    <3>2. (Ulpdu(f, m) \o s)[i] = IF i <= Len(Ulpdu(f, m)) THEN Ulpdu(f, m)[i]
                                                         ELSE s[i - Len(Ulpdu(f, m))]
      BY Zenon, <1>1, <1>2, <3>1, ConcatProperties
    <3> QED
      BY Zenon, <3>2, <1>1
  <2>2. Ulpdu(f, m + k)[i] = <<f, MPA_HDR_SIZE + i>>
    BY Zenon DEF Ulpdu
  <2>3. CASE i <= m
    <3>1. i \in 1..m
      BY <2>3
    <3>2. Ulpdu(f, m)[i] = <<f, MPA_HDR_SIZE + i>>
      BY Zenon, <3>1 DEF Ulpdu
    <3> QED
      BY Zenon, <2>1, <2>2, <2>3, <3>2
  <2>4. CASE ~(i <= m)
    <3>1. i - m \in 1..k /\ MPA_HDR_SIZE + m + (i - m) = MPA_HDR_SIZE + i
      BY <2>4 DEF MPA_HDR_SIZE
    <3> QED
      BY Zenon, <1>0, <2>1, <2>2, <2>4, <3>1
  <2> QED
    BY Zenon, <2>3, <2>4
<1>6. Ulpdu(f, m) \o s = Ulpdu(f, m + k)
  BY Zenon, <1>3, <1>4, <1>5, SeqEqual
<1> QED
  BY Zenon, <1>0, <1>6

-----------------------------------------------------------------------------
(* The bytes in the socket.                                                *)

\* The lengths of the ULPDUs are positive.
LEMMA LensType == \A l \in Lens : l \in Nat /\ l # 0
<1> DEFINE last == Radix * Radix - 1
<1>1. Radix \in Int
  BY LenAssumption
<1>2. last \in Int
  BY <1>1
<1>3. Lens \subseteq 1..last
  BY Zenon, LenAssumption
<1> HIDE DEF last
<1>4. \A l \in 1..last : l \in Nat /\ l # 0
  BY <1>2
<1> QED
  BY Zenon, <1>3, <1>4

\* Every ULPDU sent had one of them.
LEMMA LenType ==
  ASSUME Typed, SentOK, NEW f \in 1..Len(sent)
  PROVE  LenOf(f) \in Nat \ {0} /\ FrameLen(LenOf(f)) \in Nat
<1>1. LenOf(f) \in Nat /\ LenOf(f) # 0
  BY Zenon, LensType DEF SentOK
<1> QED
  BY Zenon, <1>1, TrailerType

\* A byte that is still in the socket is one of the same frame.
LEMMA SameByte ==
  ASSUME sent' = sent, NEW i, NEW j, wire'[i] = wire[j], ByteOK(wire[j])
  PROVE  ByteOK(wire[i])'
BY Zenon DEF ByteOK, LenOf

\* recv() takes bytes from the front.
LEMMA DropStream ==
  ASSUME Typed, StreamOK, sent' = sent, NEW k \in 0..Len(wire), wire' = Drop(k)
  PROVE  StreamOK'
<1>1. /\ Len(wire') = Len(wire) - k /\ Len(wire) \in Nat
      /\ \A i \in 1..(Len(wire) - k) : wire'[i] = wire[i + k]
  <2>1. Len(wire) \in Nat
    BY DEF Typed
  <2> QED
    BY Zenon, <2>1, DropProperties
<1>2. ASSUME NEW i \in 1..Len(wire')
      PROVE  ByteOK(wire[i])'
  <2>1. i + k \in 1..Len(wire) /\ wire'[i] = wire[i + k]
    BY <1>1
  <2> QED
    BY Zenon, <2>1, SameByte DEF StreamOK
<1>3. RunOK'
  <2> SUFFICES ASSUME NEW i \in 1..Len(wire'), NEW d \in Nat, i + d <= Len(wire'),
                      wire'[i].at[2] + d <= FrameLen(Len(sent[wire'[i].at[1]]))
               PROVE  wire'[i + d].at = <<wire'[i].at[1], wire'[i].at[2] + d>>
    BY Zenon DEF RunOK, LenOf
  <2>1. /\ i + k \in 1..Len(wire) /\ (i + k) + d <= Len(wire)
        /\ wire'[i] = wire[i + k] /\ wire'[i + d] = wire[(i + k) + d]
    <3>1. /\ i + k \in 1..Len(wire) /\ (i + k) + d <= Len(wire) /\ (i + d) + k = (i + k) + d
          /\ i \in 1..(Len(wire) - k) /\ i + d \in 1..(Len(wire) - k)
      BY <1>1
    <3> QED
      BY Zenon, <3>1, <1>1
  <2> QED
    BY Zenon, <2>1 DEF StreamOK, RunOK, LenOf
<1>4. NextOK'
  <2> SUFFICES ASSUME NEW i \in 1..(Len(wire') - 1),
                      wire'[i].at[2] = FrameLen(Len(sent[wire'[i].at[1]]))
               PROVE  wire'[i + 1].at = <<wire'[i].at[1] + 1, 1>>
    BY Zenon DEF NextOK, LenOf
  <2>1. /\ i + k \in 1..(Len(wire) - 1)
        /\ wire'[i] = wire[i + k] /\ wire'[i + 1] = wire[(i + k) + 1]
    BY <1>1
  <2> QED
    BY Zenon, <2>1 DEF StreamOK, NextOK, LenOf
<1> QED
  BY Zenon, <1>2, <1>3, <1>4 DEF StreamOK

\* The connection ends and cuts the stream.
LEMMA CutStream ==
  ASSUME Typed, StreamOK, sent' = sent, NEW k \in 0..Len(wire), wire' = SubSeq(wire, 1, k)
  PROVE  /\ wire' \in Seq(Bytes) /\ Len(wire') = k /\ (k # 0 => wire'[1] = wire[1])
         /\ StreamOK'
<1>1. Len(wire) \in Nat /\ \A i \in 1..k : wire[i] \in Bytes
  BY DEF Typed
<1>2. wire' \in Seq(Bytes) /\ Len(wire') = k /\ \A i \in 1..k : wire'[i] = wire[i]
  BY <1>1, SubSeqProperties
<1>3. ASSUME NEW i \in 1..Len(wire')
      PROVE  ByteOK(wire[i])'
  <2>1. i \in 1..Len(wire) /\ wire'[i] = wire[i]
    BY <1>1, <1>2
  <2> QED
    BY Zenon, <2>1, SameByte DEF StreamOK
<1>4. RunOK'
  <2> SUFFICES ASSUME NEW i \in 1..Len(wire'), NEW d \in Nat, i + d <= Len(wire'),
                      wire'[i].at[2] + d <= FrameLen(Len(sent[wire'[i].at[1]]))
               PROVE  wire'[i + d].at = <<wire'[i].at[1], wire'[i].at[2] + d>>
    BY Zenon DEF RunOK, LenOf
  <2>1. /\ i \in 1..Len(wire) /\ i + d <= Len(wire)
        /\ wire'[i] = wire[i] /\ wire'[i + d] = wire[i + d]
    BY <1>1, <1>2
  <2> QED
    BY Zenon, <2>1 DEF StreamOK, RunOK, LenOf
<1>5. NextOK'
  <2> SUFFICES ASSUME NEW i \in 1..(Len(wire') - 1),
                      wire'[i].at[2] = FrameLen(Len(sent[wire'[i].at[1]]))
               PROVE  wire'[i + 1].at = <<wire'[i].at[1] + 1, 1>>
    BY Zenon DEF NextOK, LenOf
  <2>1. i \in 1..(Len(wire) - 1) /\ wire'[i] = wire[i] /\ wire'[i + 1] = wire[i + 1]
    BY <1>1, <1>2
  <2> QED
    BY Zenon, <2>1 DEF StreamOK, NextOK, LenOf
<1>6. k # 0 => wire'[1] = wire[1]
  BY <1>2
<1> QED
  BY Zenon, <1>2, <1>3, <1>4, <1>5, <1>6 DEF StreamOK

\* The bytes that recv() returns, and the one after them.
LEMMA Stretch ==
  ASSUME Typed, SentOK, StreamOK, NEW c \in Nat, NEW p \in Nat, NEW k \in 1..Len(wire),
         wire[1].at = <<c, p + 1>>
  PROVE  /\ c \in 1..Len(sent) /\ FrameLen(LenOf(c)) \in Nat /\ p + 1 <= FrameLen(LenOf(c))
         /\ p + k <= FrameLen(LenOf(c)) => \A i \in 1..k : wire[i].at = <<c, p + i>>
         /\ p + k < FrameLen(LenOf(c)) /\ k < Len(wire) => wire[k + 1].at = <<c, p + k + 1>>
         /\ p + k = FrameLen(LenOf(c)) /\ k < Len(wire) => wire[k + 1].at = <<c + 1, 1>>
<1>1. Len(wire) \in Nat \ {0} /\ 1 \in 1..Len(wire)
  BY DEF Typed
<1>2. ByteOK(wire[1]) /\ wire[1].at[1] = c /\ wire[1].at[2] = p + 1
  <2>1. <<c, p + 1>>[1] = c /\ <<c, p + 1>>[2] = p + 1
    BY Zenon
  <2> QED
    BY Zenon, <2>1, <1>1 DEF StreamOK
<1>3. c \in 1..Len(sent) /\ p + 1 \in 1..FrameLen(LenOf(c))
  BY Zenon, <1>2 DEF ByteOK
<1>4. FrameLen(LenOf(c)) \in Nat
  BY Zenon, <1>3, LenType
<1>5. p + 1 <= FrameLen(LenOf(c))
  BY <1>3, <1>4
<1>6. ASSUME NEW i \in 1..Len(wire), p + i <= FrameLen(LenOf(c))
      PROVE  wire[i].at = <<c, p + i>>
  <2>1. i - 1 \in Nat /\ 1 + (i - 1) = i /\ p + 1 + (i - 1) = p + i /\ i <= Len(wire)
    BY <1>1
  <2>2. 1 + (i - 1) <= Len(wire) /\ wire[1].at[2] + (i - 1) <= FrameLen(LenOf(wire[1].at[1]))
    BY Zenon, <2>1, <1>2, <1>6
  <2>3. wire[1 + (i - 1)].at = <<wire[1].at[1], wire[1].at[2] + (i - 1)>>
    BY Zenon, <2>1, <2>2, <1>1 DEF StreamOK, RunOK
  <2> QED
    BY Zenon, <2>1, <2>3, <1>2
<1>7. p + k <= FrameLen(LenOf(c)) => \A i \in 1..k : wire[i].at = <<c, p + i>>
  <2> SUFFICES ASSUME p + k <= FrameLen(LenOf(c)), NEW i \in 1..k
               PROVE  wire[i].at = <<c, p + i>>
    BY Zenon
  <2>1. i \in 1..Len(wire) /\ p + i <= FrameLen(LenOf(c))
    BY <1>1, <1>4
  <2> QED
    BY Zenon, <2>1, <1>6
<1>8. p + k < FrameLen(LenOf(c)) /\ k < Len(wire) => wire[k + 1].at = <<c, p + k + 1>>
  <2> SUFFICES ASSUME p + k < FrameLen(LenOf(c)), k < Len(wire)
               PROVE  wire[k + 1].at = <<c, p + k + 1>>
    BY Zenon
  <2>1. k + 1 \in 1..Len(wire) /\ p + (k + 1) <= FrameLen(LenOf(c)) /\ p + (k + 1) = p + k + 1
    BY <1>1, <1>4
  <2> QED
    BY Zenon, <2>1, <1>6
<1>9. p + k = FrameLen(LenOf(c)) /\ k < Len(wire) => wire[k + 1].at = <<c + 1, 1>>
  <2> SUFFICES ASSUME p + k = FrameLen(LenOf(c)), k < Len(wire)
               PROVE  wire[k + 1].at = <<c + 1, 1>>
    BY Zenon
  <2>1. k \in 1..(Len(wire) - 1) /\ p + k <= FrameLen(LenOf(c)) /\ k \in 1..k
    BY <1>1, <1>4
  <2>2. wire[k].at[1] = c /\ wire[k].at[2] = FrameLen(LenOf(c))
    <3>1. wire[k].at = <<c, p + k>> /\ <<c, p + k>>[1] = c /\ <<c, p + k>>[2] = p + k
      BY Zenon, <2>1, <1>7
    <3> QED
      BY Zenon, <3>1
  <2> QED
    BY Zenon, <2>1, <2>2 DEF StreamOK, NextOK
<1> QED
  BY Zenon, <1>3, <1>4, <1>5, <1>7, <1>8, <1>9

\* A recv returns at least one byte, and no more than asked for or than there are.
LEMMA RecvBounds ==
  ASSUME Typed, NEW p, NEW n \in Int, NEW k \in Recv(p, n)
  PROVE  k \in 1..Len(wire) /\ k <= n /\ wire # <<>> /\ Len(wire) \in Nat
<1>1. Len(wire) \in Nat
  BY DEF Typed
<1>2. k \in 1..Len(wire) /\ k <= n
  BY <1>1 DEF Recv, Min2
<1> QED
  BY <1>1, <1>2

\* recv() returns bytes of the frame being read, and leaves the rest.
LEMMA Take ==
  ASSUME InStep, pc # "failed", ~(pc = "idle" /\ Whole), NEW k \in 1..Len(wire),
         wire' = Drop(k), taken' = taken + k, sent' = sent,
         NEW c, c = Len(received) + 1, taken + k <= FrameLen(LenOf(c))
  PROVE  /\ c \in 1..Len(sent) /\ LenOf(c) \in Nat \ {0} /\ FrameLen(LenOf(c)) \in Nat
         /\ wire' \in Seq(Bytes) /\ StreamOK'
         /\ \A i \in 1..k : wire[i].at = <<c, taken + i>>
         /\ taken' < FrameLen(LenOf(c)) => wire' = <<>> \/ wire'[1].at = <<c, taken' + 1>>
         /\ taken' = FrameLen(LenOf(c)) => wire' = <<>> \/ wire'[1].at = <<c + 1, 1>>
         /\ conn = "open" =>
              IF wire' = <<>> THEN c = Len(sent) /\ taken' = FrameLen(LenOf(c))
              ELSE wire'[Len(wire')].at = <<Len(sent), FrameLen(LenOf(Len(sent)))>>
<1>1. Typed /\ SentOK /\ StreamOK /\ TailOK /\ Lockstep
  BY Zenon DEF InStep
<1>2. /\ Len(wire) \in Nat /\ wire # <<>> /\ taken \in Nat /\ c \in Nat /\ k \in 0..Len(wire)
      /\ Head(wire) = wire[1]
  <2>1. Len(wire) \in Nat /\ Len(received) \in Nat /\ taken \in Nat
    BY <1>1 DEF Typed
  <2>2. wire # <<>>
    BY <2>1
  <2> QED
    BY <2>1, <2>2
<1>3. wire[1].at = <<c, taken + 1>>
  BY Zenon, <1>1, <1>2 DEF Lockstep
<1>4. /\ c \in 1..Len(sent) /\ FrameLen(LenOf(c)) \in Nat
      /\ \A i \in 1..k : wire[i].at = <<c, taken + i>>
      /\ taken + k < FrameLen(LenOf(c)) /\ k < Len(wire) => wire[k + 1].at = <<c, taken + k + 1>>
      /\ taken + k = FrameLen(LenOf(c)) /\ k < Len(wire) => wire[k + 1].at = <<c + 1, 1>>
  <2>1. ASSUME NEW d \in Nat, wire[1].at = <<d, taken + 1>>
        PROVE  /\ d \in 1..Len(sent) /\ FrameLen(LenOf(d)) \in Nat /\ taken + 1 <= FrameLen(LenOf(d))
               /\ taken + k <= FrameLen(LenOf(d)) => \A i \in 1..k : wire[i].at = <<d, taken + i>>
               /\ taken + k < FrameLen(LenOf(d)) /\ k < Len(wire) => wire[k + 1].at = <<d, taken + k + 1>>
               /\ taken + k = FrameLen(LenOf(d)) /\ k < Len(wire) => wire[k + 1].at = <<d + 1, 1>>
    BY ZenonT(30), <1>1, <1>2, <2>1, Stretch
  <2> QED
    BY Zenon, <1>2, <1>3, <2>1
<1>5. LenOf(c) \in Nat \ {0}
  BY Zenon, <1>1, <1>4, LenType
<1>6. /\ wire' \in Seq(Bytes) /\ Len(wire') = Len(wire) - k
      /\ \A i \in 1..(Len(wire) - k) : wire'[i] = wire[i + k]
  BY Zenon, <1>1, <1>2, DropProperties
<1>7. StreamOK'
  BY Zenon, <1>1, <1>2, DropStream
<1>8. CASE k = Len(wire)
  <2>1. wire' = <<>>
    BY <1>2, <1>6, <1>8
  <2>2. ASSUME conn = "open"
        PROVE  c = Len(sent) /\ taken' = FrameLen(LenOf(c))
    <3>1. wire[k].at = <<c, taken + k>>
      <4>1. k \in 1..k
        BY <1>2
      <4> QED
        BY Zenon, <4>1, <1>4
    <3>2. wire[k].at = <<Len(sent), FrameLen(LenOf(Len(sent)))>>
      BY Zenon, <1>1, <1>2, <1>8, <2>2 DEF TailOK
    <3>3. c = Len(sent) /\ taken + k = FrameLen(LenOf(Len(sent)))
      <4>1. <<c, taken + k>> = <<Len(sent), FrameLen(LenOf(Len(sent)))>>
        BY Zenon, <3>1, <3>2
      <4> QED
        BY Zenon, <4>1
    <3> QED
      BY Zenon, <3>3
  <2> QED
    BY Zenon, <1>4, <1>5, <1>6, <1>7, <2>1, <2>2
<1>9. CASE k # Len(wire)
  <2>1. /\ k < Len(wire) /\ wire' # <<>> /\ wire'[1] = wire[k + 1]
        /\ wire'[Len(wire')] = wire[Len(wire)]
    <3>1. Len(wire') # 0 /\ 1 \in 1..(Len(wire) - k) /\ Len(wire) - k \in 1..(Len(wire) - k)
          /\ k < Len(wire) /\ 1 + k = k + 1 /\ (Len(wire) - k) + k = Len(wire)
      BY <1>2, <1>6, <1>9
    <3>2. wire' # <<>>
      BY Zenon, <3>1
    <3> QED
      BY Zenon, <1>6, <3>1, <3>2
  <2>2. conn = "open" => wire'[Len(wire')].at = <<Len(sent), FrameLen(LenOf(Len(sent)))>>
    BY Zenon, <1>1, <1>2, <2>1 DEF TailOK
  <2> QED
    BY Zenon, <1>4, <1>5, <1>6, <1>7, <2>1, <2>2
<1> QED
  BY Zenon, <1>8, <1>9

-----------------------------------------------------------------------------
(* Steps of the reader.                                                    *)

\* What holds of the ULPDUs sent does until there is another ...
LEMMA SentKept == ASSUME SentOK, sent' = sent PROVE SentOK' /\ \A f : LenOf(f)' = LenOf(f)
BY Zenon DEF SentOK, LenOf

\* ... and of the ones received ...
LEMMA ReceivedKept == ASSUME ReceivedOK, sent' = sent, received' = received PROVE ReceivedOK'
BY Zenon DEF ReceivedOK

\* ... and of the bytes on the wire.
LEMMA StreamKept == ASSUME StreamOK, sent' = sent, wire' = wire PROVE StreamOK'
BY Zenon DEF StreamOK, ByteOK, RunOK, NextOK, LenOf

\* The caller comes back for the next packet.
LEMMA NextPacketStep ==
  ASSUME InStep, NextPacket
  PROVE  InStep'
<1> USE DEF NextPacket
<1>1. /\ Typed /\ SentOK /\ ReceivedOK /\ StreamOK /\ TailOK /\ ReaderOK /\ Lockstep
      /\ sent' = sent /\ wire' = wire /\ received' = received /\ conn' = conn
      /\ pc = "idle" /\ pc' = "idle" /\ Whole /\ bytesRcvd' = 0 /\ taken' = 0 /\ part' = <<>>
  BY Zenon DEF InStep
<1>2. ~Whole'
  BY <1>1 DEF Whole, MPA_HDR_SIZE
<1>3. Typed'
  BY <1>1 DEF Typed
<1>4. TailOK'
  BY Zenon, <1>1 DEF TailOK, Between, LenOf
<1>5. ReaderOK'
  BY Zenon, <1>1 DEF ReaderOK
<1>6. Lockstep'
  BY <1>1, <1>2 DEF Lockstep
<1> QED
  BY Zenon, <1>1, <1>3, <1>4, <1>5, <1>6, SentKept, ReceivedKept, StreamKept DEF InStep

\* The caller asks for the payload.
LEMMA CallStep ==
  ASSUME InStep, Call
  PROVE  InStep'
<1>1. /\ Typed /\ SentOK /\ ReceivedOK /\ StreamOK /\ TailOK /\ ReaderOK /\ Lockstep
      /\ sent' = sent /\ wire' = wire /\ received' = received /\ conn' = conn
      /\ pc = "idle" /\ ~Whole /\ ask' \in Asks /\ rcvd' = 0 /\ taken' = taken /\ part' = part
      /\ ulpduLen' = ulpduLen /\ bytesRcvd' = bytesRcvd
      /\ pc' = IF bytesRcvd < MPA_HDR_SIZE THEN "hdr" ELSE "payload"
  BY Zenon DEF InStep, Call
<1>2. pc' # "idle" /\ pc' # "failed"
  BY Zenon, <1>1
<1>3. Typed'
  BY Zenon, <1>1, AskAssumption DEF Typed, Part
<1>4. TailOK'
  BY Zenon, <1>1, <1>2 DEF TailOK, Between, LenOf
<1>5. Lockstep'
  BY Zenon, <1>1, <1>2 DEF Lockstep
<1>6. ReaderOK'
  <2>1. Cur' = Cur
    BY Zenon, <1>1, <1>2 DEF Cur
  <2>2. CASE bytesRcvd = 0
    BY <1>1, <2>2 DEF ReaderOK, MPA_HDR_SIZE
  <2>3. CASE bytesRcvd # 0
    <3>1. /\ bytesRcvd >= MPA_HDR_SIZE /\ Cur \in 1..Len(sent) /\ ulpduLen = LenOf(Cur)
          /\ part = Ulpdu(Cur, Len(part)) /\ taken >= MPA_HDR_SIZE
          /\ taken = bytesRcvd /\ Len(part) = taken - MPA_HDR_SIZE
      BY Zenon, <1>1, <2>3 DEF ReaderOK
    <3>2. pc' = "payload" /\ ulpduLen \in Nat /\ bytesRcvd \in Nat /\ ask' \in Nat \ {0}
      BY <1>1, <3>1, AskAssumption DEF Typed, MPA_HDR_SIZE
    <3>3. bytesRcvd < MPA_HDR_SIZE + ulpduLen
      BY <1>1, <3>1, <3>2 DEF Whole, UlpduRem, MPA_HDR_SIZE
    <3>4. taken = bytesRcvd + 0 /\ 0 < ToRead'
      BY <1>1, <3>1, <3>2, <3>3 DEF ToRead, ReadTrailers, UlpduRem, MPA_HDR_SIZE
    <3>5. (Cur \in 1..Len(sent) /\ ulpduLen = LenOf(Cur) /\ part = Ulpdu(Cur, Len(part)))'
      BY Zenon, <3>1, <1>1, <2>1 DEF LenOf
    <3> QED
      BY Zenon, <1>1, <2>3, <3>1, <3>2, <3>3, <3>4, <3>5 DEF ReaderOK
  <2> QED
    BY Zenon, <2>2, <2>3
<1> QED
  BY Zenon, <1>1, <1>3, <1>4, <1>5, <1>6, SentKept, ReceivedKept, StreamKept DEF InStep

\* The frame being read while there are bytes of it in the socket.
LEMMA AtFrame ==
  ASSUME InStep, pc # "failed", ~(pc = "idle" /\ Whole), wire # <<>>, NEW c, c = Len(received) + 1
  PROVE  /\ c \in 1..Len(sent) /\ c \in Nat /\ LenOf(c) \in Nat \ {0} /\ SendPad(LenOf(c)) \in 0..3
         /\ FrameLen(LenOf(c)) = LenOf(c) + 2 + SendPad(LenOf(c)) + 4
         /\ wire[1].at = <<c, taken + 1>>
<1>1. Typed /\ SentOK /\ StreamOK /\ Lockstep
  BY Zenon DEF InStep
<1>2. Len(wire) \in Nat /\ taken \in Nat /\ Len(received) \in Nat
  BY <1>1 DEF Typed
<1>3. c \in Nat /\ 1 \in 1..Len(wire) /\ Head(wire) = wire[1]
  BY <1>1, <1>2 DEF Typed
<1>4. wire[1].at = <<c, taken + 1>>
  BY Zenon, <1>1, <1>3 DEF Lockstep
<1>5. c \in 1..Len(sent)
  <2>1. ASSUME NEW d \in Nat, wire[1].at = <<d, taken + 1>>
        PROVE  d \in 1..Len(sent)
    BY Zenon, <1>1, <1>2, <1>3, <2>1, Stretch
  <2> QED
    BY Zenon, <1>3, <1>4, <2>1
<1>6. LenOf(c) \in Nat \ {0}
  BY Zenon, <1>1, <1>5, LenType
<1>7. LenOf(c) \in Nat
  BY Zenon, <1>6
<1> QED
  BY Zenon, <1>3, <1>4, <1>5, <1>6, <1>7, TrailerType

\* recv() has not come to the end of the frame.
LEMMA ReadOn ==
  ASSUME InStep, pc # "failed", ~(pc = "idle" /\ Whole), NEW k \in 1..Len(wire),
         wire' = Drop(k), taken' = taken + k, sent' = sent, conn' = conn, received' = received,
         NEW c, c = Len(received) + 1, taken + k < FrameLen(LenOf(c)),
         pc' # "idle" \/ ~Whole'
  PROVE  /\ wire' \in Seq(Bytes) /\ \A i \in 1..k : wire[i].at = <<c, taken + i>>
         /\ SentOK' /\ ReceivedOK' /\ StreamOK' /\ TailOK' /\ Lockstep'
<1>1. Typed /\ SentOK /\ ReceivedOK
  BY Zenon DEF InStep
<1>2. wire # <<>> /\ taken + k \in Nat
  BY <1>1 DEF Typed
<1>3. FrameLen(LenOf(c)) \in Nat
  <2>1. c \in 1..Len(sent)
    BY Zenon, <1>2, AtFrame
  <2> QED
    BY Zenon, <2>1, <1>1, LenType
<1>4. taken + k <= FrameLen(LenOf(c)) /\ taken' # FrameLen(LenOf(c))
  BY <1>2, <1>3
<1>5. /\ wire' \in Seq(Bytes) /\ StreamOK' /\ \A i \in 1..k : wire[i].at = <<c, taken + i>>
      /\ wire' = <<>> \/ wire'[1].at = <<c, taken' + 1>>
      /\ conn = "open" => wire' # <<>> /\ wire'[Len(wire')].at = <<Len(sent), FrameLen(LenOf(Len(sent)))>>
  BY Zenon, <1>4, Take
<1>6. SentOK' /\ ReceivedOK' /\ \A f : LenOf(f)' = LenOf(f)
  BY Zenon, <1>1, SentKept, ReceivedKept
<1>7. TailOK'
  BY Zenon, <1>5, <1>6 DEF TailOK
<1>8. Lockstep'
  <2>1. wire' # <<>> => Head(wire') = wire'[1]
    BY <1>5
  <2> QED
    BY Zenon, <1>5, <2>1 DEF Lockstep
<1> QED
  BY Zenon, <1>5, <1>6, <1>7, <1>8

\* The two bytes of the header are the length of the frame.
LEMMA LengthRead ==
  ASSUME StreamOK, NEW c \in Nat, NEW k, k = 2, k \in 1..Len(wire), LenOf(c) \in Nat,
         \A i \in 1..k : wire[i].at = <<c, i>>
  PROVE  Ntohs = LenOf(c)
<1>1. 1 \in 1..Len(wire) /\ 2 \in 1..Len(wire) /\ 1 \in 1..k /\ 2 \in 1..k
  OBVIOUS
<1>2. wire[1].at[1] = c /\ wire[1].at[2] = 1 /\ wire[2].at[1] = c /\ wire[2].at[2] = 2
  <2>1. wire[1].at = <<c, 1>> /\ wire[2].at = <<c, 2>>
    BY Zenon, <1>1
  <2>2. <<c, 1>>[1] = c /\ <<c, 1>>[2] = 1 /\ <<c, 2>>[1] = c /\ <<c, 2>>[2] = 2
    BY Zenon
  <2> QED
    BY Zenon, <2>1, <2>2
<1>3. wire[1].v = LenOf(c) \div Radix /\ wire[2].v = LenOf(c) % Radix
  BY Zenon, <1>1, <1>2 DEF StreamOK, ByteOK
<1> QED
  BY Zenon, <1>3, LengthField DEF Ntohs

\* A recv of header bytes: with the second the length is known, and it is the right one.
LEMMA RecvHdrStep ==
  ASSUME InStep, RecvHdr
  PROVE  InStep'
<1>1. PICK k \in Recv("hdr", MPA_HDR_SIZE - bytesRcvd) : RecvHdr!(k)
  BY Zenon DEF RecvHdr
<1>2. PICK c : c = Len(received) + 1
  BY Zenon
<1>3. /\ Typed /\ ReaderOK /\ StreamOK /\ pc = "hdr" /\ pc' # "idle"
      /\ sent' = sent /\ conn' = conn /\ received' = received
      /\ wire' = Drop(k) /\ taken' = taken + k
      /\ ask' = ask /\ rcvd' = rcvd /\ part' = part
  BY Zenon, <1>1 DEF InStep
<1>4. /\ bytesRcvd = 0 /\ rcvd = 0 /\ ask \in Asks /\ taken = 0 /\ part = <<>>
      /\ k \in 1..Len(wire) /\ k <= 2 /\ wire # <<>> /\ Len(wire) \in Nat
  <2>1. bytesRcvd = 0 /\ rcvd = 0 /\ ask \in Asks /\ taken = 0 /\ part = <<>>
    BY Zenon, <1>3 DEF ReaderOK
  <2>2. MPA_HDR_SIZE - bytesRcvd = 2 /\ MPA_HDR_SIZE - bytesRcvd \in Int
    BY <2>1 DEF MPA_HDR_SIZE
  <2> QED
    BY Zenon, <2>1, <2>2, <1>3, RecvBounds
<1>5. /\ c \in 1..Len(sent) /\ c \in Nat /\ LenOf(c) \in Nat \ {0} /\ SendPad(LenOf(c)) \in 0..3
      /\ FrameLen(LenOf(c)) = LenOf(c) + 2 + SendPad(LenOf(c)) + 4
  BY Zenon, <1>2, <1>3, <1>4, AtFrame
<1>6. taken + k = k /\ k < FrameLen(LenOf(c))
  BY <1>4, <1>5
<1>7. /\ wire' \in Seq(Bytes) /\ \A i \in 1..k : wire[i].at = <<c, taken + i>>
      /\ SentOK' /\ ReceivedOK' /\ StreamOK' /\ TailOK' /\ Lockstep'
  BY Zenon, <1>2, <1>3, <1>4, <1>6, ReadOn
<1>8. CASE k < MPA_HDR_SIZE - bytesRcvd
  <2>1. pc' = "failed" /\ ulpduLen' = ulpduLen /\ bytesRcvd' = bytesRcvd
    BY Zenon, <1>1, <1>8
  <2>2. Typed'
    BY <1>3, <1>4, <1>7, <2>1 DEF Typed
  <2> QED
    BY Zenon, <1>7, <2>1, <2>2 DEF InStep, ReaderOK
<1>9. CASE ~(k < MPA_HDR_SIZE - bytesRcvd)
  <2>1. k = 2
    BY <1>4, <1>9 DEF MPA_HDR_SIZE
  <2>2. \A i \in 1..k : wire[i].at = <<c, i>>
    <3>1. \A i \in 1..k : taken + i = i
      BY <1>4
    <3> QED
      BY Zenon, <3>1, <1>7
  <2>3. ulpduLen' = LenOf(c) /\ bytesRcvd' = MPA_HDR_SIZE
    <3>1. LenOf(c) \in Nat
      BY Zenon, <1>5
    <3> QED
      BY Zenon, <1>1, <1>3, <1>4, <1>5, <1>9, <2>1, <2>2, <3>1, LengthRead
  <2>4. pc' = "payload"
    <3>1. ~(LenOf(c) <= 0)
      BY <1>5
    <3> QED
      BY Zenon, <3>1, <1>1, <1>9, <2>3
  <2>5. Typed'
    <3>1. taken' \in Nat /\ ulpduLen' \in Nat /\ bytesRcvd' \in Nat /\ pc' \in Part
      BY <1>3, <1>4, <1>5, <2>1, <2>3, <2>4 DEF MPA_HDR_SIZE, Part
    <3> QED
      BY Zenon, <3>1, <1>3, <1>7 DEF Typed
  <2>6. Cur' = c
    BY Zenon, <1>2, <1>3, <2>4 DEF Cur
  <2>7. part' = Ulpdu(c, Len(part')) /\ Len(part') = 0
    BY <1>3, <1>4 DEF Ulpdu
  <2>8. /\ taken' = 2 /\ rcvd' = 0 /\ taken' = bytesRcvd' + rcvd' /\ bytesRcvd' = 2
        /\ bytesRcvd' < MPA_HDR_SIZE + ulpduLen' /\ rcvd' < ToRead'
    BY <1>3, <1>4, <1>5, <2>1, <2>3, AskAssumption DEF ToRead, ReadTrailers, UlpduRem, MPA_HDR_SIZE
  <2>9. (Cur \in 1..Len(sent) /\ ulpduLen = LenOf(Cur) /\ part = Ulpdu(Cur, Len(part)))'
    BY Zenon, <2>3, <2>6, <2>7, <1>3, <1>5 DEF LenOf
  <2>10. bytesRcvd' # 0 /\ bytesRcvd' >= MPA_HDR_SIZE /\ taken' >= MPA_HDR_SIZE
         /\ Len(part') = taken' - MPA_HDR_SIZE
    BY <2>7, <2>8 DEF MPA_HDR_SIZE
  <2>11. ReaderOK'
    BY Zenon, <1>3, <1>4, <2>4, <2>8, <2>9, <2>10 DEF ReaderOK
  <2> QED
    BY Zenon, <1>7, <2>5, <2>11 DEF InStep
<1> QED
  BY Zenon, <1>8, <1>9

\* The payload is what its positions in the frame are.
LEMMA PartGrows ==
  ASSUME NEW c \in Nat, NEW p \in Nat, NEW k \in Nat, part \in Seq(Nat \X Nat),
         part = Ulpdu(c, Len(part)), Len(part) = p - MPA_HDR_SIZE,
         \A i \in 1..k : wire[i].at = <<c, p + i>>
  PROVE  /\ part \o [i \in 1..k |-> wire[i].at] = Ulpdu(c, p + k - MPA_HDR_SIZE)
         /\ Ulpdu(c, p + k - MPA_HDR_SIZE) \in Seq(Nat \X Nat)
         /\ Len(Ulpdu(c, p + k - MPA_HDR_SIZE)) = p + k - MPA_HDR_SIZE
<1>1. Len(part) \in Nat
  OBVIOUS
<1>2. PICK m \in Nat : m = Len(part)
  BY Zenon, <1>1
<1>3. /\ \A i \in 1..k : p + i = MPA_HDR_SIZE + m + i
      /\ m + k \in Nat /\ m + k = p + k - MPA_HDR_SIZE
  BY <1>2 DEF MPA_HDR_SIZE
<1>4. [i \in 1..k |-> wire[i].at] = [i \in 1..k |-> <<c, MPA_HDR_SIZE + m + i>>]
  BY Zenon, <1>3
<1>5. Ulpdu(c, m) \o [i \in 1..k |-> wire[i].at] = Ulpdu(c, m + k)
  <2>1. Ulpdu(c, m) \o [i \in 1..k |-> <<c, MPA_HDR_SIZE + m + i>>] = Ulpdu(c, m + k)
    BY Zenon, UlpduGrows
  <2> QED
    BY Zenon, <1>4, <2>1
<1>6. Len(Ulpdu(c, m + k)) = m + k /\ Ulpdu(c, m + k) \in Seq(Nat \X Nat)
  BY Zenon, <1>3, UlpduType
<1>7. part = Ulpdu(c, m)
  BY Zenon, <1>2
<1> QED
  BY Zenon, <1>3, <1>5, <1>6, <1>7

\* A recv of payload bytes: they are the next ones of the same ULPDU.
LEMMA RecvPayloadStep ==
  ASSUME InStep, RecvPayload
  PROVE  InStep'
<1>1. PICK k \in Recv("payload", ToRead - rcvd) : RecvPayload!(k)
  BY Zenon DEF RecvPayload
<1>2. PICK c : c = Len(received) + 1
  BY Zenon
<1>3. /\ Typed /\ ReaderOK /\ pc = "payload" /\ pc' = AfterRecv(k)
      /\ sent' = sent /\ conn' = conn /\ received' = received
      /\ wire' = Drop(k) /\ taken' = taken + k /\ rcvd' = rcvd + k
      /\ ask' = ask /\ ulpduLen' = ulpduLen
      /\ part' = part \o [i \in 1..k |-> wire[i].at]
      /\ bytesRcvd' = IF rcvd + k = ToRead THEN bytesRcvd + ToRead ELSE bytesRcvd
  BY Zenon, <1>1 DEF InStep
<1>4. /\ bytesRcvd \in Nat /\ bytesRcvd # 0 /\ bytesRcvd >= 2 /\ rcvd \in Nat /\ taken \in Nat
      /\ ulpduLen \in Nat /\ ask \in Nat /\ ask \in Nat \ {0} /\ bytesRcvd < 2 + ulpduLen
      /\ ask \in Asks
  <2>1. bytesRcvd # 0 /\ bytesRcvd < MPA_HDR_SIZE + ulpduLen /\ ask \in Asks
    BY Zenon, <1>3 DEF ReaderOK
  <2>2. bytesRcvd >= MPA_HDR_SIZE
    BY Zenon, <1>3, <2>1 DEF ReaderOK
  <2> QED
    BY Zenon, <2>1, <2>2, <1>3, AskAssumption DEF Typed, MPA_HDR_SIZE
<1>5. /\ UlpduRem = ulpduLen - (bytesRcvd - 2) /\ UlpduRem \in Nat \ {0}
      /\ ToRead \in Nat \ {0} /\ ToRead <= UlpduRem /\ (~ReadTrailers => ToRead < UlpduRem)
      /\ (ReadTrailers => ToRead = UlpduRem)
  BY <1>4 DEF UlpduRem, ToRead, ReadTrailers, MPA_HDR_SIZE
<1>6. k \in 1..Len(wire) /\ k <= ToRead - rcvd /\ wire # <<>> /\ Len(wire) \in Nat
  <2>1. ToRead - rcvd \in Int
    BY <1>4, <1>5
  <2> QED
    BY Zenon, <2>1, <1>3, RecvBounds
<1>7. /\ Cur = c /\ ulpduLen = LenOf(c) /\ part = Ulpdu(c, Len(part))
      /\ taken = bytesRcvd + rcvd /\ Len(part) = taken - MPA_HDR_SIZE
  <2>1. Cur = c
    BY Zenon, <1>2, <1>3 DEF Cur
  <2> QED
    BY Zenon, <2>1, <1>3, <1>4, <1>6 DEF ReaderOK, AtEof
<1>8. /\ c \in 1..Len(sent) /\ c \in Nat /\ SendPad(LenOf(c)) \in 0..3
      /\ FrameLen(LenOf(c)) = LenOf(c) + 2 + SendPad(LenOf(c)) + 4
  BY Zenon, <1>2, <1>3, <1>6, AtFrame
<1>9. /\ taken + k < FrameLen(LenOf(c)) /\ taken + k <= FrameLen(LenOf(c))
      /\ rcvd + k <= ToRead /\ k \in Nat \ {0}
  <2>1. k \in Nat \ {0} /\ k <= ToRead - rcvd
    BY <1>6
  <2>2. taken + k <= 2 + LenOf(c) /\ rcvd + k <= ToRead
    <3>1. rcvd + k <= ToRead /\ ToRead <= ulpduLen - (bytesRcvd - 2) /\ ToRead \in Nat
      BY <1>4, <1>5, <2>1
    <3>2. (bytesRcvd + rcvd) + k <= 2 + ulpduLen
      BY <1>4, <2>1, <3>1
    <3> QED
      BY Zenon, <1>7, <3>1, <3>2
  <2>3. LenOf(c) \in Nat
    BY Zenon, <1>4, <1>7
  <2>4. taken + k \in Nat
    BY <1>4, <2>1
  <2> QED
    BY <1>8, <2>1, <2>2, <2>3, <2>4
<1>10. /\ part' = Ulpdu(c, Len(part')) /\ Len(part') = taken' - MPA_HDR_SIZE
       /\ part' \in Seq(Nat \X Nat)
  <2>1. k \in Nat /\ part \in Seq(Nat \X Nat)
    BY <1>3, <1>6 DEF Typed
  <2>2. \A i \in 1..k : wire[i].at = <<c, taken + i>>
    BY Zenon, <1>2, <1>3, <1>6, <1>9, Take
  <2>3. part = Ulpdu(c, Len(part)) /\ Len(part) = taken - MPA_HDR_SIZE /\ taken \in Nat /\ c \in Nat
    BY Zenon, <1>4, <1>7, <1>8
  <2>4. /\ part \o [i \in 1..k |-> wire[i].at] = Ulpdu(c, taken + k - MPA_HDR_SIZE)
        /\ Ulpdu(c, taken + k - MPA_HDR_SIZE) \in Seq(Nat \X Nat)
        /\ Len(Ulpdu(c, taken + k - MPA_HDR_SIZE)) = taken + k - MPA_HDR_SIZE
    BY Zenon, <2>1, <2>2, <2>3, PartGrows
  <2>5. PICK n : n = taken + k - MPA_HDR_SIZE
    BY Zenon
  <2>6. part' = Ulpdu(c, n) /\ Len(Ulpdu(c, n)) = n /\ Ulpdu(c, n) \in Seq(Nat \X Nat)
    BY Zenon, <1>3, <2>4, <2>5
  <2>7. Len(part') = n /\ n = taken' - MPA_HDR_SIZE
    <3>1. Len(part') = n
      BY Zenon, <2>6
    <3>2. taken' = taken + k
      BY Zenon, <1>3
    <3> QED
      BY <2>1, <2>3, <2>5, <3>1, <3>2 DEF MPA_HDR_SIZE
  <2> QED
    BY Zenon, <2>6, <2>7
<1>11. CASE rcvd + k < ToRead
  <2>1. pc' = "payload" /\ bytesRcvd' = bytesRcvd
    <3>1. rcvd + k # ToRead
      BY <1>4, <1>5, <1>9, <1>11
    <3> QED
      BY Zenon, <3>1, <1>3, <1>11 DEF AfterRecv
  <2>2. /\ wire' \in Seq(Bytes) /\ SentOK' /\ ReceivedOK' /\ StreamOK' /\ TailOK' /\ Lockstep'
    <3>1. pc' # "idle"
      BY Zenon, <2>1
    <3> QED
      BY Zenon, <3>1, <1>2, <1>3, <1>6, <1>9, ReadOn
  <2>3. /\ taken' \in Nat /\ rcvd' \in Nat /\ pc' \in Part /\ bytesRcvd' \in Nat
        /\ taken' >= MPA_HDR_SIZE /\ taken' = bytesRcvd' + rcvd' /\ rcvd' < ToRead'
        /\ bytesRcvd' # 0 /\ bytesRcvd' >= MPA_HDR_SIZE /\ bytesRcvd' < MPA_HDR_SIZE + ulpduLen'
    <3>1. ToRead' = ToRead
      BY Zenon, <1>3, <2>1 DEF ToRead, ReadTrailers, UlpduRem
    <3> QED
      BY <3>1, <1>3, <1>4, <1>5, <1>7, <1>9, <1>11, <2>1 DEF Part, MPA_HDR_SIZE
  <2>4. Typed'
    BY Zenon, <1>3, <1>10, <2>2, <2>3 DEF Typed
  <2>5. (Cur \in 1..Len(sent) /\ ulpduLen = LenOf(Cur) /\ part = Ulpdu(Cur, Len(part)))'
    <3>1. Cur' = c
      <4>1. pc' # "idle"
        BY <2>1
      <4> QED
        BY Zenon, <1>2, <1>3, <4>1 DEF Cur
    <3> QED
      BY Zenon, <3>1, <1>3, <1>7, <1>8, <1>10 DEF LenOf
  <2>6. ReaderOK'
    <3>1. ask' \in Asks
      BY Zenon, <1>3, <1>4
    <3> QED
      BY Zenon, <1>10, <2>1, <2>3, <2>5, <3>1 DEF ReaderOK
  <2> QED
    BY Zenon, <2>2, <2>4, <2>6 DEF InStep
<1>12. CASE ~(rcvd + k < ToRead)
  <2>1. /\ bytesRcvd' = bytesRcvd + ToRead /\ taken' = bytesRcvd' /\ taken' \in Nat /\ rcvd' \in Nat
        /\ taken' >= MPA_HDR_SIZE /\ bytesRcvd' # 0 /\ bytesRcvd' >= MPA_HDR_SIZE
        /\ Len(part') = bytesRcvd' - 2 /\ UlpduRem' = ulpduLen - Len(part')
    <3>1. rcvd + k = ToRead
      BY <1>4, <1>5, <1>9, <1>12
    <3>2. bytesRcvd' = bytesRcvd + ToRead
      BY Zenon, <3>1, <1>3
    <3>3. /\ taken' = bytesRcvd' /\ taken' \in Nat /\ rcvd' \in Nat /\ taken' >= 2 /\ bytesRcvd' # 0
          /\ bytesRcvd' \in Nat
      BY <3>1, <3>2, <1>3, <1>4, <1>5, <1>7, <1>9
    <3> QED
      BY Zenon, <3>2, <3>3, <1>3, <1>10 DEF UlpduRem, MPA_HDR_SIZE
  <2>2. pc' = IF ReadTrailers THEN "pad" ELSE "idle"
    BY Zenon, <1>3, <1>12 DEF AfterRecv, AfterCall
  <2>3. ReadTrailers => Len(part') = ulpduLen
    BY <2>1, <1>4, <1>5
  <2>4. ~ReadTrailers => ~Whole'
    BY <2>1, <1>3, <1>4, <1>5 DEF Whole
  <2>5. pc' # "idle" \/ ~Whole'
    BY Zenon, <2>2, <2>4
  <2>6. /\ wire' \in Seq(Bytes) /\ SentOK' /\ ReceivedOK' /\ StreamOK' /\ TailOK' /\ Lockstep'
    BY Zenon, <2>5, <1>2, <1>3, <1>6, <1>9, ReadOn
  <2>7. Typed'
    <3>1. pc' \in Part \cup {"idle", "failed"}
      BY Zenon, <2>2 DEF Part
    <3> QED
      BY Zenon, <3>1, <1>3, <1>10, <2>1, <2>6 DEF Typed
  <2>8. (Cur \in 1..Len(sent) /\ ulpduLen = LenOf(Cur) /\ part = Ulpdu(Cur, Len(part)))'
    <3>1. Cur' = c
      BY Zenon, <1>2, <1>3, <2>5 DEF Cur
    <3> QED
      BY Zenon, <3>1, <1>3, <1>7, <1>8, <1>10 DEF LenOf
  <2>9. ReaderOK'
    <3>1. CASE ReadTrailers
      <4>1. pc' = "pad" /\ bytesRcvd' = MPA_HDR_SIZE + ulpduLen' + 0 /\ Len(part') = ulpduLen'
        <5>1. bytesRcvd' = 2 + ulpduLen + 0
          BY <3>1, <2>1, <1>4, <1>5
        <5> QED
          BY Zenon, <5>1, <3>1, <2>2, <2>3, <1>3 DEF MPA_HDR_SIZE
      <4> QED
        BY Zenon, <4>1, <2>1, <2>8 DEF ReaderOK
    <3>2. CASE ~ReadTrailers
      BY Zenon, <3>2, <1>10, <2>1, <2>2, <2>4, <2>8 DEF ReaderOK
    <3> QED
      BY Zenon, <3>1, <3>2
  <2> QED
    BY Zenon, <2>6, <2>7, <2>9 DEF InStep
<1> QED
  BY Zenon, <1>11, <1>12

\* In the trailer the whole payload has been handed over.
LEMMA InTrailer ==
  ASSUME InStep, pc \in {"pad", "crc"}, NEW c, c = Len(received) + 1
  PROVE  /\ c \in 1..Len(sent) /\ c \in Nat /\ ulpduLen = LenOf(c) /\ ulpduLen \in Nat
         /\ part = Ulpdu(c, ulpduLen) /\ Len(part) = ulpduLen
         /\ RecvPad = SendPad(ulpduLen) /\ RecvPad \in 0..3 /\ FrameLen(ulpduLen) = ulpduLen + 2 + RecvPad + 4
         /\ bytesRcvd = taken /\ taken = 2 + ulpduLen + (IF pc = "crc" THEN RecvPad ELSE 0)
         /\ taken \in Nat /\ bytesRcvd # 0 /\ bytesRcvd >= MPA_HDR_SIZE
<1>1. Typed /\ ReaderOK /\ pc # "idle" /\ pc # "failed" /\ pc # "hdr" /\ pc # "payload"
  BY Zenon DEF InStep
<1>2. Cur = c /\ bytesRcvd # 0
  BY Zenon, <1>1 DEF ReaderOK, Cur
<1>3. /\ bytesRcvd >= MPA_HDR_SIZE /\ c \in 1..Len(sent) /\ ulpduLen = LenOf(c)
      /\ part = Ulpdu(c, Len(part)) /\ taken = bytesRcvd /\ Len(part) = ulpduLen
      /\ bytesRcvd = MPA_HDR_SIZE + ulpduLen + (IF pc = "crc" THEN RecvPad ELSE 0)
  BY Zenon, <1>1, <1>2 DEF ReaderOK
<1>4. ulpduLen \in Nat /\ taken \in Nat /\ Len(received) \in Nat
  BY <1>1 DEF Typed
<1>5. c \in Nat
  BY <1>4
<1>6. RecvPad = SendPad(ulpduLen)
  BY Zenon DEF RecvPad, SendPad
<1>7. RecvPad \in 0..3 /\ FrameLen(ulpduLen) = ulpduLen + 2 + RecvPad + 4
  BY Zenon, <1>4, <1>6, TrailerType
<1>8. taken = 2 + ulpduLen + (IF pc = "crc" THEN RecvPad ELSE 0) /\ part = Ulpdu(c, ulpduLen)
  BY Zenon, <1>3 DEF MPA_HDR_SIZE
<1> QED
  BY Zenon, <1>2, <1>3, <1>4, <1>5, <1>6, <1>7, <1>8

\* The reader goes on to the CRC, or has failed in the trailer.
LEMMA ToCrc ==
  ASSUME InStep, pc \in {"pad", "crc"}, pc' \in {"crc", "failed"}, wire' \in Seq(Bytes),
         SentOK', ReceivedOK', StreamOK', TailOK', Lockstep',
         sent' = sent, received' = received, conn' = conn, taken' \in Nat,
         ask' = ask, rcvd' = rcvd, ulpduLen' = ulpduLen, part' = part,
         IF pc' = "crc" THEN bytesRcvd' = taken' /\ taken' = 2 + ulpduLen + RecvPad
                        ELSE bytesRcvd' = bytesRcvd
  PROVE  InStep'
<1>1. PICK c : c = Len(received) + 1
  BY Zenon
<1>2. /\ c \in 1..Len(sent) /\ ulpduLen = LenOf(c) /\ ulpduLen \in Nat
      /\ part = Ulpdu(c, ulpduLen) /\ Len(part) = ulpduLen /\ RecvPad \in 0..3
  BY Zenon, <1>1, InTrailer
<1>3. Typed'
  <2>1. Typed /\ bytesRcvd' \in Nat /\ pc' \in Part \cup {"failed"}
    BY Zenon, <1>2 DEF InStep, Typed, Part
  <2> QED
    BY Zenon, <2>1 DEF Typed
<1>4. ReaderOK'
  <2>1. CASE pc' = "failed"
    BY Zenon, <2>1 DEF ReaderOK
  <2>2. CASE pc' = "crc"
    <3>1. /\ bytesRcvd' # 0 /\ bytesRcvd' >= MPA_HDR_SIZE /\ taken' >= MPA_HDR_SIZE
          /\ taken' = bytesRcvd' /\ bytesRcvd' = 2 + ulpduLen + RecvPad
      <4>1. bytesRcvd' = taken' /\ taken' = 2 + ulpduLen + RecvPad
        BY Zenon, <2>2
      <4>2. ulpduLen \in Nat /\ RecvPad \in 0..3
        BY Zenon, <1>2
      <4>3. 2 + ulpduLen + RecvPad \in Nat /\ 2 + ulpduLen + RecvPad >= 2
        BY <4>2
      <4> QED
        BY <4>1, <4>3 DEF MPA_HDR_SIZE
    <3>2. RecvPad' = RecvPad /\ Cur' = c
      BY Zenon, <1>1, <2>2 DEF RecvPad, Cur
    <3>3. (Cur \in 1..Len(sent) /\ ulpduLen = LenOf(Cur) /\ part = Ulpdu(Cur, Len(part)))'
      BY Zenon, <1>2, <3>2 DEF LenOf
    <3>4. bytesRcvd' = MPA_HDR_SIZE + ulpduLen' + RecvPad' /\ Len(part') = ulpduLen'
      BY Zenon, <1>2, <3>1, <3>2 DEF MPA_HDR_SIZE
    <3> QED
      BY Zenon, <2>2, <3>1, <3>3, <3>4 DEF ReaderOK
  <2> QED
    BY Zenon, <2>1, <2>2
<1> QED
  BY Zenon, <1>3, <1>4 DEF InStep

\* A recv of padding bytes.
LEMMA RecvPaddingStep ==
  ASSUME InStep, RecvPadding
  PROVE  InStep'
<1>1. PICK k \in IF RecvPad = 0 /\ (wire # <<>> \/ conn # "open") THEN {0} ELSE Recv("pad", RecvPad) :
        /\ wire' = Drop(k) /\ taken' = taken + k
        /\ IF k < RecvPad THEN pc' = "failed" /\ UNCHANGED bytesRcvd
                          ELSE pc' = "crc" /\ bytesRcvd' = bytesRcvd + k
  BY Zenon DEF RecvPadding
<1>2. PICK c : c = Len(received) + 1
  BY Zenon
<1>3. /\ pc = "pad" /\ pc \in {"pad", "crc"} /\ pc # "failed" /\ ~(pc = "idle" /\ Whole)
      /\ sent' = sent /\ conn' = conn /\ received' = received
      /\ ask' = ask /\ ulpduLen' = ulpduLen /\ rcvd' = rcvd /\ part' = part
      /\ Typed /\ SentOK /\ ReceivedOK /\ StreamOK /\ TailOK /\ Lockstep
  BY Zenon DEF InStep, RecvPadding
<1>4. /\ ulpduLen = LenOf(c) /\ ulpduLen \in Nat
      /\ RecvPad \in 0..3 /\ FrameLen(ulpduLen) = ulpduLen + 2 + RecvPad + 4
      /\ bytesRcvd = taken /\ taken = 2 + ulpduLen + 0 /\ taken \in Nat
  BY Zenon, <1>2, <1>3, InTrailer
<1>5. pc' \in {"crc", "failed"} /\ pc' # "idle"
  BY Zenon, <1>1
<1>6. CASE RecvPad = 0 /\ (wire # <<>> \/ conn # "open")
  <2>1. k = 0
    BY Zenon, <1>1, <1>6
  <2>2. taken' = taken /\ pc' = "crc" /\ bytesRcvd' = taken' /\ taken' = 2 + ulpduLen + RecvPad
    BY <1>1, <1>4, <1>6, <2>1
  <2>3. wire' = wire
    <3>1. wire \in Seq(Bytes) /\ Len(wire) \in Nat
      BY <1>3 DEF Typed
    <3>2. 0 \in 0..Len(wire) /\ Len(wire) - 0 = Len(wire) /\ \A i \in 1..Len(wire) : i + 0 = i
      BY <3>1
    <3>3. /\ Drop(0) \in Seq(Bytes) /\ Len(Drop(0)) = Len(wire)
          /\ \A i \in 1..Len(wire) : Drop(0)[i] = wire[i]
      <4>1. /\ Drop(0) \in Seq(Bytes) /\ Len(Drop(0)) = Len(wire) - 0
            /\ \A i \in 1..(Len(wire) - 0) : Drop(0)[i] = wire[i + 0]
        BY Zenon, <1>3, <3>2, DropProperties
      <4> QED
        BY Zenon, <4>1, <3>2
    <3>4. Drop(0) = wire
      BY Zenon, <3>1, <3>3, SeqEqual
    <3> QED
      BY Zenon, <1>1, <2>1, <3>4
  <2>4. SentOK' /\ ReceivedOK' /\ StreamOK' /\ wire' \in Seq(Bytes) /\ taken' \in Nat
    BY Zenon, <1>3, <1>4, <2>2, <2>3, SentKept, ReceivedKept, StreamKept DEF Typed
  <2>5. TailOK'
    BY Zenon, <1>3, <1>6, <2>3 DEF TailOK, LenOf
  <2>6. Lockstep'
    BY Zenon, <1>3, <2>2, <2>3 DEF Lockstep
  <2> QED
    BY Zenon, <1>3, <1>5, <2>2, <2>4, <2>5, <2>6, ToCrc
<1>7. CASE ~(RecvPad = 0 /\ (wire # <<>> \/ conn # "open"))
  <2>1. k \in 1..Len(wire) /\ k <= RecvPad
    <3>1. k \in Recv("pad", RecvPad)
      BY Zenon, <1>1, <1>7
    <3>2. RecvPad \in Int
      BY <1>4
    <3> QED
      BY Zenon, <3>1, <3>2, <1>3, RecvBounds
  <2>2. k \in Nat /\ taken + k < FrameLen(LenOf(c)) /\ taken' \in Nat
    <3>1. k \in Nat
      BY <2>1
    <3>2. taken + k < FrameLen(ulpduLen) /\ taken + k \in Nat
      <4>1. /\ ulpduLen \in Nat /\ RecvPad \in 0..3 /\ taken = 2 + ulpduLen + 0
            /\ FrameLen(ulpduLen) = ulpduLen + 2 + RecvPad + 4 /\ k <= RecvPad
        BY Zenon, <1>4, <2>1
      <4> QED
        BY <3>1, <4>1
    <3> QED
      BY Zenon, <1>1, <1>4, <3>1, <3>2
  <2>3. /\ wire' \in Seq(Bytes) /\ SentOK' /\ ReceivedOK' /\ StreamOK' /\ TailOK' /\ Lockstep'
    BY Zenon, <1>1, <1>2, <1>3, <1>5, <2>1, <2>2, ReadOn
  <2>4. IF pc' = "crc" THEN bytesRcvd' = taken' /\ taken' = 2 + ulpduLen + RecvPad
                       ELSE bytesRcvd' = bytesRcvd
    <3>1. CASE k < RecvPad
      BY Zenon, <3>1, <1>1
    <3>2. CASE ~(k < RecvPad)
      <4>1. k = RecvPad
        BY <2>1, <2>2, <3>2, <1>4
      <4>2. taken' = 2 + ulpduLen + RecvPad /\ bytesRcvd' = taken' /\ pc' = "crc"
        BY <4>1, <1>1, <1>4
      <4> QED
        BY Zenon, <4>2
    <3> QED
      BY Zenon, <3>1, <3>2
  <2> QED
    BY Zenon, <1>3, <1>5, <2>2, <2>3, <2>4, ToCrc
<1> QED
  BY Zenon, <1>6, <1>7

\* A recv of checksum bytes: after the last the reader is at the next frame.
LEMMA RecvCrcStep ==
  ASSUME InStep, RecvCrc
  PROVE  InStep'
<1>1. PICK k \in Recv("crc", MPA_CRC_SIZE) : RecvCrc!(k)
  BY Zenon DEF RecvCrc
<1>2. PICK c : c = Len(received) + 1
  BY Zenon
<1>3. /\ pc = "crc" /\ pc \in {"pad", "crc"} /\ pc # "failed" /\ ~(pc = "idle" /\ Whole)
      /\ wire' = Drop(k) /\ taken' = taken + k /\ sent' = sent /\ conn' = conn
      /\ ask' = ask /\ ulpduLen' = ulpduLen /\ rcvd' = rcvd /\ part' = part
      /\ Typed /\ SentOK /\ ReceivedOK /\ StreamOK
  BY Zenon, <1>1 DEF InStep
<1>4. /\ c \in 1..Len(sent) /\ c \in Nat /\ ulpduLen = LenOf(c) /\ ulpduLen \in Nat
      /\ part = Ulpdu(c, ulpduLen)
      /\ RecvPad \in 0..3 /\ FrameLen(ulpduLen) = ulpduLen + 2 + RecvPad + 4
      /\ bytesRcvd = taken /\ taken = 2 + ulpduLen + RecvPad /\ taken \in Nat
  BY Zenon, <1>2, <1>3, InTrailer
<1>5. k \in 1..Len(wire) /\ k <= 4
  <2>1. MPA_CRC_SIZE \in Int /\ MPA_CRC_SIZE = 4
    BY DEF MPA_CRC_SIZE
  <2> QED
    BY Zenon, <2>1, <1>3, RecvBounds
<1>6. CASE k # MPA_CRC_SIZE
  <2>1. pc' = "failed" /\ bytesRcvd' = bytesRcvd /\ received' = received
    BY Zenon, <1>1, <1>6
  <2>2. taken + k < FrameLen(ulpduLen) /\ taken' \in Nat
    <3>1. k \in Nat /\ k < 4
      BY <1>5, <1>6 DEF MPA_CRC_SIZE
    <3>2. taken + k < FrameLen(ulpduLen) /\ taken + k \in Nat
      <4>1. /\ ulpduLen \in Nat /\ RecvPad \in 0..3 /\ taken = 2 + ulpduLen + RecvPad
            /\ FrameLen(ulpduLen) = ulpduLen + 2 + RecvPad + 4
        BY Zenon, <1>4
      <4> QED
        BY <3>1, <4>1
    <3> QED
      BY Zenon, <3>2, <1>3
  <2>3. pc' \in {"crc", "failed"} /\ pc' # "idle" /\ pc' # "crc" /\ taken + k < FrameLen(LenOf(c))
    BY Zenon, <2>1, <2>2, <1>4
  <2>4. /\ wire' \in Seq(Bytes) /\ SentOK' /\ ReceivedOK' /\ StreamOK' /\ TailOK' /\ Lockstep'
    BY Zenon, <1>2, <1>3, <1>5, <2>1, <2>3, ReadOn
  <2> QED
    BY Zenon, <1>3, <2>1, <2>2, <2>3, <2>4, ToCrc
<1>7. CASE k = MPA_CRC_SIZE
  <2>1. pc' = "idle" /\ bytesRcvd' = bytesRcvd + k /\ received' = Append(received, part)
    BY Zenon, <1>1, <1>7
  <2>2. /\ taken' = FrameLen(ulpduLen) /\ bytesRcvd' = taken' /\ taken' \in Nat
        /\ bytesRcvd' # 0 /\ bytesRcvd' >= MPA_HDR_SIZE /\ Whole'
    <3>1. k = 4
      BY Zenon, <1>7 DEF MPA_CRC_SIZE
    <3>2. /\ taken + k = FrameLen(ulpduLen) /\ taken + k \in Nat /\ taken + k # 0
          /\ taken + k >= 2 /\ ulpduLen - ((taken + k) - 2) <= 0
      <4>1. /\ ulpduLen \in Nat /\ RecvPad \in 0..3 /\ taken = 2 + ulpduLen + RecvPad
            /\ FrameLen(ulpduLen) = ulpduLen + 2 + RecvPad + 4
        BY Zenon, <1>4
      <4> QED
        BY <3>1, <4>1
    <3>3. taken' = taken + k /\ bytesRcvd' = taken + k /\ ulpduLen' = ulpduLen
      BY Zenon, <1>3, <1>4, <2>1
    <3> QED
      BY Zenon, <3>2, <3>3 DEF MPA_HDR_SIZE, Whole, UlpduRem
  <2>3. /\ wire' \in Seq(Bytes) /\ StreamOK'
        /\ wire' = <<>> \/ wire'[1].at = <<c + 1, 1>>
        /\ conn = "open" => IF wire' = <<>> THEN c = Len(sent)
                            ELSE wire'[Len(wire')].at = <<Len(sent), FrameLen(LenOf(Len(sent)))>>
    <3>1. taken' = FrameLen(LenOf(c)) /\ taken + k <= FrameLen(LenOf(c))
      <4>1. taken' = FrameLen(LenOf(c)) /\ taken' = taken + k /\ taken' \in Nat
        BY Zenon, <2>2, <1>3, <1>4
      <4> QED
        BY <4>1
    <3> QED
      BY Zenon, <3>1, <1>2, <1>3, <1>5, Take
  <2>4. /\ received \in Seq(Seq(Nat \X Nat)) /\ part \in Seq(Nat \X Nat) /\ Len(received) \in Nat
        /\ received' \in Seq(Seq(Nat \X Nat)) /\ Len(received') = c
        /\ received'[c] = part /\ \A f \in 1..Len(received) : received'[f] = received[f]
    BY <1>2, <1>3, <2>1 DEF Typed
  <2>5. SentOK' /\ \A f : LenOf(f)' = LenOf(f)
    BY Zenon, <1>3, SentKept
  <2>6. part = sent[c]
    BY Zenon, <1>3, <1>4 DEF SentOK
  <2>7. ReceivedOK'
    <3>1. Len(sent) \in Nat
      BY <1>3 DEF Typed
    <3>2. Len(received') <= Len(sent)
      BY <3>1, <2>4, <1>4
    <3>3. ASSUME NEW f \in 1..Len(received') PROVE received'[f] = sent[f]
      <4>1. CASE f = c
        BY Zenon, <4>1, <2>4, <2>6
      <4>2. CASE f # c
        <5>1. f \in 1..Len(received)
          BY <4>2, <2>4, <1>2
        <5> QED
          BY Zenon, <5>1, <2>4, <1>3 DEF ReceivedOK
      <4> QED
        BY Zenon, <4>1, <4>2
    <3> QED
      BY Zenon, <3>2, <3>3, <1>3 DEF ReceivedOK
  <2>8. TailOK'
    BY Zenon, <1>3, <2>1, <2>2, <2>3, <2>4, <2>5 DEF TailOK, Between
  <2>9. Lockstep'
    <3>1. wire' # <<>> => Head(wire') = wire'[1]
      BY <2>3
    <3> QED
      BY Zenon, <3>1, <2>1, <2>2, <2>3, <2>4 DEF Lockstep
  <2>10. Typed'
    BY Zenon, <1>3, <2>1, <2>2, <2>3, <2>4 DEF Typed
  <2>11. ReaderOK'
    <3>1. Cur' = c
      <4>1. c + 0 = c
        BY <1>4
      <4> QED
        BY Zenon, <4>1, <2>1, <2>2, <2>4 DEF Cur
    <3>2. Len(part) = ulpduLen
      BY Zenon, <1>4, UlpduType
    <3>3. (Cur \in 1..Len(sent) /\ ulpduLen = LenOf(Cur) /\ part = Ulpdu(Cur, Len(part)))'
      BY Zenon, <1>3, <1>4, <2>5, <3>1, <3>2
    <3> QED
      BY Zenon, <1>3, <2>1, <2>2, <3>3 DEF ReaderOK
  <2> QED
    BY Zenon, <2>3, <2>5, <2>7, <2>8, <2>9, <2>10, <2>11 DEF InStep
<1> QED
  BY Zenon, <1>6, <1>7

\* The connection ends: nothing more is read.
LEMMA RecvEndStep ==
  ASSUME InStep, RecvEnd
  PROVE  InStep'
<1>1. PICK r \in Int :
        IF pc = "payload" /\ rcvd + r > 0 THEN rcvd' = rcvd + r /\ UNCHANGED pc
                                         ELSE pc' = "failed" /\ UNCHANGED rcvd
  <2>1. -1 \in Int /\ 0 \in Int
    OBVIOUS
  <2>2. CASE conn = "reset"
    BY Zenon, <2>1, <2>2 DEF RecvEnd, GoesOn
  <2>3. CASE conn # "reset"
    BY Zenon, <2>1, <2>3 DEF RecvEnd, GoesOn
  <2> QED
    BY Zenon, <2>2, <2>3
<1>2. /\ Typed /\ SentOK /\ ReceivedOK /\ StreamOK /\ ReaderOK /\ wire = <<>> /\ wire' = wire
      /\ conn' = "closed" /\ sent' = sent /\ received' = received /\ ask' = ask
      /\ ulpduLen' = ulpduLen /\ bytesRcvd' = bytesRcvd /\ taken' = taken /\ part' = part
  BY Zenon DEF InStep, RecvEnd
<1>3. rcvd' \in Nat
  BY <1>1, <1>2 DEF Typed
<1>4. pc' = "failed" \/ (pc = "payload" /\ pc' = "payload")
  BY Zenon, <1>1
<1>5. Typed'
  BY Zenon, <1>2, <1>3, <1>4 DEF Typed
<1>6. TailOK' /\ Lockstep' /\ AtEof'
  BY Zenon, <1>2 DEF TailOK, Lockstep, AtEof
<1>7. ReaderOK'
  <2>1. CASE pc' = "failed"
    BY Zenon, <2>1 DEF ReaderOK
  <2>2. CASE pc = "payload" /\ pc' = "payload"
    <3>1. /\ Cur' = Cur /\ \A f : LenOf(f)' = LenOf(f)
      BY Zenon, <1>2, <2>2 DEF Cur, LenOf
    <3> QED
      BY Zenon, <1>2, <1>6, <2>2, <3>1 DEF ReaderOK
  <2> QED
    BY Zenon, <1>4, <2>1, <2>2
<1> QED
  BY Zenon, <1>2, <1>5, <1>6, <1>7, SentKept, ReceivedKept, StreamKept DEF InStep

\* The connection ends: the stream is cut, and the reader goes on with what is left.
LEMMA EndStep ==
  ASSUME InStep, End
  PROVE  InStep'
<1>1. PICK k \in 0..Len(wire) : wire' = SubSeq(wire, 1, k)
  BY Zenon DEF End
<1>2. /\ Typed /\ SentOK /\ ReceivedOK /\ StreamOK /\ ReaderOK /\ Lockstep /\ conn = "open" /\ conn' \in Ends
      /\ sent' = sent /\ received' = received /\ ask' = ask /\ pc' = pc /\ rcvd' = rcvd
      /\ ulpduLen' = ulpduLen /\ bytesRcvd' = bytesRcvd /\ taken' = taken /\ part' = part
  BY Zenon DEF InStep, End, readVars
<1>3. conn' \in {"closed", "reset"} /\ conn' # "open"
  BY Zenon, <1>2, EnvAssumption
<1>4. wire' \in Seq(Bytes) /\ Len(wire') = k /\ (k # 0 => wire'[1] = wire[1]) /\ StreamOK'
  BY Zenon, <1>1, <1>2, CutStream
<1>5. Typed'
  BY Zenon, <1>2, <1>3, <1>4 DEF Typed
<1>6. Lockstep'
  <2>1. wire' # <<>> => wire # <<>> /\ Head(wire') = Head(wire)
    BY <1>1, <1>2, <1>4 DEF Typed
  <2>2. Whole' = Whole
    BY Zenon, <1>2 DEF Whole, UlpduRem
  <2> QED
    BY Zenon, <1>2, <2>1, <2>2 DEF Lockstep
<1>7. TailOK'
  BY Zenon, <1>3 DEF TailOK
<1>8. ReaderOK'
  <2>1. ~AtEof
    BY Zenon, <1>2 DEF AtEof
  <2>2. /\ Whole' = Whole /\ Cur' = Cur /\ ToRead' = ToRead /\ RecvPad' = RecvPad
        /\ \A f : LenOf(f)' = LenOf(f)
    BY Zenon, <1>2 DEF Whole, UlpduRem, ToRead, ReadTrailers, RecvPad, Cur, LenOf
  <2> QED
    BY Zenon, <1>2, <2>1, <2>2 DEF ReaderOK
<1> QED
  BY Zenon, <1>2, <1>4, <1>5, <1>6, <1>7, <1>8, SentKept, ReceivedKept DEF InStep

-----------------------------------------------------------------------------
(* Steps of the sender.                                                    *)

\* What mpa_send adds: a ULPDU, and its frame at the end of the stream.
SendsUlpdu(f, l) ==
  /\ f = Len(sent) + 1 /\ f \in Nat /\ Len(sent) \in Nat /\ l \in Lens /\ l \in Nat
  /\ sent' \in Seq(Seq(Nat \X Nat)) /\ Len(sent') = f /\ sent'[f] = Ulpdu(f, l)
  /\ \A g \in 1..Len(sent) : sent'[g] = sent[g]
  /\ LenOf(f)' = l /\ \A g \in 1..Len(sent) : LenOf(g)' = LenOf(g)
SendsFrame(f, l) ==
  /\ FrameLen(l) \in Nat /\ FrameLen(l) > 2 /\ Len(wire) \in Nat
  /\ wire' \in Seq(Bytes) /\ Len(wire') = Len(wire) + FrameLen(l)
  /\ \A i \in 1..Len(wire) : wire'[i] = wire[i]
  /\ \A j \in 1..FrameLen(l) : wire'[Len(wire) + j].at = <<f, j>>
  /\ wire'[Len(wire) + 1].v = l \div Radix /\ wire'[Len(wire) + 2].v = l % Radix

\* What mpa_send adds to the wire and to the ULPDUs sent.
LEMMA SendAdds ==
  ASSUME Typed, NEW l \in Lens, NEW f, f = Len(sent) + 1,
         sent' = Append(sent, Ulpdu(f, l)), wire' = wire \o Frame(f, l)
  PROVE  SendsUlpdu(f, l) /\ SendsFrame(f, l)
<1>1. Len(sent) \in Nat /\ Len(wire) \in Nat /\ sent \in Seq(Seq(Nat \X Nat)) /\ wire \in Seq(Bytes)
  BY DEF Typed
<1>2. f \in Nat
  BY <1>1
<1>3. l \in Nat
  BY Zenon, LensType
<1>4. Ulpdu(f, l) \in Seq(Nat \X Nat) /\ Len(Ulpdu(f, l)) = l
  BY Zenon, <1>2, <1>3, UlpduType
<1>5. /\ sent' \in Seq(Seq(Nat \X Nat)) /\ Len(sent') = f /\ sent'[f] = Ulpdu(f, l)
      /\ \A g \in 1..Len(sent) : sent'[g] = sent[g]
  BY <1>1, <1>4
<1>6. LenOf(f)' = l /\ \A g \in 1..Len(sent) : LenOf(g)' = LenOf(g)
  BY Zenon, <1>4, <1>5 DEF LenOf
<1>7. /\ Frame(f, l) \in Seq(Bytes) /\ Len(Frame(f, l)) = FrameLen(l)
      /\ \A j \in 1..FrameLen(l) : Frame(f, l)[j].at = <<f, j>>
      /\ Frame(f, l)[1].v = l \div Radix /\ Frame(f, l)[2].v = l % Radix
  BY Zenon, <1>2, <1>3, FrameBytes
<1>8. FrameLen(l) \in Nat /\ FrameLen(l) > 2
  <2>1. SendPad(l) \in 0..3 /\ FrameLen(l) = l + 2 + SendPad(l) + 4
    BY Zenon, <1>3, TrailerType
  <2> QED
    BY <2>1, <1>3
<1>9. /\ wire' \in Seq(Bytes) /\ Len(wire') = Len(wire) + FrameLen(l)
      /\ \A i \in 1..(Len(wire) + FrameLen(l)) :
           wire'[i] = IF i <= Len(wire) THEN wire[i] ELSE Frame(f, l)[i - Len(wire)]
  <2>1. /\ wire' \in Seq(Bytes) /\ Len(wire') = Len(wire) + Len(Frame(f, l))
        /\ \A i \in 1..(Len(wire) + Len(Frame(f, l))) :
             wire'[i] = IF i <= Len(wire) THEN wire[i] ELSE Frame(f, l)[i - Len(wire)]
    BY Zenon, <1>1, <1>7, ConcatProperties
  <2> QED
    BY Zenon, <2>1, <1>7
<1>10. ASSUME NEW i \in 1..Len(wire) PROVE wire'[i] = wire[i]
  <2>1. i \in 1..(Len(wire) + FrameLen(l)) /\ i <= Len(wire)
    BY <1>1, <1>8
  <2> QED
    BY Zenon, <2>1, <1>9
<1>11. ASSUME NEW j \in 1..FrameLen(l)
       PROVE  wire'[Len(wire) + j] = Frame(f, l)[j]
  <2>1. /\ Len(wire) + j \in 1..(Len(wire) + FrameLen(l)) /\ ~(Len(wire) + j <= Len(wire))
        /\ (Len(wire) + j) - Len(wire) = j
    BY <1>1, <1>8
  <2> QED
    BY Zenon, <2>1, <1>9
<1>12. /\ \A j \in 1..FrameLen(l) : wire'[Len(wire) + j].at = <<f, j>>
       /\ wire'[Len(wire) + 1].v = l \div Radix /\ wire'[Len(wire) + 2].v = l % Radix
  <2>1. 1 \in 1..FrameLen(l) /\ 2 \in 1..FrameLen(l)
    BY <1>8
  <2> QED
    BY Zenon, <2>1, <1>7, <1>11
<1>13. wire' \in Seq(Bytes) /\ Len(wire') = Len(wire) + FrameLen(l)
  BY Zenon, <1>9
<1> QED
  <2>1. SendsUlpdu(f, l)
    BY Zenon, <1>1, <1>2, <1>3, <1>5, <1>6 DEF SendsUlpdu
  <2>2. SendsFrame(f, l)
    BY Zenon, <1>1, <1>8, <1>10, <1>12, <1>13 DEF SendsFrame
  <2> QED
    BY Zenon, <2>1, <2>2

\* The stream before the frame ends where the frame begins.
LEMMA LastByte ==
  ASSUME InStep, conn = "open", NEW L, L = Len(wire), L # 0
  PROVE  /\ L \in 1..L /\ Len(sent) \in 1..Len(sent)
         /\ wire[L].at[1] = Len(sent) /\ wire[L].at[2] = FrameLen(LenOf(Len(sent)))
<1>1. Typed /\ StreamOK /\ TailOK
  BY Zenon DEF InStep
<1>2. L \in Nat /\ wire # <<>> /\ Len(sent) \in Nat
  BY <1>1 DEF Typed
<1>3. L \in 1..L
  BY <1>2
<1>4. wire[L].at = <<Len(sent), FrameLen(LenOf(Len(sent)))>>
  BY Zenon, <1>1, <1>2 DEF TailOK
<1>5. wire[L].at[1] = Len(sent) /\ wire[L].at[2] = FrameLen(LenOf(Len(sent)))
  BY <1>4
<1>6. Len(sent) \in 1..Len(sent)
  BY Zenon, <1>1, <1>3, <1>5 DEF StreamOK, ByteOK
<1> QED
  BY Zenon, <1>3, <1>5, <1>6

\* The bytes on the wire are still the ones of the frames that follow.
LEMMA SendStream ==
  ASSUME InStep, conn = "open", NEW f, NEW l, SendsUlpdu(f, l), SendsFrame(f, l)
  PROVE  StreamOK'
<1>1. Typed /\ SentOK /\ StreamOK
  BY Zenon DEF InStep
<1>2. PICK L \in Nat : L = Len(wire)
  BY Zenon DEF SendsFrame
<1>3. /\ f = Len(sent) + 1 /\ f \in Nat /\ Len(sent) \in Nat /\ Len(sent') = f /\ LenOf(f)' = l
      /\ \A g \in 1..Len(sent) : LenOf(g)' = LenOf(g)
  BY Zenon DEF SendsUlpdu
<1>4. /\ FrameLen(l) \in Nat /\ Len(wire') = L + FrameLen(l)
      /\ \A i \in 1..L : wire'[i] = wire[i]
      /\ \A j \in 1..FrameLen(l) : wire'[L + j].at = <<f, j>>
      /\ wire'[L + 1].v = l \div Radix /\ wire'[L + 2].v = l % Radix
  BY Zenon, <1>2 DEF SendsFrame
<1>5. ASSUME NEW i \in 1..L
      PROVE  /\ ByteOK(wire[i]) /\ wire'[i] = wire[i] /\ wire[i].at[1] \in 1..Len(sent)
             /\ LenOf(wire[i].at[1])' = LenOf(wire[i].at[1])
  <2>1. ByteOK(wire[i])
    BY Zenon, <1>1, <1>2 DEF StreamOK
  <2> QED
    BY Zenon, <2>1, <1>3, <1>4 DEF ByteOK, LenOf
<1>6. ASSUME NEW i \in 1..Len(wire'), ~(i \in 1..L)
      PROVE  /\ i - L \in 1..FrameLen(l) /\ L + (i - L) = i
             /\ wire'[i].at[1] = f /\ wire'[i].at[2] = i - L
  <2>1. i - L \in 1..FrameLen(l) /\ L + (i - L) = i
    BY <1>4, <1>6
  <2>2. wire'[i].at = <<f, i - L>>
    BY Zenon, <2>1, <1>4
  <2> QED
    BY <2>1, <2>2
<1>7. ASSUME NEW i \in 1..Len(wire')
      PROVE  ByteOK(wire[i])'
  <2>1. CASE i \in 1..L
    <3>1. wire'[i].at[1] \in 1..Len(sent')
      BY <1>3, <1>5, <2>1
    <3> QED
      BY Zenon, <3>1, <1>5, <2>1 DEF ByteOK, LenOf
  <2>2. CASE ~(i \in 1..L)
    <3>1. f \in 1..Len(sent')
      BY <1>3
    <3>2. (i - L = 1 => i = L + 1) /\ (i - L = 2 => i = L + 2)
      BY <1>4
    <3> QED
      BY Zenon, <3>1, <3>2, <1>3, <1>4, <1>6, <2>2 DEF ByteOK
  <2> QED
    BY Zenon, <2>1, <2>2
<1>8. RunOK'
  <2> SUFFICES ASSUME NEW i \in 1..Len(wire'), NEW d \in Nat, i + d <= Len(wire'),
                      wire'[i].at[2] + d <= FrameLen(LenOf(wire[i].at[1])')
               PROVE  wire'[i + d].at = <<wire'[i].at[1], wire'[i].at[2] + d>>
    BY Zenon DEF RunOK, LenOf
  <2>1. CASE i \in 1..L
    <3>1. /\ wire'[i] = wire[i] /\ wire[i].at[1] \in 1..Len(sent)
          /\ wire[i].at[2] \in 1..FrameLen(LenOf(wire[i].at[1]))
          /\ wire[i].at[2] + d <= FrameLen(LenOf(wire[i].at[1]))
      BY Zenon, <1>5, <2>1 DEF ByteOK, LenOf
    <3>2. FrameLen(LenOf(wire[i].at[1])) \in Nat
      BY Zenon, <3>1, <1>1, LenType
    <3>3. CASE i + d <= L
      <4>1. i + d \in 1..L
        BY <2>1, <3>3
      <4>2. wire[i + d].at = <<wire[i].at[1], wire[i].at[2] + d>>
        BY Zenon, <1>1, <1>2, <2>1, <3>1, <3>3 DEF StreamOK, RunOK
      <4> QED
        BY Zenon, <4>1, <4>2, <1>4, <3>1
    <3>4. CASE ~(i + d <= L)
      <4>1. PICK e \in Nat : i + e = L /\ e < d
        <5>1. L - i \in Nat /\ i + (L - i) = L /\ L - i < d
          BY <2>1, <3>4
        <5> QED
          BY Zenon, <5>1
      <4>2. PICK F \in Nat : F = FrameLen(LenOf(wire[i].at[1]))
        BY Zenon, <3>2
      <4>3. PICK a \in 1..F : a = wire[i].at[2] /\ a + d <= F
        BY Zenon, <3>1, <4>2
      <4>4. a + e <= F /\ a + e # F /\ i + e <= L /\ L # 0
        <5>1. a + d <= F
          BY Zenon, <4>3
        <5> QED
          BY <2>1, <4>1, <5>1
      <4>5. wire[L].at = <<wire[i].at[1], wire[i].at[2] + e>>
        BY Zenon, <1>1, <1>2, <2>1, <4>1, <4>2, <4>3, <4>4 DEF StreamOK, RunOK
      <4>6. wire[L].at[1] = wire[i].at[1] /\ wire[L].at[2] = wire[i].at[2] + e
        BY <4>5
      <4>7. wire[i].at[2] + e = FrameLen(LenOf(wire[i].at[1]))
        BY Zenon, <1>2, <4>4, <4>6, LastByte
      <4> QED
        BY Zenon, <4>2, <4>3, <4>4, <4>7
    <3> QED
      BY Zenon, <3>3, <3>4
  <2>2. CASE ~(i \in 1..L)
    <3>1. i - L \in 1..FrameLen(l) /\ wire'[i].at[1] = f /\ wire'[i].at[2] = i - L
      BY Zenon, <1>6, <2>2
    <3>2. (i - L) + d \in 1..FrameLen(l) /\ L + ((i - L) + d) = i + d
      BY <1>4, <3>1
    <3> QED
      BY Zenon, <1>4, <3>1, <3>2
  <2> QED
    BY Zenon, <2>1, <2>2
<1>9. NextOK'
  <2> SUFFICES ASSUME NEW i \in 1..(Len(wire') - 1),
                      wire'[i].at[2] = FrameLen(LenOf(wire[i].at[1])')
               PROVE  wire'[i + 1].at = <<wire'[i].at[1] + 1, 1>>
    BY Zenon DEF NextOK, LenOf
  <2>1. i \in 1..Len(wire')
    BY <1>4
  <2>2. CASE i \in 1..L
    <3>1. /\ wire'[i] = wire[i] /\ wire[i].at[2] = FrameLen(LenOf(wire[i].at[1]))
      BY Zenon, <1>5, <2>2 DEF LenOf
    <3>2. CASE i = L
      <4>1. 1 \in 1..FrameLen(l) /\ L # 0
        BY <1>4, <2>2, <3>2
      <4>2. wire[L].at[1] = Len(sent)
        BY Zenon, <1>2, <4>1, LastByte
      <4> QED
        <5>1. wire'[L + 1].at = <<f, 1>>
          BY Zenon, <1>4, <4>1
        <5>2. wire'[i].at[1] + 1 = f
          BY Zenon, <3>1, <3>2, <4>2, <1>3
        <5> QED
          BY Zenon, <5>1, <5>2, <3>2
    <3>3. CASE i # L
      <4>1. i \in 1..(L - 1) /\ i + 1 \in 1..L
        BY <2>2, <3>3
      <4> QED
        BY Zenon, <1>1, <1>2, <1>4, <3>1, <4>1 DEF StreamOK, NextOK
    <3> QED
      BY Zenon, <3>2, <3>3
  <2>3. CASE ~(i \in 1..L)
    <3>1. i - L \in 1..FrameLen(l) /\ wire'[i].at[1] = f /\ wire'[i].at[2] = i - L
      BY Zenon, <1>6, <2>1, <2>3
    <3>2. LenOf(wire[i].at[1])' = l
      BY Zenon, <1>3, <3>1 DEF LenOf
    <3>3. i - L = FrameLen(l)
      BY Zenon, <3>1, <3>2
    <3> QED
      BY <1>4, <3>3
  <2> QED
    BY Zenon, <2>2, <2>3
<1> QED
  BY Zenon, <1>7, <1>8, <1>9 DEF StreamOK

\* mpa_send does not disturb the reader.
LEMMA SendKeeps ==
  ASSUME InStep, NEW f, NEW l, SendsUlpdu(f, l), SendsFrame(f, l),
         conn = "open", Len(sent) < MaxFrames, conn' = conn, pc' = pc, UNCHANGED readVars
  PROVE  InStep'
<1>2. f = Len(sent) + 1
  BY Zenon DEF SendsUlpdu
<1>3. /\ Typed /\ SentOK /\ ReceivedOK /\ StreamOK /\ TailOK /\ ReaderOK /\ Lockstep
      /\ conn = "open" /\ conn' = conn /\ received' = received /\ ask' = ask /\ pc' = pc /\ rcvd' = rcvd
      /\ ulpduLen' = ulpduLen /\ bytesRcvd' = bytesRcvd /\ taken' = taken /\ part' = part
      /\ Len(sent) < MaxFrames
  BY Zenon DEF InStep, readVars
<1>4. SendsUlpdu(f, l) /\ SendsFrame(f, l)
  BY Zenon
<1>5. StreamOK'
  BY Zenon, <1>3, <1>4, SendStream
<1>6. /\ f \in Nat /\ Len(sent) \in Nat /\ sent' \in Seq(Seq(Nat \X Nat)) /\ Len(sent') = f
      /\ sent'[f] = Ulpdu(f, l) /\ LenOf(f)' = l /\ l \in Lens
      /\ \A g \in 1..Len(sent) : sent'[g] = sent[g] /\ LenOf(g)' = LenOf(g)
  BY Zenon, <1>4 DEF SendsUlpdu
<1>7. /\ \A g \in 1..Len(sent') : g = f \/ g \in 1..Len(sent)
      /\ \A g \in 1..Len(sent) : g \in 1..Len(sent')
  BY <1>2, <1>6
<1>8. SentOK'
  BY Zenon, <1>3, <1>6, <1>7 DEF SentOK
<1>9. ReceivedOK'
  <2>1. Len(received) \in Nat /\ Len(received) <= Len(sent)
    BY <1>3 DEF Typed, ReceivedOK
  <2>2. Len(received) <= Len(sent') /\ \A g \in 1..Len(received) : g \in 1..Len(sent)
    BY <2>1, <1>2, <1>6
  <2> QED
    BY Zenon, <2>2, <1>3, <1>6 DEF ReceivedOK
<1>10. PICK L \in Nat : L = Len(wire)
  BY Zenon, <1>4 DEF SendsFrame
<1>11. /\ FrameLen(l) \in Nat /\ FrameLen(l) > 2 /\ wire' \in Seq(Bytes)
       /\ Len(wire') = L + FrameLen(l)
       /\ \A i \in 1..L : wire'[i] = wire[i]
       /\ \A j \in 1..FrameLen(l) : wire'[L + j].at = <<f, j>>
  BY Zenon, <1>4, <1>10 DEF SendsFrame
<1>12. FrameLen(l) \in 1..FrameLen(l) /\ 1 \in 1..FrameLen(l) /\ Len(wire') # 0
  BY <1>11
<1>13. wire' # <<>> /\ Head(wire') = wire'[1]
  BY <1>11, <1>12
<1>14. TailOK'
  BY Zenon, <1>6, <1>11, <1>12, <1>13 DEF TailOK
<1>15. Typed'
  <2>1. Len(sent') <= MaxFrames
    BY <1>2, <1>3, <1>6, BoundAssumption
  <2> QED
    BY Zenon, <2>1, <1>3, <1>6, <1>11 DEF Typed
<1>16. /\ Whole' = Whole /\ Cur' = Cur /\ ToRead' = ToRead /\ RecvPad' = RecvPad
  BY Zenon, <1>3 DEF Whole, UlpduRem, ToRead, ReadTrailers, RecvPad, Cur
<1>17. ReaderOK'
  <2>1. ~AtEof
    BY Zenon, <1>3 DEF AtEof
  <2>2. Cur \in 1..Len(sent) => (Cur \in 1..Len(sent))' /\ LenOf(Cur)' = LenOf(Cur)
    BY Zenon, <1>6, <1>7, <1>16 DEF LenOf
  <2> QED
    BY Zenon, <1>3, <1>16, <2>1, <2>2 DEF ReaderOK
<1>18. Lockstep'
  <2> SUFFICES ASSUME pc # "failed"
               PROVE  wire'[1].at = <<Len(received) + 1, IF pc = "idle" /\ Whole THEN 1 ELSE taken + 1>>
    BY Zenon, <1>3, <1>13, <1>16 DEF Lockstep
  <2>1. CASE wire = <<>>
    <3>1. L = 0 /\ L + 1 = 1
      BY <1>10, <2>1
    <3>2. wire'[1].at = <<f, 1>>
      BY Zenon, <3>1, <1>11, <1>12
    <3>3. Between /\ Len(received) = Len(sent)
      BY Zenon, <1>3, <2>1 DEF TailOK
    <3>4. taken = 0 => taken + 1 = 1
      OBVIOUS
    <3> QED
      BY Zenon, <3>2, <3>3, <3>4, <1>2 DEF Between
  <2>2. CASE wire # <<>>
    <3>1. 1 \in 1..L /\ Head(wire) = wire[1]
      BY <1>3, <1>10, <2>2 DEF Typed
    <3> QED
      BY Zenon, <3>1, <1>3, <1>11, <2>2 DEF Lockstep
  <2> QED
    BY Zenon, <2>1, <2>2
<1> QED
  BY Zenon, <1>5, <1>8, <1>9, <1>14, <1>15, <1>17, <1>18 DEF InStep

\* mpa_send keeps the two sides in step.
LEMMA MpaSendStep ==
  ASSUME InStep, MpaSend
  PROVE  InStep'
<1>1. PICK l \in Lens : MpaSend!(l)
  BY Zenon DEF MpaSend
<1>2. PICK f : f = Len(sent) + 1
  BY Zenon
<1>3. SendsUlpdu(f, l) /\ SendsFrame(f, l)
  BY Zenon, <1>1, <1>2, SendAdds DEF InStep
<1> QED
  BY Zenon, <1>1, <1>3, SendKeeps

-----------------------------------------------------------------------------
(* The theorems.                                                           *)

\* At first nothing is sent and nothing is read.
LEMMA InitInStep == Init => InStep
<1> SUFFICES ASSUME Init PROVE InStep
  BY Zenon
<1>1. Typed
  BY BoundAssumption DEF Init, Typed
<1>2. SentOK /\ ReceivedOK /\ StreamOK
  BY DEF Init, SentOK, ReceivedOK, StreamOK, RunOK, NextOK
<1>3. TailOK /\ Lockstep
  BY Zenon DEF Init, TailOK, Between, Lockstep
<1>4. ReaderOK
  BY Zenon DEF Init, ReaderOK
<1> QED
  BY Zenon, <1>1, <1>2, <1>3, <1>4 DEF InStep

\* Every step keeps the reader in step with the sender.
LEMMA NextInStep == InStep /\ [Next]_vars => InStep'
<1> SUFFICES ASSUME InStep, [Next]_vars PROVE InStep'
  BY Zenon
<1>1. CASE UNCHANGED vars
  BY Zenon, <1>1 DEF vars, readVars, InStep, Typed, SentOK, ReceivedOK, StreamOK, ByteOK, RunOK, NextOK,
     TailOK, Between, ReaderOK, Cur, AtEof, ToRead, ReadTrailers, RecvPad, Whole, UlpduRem, Lockstep, LenOf
<1> QED
  BY Zenon, <1>1, MpaSendStep, EndStep, NextPacketStep, CallStep, RecvHdrStep, RecvPayloadStep,
     RecvPaddingStep, RecvCrcStep, RecvEndStep DEF Next, Reader

\* InStep is invariant: the induction.
LEMMA InStepKept == Spec => []InStep
<1> QED
  BY InitInStep, NextInStep, PTL DEF Spec

\* Whatever sizes mpa_recv's caller asks for, however recv() cuts the stream
\* and wherever the connection ends, the next byte in the socket is the one
\* the reader takes it to be, for any ULPDUs and any radix of the bytes.
THEOREM ReaderInStep == Spec => []Lockstep
<1>1. InStep => Lockstep
  BY Zenon DEF InStep
<1> QED
  BY <1>1, InStepKept, PTL

\* mpa_send and mpa_recv are a channel: what mpa_recv hands over is the next
\* ULPDU given to mpa_send, whole and unchanged.
THEOREM MpaIsChannel == Spec => ImplementsChannel
<1>1. Init => Abs!Init
  BY Zenon DEF Init, Abs!Init
<1>2. InStep /\ [Next]_vars => [Abs!Next]_<<sent, received>>
  <2> SUFFICES ASSUME InStep, [Next]_vars, ~UNCHANGED <<sent, received>>
               PROVE  Abs!Send \/ Abs!Receive
    BY Zenon DEF Abs!Next
  <2>1. CASE MpaSend
    <3>1. PICK l \in Lens : MpaSend!(l)
      BY Zenon, <2>1 DEF MpaSend
    <3>2. Len(sent) + 1 \in 1..MaxFrames
      BY <3>1, BoundAssumption DEF InStep, Typed
    <3>3. Ulpdu(Len(sent) + 1, l) \in Ulpdus
      BY <3>2 DEF Ulpdus
    <3> QED
      BY Zenon, <3>1, <3>3 DEF Abs!Send, readVars
  <2>2. CASE RecvCrc
    <3>1. received' = Append(received, part) /\ pc = "crc" /\ sent' = sent
      BY Zenon, <2>2 DEF RecvCrc
    <3>2. PICK c : c = Len(received) + 1
      BY Zenon
    <3>3. pc \in {"pad", "crc"} /\ SentOK /\ Typed
      BY Zenon, <3>1 DEF InStep
    <3>4. c \in 1..Len(sent) /\ ulpduLen = LenOf(c) /\ part = Ulpdu(c, ulpduLen)
      BY Zenon, <3>2, <3>3, InTrailer
    <3>5. part = sent[c]
      BY Zenon, <3>3, <3>4 DEF SentOK
    <3>6. Len(received) < Len(sent)
      <4>1. Len(received) \in Nat /\ Len(sent) \in Nat
        BY <3>3 DEF Typed
      <4> QED
        BY <4>1, <3>2, <3>4
    <3> QED
      BY Zenon, <3>1, <3>2, <3>5, <3>6 DEF Abs!Receive
  <2> QED
    BY Zenon, <2>1, <2>2 DEF Next, Reader, vars, readVars, End, NextPacket, Call, RecvHdr,
       RecvPayload, RecvPadding, RecvEnd
<1> QED
  BY <1>1, <1>2, InStepKept, PTL DEF Spec, ImplementsChannel, Abs!Spec
=============================================================================
