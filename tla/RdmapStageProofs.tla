--------------------------- MODULE RdmapStageProofs ---------------------------
(***************************************************************************)
(* The way of a read.  A Read Response names no request (its handler       *)
(* shifts the head of `pending'), so that a read completed with success    *)
(* has its data rests on order alone.  A read of n passes six stages: its  *)
(* request on the way to the peer, in the hands of rnic_recv there, its    *)
(* response in the send queue, in the hands of rnic_send, on the way back, *)
(* in the hands of rnic_recv of n.  Every stage keeps the order of the     *)
(* ids, so responses come back in the order in which the completions wait  *)
(* in `pending'.  First the six stages as sets of ids, then where in the   *)
(* two endpoints they are, then the steps of rnic_send on either side.     *)
(***************************************************************************)
EXTENDS RdmapProofs

\* st: the ids at each stage, from the last to the first; W: the ids of the
\* completions that wait; P: the ids of the requests placed; d: the next id;
\* on: the peer still answers.
Below(A, B) == \A x \in A, y \in B : x < y
All(st)     == UNION {st[i] : i \in 1..6}
Sorted(st)  == \A i, j \in 1..6 : i < j => Below(st[i], st[j])
Orderly(st, W, P, d, on) ==
  /\ Sorted(st) /\ st[1] \subseteq P
  /\ on => W \subseteq P \cup All(st)
  /\ All(st) \subseteq W
  /\ \A h \in W, x \in All(st) : h <= x => h \in P \/ h \in All(st)
  /\ \A h \in W : h < d
Pipeline == [1..6 -> SUBSET Nat]

\* An id moves to the next stage.
LEMMA OrderlyMove ==
  ASSUME NEW on, NEW st \in Pipeline, NEW u \in Pipeline, NEW W \in SUBSET Nat, NEW P, NEW Q,
         NEW d \in Nat, NEW e \in Nat, Orderly(st, W, P, d, on), P \subseteq Q, d <= e,
         NEW i \in 1..5, NEW x \in st[i + 1], i = 1 => x \in Q,
         Below({x}, u[i + 1]), st[i + 1] = u[i + 1] \cup {x}, u[i] = st[i] \cup {x},
         \A j \in 1..6 : j # i /\ j # i + 1 => u[j] = st[j]
  PROVE  Orderly(u, W, Q, e, on)
<1>1. \A j \in 1..6 : u[j] \subseteq st[j] \cup (IF j = i THEN {x} ELSE {})
  BY SMT DEF Pipeline
<1>2. All(u) = All(st)
  <2>1. ASSUME NEW y \in All(u) PROVE y \in All(st)
    BY SMT, <1>1, <2>1 DEF All
  <2>2. ASSUME NEW y \in All(st) PROVE y \in All(u)
    <3>. PICK j \in 1..6 : y \in st[j]
      BY Zenon DEF All
    <3>1. CASE j = i + 1
      <4>1. y \in u[i + 1] \/ y \in u[i]
        BY Zenon, <3>1
      <4>2. i \in 1..6 /\ i + 1 \in 1..6
        OBVIOUS
      <4>. QED BY Zenon, <4>1, <4>2 DEF All
    <3>2. CASE j # i + 1
      <4>1. y \in u[j]
        BY Zenon, <3>2
      <4>. QED BY Zenon, <4>1 DEF All
    <3>. QED BY Zenon, <3>1, <3>2
  <2>. QED BY Zenon, <2>1, <2>2
<1>3. Sorted(u)
  <2>. SUFFICES ASSUME NEW j \in 1..6, NEW k \in 1..6, j < k, NEW a \in u[j], NEW b \in u[k]
                PROVE  a < b
    BY Zenon DEF Sorted, Below
  <2>0. \A l, m \in 1..6 : l < m => \A v \in st[l], w \in st[m] : v < w
    BY Zenon DEF Orderly, Sorted, Below
  <2>1. CASE k = i /\ b = x
    <3>1. j # i /\ j # i + 1 /\ j < i + 1 /\ i + 1 \in 1..6
      BY <2>1
    <3>. QED BY Zenon, <2>0, <2>1, <3>1
  <2>2. CASE j = i /\ a = x
    <3>1. CASE k = i + 1
      BY Zenon, <2>2, <3>1 DEF Below
    <3>2. CASE k # i + 1
      <4>1. k # i /\ i + 1 < k /\ i + 1 \in 1..6
        BY <2>2, <3>2
      <4>. QED BY Zenon, <2>0, <2>2, <3>2, <4>1
    <3>. QED BY Zenon, <3>1, <3>2
  <2>3. CASE ~(k = i /\ b = x) /\ ~(j = i /\ a = x)
    <3>1. a \in st[j] /\ b \in st[k]
      BY Zenon, <1>1, <2>3
    <3>. QED BY Zenon, <2>0, <3>1
  <2>. QED BY Zenon, <2>1, <2>2, <2>3
<1>4. u[1] \subseteq Q
  <2>1. u[1] \subseteq st[1] \cup (IF 1 = i THEN {x} ELSE {})
    BY <1>1
  <2>2. st[1] \subseteq P
    BY Zenon DEF Orderly
  <2>. QED BY Zenon, <2>1, <2>2
<1>5. \A h \in W : h < e
  <2>1. \A h \in W : h < d
    BY Zenon DEF Orderly
  <2>. QED BY <2>1
<1>. QED
  BY Zenon, <1>2, <1>3, <1>4, <1>5 DEF Orderly

\* The first stages are cut off, or nothing changes but what is placed.
LEMMA OrderlyDrop ==
  ASSUME NEW on, NEW off, NEW st \in Pipeline, NEW u \in Pipeline, NEW W \in SUBSET Nat, NEW P, NEW Q,
         NEW d \in Nat, NEW e \in Nat, Orderly(st, W, P, d, on), P \subseteq Q, d <= e,
         \A j \in 1..6 : u[j] \subseteq st[j],
         off => on /\ u = st,
         \A x \in All(u), y \in All(st) : y \in All(u) \/ x < y
  PROVE  Orderly(u, W, Q, e, off)
<1>1. All(u) \subseteq All(st)
  BY Zenon DEF All
<1>2. Sorted(u)
  BY Zenon DEF Orderly, Sorted, Below
<1>3. u[1] \subseteq Q
  <2>1. 1 \in 1..6
    OBVIOUS
  <2>. QED BY Zenon, <2>1 DEF Orderly
<1>4. \A h \in W : h < e
  <2>1. \A h \in W : h < d
    BY Zenon DEF Orderly
  <2>. QED BY <2>1
<1>5. All(u) \subseteq W
  BY Zenon, <1>1 DEF Orderly
<1>6. ASSUME NEW h \in W, NEW x \in All(u), h <= x PROVE h \in Q \/ h \in All(u)
  <2>1. h \in P \/ h \in All(st)
    BY Zenon, <1>1, <1>6 DEF Orderly
  <2>0. x \in Nat /\ h \in Nat
    BY Zenon, <1>5
  <2>2. ~(x < h)
    BY <2>0, <1>6
  <2>. QED BY Zenon, <2>1, <2>2
<1>7. off => W \subseteq Q \cup All(u)
  BY Zenon DEF Orderly
<1>. QED
  BY Zenon, <1>2, <1>3, <1>4, <1>5, <1>6, <1>7 DEF Orderly

\* A read request is sent, to a peer that reads it or does not.
LEMMA OrderlyPush ==
  ASSUME NEW on, NEW st \in Pipeline, NEW u \in Pipeline, NEW W \in SUBSET Nat, NEW P,
         NEW d \in Nat, NEW e \in Nat, Orderly(st, W, P, d, on), d < e,
         u[6] = IF on THEN st[6] \cup {d} ELSE st[6], \A j \in 1..5 : u[j] = st[j]
  PROVE  Orderly(u, W \cup {d}, P, e, on)
<1>0. All(st) \subseteq W /\ \A h \in W : h < d
  BY Zenon DEF Orderly
<1>a. \A x \in All(st) : x < d
  BY Zenon, <1>0
<1>b. on => W \subseteq P \cup All(st)
  BY Zenon DEF Orderly
<1>1. \A j \in 1..6 : st[j] \subseteq u[j] /\ (u[j] = st[j] \/ (j = 6 /\ on /\ u[j] = st[j] \cup {d}))
  <2>1. \A j \in 1..6 : j \in 1..5 \/ j = 6
    OBVIOUS
  <2>. QED BY Zenon, <2>1
<1>2. (\A y \in All(u) : y \in All(st) \/ (on /\ y = d)) /\ All(st) \subseteq All(u)
  BY <1>1 DEF All
<1>3. Sorted(u)
  <2>. SUFFICES ASSUME NEW j \in 1..6, NEW k \in 1..6, j < k, NEW a \in u[j], NEW b \in u[k]
                PROVE  a < b
    BY Zenon DEF Sorted, Below
  <2>1. a \in st[j]
    <3>1. j # 6
      OBVIOUS
    <3>. QED BY Zenon, <1>1, <3>1
  <2>2. CASE b \in st[k]
    BY Zenon, <2>1, <2>2 DEF Orderly, Sorted, Below
  <2>3. CASE b = d
    BY Zenon, <1>a, <2>1, <2>3 DEF All
  <2>4. b \in st[k] \/ b = d
    BY <1>1
  <2>. QED BY Zenon, <2>2, <2>3, <2>4
<1>4. u[1] \subseteq P
  <2>1. 1 \in 1..5
    OBVIOUS
  <2>. QED BY Zenon, <2>1 DEF Orderly
<1>5. \A h \in W \cup {d} : h < e
  <2>1. \A h \in W : h < d /\ h \in Nat
    BY Zenon, <1>0
  <2>. QED BY <2>1
<1>7. on => W \cup {d} \subseteq P \cup All(u)
  <2>1. on => d \in All(u)
    <3>1. 6 \in 1..6
      OBVIOUS
    <3>. QED BY Zenon, <3>1 DEF All
  <2>. QED BY Zenon, <1>2, <1>b, <2>1
<1>6. ASSUME NEW h \in W \cup {d}, NEW x \in All(u), h <= x PROVE h \in P \/ h \in All(u)
  <2>1. CASE x = d
    <3>1. CASE h = d
      BY Zenon, <2>1, <3>1
    <3>2. CASE h # d /\ on
      BY Zenon, <1>2, <1>b, <3>2
    <3>3. CASE ~on
      <4>1. d \in All(st)
        BY Zenon, <1>2, <2>1, <3>3
      <4>2. d < d
        BY Zenon, <1>a, <4>1
      <4>. QED BY <4>2
    <3>. QED BY Zenon, <3>1, <3>2, <3>3
  <2>2. CASE x \in All(st)
    <3>0. x \in Nat /\ x < d
      BY Zenon, <1>0, <1>a, <2>2
    <3>1. h # d
      BY <1>6, <3>0
    <3>. QED BY Zenon, <1>2, <1>6, <2>2, <3>1 DEF Orderly
  <2>. QED BY Zenon, <1>2, <2>1, <2>2
<1>. QED
  BY Zenon, <1>0, <1>2, <1>3, <1>4, <1>5, <1>6, <1>7 DEF Orderly

\* Nothing moves.
LEMMA OrderlyFrame ==
  ASSUME NEW on, NEW off, NEW st, NEW W \in SUBSET Nat, NEW P, NEW Q,
         NEW d \in Nat, NEW e \in Nat, Orderly(st, W, P, d, on), P \subseteq Q, d <= e, off => on
  PROVE  Orderly(st, W, Q, e, off)
<1>1. \A h \in W : h < e
  <2>1. \A h \in W : h < d
    BY Zenon DEF Orderly
  <2>. QED BY <2>1
<1>. QED
  BY Zenon, <1>1 DEF Orderly

\* The response handled is of the oldest read that waits.
LEMMA OrderlyPop ==
  ASSUME NEW on, NEW st \in Pipeline, NEW u \in Pipeline, NEW W \in SUBSET Nat, NEW P,
         NEW d \in Nat, Orderly(st, W, P, d, on), NEW x, st[1] = {x}, u[1] = {},
         \A j \in 1..6 : j # 1 => u[j] = st[j]
  PROVE  /\ Orderly(u, W, P, d, on)
         /\ \A V, h : W = V \cup {h} /\ Below({h}, V) => h \in P /\ Orderly(u, V, P, d, on)
<1>0. 1 \in 1..6 /\ \A j \in 1..6 : j # 1 => 1 < j
  OBVIOUS
<1>1. x \in P /\ x \in All(st) /\ x \in W /\ x \in Nat
  <2>0. x \in st[1]
    BY Zenon
  <2>1. x \in P /\ x \in All(st)
    BY <1>0, <2>0 DEF Orderly, All
  <2>. QED BY Zenon, <2>1 DEF Orderly
<1>2. \A y \in All(u) : x < y /\ y \in All(st) /\ y \in W /\ y \in Nat
  <2>. SUFFICES ASSUME NEW y \in All(u) PROVE x < y /\ y \in All(st) /\ y \in W /\ y \in Nat
    BY Zenon
  <2>. PICK j \in 1..6 : y \in u[j]
    BY Zenon DEF All
  <2>1. j # 1 /\ y \in st[j]
    BY Zenon
  <2>2. x < y
    BY Zenon, <1>0, <2>1 DEF Orderly, Sorted, Below
  <2>3. y \in All(st)
    BY Zenon, <2>1 DEF All
  <2>. QED BY Zenon, <2>2, <2>3 DEF Orderly
<1>3. \A y \in All(st) : y = x \/ y \in All(u)
  <2>. SUFFICES ASSUME NEW j \in 1..6, NEW y \in st[j] PROVE y = x \/ y \in All(u)
    BY DEF All
  <2>1. CASE j = 1
    BY Zenon, <2>1
  <2>2. CASE j # 1
    <3>1. y \in u[j]
      BY Zenon, <2>2
    <3>. QED BY Zenon, <3>1 DEF All
  <2>. QED BY Zenon, <2>1, <2>2
<1>4. Sorted(u)
  <2>1. ASSUME NEW j \in 1..6, NEW k \in 1..6, j < k PROVE Below(u[j], u[k])
    <3>1. k # 1
      BY <2>1
    <3>2. j = 1 \/ u[j] = st[j]
      BY Zenon
    <3>3. Below(st[j], st[k])
      BY Zenon, <2>1 DEF Orderly, Sorted
    <3>. QED BY Zenon, <3>1, <3>2, <3>3 DEF Below
  <2>. QED BY Zenon, <2>1 DEF Sorted
<1>5. Orderly(u, W, P, d, on)
  <2>1. on => W \subseteq P \cup All(u)
    BY Zenon, <1>1, <1>3 DEF Orderly
  <2>2. \A h \in W, y \in All(u) : h <= y => h \in P \/ h \in All(u)
    BY Zenon, <1>1, <1>2, <1>3 DEF Orderly
  <2>3. \A h \in W : h < d
    BY Zenon DEF Orderly
  <2>. QED BY Zenon, <1>2, <1>4, <2>1, <2>2, <2>3 DEF Orderly
<1>6. ASSUME NEW V, NEW h, W = V \cup {h}, Below({h}, V)
      PROVE  h \in P /\ Orderly(u, V, P, d, on)
  <2>1. h \in Nat /\ h <= x
    <3>1. h \in Nat /\ (x = h \/ h < x)
      BY Zenon, <1>1, <1>6 DEF Below
    <3>. QED BY <1>1, <3>1
  <2>2. ASSUME NEW y \in All(u) PROVE y # h
    <3>1. x < y /\ y \in Nat
      BY Zenon, <1>2
    <3>. QED BY <1>1, <2>1, <3>1
  <2>3. h \in P
    <3>1. h \in P \/ h \in All(st)
      BY Zenon, <1>1, <1>6, <2>1 DEF Orderly
    <3>. QED BY Zenon, <1>1, <1>3, <2>2, <3>1
  <2>4. All(u) \subseteq V
    BY Zenon, <1>2, <1>6, <2>2
  <2>. QED BY Zenon, <1>5, <1>6, <2>3, <2>4 DEF Orderly
<1>. QED
  BY Zenon, <1>5, <1>6

-----------------------------------------------------------------------------
(* The stages in the two endpoints.                                        *)

\* The ids in a queue of messages and in a queue of requests or completions.
OfIds(s, op)     == {s[i].of : i \in {j \in DOMAIN s : s[j].op = op}}
Ascending(s, op) == \A i, j \in DOMAIN s : i < j /\ s[i].op = op /\ s[j].op = op => s[i].of < s[j].of
IdsUp(s)         == \A i, j \in DOMAIN s : i < j => s[i].id < s[j].id

\* A message sent joins the others of its kind, behind them ...
LEMMA OfIdsAppend ==
  ASSUME NEW s \in Seq(Message), NEW m \in Message, NEW o
  PROVE  /\ m.op # o => OfIds(Append(s, m), o) = OfIds(s, o)
         /\ m.op = o => OfIds(Append(s, m), o) = OfIds(s, o) \cup {m.of}
         /\ Ascending(s, o) /\ (m.op = o => Below(OfIds(s, o), {m.of})) => Ascending(Append(s, m), o)
<1>. PICK z : z = Append(s, m)
  BY Zenon
<1>1. /\ Len(s) \in Nat /\ DOMAIN s = 1..Len(s) /\ DOMAIN z = 1..(Len(s) + 1)
      /\ \A i \in 1..Len(s) : z[i] = s[i]
      /\ z[Len(s) + 1] = m
  OBVIOUS
<1>2. \A i \in DOMAIN z : (i \in DOMAIN s /\ z[i] = s[i]) \/ (i = Len(s) + 1 /\ z[i] = m)
  BY <1>1
<1>3. DOMAIN s \subseteq DOMAIN z /\ Len(s) + 1 \in DOMAIN z
  BY <1>1
<1>4. OfIds(z, o) = OfIds(s, o) \cup (IF m.op = o THEN {m.of} ELSE {})
  <2>1. ASSUME NEW y \in OfIds(z, o) PROVE y \in OfIds(s, o) \/ (m.op = o /\ y = m.of)
    BY Zenon, <1>2 DEF OfIds
  <2>2. OfIds(s, o) \subseteq OfIds(z, o)
    <3>1. \A i \in DOMAIN s : i \in DOMAIN z /\ z[i] = s[i]
      BY Zenon, <1>1, <1>3
    <3>. QED BY Zenon, <3>1 DEF OfIds
  <2>3. m.op = o => m.of \in OfIds(z, o)
    BY Zenon, <1>1, <1>3 DEF OfIds
  <2>. QED BY Zenon, <2>1, <2>2, <2>3
<1>5. ASSUME Ascending(s, o), m.op = o => Below(OfIds(s, o), {m.of}) PROVE Ascending(z, o)
  <2>. SUFFICES ASSUME NEW i \in DOMAIN z, NEW j \in DOMAIN z, i < j, z[i].op = o, z[j].op = o
                PROVE  z[i].of < z[j].of
    BY Zenon DEF Ascending
  <2>1. i \in DOMAIN s /\ z[i] = s[i]
    BY <1>1, <1>2
  <2>2. CASE j \in DOMAIN s /\ z[j] = s[j]
    BY Zenon, <1>5, <2>1, <2>2 DEF Ascending
  <2>3. CASE z[j] = m
    <3>1. s[i].of \in OfIds(s, o)
      BY Zenon, <2>1 DEF OfIds
    <3>. QED BY Zenon, <1>5, <2>1, <2>3, <3>1 DEF Below
  <2>. QED BY Zenon, <1>2, <2>2, <2>3
<1>. QED
  BY Zenon, <1>4, <1>5

\* ... and a message received was the first of its kind.
LEMMA OfIdsTail ==
  ASSUME NEW s \in Seq(Message), s # <<>>, NEW o
  PROVE  /\ Head(s).op # o => OfIds(Tail(s), o) = OfIds(s, o)
         /\ Head(s).op = o => OfIds(s, o) = OfIds(Tail(s), o) \cup {Head(s).of}
         /\ Ascending(s, o) => /\ Ascending(Tail(s), o)
                               /\ Head(s).op = o => Below({Head(s).of}, OfIds(Tail(s), o))
<1>. PICK z : z = Tail(s)
  BY Zenon
<1>1. /\ Len(s) \in Nat \ {0} /\ DOMAIN s = 1..Len(s) /\ DOMAIN z = 1..(Len(s) - 1)
      /\ \A i \in 1..(Len(s) - 1) : z[i] = s[i + 1]
      /\ Head(s) = s[1]
  OBVIOUS
<1>2. /\ \A i \in DOMAIN z : \E k \in DOMAIN s : z[i] = s[k] /\ 1 < k
      /\ \A i, j \in DOMAIN z : i < j => \E k, l \in DOMAIN s : k < l /\ z[i] = s[k] /\ z[j] = s[l]
  <2>1. \A i \in DOMAIN z : i + 1 \in DOMAIN s /\ z[i] = s[i + 1] /\ 1 < i + 1
    BY <1>1
  <2>2. \A i, j \in DOMAIN z : i < j => i + 1 < j + 1
    BY <1>1
  <2>. QED BY Zenon, <2>1, <2>2
<1>3. \A i \in DOMAIN s : i # 1 => \E k \in DOMAIN z : s[i] = z[k]
  <2>1. \A i \in DOMAIN s : i # 1 => i - 1 \in DOMAIN z /\ s[i] = z[i - 1]
    BY <1>1
  <2>. QED BY Zenon, <2>1
<1>4. 1 \in DOMAIN s
  BY <1>1
<1>5. OfIds(s, o) = OfIds(z, o) \cup (IF Head(s).op = o THEN {Head(s).of} ELSE {})
  <2>1. ASSUME NEW y \in OfIds(s, o) PROVE y \in OfIds(z, o) \/ (Head(s).op = o /\ y = Head(s).of)
    BY <1>1, <1>3 DEF OfIds
  <2>2. OfIds(z, o) \subseteq OfIds(s, o)
    BY <1>2 DEF OfIds
  <2>3. Head(s).op = o => Head(s).of \in OfIds(s, o)
    BY Zenon, <1>1, <1>4 DEF OfIds
  <2>. QED BY Zenon, <2>1, <2>2, <2>3
<1>6. ASSUME Ascending(s, o) PROVE Ascending(z, o)
  BY <1>2, <1>6 DEF Ascending
<1>7. ASSUME Ascending(s, o), Head(s).op = o PROVE Below({Head(s).of}, OfIds(z, o))
  <2>. SUFFICES ASSUME NEW i \in DOMAIN z, z[i].op = o PROVE Head(s).of < z[i].of
    BY Zenon DEF OfIds, Below
  <2>. QED BY <1>1, <1>2, <1>4, <1>7 DEF Ascending
<1>. QED
  BY Zenon, <1>5, <1>6, <1>7

\* The last messages are cut off.
LEMMA OfIdsPrefix ==
  ASSUME NEW s \in Seq(Message), NEW k \in 0..Len(s), NEW o, Ascending(s, o)
  PROVE  /\ Ascending(SubSeq(s, 1, k), o) /\ OfIds(SubSeq(s, 1, k), o) \subseteq OfIds(s, o)
         /\ \A x \in OfIds(SubSeq(s, 1, k), o), y \in OfIds(s, o) :
              y \in OfIds(SubSeq(s, 1, k), o) \/ x < y
<1>. PICK z : z = SubSeq(s, 1, k)
  BY Zenon
<1>1. /\ Len(s) \in Nat /\ DOMAIN s = 1..Len(s) /\ DOMAIN z = 1..k /\ 1..k \subseteq 1..Len(s)
      /\ \A i \in 1..k : z[i] = s[i]
  OBVIOUS
<1>2. \A i \in DOMAIN z : i \in DOMAIN s /\ z[i] = s[i]
  BY Zenon, <1>1
<1>3. Ascending(z, o) /\ OfIds(z, o) \subseteq OfIds(s, o)
  BY ZenonT(30), <1>2 DEF Ascending, OfIds
<1>4. ASSUME NEW x \in OfIds(z, o), NEW y \in OfIds(s, o), y \notin OfIds(z, o) PROVE x < y
  <2>1. PICK i \in DOMAIN z : z[i].op = o /\ x = z[i].of
    BY Zenon DEF OfIds
  <2>2. PICK j \in DOMAIN s : s[j].op = o /\ y = s[j].of
    BY Zenon DEF OfIds
  <2>3. j \notin DOMAIN z
    BY Zenon, <1>2, <1>4, <2>2 DEF OfIds
  <2>4. i < j
    BY <1>1, <2>3
  <2>. QED BY Zenon, <1>2, <2>1, <2>2, <2>4 DEF Ascending
<1>. QED
  BY Zenon, <1>3, <1>4

\* The same of a queue of work requests or completions that is extended ...
LEMMA IdsAppend ==
  ASSUME NEW S, NEW s \in Seq(S), NEW w \in S
  PROVE  /\ Ids(Append(s, w)) = Ids(s) \cup {w.id}
         /\ IdsUp(s) /\ Below(Ids(s), {w.id}) => IdsUp(Append(s, w))
<1>. PICK z : z = Append(s, w)
  BY Zenon
<1>1. /\ Len(s) \in Nat /\ DOMAIN s = 1..Len(s) /\ DOMAIN z = 1..(Len(s) + 1)
      /\ \A i \in 1..Len(s) : z[i] = s[i]
      /\ z[Len(s) + 1] = w
  OBVIOUS
<1>2. \A i \in DOMAIN z : (i \in DOMAIN s /\ z[i] = s[i]) \/ (i = Len(s) + 1 /\ z[i] = w)
  BY <1>1
<1>3. \A i \in DOMAIN s : i \in DOMAIN z /\ z[i] = s[i]
  BY <1>1
<1>4. Len(s) + 1 \in DOMAIN z
  BY <1>1
<1>5. Ids(z) = Ids(s) \cup {w.id}
  BY Zenon, <1>1, <1>2, <1>3, <1>4 DEF Ids
<1>6. ASSUME IdsUp(s), Below(Ids(s), {w.id}) PROVE IdsUp(z)
  <2>. SUFFICES ASSUME NEW i \in DOMAIN z, NEW j \in DOMAIN z, i < j PROVE z[i].id < z[j].id
    BY Zenon DEF IdsUp
  <2>1. i \in DOMAIN s /\ z[i] = s[i]
    BY <1>1, <1>2
  <2>2. CASE j \in DOMAIN s /\ z[j] = s[j]
    BY Zenon, <1>6, <2>1, <2>2 DEF IdsUp
  <2>3. CASE z[j] = w
    BY Zenon, <1>6, <2>1, <2>3 DEF Ids, Below
  <2>. QED BY Zenon, <1>2, <2>2, <2>3
<1>. QED
  BY Zenon, <1>5, <1>6

\* ... and shifted.
LEMMA IdsTail ==
  ASSUME NEW S, NEW s \in Seq(S), s # <<>>, IdsUp(s)
  PROVE  /\ Ids(s) = Ids(Tail(s)) \cup {Head(s).id}
         /\ IdsUp(Tail(s)) /\ Below({Head(s).id}, Ids(Tail(s)))
<1>. PICK z : z = Tail(s)
  BY Zenon
<1>1. /\ Len(s) \in Nat \ {0} /\ DOMAIN s = 1..Len(s) /\ DOMAIN z = 1..(Len(s) - 1)
      /\ \A i \in 1..(Len(s) - 1) : z[i] = s[i + 1]
      /\ Head(s) = s[1]
  OBVIOUS
<1>2. /\ \A i \in DOMAIN z : \E k \in DOMAIN s : z[i] = s[k] /\ 1 < k
      /\ \A i, j \in DOMAIN z : i < j => \E k, l \in DOMAIN s : k < l /\ z[i] = s[k] /\ z[j] = s[l]
  <2>1. \A i \in DOMAIN z : i + 1 \in DOMAIN s /\ z[i] = s[i + 1] /\ 1 < i + 1
    BY <1>1
  <2>2. \A i, j \in DOMAIN z : i < j => i + 1 < j + 1
    BY <1>1
  <2>. QED BY Zenon, <2>1, <2>2
<1>3. \A i \in DOMAIN s : i # 1 => \E k \in DOMAIN z : s[i] = z[k]
  <2>1. \A i \in DOMAIN s : i # 1 => i - 1 \in DOMAIN z /\ s[i] = z[i - 1]
    BY <1>1
  <2>. QED BY Zenon, <2>1
<1>4. 1 \in DOMAIN s
  BY <1>1
<1>5. Ids(s) = Ids(z) \cup {Head(s).id}
  <2>1. ASSUME NEW y \in Ids(s) PROVE y \in Ids(z) \/ y = Head(s).id
    BY <1>1, <1>3 DEF Ids
  <2>2. Ids(z) \subseteq Ids(s)
    BY <1>2 DEF Ids
  <2>3. Head(s).id \in Ids(s)
    BY Zenon, <1>1, <1>4 DEF Ids
  <2>. QED BY Zenon, <2>1, <2>2, <2>3
<1>6. IdsUp(z)
  BY <1>2 DEF IdsUp
<1>7. Below({Head(s).id}, Ids(z))
  <2>. SUFFICES ASSUME NEW i \in DOMAIN z PROVE Head(s).id < z[i].id
    BY Zenon DEF Ids, Below
  <2>. QED BY Zenon, <1>1, <1>2, <1>4 DEF IdsUp
<1>. QED
  BY Zenon, <1>5, <1>6, <1>7

\* A read is at one of six stages.
SixStages(a, b, c, d, e, f) ==
  [i \in 1..6 |-> IF i = 1 THEN a ELSE IF i = 2 THEN b ELSE IF i = 3 THEN c
                  ELSE IF i = 4 THEN d ELSE IF i = 5 THEN e ELSE f]

\* The six stages, one by one ...
LEMMA SixParts ==
  ASSUME NEW a, NEW b, NEW c, NEW d, NEW e, NEW f
  PROVE  /\ SixStages(a, b, c, d, e, f)[1] = a /\ SixStages(a, b, c, d, e, f)[2] = b
         /\ SixStages(a, b, c, d, e, f)[3] = c /\ SixStages(a, b, c, d, e, f)[4] = d
         /\ SixStages(a, b, c, d, e, f)[5] = e /\ SixStages(a, b, c, d, e, f)[6] = f
BY DEF SixStages

\* ... their type ...
LEMMA SixIn ==
  ASSUME NEW S, NEW a \in S, NEW b \in S, NEW c \in S, NEW d \in S, NEW e \in S, NEW f \in S
  PROVE  SixStages(a, b, c, d, e, f) \in [1..6 -> S]
BY Zenon DEF SixStages

\* ... and the type of their ids.
LEMMA SixType ==
  ASSUME NEW a \in SUBSET Nat, NEW b \in SUBSET Nat, NEW c \in SUBSET Nat,
         NEW d \in SUBSET Nat, NEW e \in SUBSET Nat, NEW f \in SUBSET Nat
  PROVE  SixStages(a, b, c, d, e, f) \in Pipeline
BY Zenon, SixIn DEF Pipeline

\* A read moves from stage i + 1, where it is the first, to stage i.
Moves(st, u, i, x) ==
  /\ st \in Pipeline /\ u \in Pipeline /\ i \in 1..5 /\ x \in st[i + 1] /\ Below({x}, u[i + 1])
  /\ st[i + 1] = u[i + 1] \cup {x} /\ u[i] = st[i] \cup {x}
  /\ \A j \in 1..6 : j # i /\ j # i + 1 => u[j] = st[j]
Same(st, u, J) == \A j \in J : u[j] = st[j]

\* An id that leaves one of the stages and joins the next moves.
LEMMA PartsMove ==
  ASSUME NEW st \in Pipeline, NEW u \in Pipeline, NEW x
  PROVE  /\ (st[2] = u[2] \cup {x} /\ Below({x}, u[2]) /\ u[1] = st[1] \cup {x} /\ Same(st, u, {3, 4, 5, 6}))
              => Moves(st, u, 1, x)
         /\ (st[3] = u[3] \cup {x} /\ Below({x}, u[3]) /\ u[2] = st[2] \cup {x} /\ Same(st, u, {1, 4, 5, 6}))
              => Moves(st, u, 2, x)
         /\ (st[4] = u[4] \cup {x} /\ Below({x}, u[4]) /\ u[3] = st[3] \cup {x} /\ Same(st, u, {1, 2, 5, 6}))
              => Moves(st, u, 3, x)
         /\ (st[5] = u[5] \cup {x} /\ Below({x}, u[5]) /\ u[4] = st[4] \cup {x} /\ Same(st, u, {1, 2, 3, 6}))
              => Moves(st, u, 4, x)
         /\ (st[6] = u[6] \cup {x} /\ Below({x}, u[6]) /\ u[5] = st[5] \cup {x} /\ Same(st, u, {1, 2, 3, 4}))
              => Moves(st, u, 5, x)
<1>a. /\ 1 \in 1..5 /\ 2 \in 1..5 /\ 3 \in 1..5 /\ 4 \in 1..5 /\ 5 \in 1..5
      /\ 1 + 1 = 2 /\ 2 + 1 = 3 /\ 3 + 1 = 4 /\ 4 + 1 = 5 /\ 5 + 1 = 6
  OBVIOUS
<1>1. ASSUME st[2] = u[2] \cup {x}, Below({x}, u[2]), u[1] = st[1] \cup {x}, Same(st, u, {3, 4, 5, 6})
      PROVE  Moves(st, u, 1, x)
  <2>1. \A j \in 1..6 : j # 1 /\ j # 2 => j \in {3, 4, 5, 6}
    OBVIOUS
  <2>2. \A j \in 1..6 : j # 1 /\ j # 2 => u[j] = st[j]
    BY Zenon, <1>1, <2>1 DEF Same
  <2>3. x \in st[2]
    BY Zenon, <1>1
  <2>. QED BY Zenon, <1>1, <1>a, <2>2, <2>3 DEF Moves
<1>2. ASSUME st[3] = u[3] \cup {x}, Below({x}, u[3]), u[2] = st[2] \cup {x}, Same(st, u, {1, 4, 5, 6})
      PROVE  Moves(st, u, 2, x)
  <2>1. \A j \in 1..6 : j # 2 /\ j # 3 => j \in {1, 4, 5, 6}
    OBVIOUS
  <2>2. \A j \in 1..6 : j # 2 /\ j # 3 => u[j] = st[j]
    BY Zenon, <1>2, <2>1 DEF Same
  <2>3. x \in st[3]
    BY Zenon, <1>2
  <2>. QED BY Zenon, <1>2, <1>a, <2>2, <2>3 DEF Moves
<1>3. ASSUME st[4] = u[4] \cup {x}, Below({x}, u[4]), u[3] = st[3] \cup {x}, Same(st, u, {1, 2, 5, 6})
      PROVE  Moves(st, u, 3, x)
  <2>1. \A j \in 1..6 : j # 3 /\ j # 4 => j \in {1, 2, 5, 6}
    OBVIOUS
  <2>2. \A j \in 1..6 : j # 3 /\ j # 4 => u[j] = st[j]
    BY Zenon, <1>3, <2>1 DEF Same
  <2>3. x \in st[4]
    BY Zenon, <1>3
  <2>. QED BY Zenon, <1>3, <1>a, <2>2, <2>3 DEF Moves
<1>4. ASSUME st[5] = u[5] \cup {x}, Below({x}, u[5]), u[4] = st[4] \cup {x}, Same(st, u, {1, 2, 3, 6})
      PROVE  Moves(st, u, 4, x)
  <2>1. \A j \in 1..6 : j # 4 /\ j # 5 => j \in {1, 2, 3, 6}
    OBVIOUS
  <2>2. \A j \in 1..6 : j # 4 /\ j # 5 => u[j] = st[j]
    BY Zenon, <1>4, <2>1 DEF Same
  <2>3. x \in st[5]
    BY Zenon, <1>4
  <2>. QED BY Zenon, <1>4, <1>a, <2>2, <2>3 DEF Moves
<1>5. ASSUME st[6] = u[6] \cup {x}, Below({x}, u[6]), u[5] = st[5] \cup {x}, Same(st, u, {1, 2, 3, 4})
      PROVE  Moves(st, u, 5, x)
  <2>1. \A j \in 1..6 : j # 5 /\ j # 6 => j \in {1, 2, 3, 4}
    OBVIOUS
  <2>2. \A j \in 1..6 : j # 5 /\ j # 6 => u[j] = st[j]
    BY Zenon, <1>5, <2>1 DEF Same
  <2>3. x \in st[6]
    BY Zenon, <1>5
  <2>. QED BY Zenon, <1>5, <1>a, <2>2, <2>3 DEF Moves
<1>. QED
  BY ZenonT(30), <1>1, <1>2, <1>3, <1>4, <1>5

\* A move keeps the reads orderly, and the last one is into the data placed.
LEMMA OrderlyMoves ==
  ASSUME NEW on, NEW st, NEW u, NEW i, NEW x, Moves(st, u, i, x), NEW W \in SUBSET Nat, NEW P,
         NEW Q, NEW d \in Nat, Orderly(st, W, P, d, on), P \subseteq Q, i = 1 => x \in Q
  PROVE  Orderly(u, W, Q, d, on)
<1>1. d <= d
  OBVIOUS
<1>. QED
  BY Zenon, <1>1, OrderlyMove DEF Moves

\* The peer stops answering; the connection breaks.
LEMMA PartsCut ==
  ASSUME NEW st \in Pipeline, NEW u \in Pipeline, NEW W \in SUBSET Nat, NEW P, NEW Q,
         NEW k \in Nat, NEW on, P \subseteq Q, Orderly(st, W, P, k, on)
  PROVE  /\ Same(st, u, {1, 2, 3, 4, 5}) /\ u[6] = {} => Orderly(u, W, Q, k, FALSE)
         /\ (/\ u[1] = st[1] /\ u[2] \subseteq st[2] /\ u[3] = {} /\ u[4] = {} /\ u[5] = {} /\ u[6] = {}
             /\ \A x \in u[2], y \in st[2] : y \in u[2] \/ x < y) => Orderly(u, W, Q, k, FALSE)
<1>0. k <= k /\ \A j \in 1..6 : j = 1 \/ j = 2 \/ j = 3 \/ j = 4 \/ j = 5 \/ j = 6
  OBVIOUS
<1>1. \A i, j \in 1..6 : i < j => \A x \in st[i], y \in st[j] : x < y
  BY Zenon DEF Orderly, Sorted, Below
<1>2. ASSUME Same(st, u, {1, 2, 3, 4, 5}), u[6] = {} PROVE Orderly(u, W, Q, k, FALSE)
  <2>0. \A j \in 1..6 : j = 6 \/ (j < 6 /\ j \in {1, 2, 3, 4, 5})
    OBVIOUS
  <2>1. \A j \in 1..6 : (j = 6 /\ u[j] = {}) \/ (j < 6 /\ u[j] = st[j])
    BY Zenon, <1>2, <2>0 DEF Same
  <2>2. \A j \in 1..6 : u[j] \subseteq st[j]
    BY Zenon, <2>1
  <2>3. ASSUME NEW x \in All(u), NEW y \in All(st), y \notin All(u) PROVE x < y
    <3>1. PICK i \in 1..6 : x \in u[i]
      BY Zenon DEF All
    <3>2. PICK j \in 1..6 : y \in st[j]
      BY Zenon DEF All
    <3>3. y \notin u[j]
      BY Zenon, <2>3, <3>2 DEF All
    <3>4. j = 6 /\ i < 6 /\ x \in st[i]
      BY Zenon, <2>1, <3>1, <3>2, <3>3
    <3>. QED BY Zenon, <1>1, <3>2, <3>4
  <2>. QED BY Zenon, <1>0, <2>2, <2>3, OrderlyDrop
<1>3. ASSUME u[1] = st[1], u[2] \subseteq st[2], u[3] = {}, u[4] = {}, u[5] = {}, u[6] = {},
             \A x \in u[2], y \in st[2] : y \in u[2] \/ x < y
      PROVE  Orderly(u, W, Q, k, FALSE)
  <2>0. 2 < 3 /\ 2 < 4 /\ 2 < 5 /\ 2 < 6
    OBVIOUS
  <2>1. \A j \in 1..6 : j = 1 \/ j = 2 \/ (2 < j /\ u[j] = {})
    BY Zenon, <1>0, <1>3, <2>0
  <2>2. \A j \in 1..6 : u[j] \subseteq st[j]
    BY Zenon, <1>3, <2>1
  <2>3. ASSUME NEW x \in All(u), NEW y \in All(st), y \notin All(u) PROVE x < y
    <3>1. PICK i \in 1..6 : x \in u[i]
      BY Zenon DEF All
    <3>2. PICK j \in 1..6 : y \in st[j]
      BY Zenon DEF All
    <3>3. y \notin u[j]
      BY Zenon, <2>3, <3>2 DEF All
    <3>4. (i = 1 \/ i = 2) /\ x \in st[i] /\ j # 1
      BY Zenon, <1>3, <2>1, <2>2, <3>1, <3>2, <3>3
    <3>5. CASE i = 2 /\ j = 2
      BY Zenon, <1>3, <3>1, <3>2, <3>3, <3>5
    <3>6. CASE ~(i = 2 /\ j = 2)
      <4>1. i < j
        BY <3>4, <3>6
      <4>. QED BY Zenon, <1>1, <3>2, <3>4, <4>1
    <3>. QED BY Zenon, <3>5, <3>6
  <2>. QED BY Zenon, <1>0, <2>2, <2>3, OrderlyDrop
<1>. QED
  BY Zenon, <1>2, <1>3

\* A request is sent; a response is handled.
LEMMA PartsEnds ==
  ASSUME NEW st \in Pipeline, NEW u \in Pipeline, NEW W \in SUBSET Nat, NEW P,
         NEW k \in Nat, NEW on, Orderly(st, W, P, k, on)
  PROVE  /\ Same(st, u, {1, 2, 3, 4, 5}) /\ u[6] = (IF on THEN st[6] \cup {k} ELSE st[6]) =>
              Orderly(u, W \cup {k}, P, k + 1, on)
         /\ \A x : Same(st, u, {2, 3, 4, 5, 6}) /\ st[1] = {x} /\ u[1] = {} =>
              /\ Orderly(u, W, P, k, on)
              /\ \A V, h : W = V \cup {h} /\ Below({h}, V) => h \in P /\ Orderly(u, V, P, k, on)
<1>1. /\ \A j \in 1..5 : j \in {1, 2, 3, 4, 5}
      /\ \A j \in 1..6 : j # 1 => j \in {2, 3, 4, 5, 6}
      /\ k + 1 \in Nat /\ k < k + 1
  OBVIOUS
<1>2. ASSUME Same(st, u, {1, 2, 3, 4, 5}), u[6] = IF on THEN st[6] \cup {k} ELSE st[6]
      PROVE  Orderly(u, W \cup {k}, P, k + 1, on)
  <2>1. \A j \in 1..5 : u[j] = st[j]
    BY Zenon, <1>1, <1>2 DEF Same
  <2>. QED BY Zenon, <1>1, <1>2, <2>1, OrderlyPush
<1>3. ASSUME NEW x, Same(st, u, {2, 3, 4, 5, 6}), st[1] = {x}, u[1] = {}
      PROVE  /\ Orderly(u, W, P, k, on)
             /\ \A V, h : W = V \cup {h} /\ Below({h}, V) => h \in P /\ Orderly(u, V, P, k, on)
  <2>1. \A j \in 1..6 : j # 1 => u[j] = st[j]
    BY Zenon, <1>1, <1>3 DEF Same
  <2>. QED BY Zenon, <1>3, <2>1, OrderlyPop
<1>. QED
  BY Zenon, <1>2, <1>3

\* The reads of n at each stage: in the hands of rnic_recv of n, on the way
\* back; at the peer, in the hands of rnic_send, in the send queue, in the hands
\* of rnic_recv; on the way to the peer.  Behind a broken connection, and
\* behind a peer that receives no more, a read is not answered.
Only(c, S)   == IF c THEN S ELSE {}
Handling(n)  == Only(rpc[n] = "handle" /\ rmsg[n].op = "READ_RESP", {rmsg[n].of})
Returning(n) == OfIds(net[n], "READ_RESP")
Answering(p) == Only(up /\ spc[p] = "send" /\ sreq[p].op = "READ_RESP", {sreq[p].id})
ToAnswer(p)  == Only(up, Ids(sqRecv[p]))
Asked(p)     == Only(up /\ rpc[p] = "handle" /\ rmsg[p].op = "READ_REQ", {rmsg[p].of})
Asking(p)    == Only(up /\ Live(p), OfIds(net[p], "READ_REQ"))
Stages(n)    == SixStages(Handling(n), Returning(n), Answering(Peer(n)), ToAnswer(Peer(n)),
                          Asked(Peer(n)), Asking(Peer(n)))
Waiting(n)   == Ids(pendq[n]) \cup Only(spc[n] = "complete" /\ ToPending(n), {sreq[n].id})
Back(n)      == {i \in Nat : <<n, i>> \in placed}
Answered(n)  == up /\ Live(Peer(n))

\* The queues are in order, the reads pass the stages in order.
Lines(n) == /\ IdsUp(pendq[n]) /\ Ascending(net[n], "READ_RESP")
            /\ up => IdsUp(sqRecv[Peer(n)])
            /\ Answered(n) => Ascending(net[Peer(n)], "READ_REQ")
Flow(n)  == Orderly(Stages(n), Waiting(n), Back(n), Due(n), Answered(n))
Reads(n) == Live(n) => Lines(n) /\ Flow(n)

\* A stage that holds one id, when a thread has it in hand, or none.
LEMMA OnlyType ==
  ASSUME NEW c, NEW T \in SUBSET Nat
  PROVE  Only(c, T) \in SUBSET Nat
BY Zenon DEF Only

\* The ids are numbers.
LEMMA IdsType ==
  /\ \A s \in Seq(Message) : \A o : OfIds(s, o) \in SUBSET Nat
  /\ \A s \in Seq(SendWr) : Ids(s) \in SUBSET Nat
  /\ \A s \in Seq(Wc) : Ids(s) \in SUBSET Nat
<1>1. ASSUME NEW s \in Seq(Message), NEW i \in DOMAIN s PROVE s[i].of \in Nat
  <2>1. s[i] \in Message
    OBVIOUS
  <2>. QED BY Zenon, <2>1 DEF Message
<1>2. ASSUME NEW s \in Seq(SendWr), NEW i \in DOMAIN s PROVE s[i].id \in Nat
  <2>1. s[i] \in SendWr
    OBVIOUS
  <2>. QED BY Zenon, <2>1 DEF SendWr
<1>3. ASSUME NEW s \in Seq(Wc), NEW i \in DOMAIN s PROVE s[i].id \in Nat
  <2>1. s[i] \in Wc
    OBVIOUS
  <2>. QED BY Zenon, <2>1 DEF Wc
<1>. QED
  BY Zenon, <1>1, <1>2, <1>3 DEF OfIds, Ids

AllTyped == \A n \in Node : Stages(n) \in Pipeline /\ Waiting(n) \in SUBSET Nat

\* The stages of every endpoint have their type ...
LEMMA StagesTyped == TypeOK => AllTyped
<1>. SUFFICES ASSUME TypeOK, NEW n \in Node
              PROVE  Stages(n) \in Pipeline /\ Waiting(n) \in SUBSET Nat
  BY Zenon DEF AllTyped
<1>1. ASSUME NEW k \in Node
      PROVE  /\ {rmsg[k].of} \in SUBSET Nat /\ {sreq[k].id} \in SUBSET Nat
             /\ \A o : OfIds(net[k], o) \in SUBSET Nat
             /\ Ids(sqRecv[k]) \in SUBSET Nat /\ Ids(pendq[k]) \in SUBSET Nat
  <2>0. /\ rmsg[k] \in Message /\ sreq[k] \in SendWr /\ net[k] \in Seq(Message)
        /\ sqRecv[k] \in Seq(SendWr) /\ pendq[k] \in Seq(Wc)
    BY Zenon DEF TypeOK
  <2>1. rmsg[k].of \in Nat /\ sreq[k].id \in Nat
    BY Zenon, <2>0 DEF Message, SendWr
  <2>. QED BY Zenon, <2>0, <2>1, IdsType
<1>2. Peer(n) \in Node
  BY Zenon, PeerType
<1>3. /\ Handling(n) \in SUBSET Nat /\ Returning(n) \in SUBSET Nat
      /\ Answering(Peer(n)) \in SUBSET Nat /\ ToAnswer(Peer(n)) \in SUBSET Nat
      /\ Asked(Peer(n)) \in SUBSET Nat /\ Asking(Peer(n)) \in SUBSET Nat
  <2>1. Handling(n) \in SUBSET Nat
    BY Zenon, <1>1, OnlyType DEF Handling
  <2>2. Returning(n) \in SUBSET Nat
    BY Zenon, <1>1 DEF Returning
  <2>3. Answering(Peer(n)) \in SUBSET Nat
    BY Zenon, <1>1, <1>2, OnlyType DEF Answering
  <2>4. ToAnswer(Peer(n)) \in SUBSET Nat
    BY Zenon, <1>1, <1>2, OnlyType DEF ToAnswer
  <2>5. Asked(Peer(n)) \in SUBSET Nat
    BY Zenon, <1>1, <1>2, OnlyType DEF Asked
  <2>6. Asking(Peer(n)) \in SUBSET Nat
    BY Zenon, <1>1, <1>2, OnlyType DEF Asking
  <2>. QED BY Zenon, <2>1, <2>2, <2>3, <2>4, <2>5, <2>6
<1>4. Stages(n) \in Pipeline
  BY Zenon, <1>3, SixType DEF Stages
<1>5. Waiting(n) \in SUBSET Nat
  <2>1. Only(spc[n] = "complete" /\ ToPending(n), {sreq[n].id}) \in SUBSET Nat
    BY Zenon, <1>1, OnlyType
  <2>. QED BY Zenon, <1>1, <2>1 DEF Waiting
<1>. QED
  BY Zenon, <1>4, <1>5

\* ... after a step as well.
LEMMA StagesTypedNext == TypeOK' => AllTyped'
BY StagesTyped, PTL

AllParts == \A n \in Node :
  /\ Stages(n)[1] = Handling(n) /\ Stages(n)[2] = Returning(n)
  /\ Stages(n)[3] = Answering(Peer(n)) /\ Stages(n)[4] = ToAnswer(Peer(n))
  /\ Stages(n)[5] = Asked(Peer(n)) /\ Stages(n)[6] = Asking(Peer(n))

\* What is at each stage ...
LEMMA StagesParts == AllParts
<1>. SUFFICES ASSUME NEW n \in Node
              PROVE  /\ Stages(n)[1] = Handling(n) /\ Stages(n)[2] = Returning(n)
                     /\ Stages(n)[3] = Answering(Peer(n)) /\ Stages(n)[4] = ToAnswer(Peer(n))
                     /\ Stages(n)[5] = Asked(Peer(n)) /\ Stages(n)[6] = Asking(Peer(n))
  BY Zenon DEF AllParts
<1>. DEFINE S == SixStages(Handling(n), Returning(n), Answering(Peer(n)), ToAnswer(Peer(n)),
                           Asked(Peer(n)), Asking(Peer(n)))
<1>1. /\ S[1] = Handling(n) /\ S[2] = Returning(n)
      /\ S[3] = Answering(Peer(n)) /\ S[4] = ToAnswer(Peer(n))
      /\ S[5] = Asked(Peer(n)) /\ S[6] = Asking(Peer(n))
  BY SixParts
<1>. QED BY Zenon, <1>1 DEF Stages

\* ... and after a step.
LEMMA StagesPartsNext == AllParts'
BY StagesParts, PTL

\* The state of the stages, before and after a step, for the lemmas on Orderly.
LEMMA ReadsFacts ==
  ASSUME TypeOK, TypeOK', Accounts, NEW n \in Node
  PROVE  /\ Stages(n) \in Pipeline /\ Waiting(n) \in SUBSET Nat
         /\ Stages(n)' \in Pipeline /\ Waiting(n)' \in SUBSET Nat /\ Due(n) \in Nat
         /\ Stages(n)[1] = Handling(n) /\ Stages(n)'[1] = Handling(n)'
         /\ Stages(n)[2] = Returning(n) /\ Stages(n)'[2] = Returning(n)'
         /\ Stages(n)[3] = Answering(Peer(n)) /\ Stages(n)'[3] = Answering(Peer(n))'
         /\ Stages(n)[4] = ToAnswer(Peer(n)) /\ Stages(n)'[4] = ToAnswer(Peer(n))'
         /\ Stages(n)[5] = Asked(Peer(n)) /\ Stages(n)'[5] = Asked(Peer(n))'
         /\ Stages(n)[6] = Asking(Peer(n)) /\ Stages(n)'[6] = Asking(Peer(n))'
<1>1. Stages(n) \in Pipeline /\ Waiting(n) \in SUBSET Nat
  BY Zenon, StagesTyped DEF AllTyped
<1>2. Stages(n)' \in Pipeline /\ Waiting(n)' \in SUBSET Nat
  BY Zenon, StagesTypedNext DEF AllTyped
<1>3. /\ Stages(n)[1] = Handling(n) /\ Stages(n)[2] = Returning(n)
      /\ Stages(n)[3] = Answering(Peer(n)) /\ Stages(n)[4] = ToAnswer(Peer(n))
      /\ Stages(n)[5] = Asked(Peer(n)) /\ Stages(n)[6] = Asking(Peer(n))
  BY Zenon, StagesParts DEF AllParts
<1>4. /\ Stages(n)'[1] = Handling(n)' /\ Stages(n)'[2] = Returning(n)'
      /\ Stages(n)'[3] = Answering(Peer(n))' /\ Stages(n)'[4] = ToAnswer(Peer(n))'
      /\ Stages(n)'[5] = Asked(Peer(n))' /\ Stages(n)'[6] = Asking(Peer(n))'
  BY Zenon, StagesPartsNext DEF AllParts
<1>5. Due(n) \in Nat
  BY DueType
<1>. QED
  BY Zenon, <1>1, <1>2, <1>3, <1>4, <1>5

\* A stage is the same after a step that leaves its part of the state alone.
LEMMA StageKept ==
  ASSUME TypeOK, TypeOK', Accounts, NEW n \in Node
  PROVE  /\ Handling(n)' = Handling(n) => Stages(n)'[1] = Stages(n)[1]
         /\ Returning(n)' = Returning(n) => Stages(n)'[2] = Stages(n)[2]
         /\ Answering(Peer(n))' = Answering(Peer(n)) => Stages(n)'[3] = Stages(n)[3]
         /\ ToAnswer(Peer(n))' = ToAnswer(Peer(n)) => Stages(n)'[4] = Stages(n)[4]
         /\ Asked(Peer(n))' = Asked(Peer(n)) => Stages(n)'[5] = Stages(n)[5]
         /\ Asking(Peer(n))' = Asking(Peer(n)) => Stages(n)'[6] = Stages(n)[6]
<1>1. Handling(n)' = Handling(n) => Stages(n)'[1] = Stages(n)[1]
  <2>1. Stages(n)[1] = Handling(n) /\ Stages(n)'[1] = Handling(n)'
    BY Zenon, ReadsFacts
  <2>. QED BY SMT, <2>1
<1>2. Returning(n)' = Returning(n) => Stages(n)'[2] = Stages(n)[2]
  <2>1. Stages(n)[2] = Returning(n) /\ Stages(n)'[2] = Returning(n)'
    BY Zenon, ReadsFacts
  <2>. QED BY SMT, <2>1
<1>3. Answering(Peer(n))' = Answering(Peer(n)) => Stages(n)'[3] = Stages(n)[3]
  <2>1. Stages(n)[3] = Answering(Peer(n)) /\ Stages(n)'[3] = Answering(Peer(n))'
    BY Zenon, ReadsFacts
  <2>. QED BY SMT, <2>1
<1>4. ToAnswer(Peer(n))' = ToAnswer(Peer(n)) => Stages(n)'[4] = Stages(n)[4]
  <2>1. Stages(n)[4] = ToAnswer(Peer(n)) /\ Stages(n)'[4] = ToAnswer(Peer(n))'
    BY Zenon, ReadsFacts
  <2>. QED BY SMT, <2>1
<1>5. Asked(Peer(n))' = Asked(Peer(n)) => Stages(n)'[5] = Stages(n)[5]
  <2>1. Stages(n)[5] = Asked(Peer(n)) /\ Stages(n)'[5] = Asked(Peer(n))'
    BY Zenon, ReadsFacts
  <2>. QED BY SMT, <2>1
<1>6. Asking(Peer(n))' = Asking(Peer(n)) => Stages(n)'[6] = Stages(n)[6]
  <2>1. Stages(n)[6] = Asking(Peer(n)) /\ Stages(n)'[6] = Asking(Peer(n))'
    BY Zenon, ReadsFacts
  <2>. QED BY SMT, <2>1
<1>. QED
  BY Zenon, <1>1, <1>2, <1>3, <1>4, <1>5, <1>6

\* A step that moves no read, unless it cuts off the requests on the way to the peer.
LEMMA FlowKept ==
  ASSUME TypeOK, TypeOK', Accounts, NEW n \in Node, Flow(n),
         Handling(n)' = Handling(n), Returning(n)' = Returning(n),
         Answering(Peer(n))' = Answering(Peer(n)), ToAnswer(Peer(n))' = ToAnswer(Peer(n)),
         Asked(Peer(n))' = Asked(Peer(n)),
         Answered(n)' => Answered(n) /\ Asking(Peer(n))' = Asking(Peer(n)),
         Waiting(n)' = Waiting(n), Back(n) \subseteq Back(n)', Due(n)' \in Nat, Due(n) <= Due(n)'
  PROVE  Flow(n)'
<1>. DEFINE st == Stages(n)
            u  == Stages(n)'
            W  == Waiting(n)
            P  == Back(n)
            Q  == Back(n)'
            d  == Due(n)
            e  == Due(n)'
            on == Answered(n)
            off == Answered(n)'
<1>1. /\ st \in Pipeline /\ u \in Pipeline /\ W \in SUBSET Nat /\ d \in Nat /\ e \in Nat /\ d <= e
      /\ P \subseteq Q
  BY Zenon, ReadsFacts
<1>2. Orderly(st, W, P, d, on)
  BY Zenon DEF Flow
<1>3. u[1] = st[1] /\ u[2] = st[2] /\ u[3] = st[3] /\ u[4] = st[4] /\ u[5] = st[5]
  BY Zenon, StageKept
<1>4. off => on /\ u[6] = st[6]
  BY Zenon, StageKept
<1>5. ~off => u[6] = {}
  <2>1. ~off => Asking(Peer(n))' = {}
    BY Zenon DEF Answered, Asking, Only, Live
  <2>. QED BY Zenon, <2>1, ReadsFacts
<1>6. Same(st, u, {1, 2, 3, 4, 5})
  BY Zenon, <1>3 DEF Same
<1>. HIDE DEF st, u, W, P, Q, d, e, on, off
<1>7. ASSUME off PROVE Orderly(u, W, Q, e, off)
  <2>1. u = st
    BY <1>1, <1>3, <1>4, <1>7, SMTT(30) DEF Pipeline
  <2>2. Orderly(st, W, Q, e, off)
    BY Zenon, <1>1, <1>2, <1>4, OrderlyFrame
  <2>. QED BY Zenon, <2>1, <2>2
<1>8. ASSUME ~off PROVE Orderly(u, W, Q, e, off)
  <2>1. Orderly(u, W, Q, d, FALSE)
    BY Zenon, <1>1, <1>2, <1>5, <1>6, <1>8, PartsCut
  <2>. QED BY Zenon, <1>1, <1>8, <2>1, OrderlyFrame
<1>9. Orderly(u, W, Q, e, off)
  BY Zenon, <1>7, <1>8
<1>. QED
  BY Zenon, <1>9 DEF Flow, u, W, Q, e, off

\* A step that moves a read to the next stage.
LEMMA FlowMoves ==
  ASSUME TypeOK, TypeOK', Accounts, NEW n \in Node, Flow(n),
         NEW i, NEW x, Moves(Stages(n), Stages(n)', i, x), i = 1 => x \in Back(n)',
         Answered(n)' = Answered(n), Waiting(n)' = Waiting(n), Back(n) \subseteq Back(n)',
         Due(n)' = Due(n)
  PROVE  Flow(n)'
<1>1. Waiting(n) \in SUBSET Nat /\ Due(n) \in Nat
  BY Zenon, ReadsFacts
<1>2. Orderly(Stages(n)', Waiting(n), Back(n)', Due(n), Answered(n))
  BY Zenon, <1>1, OrderlyMoves DEF Flow
<1>. QED
  BY Zenon, <1>2 DEF Flow

\* What the steps of one endpoint leave as it is: its peer, and the messages
\* on their way to the end that does not receive.
LEMMA SendLocal ==
  ASSUME TypeOK, NEW n \in Node, SendThread(n)
  PROVE  /\ rpc' = rpc /\ rmsg' = rmsg /\ up' = up /\ placed' = placed /\ posted' = posted
         /\ cqRecv' = cqRecv /\ net'[n] = net[n] /\ sqRecv'[Peer(n)] = sqRecv[Peer(n)]
         /\ sret'[Peer(n)] = sret[Peer(n)]
<1>0. Peer(n) \in Node /\ Peer(n) # n
  BY Zenon, PeerType
<1>1. CASE SendDequeue(n)
  <2>1. \A f \in [Node -> Seq(SendWr)] : \A x : [f EXCEPT ![n] = x][Peer(n)] = f[Peer(n)]
    BY Zenon, <1>0
  <2>. QED BY ZenonT(30), <1>1, <2>1 DEF SendDequeue, TypeOK, recvVars, appVars
<1>2. CASE SendTransmit(n)
  <2>1. \A f \in [Node -> Seq(Message)] : \A x : [f EXCEPT ![Peer(n)] = x][n] = f[n]
    BY Zenon, <1>0
  <2>2. \A f \in [Node -> BOOLEAN] : \A x : [f EXCEPT ![n] = x][Peer(n)] = f[Peer(n)]
    BY Zenon, <1>0
  <2>3. net \in [Node -> Seq(Message)] /\ sret \in [Node -> BOOLEAN]
    BY Zenon DEF TypeOK
  <2>4. net'[n] = net[n]
    BY Zenon, <1>2, <2>1, <2>3 DEF SendTransmit
  <2>5. sret'[Peer(n)] = sret[Peer(n)]
    BY Zenon, <1>2, <2>2, <2>3 DEF SendTransmit
  <2>6. UNCHANGED <<sqRecv, cqRecv, up, recvVars, appVars, placed>>
    BY Zenon, <1>2 DEF SendTransmit
  <2>. QED BY Zenon, <2>4, <2>5, <2>6 DEF recvVars, appVars
<1>3. CASE SendReject(n)
  BY Zenon, <1>3 DEF SendReject, recvVars, appVars
<1>4. CASE SendComplete(n)
  BY Zenon, <1>4 DEF SendComplete, recvVars, appVars
<1>5. CASE SendExit(n)
  BY Zenon, <1>5 DEF SendExit, recvVars, appVars
<1>6. CASE SendKilled(n)
  BY Zenon, <1>6 DEF SendKilled, recvVars, appVars
<1>. QED
  BY Zenon, <1>1, <1>2, <1>3, <1>4, <1>5, <1>6 DEF SendThread

\* What rnic_recv of one endpoint leaves alone.
LEMMA RecvLocal ==
  ASSUME TypeOK, NEW n \in Node, RecvThread(n)
  PROVE  /\ spc' = spc /\ sreq' = sreq /\ sret' = sret /\ up' = up /\ placed \subseteq placed'
         /\ posted' = posted /\ sqApp' = sqApp /\ cqSend' = cqSend
         /\ net'[Peer(n)] = net[Peer(n)] /\ sqRecv'[Peer(n)] = sqRecv[Peer(n)]
         /\ rpc'[Peer(n)] = rpc[Peer(n)] /\ rmsg'[Peer(n)] = rmsg[Peer(n)]
<1>0. Peer(n) \in Node /\ Peer(n) # n
  BY Zenon, PeerType
<1>a. \A x : [net EXCEPT ![n] = x][Peer(n)] = net[Peer(n)]
  BY Zenon, <1>0 DEF TypeOK
<1>b. \A x : [rpc EXCEPT ![n] = x][Peer(n)] = rpc[Peer(n)]
  BY Zenon, <1>0 DEF TypeOK
<1>c. \A x : [rmsg EXCEPT ![n] = x][Peer(n)] = rmsg[Peer(n)]
  BY Zenon, <1>0 DEF TypeOK
<1>d. \A x : [sqRecv EXCEPT ![n] = x][Peer(n)] = sqRecv[Peer(n)]
  BY Zenon, <1>0 DEF TypeOK
<1>1. CASE RecvTagged(n)
  BY Zenon, <1>1, <1>a, <1>b, <1>c DEF RecvTagged, sendVars, appVars
<1>2. CASE RecvError(n)
  BY Zenon, <1>2, <1>a, <1>b DEF RecvError, sendVars, appVars
<1>3. CASE RecvUntagged(n)
  BY Zenon, <1>3, <1>a, <1>b, <1>c DEF RecvUntagged, sendVars, appVars
<1>4. CASE HandleWrite(n)
  BY Zenon, <1>4, <1>b DEF HandleWrite, LoopAgain, sendVars, appVars
<1>5. CASE HandleReadReq(n)
  BY Zenon, <1>5, <1>b, <1>d DEF HandleReadReq, LoopAgain, sendVars, appVars
<1>6. CASE HandleReadResp(n)
  BY Zenon, <1>6, <1>b DEF HandleReadResp, LoopAgain, sendVars, appVars
<1>7. CASE HandleSend(n)
  BY Zenon, <1>7, <1>b DEF HandleSend, LoopAgain, sendVars, appVars
<1>8. CASE HandleSendInval(n)
  BY Zenon, <1>8, <1>b DEF HandleSendInval, LoopAgain, sendVars, appVars
<1>9. CASE HandleTerminate(n)
  BY Zenon, <1>9, <1>b DEF HandleTerminate, sendVars, appVars
<1>. QED
  BY Zenon, <1>1, <1>2, <1>3, <1>4, <1>5, <1>6, <1>7, <1>8, <1>9 DEF RecvThread

\* The same for the stages of the reads, seen from the end that asks ...
LEMMA SendAsker ==
  ASSUME TypeOK, NEW n \in Node, SendThread(n)
  PROVE  /\ Handling(n)' = Handling(n) /\ Returning(n)' = Returning(n)
         /\ Answering(Peer(n))' = Answering(Peer(n)) /\ ToAnswer(Peer(n))' = ToAnswer(Peer(n))
         /\ Asked(Peer(n))' = Asked(Peer(n)) /\ Answered(n)' = Answered(n)
         /\ Back(n)' = Back(n) /\ Live(n)' = Live(n) /\ up' = up
         /\ net'[n] = net[n] /\ sqRecv'[Peer(n)] = sqRecv[Peer(n)]
<1>0. Peer(n) \in Node /\ Peer(n) # n
  BY Zenon, PeerType
<1>1. /\ rpc' = rpc /\ rmsg' = rmsg /\ up' = up /\ placed' = placed
      /\ net'[n] = net[n] /\ sqRecv'[Peer(n)] = sqRecv[Peer(n)]
  BY Zenon, SendLocal
<1>2. spc'[Peer(n)] = spc[Peer(n)] /\ sreq'[Peer(n)] = sreq[Peer(n)]
  BY Zenon, <1>0, Elsewhere DEF Untouched
<1>3. Handling(n)' = Handling(n) /\ Returning(n)' = Returning(n)
  BY Zenon, <1>1 DEF Handling, Returning
<1>4. Answering(Peer(n))' = Answering(Peer(n)) /\ ToAnswer(Peer(n))' = ToAnswer(Peer(n))
  BY Zenon, <1>1, <1>2 DEF Answering, ToAnswer
<1>5. Asked(Peer(n))' = Asked(Peer(n)) /\ Answered(n)' = Answered(n)
  BY Zenon, <1>1 DEF Asked, Answered, Live
<1>6. Back(n)' = Back(n) /\ Live(n)' = Live(n)
  BY Zenon, <1>1 DEF Back, Live
<1>. QED
  BY Zenon, <1>1, <1>3, <1>4, <1>5, <1>6

\* What rnic_recv of the endpoint that reads leaves alone ...
LEMMA RecvAsker ==
  ASSUME TypeOK, NEW n \in Node, RecvThread(n)
  PROVE  /\ Answering(Peer(n))' = Answering(Peer(n)) /\ ToAnswer(Peer(n))' = ToAnswer(Peer(n))
         /\ Asked(Peer(n))' = Asked(Peer(n)) /\ Asking(Peer(n))' = Asking(Peer(n))
         /\ Answered(n)' = Answered(n) /\ Back(n) \subseteq Back(n)' /\ Due(n)' = Due(n)
         /\ up' = up /\ net'[Peer(n)] = net[Peer(n)] /\ sqRecv'[Peer(n)] = sqRecv[Peer(n)]
         /\ pendq'[n] = pendq[n] => Waiting(n)' = Waiting(n)
<1>1. /\ spc' = spc /\ sreq' = sreq /\ sret' = sret /\ up' = up /\ placed \subseteq placed'
      /\ posted' = posted /\ sqApp' = sqApp /\ net'[Peer(n)] = net[Peer(n)]
      /\ sqRecv'[Peer(n)] = sqRecv[Peer(n)]
      /\ rpc'[Peer(n)] = rpc[Peer(n)] /\ rmsg'[Peer(n)] = rmsg[Peer(n)]
  BY Zenon, RecvLocal
<1>2. Answering(Peer(n))' = Answering(Peer(n)) /\ ToAnswer(Peer(n))' = ToAnswer(Peer(n))
  BY Zenon, <1>1 DEF Answering, ToAnswer
<1>3. Asked(Peer(n))' = Asked(Peer(n)) /\ Answered(n)' = Answered(n)
  BY Zenon, <1>1 DEF Asked, Answered, Live
<1>4. Asking(Peer(n))' = Asking(Peer(n))
  BY Zenon, <1>1 DEF Asking, Live
<1>5. Back(n) \subseteq Back(n)' /\ Due(n)' = Due(n)
  BY Zenon, <1>1 DEF Back, Due
<1>6. pendq'[n] = pendq[n] => Waiting(n)' = Waiting(n)
  BY Zenon, <1>1 DEF Waiting, ToPending
<1>. QED
  BY Zenon, <1>1, <1>2, <1>3, <1>4, <1>5, <1>6

\* ... and from the end whose peer takes the step.
LEMMA SendAnswerer ==
  ASSUME TypeOK, NEW n \in Node, SendThread(Peer(n))
  PROVE  /\ Handling(n)' = Handling(n) /\ Asked(Peer(n))' = Asked(Peer(n))
         /\ Asking(Peer(n))' = Asking(Peer(n)) /\ Answered(n)' = Answered(n)
         /\ Waiting(n)' = Waiting(n) /\ Due(n)' = Due(n) /\ Back(n)' = Back(n)
         /\ Live(n)' = Live(n) /\ up' = up /\ pendq'[n] = pendq[n]
         /\ net'[Peer(n)] = net[Peer(n)]
<1>0. Peer(n) \in Node /\ Peer(n) # n /\ Peer(Peer(n)) = n
  BY Zenon, PeerType
<1>1. /\ rpc' = rpc /\ rmsg' = rmsg /\ up' = up /\ placed' = placed /\ posted' = posted
      /\ net'[Peer(n)] = net[Peer(n)] /\ sret'[n] = sret[n]
  <2>1. /\ rpc' = rpc /\ rmsg' = rmsg /\ up' = up /\ placed' = placed /\ posted' = posted
        /\ net'[Peer(n)] = net[Peer(n)] /\ sret'[Peer(Peer(n))] = sret[Peer(Peer(n))]
    BY Zenon, <1>0, SendLocal
  <2>. QED BY Zenon, <1>0, <2>1
<1>2. Untouched(n)
  BY Zenon, <1>0, Elsewhere
<1>3. Handling(n)' = Handling(n) /\ Asked(Peer(n))' = Asked(Peer(n)) /\ Answered(n)' = Answered(n)
  BY Zenon, <1>1 DEF Handling, Asked, Answered, Live
<1>4. Asking(Peer(n))' = Asking(Peer(n)) /\ Back(n)' = Back(n) /\ Live(n)' = Live(n)
  BY Zenon, <1>1 DEF Asking, Live, Back
<1>5. Waiting(n)' = Waiting(n)
  BY Zenon, <1>1, <1>2 DEF Waiting, ToPending, Untouched
<1>6. Due(n)' = Due(n) /\ pendq'[n] = pendq[n]
  BY Zenon, <1>2 DEF Due, Untouched
<1>. QED
  BY Zenon, <1>1, <1>3, <1>4, <1>5, <1>6

\* ... and rnic_recv of the one that is read.
LEMMA RecvAnswerer ==
  ASSUME TypeOK, NEW n \in Node, RecvThread(Peer(n))
  PROVE  /\ Handling(n)' = Handling(n) /\ Returning(n)' = Returning(n)
         /\ Answering(Peer(n))' = Answering(Peer(n)) /\ Waiting(n)' = Waiting(n)
         /\ Due(n)' = Due(n) /\ Back(n) \subseteq Back(n)' /\ Live(n)' = Live(n) /\ up' = up
         /\ pendq'[n] = pendq[n] /\ net'[n] = net[n]
<1>0. Peer(n) \in Node /\ Peer(n) # n /\ Peer(Peer(n)) = n
  BY Zenon, PeerType
<1>1. /\ spc' = spc /\ sreq' = sreq /\ sret' = sret /\ up' = up /\ placed \subseteq placed'
      /\ posted' = posted /\ sqApp' = sqApp /\ net'[n] = net[n]
      /\ rpc'[n] = rpc[n] /\ rmsg'[n] = rmsg[n]
  <2>1. /\ spc' = spc /\ sreq' = sreq /\ sret' = sret /\ up' = up /\ placed \subseteq placed'
        /\ posted' = posted /\ sqApp' = sqApp /\ net'[Peer(Peer(n))] = net[Peer(Peer(n))]
        /\ rpc'[Peer(Peer(n))] = rpc[Peer(Peer(n))] /\ rmsg'[Peer(Peer(n))] = rmsg[Peer(Peer(n))]
    BY Zenon, <1>0, RecvLocal
  <2>. QED BY Zenon, <1>0, <2>1
<1>2. pendq'[n] = pendq[n]
  BY Zenon, <1>0, Elsewhere DEF Untouched
<1>3. Handling(n)' = Handling(n) /\ Returning(n)' = Returning(n)
  BY Zenon, <1>1 DEF Handling, Returning
<1>4. Answering(Peer(n))' = Answering(Peer(n)) /\ Waiting(n)' = Waiting(n)
  BY Zenon, <1>1, <1>2 DEF Answering, Waiting, ToPending
<1>5. Due(n)' = Due(n) /\ Back(n) \subseteq Back(n)' /\ Live(n)' = Live(n)
  BY Zenon, <1>1 DEF Due, Back, Live
<1>. QED
  BY Zenon, <1>1, <1>2, <1>3, <1>4, <1>5

\* The number of the next request is a natural number.
LEMMA DueNat ==
  ASSUME TypeOK, Accounts, NEW n \in Node
  PROVE  Due(n) \in Nat
BY DueType

\* rnic_send completes a read after those that wait.
LEMMA LastToWait ==
  ASSUME TypeOK, Accounts, NEW n \in Node, Flow(n), spc[n] = "complete", ToPending(n)
  PROVE  Below(Ids(pendq[n]), {sreq[n].id})
<1>. SUFFICES ASSUME NEW x \in Ids(pendq[n]) PROVE x < sreq[n].id
  BY Zenon DEF Below
<1>1. Balanced(n) /\ InHand(n) /\ Due(n) \in Nat /\ sreq[n] \in SendWr /\ pendq[n] \in Seq(Wc)
  BY Zenon, DueNat DEF Accounts, TypeOK
<1>2. sreq[n].op # "READ_RESP"
  BY Zenon DEF ToPending
<1>3. Due(n) = sreq[n].id + 1
  BY Zenon, <1>1, <1>2 DEF InHand, Due
<1>4. sreq[n].id \in Nat
  BY Zenon, <1>1 DEF SendWr
<1>5. x \in Nat
  BY Zenon, <1>1, IdsType
<1>6. x < Due(n)
  BY Zenon DEF Flow, Orderly, Waiting
<1>7. x # sreq[n].id
  <2>1. x \in OwnIds(pendq[n])
    BY Zenon, <1>1 DEF Balanced, Books, AllOwn, Ids, OwnIds
  <2>2. sreq[n].id \in InThread(n)
    BY Zenon, <1>2 DEF InThread
  <2>. QED BY Zenon, <1>1, <2>1, <2>2 DEF Balanced, Books, Ledger
<1>. QED
  BY <1>3, <1>4, <1>5, <1>6, <1>7

\* The steps of rnic_send of n that send and complete nothing.
LEMMA SendIdleReads ==
  ASSUME TypeOK, TypeOK', Accounts, NEW n \in Node, Lines(n), Flow(n), SendThread(n),
         SendDequeue(n) \/ SendReject(n) \/ SendExit(n) \/ SendKilled(n)
  PROVE  Lines(n)' /\ Flow(n)'
<1>1. net' = net /\ pendq' = pendq /\ spc[n] # "complete" /\ spc'[n] # "complete"
  <2>1. net' = net /\ pendq' = pendq /\ spc[n] # "complete"
    BY Zenon DEF SendDequeue, SendReject, SendExit, SendKilled
  <2>2. spc \in [Node -> {"poll", "send", "complete", "exit", "killed"}]
    BY Zenon DEF TypeOK
  <2>3. \E c \in {"poll", "send", "exit", "killed"} : spc' = [spc EXCEPT ![n] = c]
    BY Zenon DEF SendDequeue, SendReject, SendExit, SendKilled, PollAgain
  <2>. QED BY Zenon, <2>1, <2>2, <2>3
<1>2. Waiting(n) = Ids(pendq[n]) /\ Waiting(n)' = Ids(pendq[n])
  BY ZenonT(30), <1>1 DEF Waiting, Only
<1>3. Lines(n)'
  <2>1. /\ pendq'[n] = pendq[n] /\ net'[n] = net[n]
        /\ net'[Peer(n)] = net[Peer(n)]
    BY Zenon, <1>1
  <2>2. up' = up /\ sqRecv'[Peer(n)] = sqRecv[Peer(n)] /\ Answered(n)' = Answered(n)
    BY Zenon, SendAsker
  <2>3. up' => up /\ sqRecv'[Peer(n)] = sqRecv[Peer(n)]
    BY Zenon, <2>2
  <2>4. Answered(n)' => Answered(n) /\ net'[Peer(n)] = net[Peer(n)]
    BY Zenon, <2>1, <2>2
  <2>. QED BY Zenon, <2>1, <2>3, <2>4 DEF Lines
<1>4. Due(n)' \in Nat /\ Due(n) <= Due(n)'
  <2>1. Due(n) \in Nat
    BY Zenon, DueNat
  <2>2. Due(n)' = Due(n) \/ (Due(n) = sreq[n].id /\ Due(n)' = sreq[n].id + 1)
    BY Zenon, DueStep
  <2>. QED BY <2>1, <2>2
<1>5. Asking(Peer(n))' = Asking(Peer(n))
  <2>1. rpc' = rpc /\ up' = up
    BY Zenon, SendLocal
  <2>. QED BY Zenon, <1>1, <2>1 DEF Asking, Live
<1>6. /\ Back(n) \subseteq Back(n)' /\ Waiting(n)' = Waiting(n)
      /\ Answered(n)' => Answered(n) /\ Asking(Peer(n))' = Asking(Peer(n))
  BY Zenon, <1>2, <1>5, SendAsker
<1>7. Flow(n)'
  BY Zenon, <1>4, <1>6, SendAsker, FlowKept
<1>. QED
  BY Zenon, <1>3, <1>7

\* A message sent is one of its kind.
LEMMA OfIdsSent ==
  ASSUME NEW s \in Seq(Message), NEW m \in Message, NEW o, m.op = o
  PROVE  OfIds(Append(s, m), o) = OfIds(s, o) \cup {m.of}
<1>1. m.op = o => OfIds(Append(s, m), o) = OfIds(s, o) \cup {m.of}
  BY ZenonT(30), OfIdsAppend
<1>. QED BY Zenon, <1>1

\* What ddp_send_* does to the channel.
LEMMA SentTo ==
  ASSUME TypeOK, NEW n \in Node, SendTransmit(n)
  PROVE  /\ up => net'[Peer(n)] = Append(net[Peer(n)], MessageOf(n, sreq[n]))
         /\ ~up => net' = net
         /\ MessageOf(n, sreq[n]) \in Message /\ net[Peer(n)] \in Seq(Message)
         /\ MessageOf(n, sreq[n]).op = sreq[n].op /\ MessageOf(n, sreq[n]).of = sreq[n].id
         /\ pendq' = pendq /\ sreq' = sreq /\ sqApp' = sqApp /\ sqRecv' = sqRecv
<1>0. Peer(n) \in Node /\ net \in [Node -> Seq(Message)] /\ sreq[n] \in SendWr
  BY Zenon, PeerType DEF TypeOK
<1>1. up => net' = [net EXCEPT ![Peer(n)] = Append(@, MessageOf(n, sreq[n]))]
  BY Zenon DEF SendTransmit
<1>2. up => net'[Peer(n)] = Append(net[Peer(n)], MessageOf(n, sreq[n]))
  BY Zenon, <1>0, <1>1
<1>3. ~up => net' = net
  BY Zenon DEF SendTransmit
<1>4. MessageOf(n, sreq[n]) \in Message /\ net[Peer(n)] \in Seq(Message)
  BY Zenon, <1>0, MessageOfType
<1>5. MessageOf(n, sreq[n]).op = sreq[n].op /\ MessageOf(n, sreq[n]).of = sreq[n].id
  BY Zenon DEF MessageOf
<1>6. pendq' = pendq /\ sreq' = sreq /\ sqApp' = sqApp /\ sqRecv' = sqRecv
  BY Zenon DEF SendTransmit
<1>. QED
  BY Zenon, <1>2, <1>3, <1>4, <1>5, <1>6

\* n sends something else than a read request.
LEMMA SendOtherReads ==
  ASSUME TypeOK, TypeOK', Accounts, NEW n \in Node, Lines(n), Flow(n), SendThread(n),
         SendTransmit(n), sreq[n].op # "READ_REQ"
  PROVE  Lines(n)' /\ Flow(n)'
<1>. DEFINE p == Peer(n)
            m == MessageOf(n, sreq[n])
<1>1. Waiting(n) = Ids(pendq[n]) /\ Waiting(n)' = Ids(pendq[n])
  <2>1. spc[n] = "send" /\ pendq' = pendq /\ sreq' = sreq
    BY Zenon DEF SendTransmit
  <2>2. ~ToPending(n)'
    BY Zenon, <2>1 DEF ToPending
  <2>. QED BY Zenon, <2>1, <2>2 DEF Waiting, Only
<1>2. net'[p] = Append(net[p], m) \/ net'[p] = net[p]
  BY Zenon, SentTo
<1>3. m \in Message /\ net[p] \in Seq(Message) /\ m.op # "READ_REQ"
  BY Zenon, SentTo
<1>. HIDE DEF m
<1>4. /\ OfIds(net'[p], "READ_REQ") = OfIds(net[p], "READ_REQ")
      /\ Ascending(net[p], "READ_REQ") => Ascending(net'[p], "READ_REQ")
  <2>1. /\ OfIds(Append(net[p], m), "READ_REQ") = OfIds(net[p], "READ_REQ")
        /\ Ascending(net[p], "READ_REQ") => Ascending(Append(net[p], m), "READ_REQ")
    BY ZenonT(30), <1>3, OfIdsAppend
  <2>. QED BY Zenon, <1>2, <2>1
<1>5. Lines(n)'
  <2>1. pendq' = pendq
    BY Zenon DEF SendTransmit
  <2>2. Answered(n)' = Answered(n) /\ up' = up /\ net'[n] = net[n] /\ sqRecv'[p] = sqRecv[p]
    BY Zenon, SendAsker
  <2>. QED BY Zenon, <2>1, <2>2, <1>4 DEF Lines
<1>6. Due(n)' \in Nat /\ Due(n) <= Due(n)'
  <2>1. Due(n) \in Nat
    BY Zenon, DueNat
  <2>2. Due(n)' = Due(n) \/ (Due(n) = sreq[n].id /\ Due(n)' = sreq[n].id + 1)
    BY Zenon, DueStep
  <2>. QED BY <2>1, <2>2
<1>7. Asking(p)' = Asking(p)
  <2>1. rpc' = rpc /\ up' = up
    BY Zenon, SendLocal
  <2>. QED BY Zenon, <1>4, <2>1 DEF Asking, Live
<1>8. /\ Back(n) \subseteq Back(n)' /\ Waiting(n)' = Waiting(n)
      /\ Answered(n)' => Answered(n) /\ Asking(p)' = Asking(p)
  BY Zenon, <1>1, <1>7, SendAsker
<1>9. Flow(n)'
  BY Zenon, <1>6, <1>8, SendAsker, FlowKept
<1>. QED
  BY Zenon, <1>5, <1>9

\* n sends a read request: it is the youngest.
LEMMA SendReadReads ==
  ASSUME TypeOK, TypeOK', Accounts, NEW n \in Node, Lines(n), Flow(n), SendThread(n),
         SendTransmit(n), sreq[n].op = "READ_REQ"
  PROVE  Lines(n)' /\ Flow(n)'
<1>. DEFINE p == Peer(n)
            m == MessageOf(n, sreq[n])
            k == sreq[n].id
            st == Stages(n)
            u  == Stages(n)'
            W  == Ids(pendq[n])
            P  == Back(n)
            on == Answered(n)
<1>1. spc[n] = "send" /\ pendq' = pendq /\ sreq' = sreq /\ sqApp' = sqApp /\ spc'[n] = "complete"
  <2>1. spc[n] = "send" /\ pendq' = pendq /\ sreq' = sreq /\ sqApp' = sqApp
    BY Zenon DEF SendTransmit
  <2>2. spc' = [spc EXCEPT ![n] = "complete"] /\ spc \in [Node -> {"poll", "send", "complete", "exit", "killed"}]
    BY Zenon DEF SendTransmit, TypeOK
  <2>. QED BY Zenon, <2>1, <2>2
<1>2. Due(n) = k /\ Due(n)' = k + 1 /\ k \in Nat
  <2>1. Due(n) = k
    BY Zenon, <1>1 DEF Due
  <2>2. k = Len(posted[n]) - Len(sqApp[n])
    BY Zenon, <1>1 DEF Accounts, InHand
  <2>3. posted' = posted
    BY Zenon, SendLocal
  <2>4. Due(n)' = k + 1
    BY Zenon, <1>1, <2>2, <2>3 DEF Due
  <2>. QED BY Zenon, <2>1, <2>4, DueNat
<1>3. Waiting(n) = W /\ Waiting(n)' = W \cup Only(sret'[n], {k})
  <2>1. ToPending(n)' <=> sret'[n]
    BY Zenon, <1>1 DEF ToPending
  <2>. QED BY Zenon, <1>1, <2>1 DEF Waiting, Only
<1>4. /\ up => net'[p] = Append(net[p], m)
      /\ ~up => net' = net
      /\ m \in Message /\ net[p] \in Seq(Message) /\ m.op = "READ_REQ" /\ m.of = k
  BY Zenon, SentTo
<1>5. /\ st \in Pipeline /\ u \in Pipeline /\ W \in SUBSET Nat
      /\ Orderly(st, W, P, k, on) /\ Same(st, u, {1, 2, 3, 4, 5})
      /\ st[6] = Asking(p) /\ u[6] = Asking(p)'
  <2>1. st \in Pipeline /\ u \in Pipeline /\ W \in SUBSET Nat
    BY Zenon, ReadsFacts, <1>3
  <2>2. Orderly(st, W, P, k, on)
    BY Zenon, <1>2, <1>3 DEF Flow
  <2>3. u[1] = st[1] /\ u[2] = st[2] /\ u[3] = st[3] /\ u[4] = st[4] /\ u[5] = st[5]
    BY Zenon, StageKept, SendAsker
  <2>4. st[6] = Asking(p) /\ u[6] = Asking(p)'
    BY Zenon, ReadsFacts
  <2>. QED BY Zenon, <2>1, <2>2, <2>3, <2>4 DEF Same
<1>6. /\ Answered(n)' = on /\ up' = up /\ net'[n] = net[n] /\ sqRecv'[p] = sqRecv[p]
      /\ Back(n)' = P
  BY Zenon, SendAsker
<1>7. on <=> up /\ Live(p)
  BY Zenon DEF Answered
<1>8. (Live(p))' <=> Live(p)
  <2>1. rpc' = rpc
    BY Zenon, SendLocal
  <2>. QED BY Zenon, <2>1 DEF Live
<1>9. Asking(p) = Only(on, OfIds(net[p], "READ_REQ")) /\ Asking(p)' = Only(on, OfIds(net'[p], "READ_REQ"))
  BY Zenon, <1>6, <1>7, <1>8 DEF Asking, Only
<1>. HIDE DEF m, st, u, W, P, on, k, p
<1>10. CASE up
  <2>1. sret'[n] = TRUE
    <3>1. sret' = [sret EXCEPT ![n] = TRUE] /\ sret \in [Node -> BOOLEAN]
      BY Zenon, <1>10 DEF SendTransmit, TypeOK
    <3>. QED BY Zenon, <3>1
  <2>2. OfIds(net'[p], "READ_REQ") = OfIds(net[p], "READ_REQ") \cup {k}
    <3>1. OfIds(Append(net[p], m), "READ_REQ") = OfIds(net[p], "READ_REQ") \cup {k}
      <4>1. m \in Message /\ net[p] \in Seq(Message) /\ m.op = "READ_REQ" /\ m.of = k
        BY Zenon, <1>4
      <4>2. OfIds(Append(net[p], m), "READ_REQ") = OfIds(net[p], "READ_REQ") \cup {m.of}
        BY Zenon, <4>1, OfIdsSent
      <4>. QED BY Zenon, <4>1, <4>2
    <3>. QED BY Zenon, <1>4, <1>10, <3>1
  <2>3. u[6] = IF on THEN st[6] \cup {k} ELSE st[6]
    BY Zenon, <1>5, <1>9, <2>2 DEF Only
  <2>4. Orderly(u, W \cup {k}, P, k + 1, on)
    BY Zenon, <1>2, <1>5, <2>3, PartsEnds
  <2>5. Waiting(n)' = W \cup {k}
    BY Zenon, <1>3, <2>1 DEF Only
  <2>6. Flow(n)'
    BY Zenon, <1>2, <1>6, <2>4, <2>5 DEF Flow, u, P, on, k
  <2>7. on => Below(OfIds(net[p], "READ_REQ"), {k})
    <3>0. st[6] \subseteq All(st)
      BY DEF All
    <3>1. on => OfIds(net[p], "READ_REQ") \subseteq All(st)
      BY Zenon, <1>5, <1>9, <3>0 DEF Only
    <3>. QED BY Zenon, <1>5, <3>1 DEF Orderly, Below
  <2>8. on /\ Ascending(net[p], "READ_REQ") => Ascending(net'[p], "READ_REQ")
    BY Zenon, <1>4, <1>10, <2>7, OfIdsAppend
  <2>9. Lines(n)'
    BY Zenon, <1>1, <1>6, <2>8 DEF Lines, on, p
  <2>. QED BY Zenon, <2>6, <2>9
<1>11. CASE ~up
  <2>1. ~on /\ u[6] = st[6]
    BY Zenon, <1>4, <1>5, <1>7, <1>9, <1>11
  <2>2. Lines(n)'
    BY Zenon, <1>1, <1>6, <1>11 DEF Lines, Answered
  <2>3. Orderly(u, W \cup {k}, P, k + 1, on)
    <3>1. u[6] = IF on THEN st[6] \cup {k} ELSE st[6]
      BY Zenon, <2>1
    <3>. QED BY Zenon, <1>2, <1>5, <3>1, PartsEnds
  <2>4. u = st
    BY <1>5, <2>1, SMTT(30) DEF Same, Pipeline
  <2>5. Orderly(u, W, P, k + 1, on)
    BY <1>2, <1>5, <2>4, OrderlyFrame
  <2>6. Waiting(n)' = W \cup {k} \/ Waiting(n)' = W
    BY Zenon, <1>3 DEF Only
  <2>7. Flow(n)'
    BY Zenon, <1>2, <1>6, <2>3, <2>5, <2>6 DEF Flow, u, P, on, k
  <2>. QED BY Zenon, <2>2, <2>7
<1>. QED
  BY Zenon, <1>10, <1>11

\* n completes what it sent.
LEMMA SendDoneReads ==
  ASSUME TypeOK, TypeOK', Accounts, NEW n \in Node, Lines(n), Flow(n), SendThread(n),
         SendComplete(n)
  PROVE  Lines(n)' /\ Flow(n)'
<1>. DEFINE q == pendq[n]
            w == WceOf(n)
<1>1. /\ spc[n] = "complete" /\ net' = net /\ spc'[n] # "complete"
      /\ ToPending(n) => pendq'[n] = Append(q, w)
      /\ ~ToPending(n) => pendq'[n] = q
  <2>1. /\ spc[n] = "complete" /\ net' = net
        /\ ToPending(n) => pendq' = [pendq EXCEPT ![n] = Append(@, w)]
        /\ ~ToPending(n) => pendq' = pendq
        /\ spc' = [spc EXCEPT ![n] = PollAgain(n)]
    BY Zenon DEF SendComplete
  <2>2. PollAgain(n) # "complete"
    BY Zenon DEF PollAgain
  <2>3. /\ spc \in [Node -> {"poll", "send", "complete", "exit", "killed"}]
        /\ pendq \in [Node -> Seq(Wc)]
    BY Zenon DEF TypeOK
  <2>. QED BY Zenon, <2>1, <2>2, <2>3
<1>2. q \in Seq(Wc) /\ w \in Wc /\ w.id = sreq[n].id
  <2>1. q \in Seq(Wc) /\ sreq[n] \in SendWr /\ sret[n] \in BOOLEAN
    BY Zenon DEF TypeOK
  <2>. QED BY Zenon, <2>1 DEF WceOf, Wc, SendWr
<1>3. ToPending(n) => Below(Ids(q), {sreq[n].id})
  BY Zenon, <1>1, LastToWait
<1>4. Waiting(n)' = Ids(pendq'[n])
  BY Zenon, <1>1 DEF Waiting, Only
<1>. HIDE DEF w
<1>5. Waiting(n)' = Waiting(n) /\ IdsUp(pendq'[n])
  <2>0. IdsUp(q)
    BY Zenon DEF Lines
  <2>1. CASE ToPending(n)
    <3>1. Ids(Append(q, w)) = Ids(q) \cup {w.id} /\ IdsUp(Append(q, w))
      <4>1. Below(Ids(q), {w.id})
        BY Zenon, <1>2, <1>3, <2>1
      <4>2. q \in Seq(Wc) /\ w \in Wc
        BY Zenon, <1>2
      <4>3. /\ Ids(Append(q, w)) = Ids(q) \cup {w.id}
            /\ IdsUp(q) /\ Below(Ids(q), {w.id}) => IdsUp(Append(q, w))
        BY Zenon, <4>2, IdsAppend
      <4>. QED BY Zenon, <2>0, <4>1, <4>3
    <3>2. Waiting(n) = Ids(q) \cup {sreq[n].id}
      BY Zenon, <1>1, <2>1 DEF Waiting, Only
    <3>. QED BY Zenon, <1>1, <1>2, <1>4, <2>1, <3>1, <3>2
  <2>2. CASE ~ToPending(n)
    <3>1. Waiting(n) = Ids(q)
      BY Zenon, <2>2 DEF Waiting, Only
    <3>. QED BY Zenon, <1>1, <1>4, <2>0, <2>2, <3>1
  <2>. QED BY Zenon, <2>1, <2>2
<1>6. Lines(n)'
  <2>1. Answered(n)' = Answered(n) /\ up' = up /\ sqRecv'[Peer(n)] = sqRecv[Peer(n)]
    BY Zenon, SendAsker
  <2>. QED BY Zenon, <1>1, <1>5, <2>1 DEF Lines
<1>7. Due(n)' \in Nat /\ Due(n) <= Due(n)'
  <2>1. Due(n) \in Nat
    BY Zenon, DueNat
  <2>2. Due(n)' = Due(n) \/ (Due(n) = sreq[n].id /\ Due(n)' = sreq[n].id + 1)
    BY Zenon, DueStep
  <2>. QED BY <2>1, <2>2
<1>8. Asking(Peer(n))' = Asking(Peer(n))
  <2>1. rpc' = rpc /\ up' = up
    BY Zenon, SendLocal
  <2>. QED BY Zenon, <1>1, <2>1 DEF Asking, Live
<1>9. /\ Back(n) \subseteq Back(n)' /\ Waiting(n)' = Waiting(n)
      /\ Answered(n)' => Answered(n) /\ Asking(Peer(n))' = Asking(Peer(n))
  BY Zenon, <1>5, <1>8, SendAsker
<1>10. Flow(n)'
  BY Zenon, <1>7, <1>9, SendAsker, FlowKept
<1>. QED
  BY Zenon, <1>6, <1>10

\* rnic_send of the endpoint that reads: a read takes its place in `pending' before
\* its request is on the way.
LEMMA SendReads ==
  ASSUME TypeOK, TypeOK', Accounts, NEW n \in Node, Reads(n), SendThread(n)
  PROVE  Reads(n)'
<1>. SUFFICES ASSUME Live(n)' PROVE Lines(n)' /\ Flow(n)'
  BY Zenon DEF Reads
<1>1. Lines(n) /\ Flow(n)
  BY Zenon, SendAsker DEF Reads
<1>2. CASE SendDequeue(n) \/ SendReject(n) \/ SendExit(n) \/ SendKilled(n)
  BY Zenon, <1>1, <1>2, SendIdleReads
<1>3. CASE SendTransmit(n) /\ sreq[n].op # "READ_REQ"
  BY Zenon, <1>1, <1>3, SendOtherReads
<1>4. CASE SendTransmit(n) /\ sreq[n].op = "READ_REQ"
  BY Zenon, <1>1, <1>4, SendReadReads
<1>5. CASE SendComplete(n)
  BY Zenon, <1>1, <1>5, SendDoneReads
<1>. QED
  BY Zenon, <1>2, <1>3, <1>4, <1>5 DEF SendThread

\* The peer of n dequeues a request or a read response, ...
LEMMA TakeAnswer ==
  ASSUME TypeOK, TypeOK', Accounts, NEW n \in Node, Lines(n), Flow(n), SendThread(Peer(n)),
         SendDequeue(Peer(n))
  PROVE  Lines(n)' /\ Flow(n)'
<1>. DEFINE p == Peer(n)
            q == sqRecv[p]
            x == Head(q).id
<1>0. p \in Node
  BY Zenon, PeerType
<1>1. /\ spc[p] = "poll" /\ net' = net /\ spc'[p] = "send"
      /\ \/ sqApp[p] # <<>> /\ sreq'[p] = Head(sqApp[p]) /\ sqRecv' = sqRecv
         \/ q # <<>> /\ sreq'[p] = Head(q) /\ sqRecv'[p] = Tail(q)
  <2>1. /\ spc[p] = "poll" /\ net' = net /\ spc' = [spc EXCEPT ![p] = "send"]
        /\ \/ sqApp[p] # <<>> /\ sreq' = [sreq EXCEPT ![p] = Head(sqApp[p])] /\ sqRecv' = sqRecv
           \/ /\ q # <<>> /\ sreq' = [sreq EXCEPT ![p] = Head(q)]
              /\ sqRecv' = [sqRecv EXCEPT ![p] = Tail(@)]
    BY Zenon DEF SendDequeue
  <2>2. /\ spc \in [Node -> {"poll", "send", "complete", "exit", "killed"}]
        /\ sreq \in [Node -> SendWr] /\ sqRecv \in [Node -> Seq(SendWr)]
    BY Zenon DEF TypeOK
  <2>. QED BY Zenon, <1>0, <2>1, <2>2
<1>2. /\ Handling(n)' = Handling(n) /\ Asked(p)' = Asked(p) /\ Asking(p)' = Asking(p)
      /\ Answered(n)' = Answered(n) /\ Waiting(n)' = Waiting(n) /\ Due(n)' = Due(n)
      /\ Back(n)' = Back(n) /\ Live(n)' = Live(n) /\ up' = up /\ pendq'[n] = pendq[n]
  BY Zenon, SendAnswerer
<1>3. Returning(n)' = Returning(n)
  BY Zenon, <1>1 DEF Returning
<1>4. Answering(p) = {}
  BY Zenon, <1>1 DEF Answering, Only
<1>5. q \in Seq(SendWr) /\ sqApp[p] \in Seq(SendWr) /\ posted[p] \in Seq(Request)
  BY Zenon, <1>0 DEF TypeOK
<1>6. CASE ~up \/ (sqApp[p] # <<>> /\ sreq'[p] = Head(sqApp[p]) /\ sqRecv' = sqRecv)
  <2>1. up => sreq'[p].op # "READ_RESP"
    <3>1. ASSUME sqApp[p] # <<>>, sreq'[p] = Head(sqApp[p]) PROVE sreq'[p].op # "READ_RESP"
      <4>1. InOrder(sqApp[p], posted[p])
        BY Zenon, <1>0 DEF Accounts, Balanced, Books
      <4>2. Head(sqApp[p]).id \in 1..Len(posted[p])
            /\ Head(sqApp[p]).op = posted[p][Head(sqApp[p]).id].op
        BY ZenonT(30), <1>5, <3>1, <4>1, TakeInOrder
      <4>3. \A i \in 1..Len(posted[p]) : posted[p][i] \in Request
        BY <1>5
      <4>4. \A r \in Request : r.op # "READ_RESP"
        BY Zenon DEF Request
      <4>. QED BY Zenon, <3>1, <4>2, <4>3, <4>4
    <3>. QED BY Zenon, <1>6, <3>1
  <2>2. Answering(p)' = {}
    BY Zenon, <1>2, <2>1 DEF Answering, Only
  <2>3. up => sqRecv' = sqRecv
    BY Zenon, <1>6
  <2>4. ToAnswer(p)' = ToAnswer(p)
    BY Zenon, <1>2, <2>3 DEF ToAnswer, Only
  <2>5. Lines(n)'
    BY Zenon, <1>1, <1>2, <2>3 DEF Lines
  <2>6. /\ Answered(n)' => Answered(n) /\ Asking(p)' = Asking(p)
        /\ Back(n) \subseteq Back(n)' /\ Answering(p)' = Answering(p)
    BY ZenonT(30), <1>2, <1>4, <2>2
  <2>7. Due(n)' \in Nat /\ Due(n) <= Due(n)'
    <3>1. Due(n) \in Nat
      BY Zenon, DueNat
    <3>. QED BY <1>2, <3>1
  <2>8. Flow(n)'
    BY Zenon, <1>2, <1>3, <2>4, <2>6, <2>7, FlowKept
  <2>. QED BY Zenon, <2>5, <2>8
<1>7. CASE up /\ q # <<>> /\ sreq'[p] = Head(q) /\ sqRecv'[p] = Tail(q)
  <2>1. Head(q).op = "READ_RESP"
    <3>1. 1 \in DOMAIN q /\ Head(q) = q[1]
      BY <1>5, <1>7
    <3>. QED BY ZenonT(30), <1>0, <3>1 DEF Accounts, Sourced, Response
  <2>2. IdsUp(q)
    BY Zenon, <1>7 DEF Lines
  <2>3. Ids(q) = Ids(Tail(q)) \cup {x} /\ IdsUp(Tail(q)) /\ Below({x}, Ids(Tail(q)))
    BY Zenon, <1>5, <1>7, <2>2, IdsTail
  <2>4. Answering(p)' = {x}
    BY Zenon, <1>1, <1>2, <1>7, <2>1 DEF Answering, Only
  <2>5. ToAnswer(p) = Ids(q) /\ ToAnswer(p)' = Ids(Tail(q))
    BY Zenon, <1>2, <1>7 DEF ToAnswer, Only
  <2>6. Lines(n)'
    BY Zenon, <1>1, <1>2, <1>7, <2>3 DEF Lines
  <2>7. Moves(Stages(n), Stages(n)', 3, x)
    <3>. DEFINE st == Stages(n)
                u  == Stages(n)'
    <3>1. st \in Pipeline /\ u \in Pipeline
      BY Zenon, ReadsFacts
    <3>2. st[3] = {} /\ u[3] = {x} /\ st[4] = Ids(q) /\ u[4] = Ids(Tail(q))
      BY Zenon, ReadsFacts, <1>4, <2>4, <2>5
    <3>3. u[1] = st[1] /\ u[2] = st[2] /\ u[5] = st[5] /\ u[6] = st[6]
      BY Zenon, StageKept, <1>2, <1>3
    <3>. HIDE DEF st, u, x, q
    <3>4. st[4] = u[4] \cup {x} /\ Below({x}, u[4]) /\ u[3] = st[3] \cup {x}
      BY Zenon, <2>3, <3>2
    <3>5. Same(st, u, {1, 2, 5, 6})
      BY Zenon, <3>3 DEF Same
    <3>6. Moves(st, u, 3, x)
      BY Zenon, <3>1, <3>4, <3>5, PartsMove
    <3>. QED BY Zenon, <3>6 DEF st, u
  <2>8. Back(n) \subseteq Back(n)' /\ (3 = 1 => x \in Back(n)')
    <3>1. 3 # 1
      OBVIOUS
    <3>. QED BY Zenon, <3>1, <1>2
  <2>9. Flow(n)'
    BY Zenon, <1>2, <2>7, <2>8, FlowMoves
  <2>. QED BY Zenon, <2>6, <2>9
<1>. QED
  BY Zenon, <1>1, <1>6, <1>7

\* ... sends it, ...
LEMMA GiveAnswer ==
  ASSUME TypeOK, TypeOK', Accounts, NEW n \in Node, Lines(n), Flow(n), SendThread(Peer(n)),
         SendTransmit(Peer(n))
  PROVE  Lines(n)' /\ Flow(n)'
<1>. DEFINE p == Peer(n)
            m == MessageOf(p, sreq[p])
            x == sreq[p].id
<1>0. p \in Node /\ Peer(p) = n
  BY Zenon, PeerType
<1>1. spc[p] = "send" /\ (sreq[p].op = "READ_RESP" => spc'[p] # "send") /\ sreq' = sreq
  <2>1. spc[p] = "send" /\ sreq' = sreq
    BY Zenon DEF SendTransmit
  <2>2. sreq[p].op = "READ_RESP" => spc' = [spc EXCEPT ![p] = PollAgain(p)]
    BY Zenon DEF SendTransmit
  <2>3. PollAgain(p) # "send" /\ spc \in [Node -> {"poll", "send", "complete", "exit", "killed"}]
    BY Zenon DEF PollAgain, TypeOK
  <2>. QED BY Zenon, <1>0, <2>1, <2>2, <2>3
<1>2. /\ Handling(n)' = Handling(n) /\ Asked(p)' = Asked(p) /\ Asking(p)' = Asking(p)
      /\ Answered(n)' = Answered(n) /\ Waiting(n)' = Waiting(n) /\ Due(n)' = Due(n)
      /\ Back(n)' = Back(n) /\ Live(n)' = Live(n) /\ up' = up /\ pendq'[n] = pendq[n]
      /\ net'[p] = net[p]
  BY Zenon, SendAnswerer
<1>3. /\ up => net'[n] = Append(net[n], m)
      /\ ~up => net' = net
      /\ m \in Message /\ net[n] \in Seq(Message) /\ m.op = sreq[p].op /\ m.of = x
      /\ sqRecv' = sqRecv
  <2>1. /\ up => net'[Peer(p)] = Append(net[Peer(p)], m)
        /\ ~up => net' = net
        /\ m \in Message /\ net[Peer(p)] \in Seq(Message) /\ m.op = sreq[p].op /\ m.of = x
        /\ sqRecv' = sqRecv
    BY Zenon, <1>0, SentTo
  <2>. QED BY Zenon, <1>0, <2>1
<1>. HIDE DEF m
<1>4. ToAnswer(p)' = ToAnswer(p)
  BY Zenon, <1>2, <1>3 DEF ToAnswer
<1>5. Answering(p)' = {}
  BY Zenon, <1>1 DEF Answering, Only
<1>6. CASE ~up \/ sreq[p].op # "READ_RESP"
  <2>1. Answering(p) = {}
    BY Zenon, <1>6 DEF Answering, Only
  <2>2. /\ OfIds(net'[n], "READ_RESP") = OfIds(net[n], "READ_RESP")
        /\ Ascending(net[n], "READ_RESP") => Ascending(net'[n], "READ_RESP")
    <3>1. CASE ~up
      BY Zenon, <1>3, <3>1
    <3>2. CASE up
      <4>1. m \in Message /\ net[n] \in Seq(Message) /\ m.op # "READ_RESP"
        BY Zenon, <1>3, <1>6, <3>2
      <4>2. /\ OfIds(Append(net[n], m), "READ_RESP") = OfIds(net[n], "READ_RESP")
            /\ Ascending(net[n], "READ_RESP") => Ascending(Append(net[n], m), "READ_RESP")
        BY ZenonT(30), <4>1, OfIdsAppend
      <4>. QED BY Zenon, <1>3, <3>2, <4>2
    <3>. QED BY Zenon, <3>1, <3>2
  <2>3. Lines(n)'
    BY Zenon, <1>2, <1>3, <2>2 DEF Lines
  <2>4. Returning(n)' = Returning(n) /\ Answering(p)' = Answering(p)
    BY Zenon, <1>5, <2>1, <2>2 DEF Returning
  <2>5. /\ Answered(n)' => Answered(n) /\ Asking(p)' = Asking(p)
        /\ Back(n) \subseteq Back(n)'
    BY Zenon, <1>2
  <2>6. Due(n)' \in Nat /\ Due(n) <= Due(n)'
    <3>1. Due(n) \in Nat
      BY Zenon, DueNat
    <3>. QED BY <1>2, <3>1
  <2>7. Flow(n)'
    BY Zenon, <1>2, <1>4, <2>4, <2>5, <2>6, FlowKept
  <2>. QED BY Zenon, <2>3, <2>7
<1>7. CASE up /\ sreq[p].op = "READ_RESP"
  <2>. DEFINE st == Stages(n)
              u  == Stages(n)'
  <2>1. Answering(p) = {x}
    BY Zenon, <1>1, <1>7 DEF Answering, Only
  <2>2. st \in Pipeline /\ u \in Pipeline
    BY Zenon, ReadsFacts
  <2>3. /\ st[3] = {x} /\ u[3] = {} /\ st[2] = OfIds(net[n], "READ_RESP")
        /\ u[2] = OfIds(net'[n], "READ_RESP")
    BY Zenon, ReadsFacts, <1>5, <2>1 DEF Returning
  <2>4. u[1] = st[1] /\ u[4] = st[4] /\ u[5] = st[5] /\ u[6] = st[6]
    BY Zenon, StageKept, <1>2, <1>4
  <2>5. Below(st[2], {x})
    <3>1. Sorted(st)
      BY Zenon DEF Flow, Orderly
    <3>2. Below(st[2], st[3])
      BY <3>1 DEF Sorted
    <3>. QED BY Zenon, <2>3, <3>2
  <2>. HIDE DEF st, u, x
  <2>6. OfIds(net'[n], "READ_RESP") = OfIds(net[n], "READ_RESP") \cup {x}
    <3>1. m \in Message /\ net[n] \in Seq(Message) /\ m.op = "READ_RESP"
      BY Zenon, <1>3, <1>7
    <3>2. OfIds(Append(net[n], m), "READ_RESP") = OfIds(net[n], "READ_RESP") \cup {m.of}
      BY Zenon, <3>1, OfIdsSent
    <3>. QED BY Zenon, <1>3, <1>7, <3>2
  <2>7. Ascending(net'[n], "READ_RESP")
    <3>1. Ascending(net[n], "READ_RESP")
      BY Zenon DEF Lines
    <3>2. m \in Message /\ net[n] \in Seq(Message) /\ Below(OfIds(net[n], "READ_RESP"), {m.of})
      BY Zenon, <1>3, <2>3, <2>5
    <3>3. Ascending(Append(net[n], m), "READ_RESP")
      BY Zenon, <3>1, <3>2, OfIdsAppend
    <3>. QED BY Zenon, <1>3, <1>7, <3>3
  <2>8. Lines(n)'
    BY Zenon, <1>2, <1>3, <2>7 DEF Lines
  <2>9. Moves(st, u, 2, x)
    <3>1. st[3] = u[3] \cup {x} /\ Below({x}, u[3]) /\ u[2] = st[2] \cup {x}
      BY Zenon, <2>3, <2>6 DEF Below
    <3>2. Same(st, u, {1, 4, 5, 6})
      BY Zenon, <2>4 DEF Same
    <3>. QED BY Zenon, <2>2, <3>1, <3>2, PartsMove
  <2>10. Back(n) \subseteq Back(n)' /\ (2 = 1 => x \in Back(n)')
    <3>1. 2 # 1
      OBVIOUS
    <3>. QED BY Zenon, <3>1, <1>2
  <2>11. Flow(n)'
    BY Zenon, <1>2, <2>9, <2>10, FlowMoves DEF st, u
  <2>. QED BY Zenon, <2>8, <2>11
<1>. QED
  BY Zenon, <1>6, <1>7

\* ... or does something else.
LEMMA OtherAnswer ==
  ASSUME TypeOK, TypeOK', Accounts, NEW n \in Node, Lines(n), Flow(n), SendThread(Peer(n)),
         \/ SendReject(Peer(n)) \/ SendComplete(Peer(n))
         \/ SendExit(Peer(n)) \/ SendKilled(Peer(n))
  PROVE  Lines(n)' /\ Flow(n)'
<1>. DEFINE p == Peer(n)
<1>0. p \in Node
  BY Zenon, PeerType
<1>1. /\ net' = net /\ sqRecv' = sqRecv
      /\ \E c \in {"poll", "exit", "killed"} : spc' = [spc EXCEPT ![p] = c]
      /\ ~up \/ spc[p] # "send" \/ sreq[p].op # "READ_RESP"
  <2>1. /\ net' = net /\ sqRecv' = sqRecv
        /\ \E c \in {"poll", "exit", "killed"} : spc' = [spc EXCEPT ![p] = c]
    BY Zenon DEF SendReject, SendComplete, SendExit, SendKilled, PollAgain
  <2>2. ~up \/ spc[p] # "send" \/ sreq[p].op # "READ_RESP"
    BY Zenon DEF SendReject, SendComplete, SendExit, SendKilled, Sendable
  <2>. QED BY Zenon, <2>1, <2>2
<1>2. spc'[p] # "send"
  <2>1. spc \in [Node -> {"poll", "send", "complete", "exit", "killed"}]
    BY Zenon DEF TypeOK
  <2>. QED BY Zenon, <1>0, <1>1, <2>1
<1>3. /\ Handling(n)' = Handling(n) /\ Asked(p)' = Asked(p) /\ Asking(p)' = Asking(p)
      /\ Answered(n)' = Answered(n) /\ Waiting(n)' = Waiting(n) /\ Due(n)' = Due(n)
      /\ Back(n)' = Back(n) /\ up' = up /\ pendq'[n] = pendq[n]
  BY Zenon, SendAnswerer
<1>4. Answering(p) = {} /\ Answering(p)' = {}
  BY Zenon, <1>1, <1>2 DEF Answering, Only
<1>5. /\ Returning(n)' = Returning(n) /\ ToAnswer(p)' = ToAnswer(p)
      /\ Answering(p)' = Answering(p)
  BY Zenon, <1>1, <1>3, <1>4 DEF Returning, ToAnswer
<1>6. Lines(n)'
  BY Zenon, <1>1, <1>3 DEF Lines
<1>7. /\ Answered(n)' => Answered(n) /\ Asking(p)' = Asking(p)
      /\ Back(n) \subseteq Back(n)'
  BY Zenon, <1>3
<1>8. Due(n)' \in Nat /\ Due(n) <= Due(n)'
  <2>1. Due(n) \in Nat
    BY Zenon, DueNat
  <2>. QED BY <1>3, <2>1
<1>9. Flow(n)'
  BY Zenon, <1>3, <1>5, <1>7, <1>8, FlowKept
<1>. QED
  BY Zenon, <1>6, <1>9

\* rnic_send of the endpoint that is read: the responses go out in their order.
LEMMA AnswerReads ==
  ASSUME TypeOK, TypeOK', Accounts, NEW n \in Node, Reads(n), SendThread(Peer(n))
  PROVE  Reads(n)'
<1>. SUFFICES ASSUME Live(n)' PROVE Lines(n)' /\ Flow(n)'
  BY Zenon DEF Reads
<1>1. Lines(n) /\ Flow(n)
  BY Zenon, SendAnswerer DEF Reads
<1>2. CASE SendDequeue(Peer(n))
  BY Zenon, <1>1, <1>2, TakeAnswer
<1>3. CASE SendTransmit(Peer(n))
  BY Zenon, <1>1, <1>3, GiveAnswer
<1>4. CASE \/ SendReject(Peer(n)) \/ SendComplete(Peer(n))
           \/ SendExit(Peer(n)) \/ SendKilled(Peer(n))
  BY Zenon, <1>1, <1>4, OtherAnswer
<1>. QED
  BY Zenon, <1>2, <1>3, <1>4 DEF SendThread
===============================================================================
