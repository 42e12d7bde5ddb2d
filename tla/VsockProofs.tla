----------------------------- MODULE VsockProofs -----------------------------
(***************************************************************************)
(* The vsock table and its tasks for any connections, writers, plans and   *)
(* sizes: a slot of the table has an owner; an end that takes a connection *)
(* to be up is right or will be told; and where no stream is as long as    *)
(* the credit counters count, the credit is never overspent.               *)
(***************************************************************************)
EXTENDS Vsock, SequenceTheorems, TLAPS

Ops == {"request", "response", "reset", "shutdown", "data", "creditUpdate", "creditRequest"}
States == {"none", "connecting", "established", "reset", "refused", "closed"}

Packets ==
  [op : Ops, c : Conns, flags : SUBSET Directions, payload : Seq(Nat), buf : Nat, fwd : Nat]

Connections ==
  [state : States, receive : Seq(Nat), fwd : Nat, announced : Nat, peerBuf : Nat, peerFwd : Nat,
   tx : Nat, local : SUBSET Directions, peer : SUBSET Directions,
   transmitting : BOOLEAN, asked : BOOLEAN]

-----------------------------------------------------------------------------
(* A queue of packets, seen from one connection                            *)

Mentions(q, c) == \E i \in 1 .. Len(q) : q[i].c = c
Has(q, c, op) == \E i \in 1 .. Len(q) : q[i].c = c /\ q[i].op = op

\* A connection's request is its first packet, and comes once.
RequestFirst(q, c) ==
  \A i, j \in 1 .. Len(q) :
    q[i].c = c /\ q[i].op = "request" /\ q[j].c = c /\ i # j => i < j /\ q[j].op # "request"

ResponseOnce(q, c) ==
  \A i, j \in 1 .. Len(q) :
    q[i].c = c /\ q[i].op = "response" /\ q[j].c = c /\ q[j].op = "response" => i = j

\* The data packets of the connection carry the bytes after the r-th up to the
\* s-th, each once and in order.
IsData(p, c) == p.op = "data" /\ p.c = c
Consecutive(b, r) == b \in Seq(Nat) /\ Len(b) > 0 /\ \A k \in 1 .. Len(b) : b[k] = r + k
Spells(q, c, r, s) ==
  /\ \A i \in 1 .. Len(q) : IsData(q[i], c) =>
       /\ \E x \in Nat : r <= x /\ x + Len(q[i].payload) <= s /\ Consecutive(q[i].payload, x)
       /\ \A j \in 1 .. Len(q) : IsData(q[j], c) /\ i < j =>
            q[i].payload[Len(q[i].payload)] < q[j].payload[1]
  /\ \A b \in Nat : r < b /\ b <= s =>
       \E i \in 1 .. Len(q) : IsData(q[i], c) /\ \E k \in 1 .. Len(q[i].payload) : q[i].payload[k] = b

\* What the packets announce is no more than the r bytes that were read.
Credible(p, r) == p.op # "reset" => p.buf = Window /\ p.fwd <= r
Honest(q, c, r) == \A i \in 1 .. Len(q) : q[i].c = c => Credible(q[i], r)

\* A shutdown of the direction to the reader.  Data comes before it and before a
\* reset.
Final(p, c) == p.c = c /\ p.op = "shutdown" /\ "send" \in p.flags
HasFinal(q, c) == \E i \in 1 .. Len(q) : Final(q[i], c)
Closing(p, c) == Final(p, c) \/ (p.c = c /\ p.op = "reset")
DataFirst(q, c) ==
  \A i, j \in 1 .. Len(q) : Closing(q[i], c) /\ IsData(q[j], c) => j < i

LEMMA ConsecutiveFacts ==
  ASSUME NEW b, NEW r \in Nat, Consecutive(b, r)
  PROVE  /\ b \in Seq(Nat) /\ Len(b) \in Nat /\ Len(b) > 0
         /\ b[1] = r + 1 /\ b[Len(b)] = r + Len(b)
         /\ \A k \in 1 .. Len(b) : b[k] = r + k
<1>1. b \in Seq(Nat) /\ Len(b) > 0 /\ \A k \in 1 .. Len(b) : b[k] = r + k
  BY DEF Consecutive
<1>2. Len(b) \in Nat
  BY <1>1
<1>3. 1 \in 1 .. Len(b) /\ Len(b) \in 1 .. Len(b)
  BY <1>1, <1>2
<1> QED BY <1>1, <1>2, <1>3

LEMMA AppendElements ==
  ASSUME NEW q \in Seq(Packets), NEW p \in Packets
  PROVE  /\ Append(q, p) \in Seq(Packets) /\ Len(Append(q, p)) = Len(q) + 1 /\ Len(q) \in Nat
         /\ \A i \in 1 .. Len(q) : Append(q, p)[i] = q[i]
         /\ Append(q, p)[Len(q) + 1] = p
  OBVIOUS

LEMMA TailElements ==
  ASSUME NEW q \in Seq(Packets), q # <<>>
  PROVE  /\ Head(q) \in Packets /\ Tail(q) \in Seq(Packets)
         /\ Len(q) \in Nat /\ Len(q) >= 1 /\ Len(Tail(q)) = Len(q) - 1
         /\ \A i \in 1 .. Len(q) - 1 : Tail(q)[i] = q[i + 1]
         /\ Head(q) = q[1]
  OBVIOUS

LEMMA AppendHas ==
  ASSUME NEW q \in Seq(Packets), NEW p \in Packets, NEW c \in Conns
  PROVE  /\ Mentions(Append(q, p), c) <=> Mentions(q, c) \/ p.c = c
         /\ \A op \in Ops : Has(Append(q, p), c, op) <=> Has(q, c, op) \/ (p.c = c /\ p.op = op)
<1> DEFINE n == Len(q)
           Q == Append(q, p)
<1>1. /\ Len(Q) = n + 1 /\ n \in Nat /\ Q[n + 1] = p
      /\ \A i \in 1 .. n : Q[i] = q[i]
  BY AppendElements
<1> HIDE DEF Q
<1>2. \A i : i \in 1 .. Len(Q) <=> i \in 1 .. n \/ i = n + 1
  BY <1>1
<1> QED BY <1>1, <1>2 DEF Mentions, Has, Q

LEMMA TailHas ==
  ASSUME NEW q \in Seq(Packets), q # <<>>, NEW c \in Conns
  PROVE  /\ Mentions(q, c) <=> Mentions(Tail(q), c) \/ Head(q).c = c
         /\ \A op \in Ops : Has(q, c, op) <=> Has(Tail(q), c, op) \/ (Head(q).c = c /\ Head(q).op = op)
<1> DEFINE n == Len(q)
           Q == Tail(q)
<1>1. /\ Len(Q) = n - 1 /\ n \in Nat /\ n >= 1 /\ Head(q) = q[1]
      /\ \A i \in 1 .. n - 1 : Q[i] = q[i + 1]
  BY TailElements
<1> HIDE DEF Q
<1>2. \A i : i \in 1 .. n <=> i = 1 \/ \E j \in 1 .. Len(Q) : i = j + 1
  <2>1. \A i \in 1 .. n : i = 1 \/ (i - 1 \in 1 .. Len(Q) /\ i = (i - 1) + 1)
    BY <1>1
  <2>2. \A j \in 1 .. Len(Q) : j + 1 \in 1 .. n
    BY <1>1
  <2>3. 1 \in 1 .. n
    BY <1>1
  <2>4. ASSUME NEW i, i \in 1 .. n PROVE i = 1 \/ \E j \in 1 .. Len(Q) : i = j + 1
    BY <2>1, <2>4
  <2> QED BY <2>2, <2>3, <2>4
<1>3. \A j \in 1 .. Len(Q) : Q[j] = q[j + 1]
  BY <1>1
<1> QED BY <1>1, <1>2, <1>3 DEF Mentions, Has, Q

LEMMA HasMentions ==
  ASSUME NEW q, NEW c, NEW op, Has(q, c, op)
  PROVE  Mentions(q, c)
  BY DEF Has, Mentions

LEMMA EmptyHas ==
  ASSUME NEW c
  PROVE  ~Mentions(<<>>, c) /\ \A op : ~Has(<<>>, c, op)
  BY DEF Has, Mentions

LEMMA AppendOrder ==
  ASSUME NEW q \in Seq(Packets), NEW p \in Packets, NEW c \in Conns
  PROVE  /\ RequestFirst(q, c) /\ (p.c = c /\ p.op = "request" => ~Mentions(q, c)) => RequestFirst(Append(q, p), c)
         /\ ResponseOnce(q, c) /\ (p.c = c /\ p.op = "response" => ~Has(q, c, "response")) => ResponseOnce(Append(q, p), c)
<1> DEFINE n == Len(q)
           Q == Append(q, p)
<1>1. /\ Len(Q) = n + 1 /\ n \in Nat /\ Q[n + 1] = p
      /\ \A i \in 1 .. n : Q[i] = q[i]
  BY AppendElements
<1> HIDE DEF Q
<1>2. \A i \in 1 .. Len(Q) : i \in 1 .. n \/ i = n + 1
  BY <1>1
<1>3. \A i \in 1 .. n : i < n + 1
  BY <1>1
<1>4. ASSUME RequestFirst(q, c), p.c = c /\ p.op = "request" => ~Mentions(q, c)
      PROVE  RequestFirst(Q, c)
  BY <1>1, <1>2, <1>3, <1>4 DEF RequestFirst, Mentions
<1>5. ASSUME ResponseOnce(q, c), p.c = c /\ p.op = "response" => ~Has(q, c, "response")
      PROVE  ResponseOnce(Q, c)
  BY <1>1, <1>2, <1>5 DEF ResponseOnce, Has
<1> QED BY <1>4, <1>5 DEF Q

LEMMA TailOrder ==
  ASSUME NEW q \in Seq(Packets), q # <<>>, NEW c \in Conns
  PROVE  /\ RequestFirst(q, c) =>
              /\ RequestFirst(Tail(q), c)
              /\ Has(Tail(q), c, "request") => Head(q).c # c
         /\ ResponseOnce(q, c) =>
              /\ ResponseOnce(Tail(q), c)
              /\ Has(Tail(q), c, "response") => ~(Head(q).c = c /\ Head(q).op = "response")
<1> DEFINE n == Len(q)
           Q == Tail(q)
<1>1. /\ Len(Q) = n - 1 /\ n \in Nat /\ n >= 1 /\ Head(q) = q[1]
      /\ \A i \in 1 .. n - 1 : Q[i] = q[i + 1]
  BY TailElements
<1> HIDE DEF Q
<1>2. \A j \in 1 .. Len(Q) : j + 1 \in 1 .. n /\ j + 1 # 1 /\ Q[j] = q[j + 1] /\ ~(j + 1 < 1)
  BY <1>1
<1>3. 1 \in 1 .. n
  BY <1>1
<1>4. \A i, j \in 1 .. Len(Q) : (i < j <=> i + 1 < j + 1) /\ (i = j <=> i + 1 = j + 1)
  BY <1>1
<1>5. ASSUME RequestFirst(q, c)
      PROVE  RequestFirst(Q, c) /\ (Has(Q, c, "request") => Head(q).c # c)
  BY <1>1, <1>2, <1>3, <1>4, <1>5 DEF RequestFirst, Has
<1>6. ASSUME ResponseOnce(q, c)
      PROVE  ResponseOnce(Q, c) /\ (Has(Q, c, "response") => ~(Head(q).c = c /\ Head(q).op = "response"))
  <2>1. ResponseOnce(Q, c)
    BY <1>2, <1>4, <1>6 DEF ResponseOnce
  <2>2. ASSUME Has(Q, c, "response"), Head(q).c = c, Head(q).op = "response" PROVE FALSE
    <3>1. PICK j \in 1 .. Len(Q) : Q[j].c = c /\ Q[j].op = "response"
      BY <2>2 DEF Has
    <3>2. q[j + 1].c = c /\ q[j + 1].op = "response" /\ j + 1 \in 1 .. n /\ j + 1 # 1
      BY <1>2, <3>1
    <3> QED BY <1>1, <1>3, <1>6, <2>2, <3>2 DEF ResponseOnce
  <2> QED BY <2>1, <2>2
<1> QED BY <1>5, <1>6 DEF Q

LEMMA AppendFinal ==
  ASSUME NEW q \in Seq(Packets), NEW p \in Packets, NEW c \in Conns
  PROVE  /\ HasFinal(Append(q, p), c) <=> HasFinal(q, c) \/ Final(p, c)
         /\ DataFirst(q, c) /\ ~IsData(p, c) => DataFirst(Append(q, p), c)
<1> DEFINE Q == Append(q, p)  n == Len(q)
<1>1. n \in Nat /\ Len(Q) = n + 1 /\ (\A i \in 1 .. n : Q[i] = q[i]) /\ Q[n + 1] = p
  BY AppendElements
<1>2. \A i : i \in 1 .. Len(Q) <=> i \in 1 .. n \/ i = n + 1
  BY <1>1
<1> HIDE DEF Q
<1>3. HasFinal(Q, c) <=> HasFinal(q, c) \/ Final(p, c)
  BY <1>1, <1>2 DEF HasFinal
<1>4. ASSUME DataFirst(q, c), ~IsData(p, c) PROVE DataFirst(Q, c)
  <2> SUFFICES ASSUME NEW i \in 1 .. Len(Q), NEW j \in 1 .. Len(Q), Closing(Q[i], c), IsData(Q[j], c)
               PROVE  j < i
    BY DEF DataFirst
  <2>1. j \in 1 .. n /\ Q[j] = q[j]
    BY <1>1, <1>2, <1>4
  <2>2. CASE i = n + 1
    BY <1>1, <2>1, <2>2
  <2>3. CASE i \in 1 .. n
    BY <1>1, <1>4, <2>1, <2>3 DEF DataFirst
  <2> QED BY <1>2, <2>2, <2>3
<1> QED BY <1>3, <1>4 DEF Q

LEMMA TailFinal ==
  ASSUME NEW q \in Seq(Packets), q # <<>>, NEW c \in Conns
  PROVE  /\ HasFinal(q, c) <=> HasFinal(Tail(q), c) \/ Final(Head(q), c)
         /\ DataFirst(q, c) => DataFirst(Tail(q), c) /\ (Closing(Head(q), c) => ~Has(Tail(q), c, "data"))
<1> DEFINE Q == Tail(q)
<1>1. PICK n \in Nat : n = Len(q) /\ n >= 1 /\ Len(Q) = n - 1
  BY TailElements
<1>2. (\A i \in 1 .. n - 1 : Q[i] = q[i + 1]) /\ Head(q) = q[1]
  BY <1>1, TailElements
<1> HIDE DEF Q
<1>a. \A j \in 1 .. Len(Q) : j + 1 \in 1 .. n /\ q[j + 1] = Q[j]
  BY <1>1, <1>2
<1>b. ASSUME HasFinal(Q, c) \/ Final(q[1], c) PROVE HasFinal(q, c)
  BY <1>1, <1>a, <1>b DEF HasFinal
<1>c. ASSUME NEW i \in 1 .. n, Final(q[i], c), i # 1 PROVE HasFinal(Q, c)
  <2>1. i - 1 \in 1 .. Len(Q) /\ Q[i - 1] = q[i]
    BY <1>1, <1>2, <1>c
  <2> QED BY <1>c, <2>1 DEF HasFinal
<1>4. HasFinal(q, c) <=> HasFinal(Q, c) \/ Final(q[1], c)
  BY <1>1, <1>b, <1>c DEF HasFinal
<1>5. ASSUME DataFirst(q, c) PROVE DataFirst(Q, c)
  <2> SUFFICES ASSUME NEW i \in 1 .. Len(Q), NEW j \in 1 .. Len(Q), Closing(Q[i], c), IsData(Q[j], c)
               PROVE  j < i
    BY DEF DataFirst
  <2>1. i \in Int /\ j \in Int /\ i + 1 \in 1 .. n /\ j + 1 \in 1 .. n /\ Q[i] = q[i + 1] /\ Q[j] = q[j + 1]
    BY <1>1, <1>2
  <2>2. j + 1 < i + 1
    BY <1>1, <1>5, <2>1 DEF DataFirst
  <2> QED BY <2>1, <2>2
<1>6. ASSUME DataFirst(q, c), Closing(q[1], c), NEW j \in 1 .. Len(Q), IsData(Q[j], c) PROVE FALSE
  <2>1. j \in Int /\ j >= 1 /\ 1 \in 1 .. n /\ j + 1 \in 1 .. n /\ Q[j] = q[j + 1]
    BY <1>1, <1>2
  <2>2. j + 1 < 1
    BY <1>1, <1>6, <2>1 DEF DataFirst
  <2> QED BY <2>1, <2>2
<1> QED BY <1>2, <1>4, <1>5, <1>6 DEF Q, Has, IsData

LEMMA HonestQueue ==
  ASSUME NEW q \in Seq(Packets), NEW c \in Conns, NEW r \in Nat, NEW r2 \in Nat, r <= r2,
         Honest(q, c, r)
  PROVE  /\ Honest(q, c, r2)
         /\ \A p \in Packets : (p.c = c => Credible(p, r2)) => Honest(Append(q, p), c, r2)
         /\ q # <<>> => Honest(Tail(q), c, r2) /\ (Head(q).c = c => Credible(Head(q), r2))
<1>1. Honest(q, c, r2)
  <2>1. ASSUME NEW i \in 1 .. Len(q), q[i].c = c PROVE Credible(q[i], r2)
    <3>1. Credible(q[i], r)
      BY <2>1 DEF Honest
    <3>2. q[i] \in Packets
      BY <2>1
    <3>3. q[i].fwd \in Nat
      BY <3>2 DEF Packets
    <3> QED BY <3>1, <3>3 DEF Credible
  <2> QED BY <2>1 DEF Honest
<1>2. ASSUME NEW p \in Packets, p.c = c => Credible(p, r2) PROVE Honest(Append(q, p), c, r2)
  BY <1>1, <1>2, AppendElements DEF Honest
<1>3. ASSUME q # <<>> PROVE Honest(Tail(q), c, r2) /\ (Head(q).c = c => Credible(Head(q), r2))
  BY <1>1, <1>3, TailElements DEF Honest
<1> QED BY <1>1, <1>2, <1>3

LEMMA SpellsNothing ==
  ASSUME NEW q \in Seq(Packets), NEW c \in Conns, NEW r \in Nat, ~Has(q, c, "data")
  PROVE  /\ Spells(q, c, r, r)
         /\ \A s \in Nat : r <= s /\ Spells(q, c, r, s) => r = s
<1>1. \A i \in 1 .. Len(q) : ~IsData(q[i], c)
  BY DEF Has, IsData
<1>2. Spells(q, c, r, r)
  BY <1>1 DEF Spells
<1>3. ASSUME NEW s \in Nat, r <= s, Spells(q, c, r, s), r # s PROVE FALSE
  <2>1. r < s /\ s <= s
    BY <1>3
  <2> QED BY <1>1, <1>3, <2>1 DEF Spells
<1> QED BY <1>2, <1>3

LEMMA SpellsPast ==
  ASSUME NEW q \in Seq(Packets), NEW p \in Packets, NEW c \in Conns, NEW r \in Nat, NEW s \in Nat,
         ~IsData(p, c), Spells(q, c, r, s)
  PROVE  Spells(Append(q, p), c, r, s)
<1> DEFINE n == Len(q)
           Q == Append(q, p)
<1>1. /\ Len(Q) = n + 1 /\ n \in Nat /\ Q[n + 1] = p
      /\ \A i \in 1 .. n : Q[i] = q[i]
  BY AppendElements
<1> HIDE DEF Q
<1>2. \A i \in 1 .. Len(Q) : IsData(Q[i], c) => i \in 1 .. n /\ Q[i] = q[i]
  BY <1>1
<1>3. \A i \in 1 .. n : i \in 1 .. Len(Q) /\ Q[i] = q[i]
  BY <1>1
<1>4. ASSUME NEW i \in 1 .. Len(Q), IsData(Q[i], c)
      PROVE  /\ \E x \in Nat : r <= x /\ x + Len(Q[i].payload) <= s /\ Consecutive(Q[i].payload, x)
             /\ \A j \in 1 .. Len(Q) : IsData(Q[j], c) /\ i < j =>
                  Q[i].payload[Len(Q[i].payload)] < Q[j].payload[1]
  BY <1>2, <1>4 DEF Spells
<1>5. ASSUME NEW b \in Nat, r < b, b <= s
      PROVE  \E i \in 1 .. Len(Q) : IsData(Q[i], c) /\ \E k \in 1 .. Len(Q[i].payload) : Q[i].payload[k] = b
  <2>1. PICK i \in 1 .. n : IsData(q[i], c) /\ \E k \in 1 .. Len(q[i].payload) : q[i].payload[k] = b
    BY <1>5 DEF Spells
  <2> QED BY <1>3, <2>1
<1>6. Spells(Q, c, r, s)
  BY <1>4, <1>5 DEF Spells
<1> QED BY <1>6 DEF Q

LEMMA SpellsMore ==
  ASSUME NEW q \in Seq(Packets), NEW p \in Packets, NEW c \in Conns, NEW r \in Nat, NEW s \in Nat,
         r <= s, IsData(p, c), Consecutive(p.payload, s), Spells(q, c, r, s)
  PROVE  Spells(Append(q, p), c, r, s + Len(p.payload))
<1> DEFINE n == Len(q)
           Q == Append(q, p)
           m == Len(p.payload)
<1>1. /\ Len(Q) = n + 1 /\ n \in Nat /\ Q[n + 1] = p
      /\ \A i \in 1 .. n : Q[i] = q[i]
  BY AppendElements
<1>m. m \in Nat /\ m > 0 /\ p.payload[1] = s + 1
  BY DEF Consecutive
<1> HIDE DEF Q, m
<1>2. \A i \in 1 .. Len(Q) : i \in 1 .. n \/ i = n + 1
  BY <1>1
<1>3. \A i \in 1 .. n : i \in 1 .. Len(Q) /\ Q[i] = q[i]
  BY <1>1
<1>4. ASSUME NEW i \in 1 .. n, IsData(q[i], c)
      PROVE  \E x \in Nat : /\ r <= x /\ x + Len(q[i].payload) <= s /\ Consecutive(q[i].payload, x)
                            /\ q[i].payload[Len(q[i].payload)] <= s
  <2>1. PICK x \in Nat : r <= x /\ x + Len(q[i].payload) <= s /\ Consecutive(q[i].payload, x)
    BY <1>4 DEF Spells
  <2>2. Len(q[i].payload) \in Nat /\ Len(q[i].payload) > 0
    BY <2>1 DEF Consecutive
  <2>3. \A k \in 1 .. Len(q[i].payload) : q[i].payload[k] = x + k
    BY <2>1 DEF Consecutive
  <2>4. Len(q[i].payload) \in 1 .. Len(q[i].payload)
    BY <2>2
  <2>5. q[i].payload[Len(q[i].payload)] = x + Len(q[i].payload)
    BY <2>3, <2>4
  <2> QED BY <2>1, <2>5
<1>5. ASSUME NEW i \in 1 .. Len(Q), IsData(Q[i], c)
      PROVE  /\ \E x \in Nat : r <= x /\ x + Len(Q[i].payload) <= s + m /\ Consecutive(Q[i].payload, x)
             /\ \A j \in 1 .. Len(Q) : IsData(Q[j], c) /\ i < j =>
                  Q[i].payload[Len(Q[i].payload)] < Q[j].payload[1]
  <2>1. CASE i = n + 1
    <3>1. s + Len(Q[i].payload) <= s + m /\ Consecutive(Q[i].payload, s)
      BY <1>1, <1>m, <2>1 DEF m
    <3>2. \A j \in 1 .. Len(Q) : ~(i < j)
      BY <1>1, <2>1
    <3> QED BY <3>1, <3>2
  <2>2. CASE i \in 1 .. n
    <3>1. IsData(q[i], c) /\ Q[i] = q[i]
      BY <1>3, <1>5, <2>2
    <3>2. PICK x \in Nat : /\ r <= x /\ x + Len(q[i].payload) <= s /\ Consecutive(q[i].payload, x)
                           /\ q[i].payload[Len(q[i].payload)] <= s
      BY <1>4, <2>2, <3>1
    <3>3. Len(q[i].payload) \in Nat /\ Len(q[i].payload) > 0 /\ q[i].payload \in Seq(Nat)
      BY <3>2 DEF Consecutive
    <3>4. x + Len(q[i].payload) <= s + m
      BY <1>m, <3>2, <3>3
    <3>5. ASSUME NEW j \in 1 .. Len(Q), IsData(Q[j], c), i < j
          PROVE  Q[i].payload[Len(Q[i].payload)] < Q[j].payload[1]
      <4>1. CASE j = n + 1
        <5>1. q[i].payload[Len(q[i].payload)] = x + Len(q[i].payload)
          BY <3>2, ConsecutiveFacts
        <5>2. Q[j].payload[1] = s + 1
          BY <1>1, <1>m, <4>1
        <5>3. x + Len(q[i].payload) < s + 1
          BY <3>2, <3>3
        <5> QED BY <3>1, <5>1, <5>2, <5>3
      <4>2. CASE j \in 1 .. n
        BY <1>3, <2>2, <3>1, <3>5, <4>2 DEF Spells
      <4> QED BY <1>2, <4>1, <4>2
    <3> QED BY <3>1, <3>2, <3>4, <3>5
  <2> QED BY <1>2, <2>1, <2>2
<1>6. ASSUME NEW b \in Nat, r < b, b <= s + m
      PROVE  \E i \in 1 .. Len(Q) : IsData(Q[i], c) /\ \E k \in 1 .. Len(Q[i].payload) : Q[i].payload[k] = b
  <2>1. CASE b <= s
    <3>1. PICK i \in 1 .. n : IsData(q[i], c) /\ \E k \in 1 .. Len(q[i].payload) : q[i].payload[k] = b
      BY <1>6, <2>1 DEF Spells
    <3> QED BY <1>3, <3>1
  <2>2. CASE ~(b <= s)
    <3>1. b - s \in 1 .. m
      BY <1>m, <1>6, <2>2
    <3>2. p.payload[b - s] = b
      BY <1>m, <3>1 DEF Consecutive, m
    <3>3. n + 1 \in 1 .. Len(Q)
      BY <1>1
    <3> QED BY <1>1, <3>1, <3>2, <3>3 DEF m
  <2> QED BY <2>1, <2>2
<1>7. Spells(Q, c, r, s + m)
  BY <1>5, <1>6 DEF Spells
<1> QED BY <1>7 DEF Q, m

LEMMA SpellsTail ==
  ASSUME NEW q \in Seq(Packets), q # <<>>, NEW c \in Conns, NEW r \in Nat, NEW s \in Nat,
         Spells(q, c, r, s)
  PROVE  /\ ~IsData(Head(q), c) => Spells(Tail(q), c, r, s)
         /\ IsData(Head(q), c) =>
              /\ Consecutive(Head(q).payload, r)
              /\ r + Len(Head(q).payload) <= s
              /\ Spells(Tail(q), c, r + Len(Head(q).payload), s)
<1> DEFINE n == Len(q)
           Q == Tail(q)
           h == Head(q)
           m == Len(h.payload)
<1>1. /\ Len(Q) = n - 1 /\ n \in Nat /\ n >= 1 /\ h = q[1]
      /\ \A i \in 1 .. n - 1 : Q[i] = q[i + 1]
  BY TailElements
<1> HIDE DEF Q, h, m
<1>2. \A j \in 1 .. Len(Q) : j + 1 \in 1 .. n /\ 1 < j + 1 /\ Q[j] = q[j + 1]
  BY <1>1
<1>3. 1 \in 1 .. n
  BY <1>1
<1>4. \A i, j \in 1 .. Len(Q) : i < j => i + 1 < j + 1
  BY <1>1
<1>5. \A i \in 1 .. n : i = 1 \/ (i - 1 \in 1 .. Len(Q) /\ Q[i - 1] = q[i])
  <2>1. ASSUME NEW i \in 1 .. n, i # 1 PROVE i - 1 \in 1 .. Len(Q) /\ (i - 1) + 1 = i
    BY <1>1, <2>1
  <2> QED BY <1>2, <2>1
<1>6. ASSUME ~IsData(h, c) PROVE Spells(Q, c, r, s)
  <2>1. ASSUME NEW i \in 1 .. Len(Q), IsData(Q[i], c)
        PROVE  /\ \E x \in Nat : r <= x /\ x + Len(Q[i].payload) <= s /\ Consecutive(Q[i].payload, x)
               /\ \A j \in 1 .. Len(Q) : IsData(Q[j], c) /\ i < j =>
                    Q[i].payload[Len(Q[i].payload)] < Q[j].payload[1]
    BY <1>2, <1>4, <2>1 DEF Spells
  <2>2. ASSUME NEW b \in Nat, r < b, b <= s
        PROVE  \E i \in 1 .. Len(Q) : IsData(Q[i], c) /\ \E k \in 1 .. Len(Q[i].payload) : Q[i].payload[k] = b
    <3>1. PICK i \in 1 .. n : IsData(q[i], c) /\ \E k \in 1 .. Len(q[i].payload) : q[i].payload[k] = b
      BY <2>2 DEF Spells
    <3>2. i # 1
      BY <1>1, <1>6, <3>1
    <3>3. i - 1 \in 1 .. Len(Q) /\ Q[i - 1] = q[i]
      BY <1>5, <3>2
    <3> QED BY <3>1, <3>3
  <2> QED BY <2>1, <2>2 DEF Spells
<1>7. ASSUME IsData(h, c)
      PROVE  Consecutive(h.payload, r) /\ r + m <= s /\ Spells(Q, c, r + m, s)
  <2>1. PICK x \in Nat : r <= x /\ x + m <= s /\ Consecutive(h.payload, x)
    BY <1>1, <1>3, <1>7 DEF Spells, m
  <2>2. m \in Nat /\ m > 0 /\ h.payload[1] = x + 1 /\ h.payload[m] = x + m
    BY <2>1, ConsecutiveFacts DEF m
  <2>3. r + 1 \in Nat /\ r < r + 1 /\ r + 1 <= s
    BY <2>1, <2>2
  <2>4. PICK i \in 1 .. n : IsData(q[i], c) /\ \E k \in 1 .. Len(q[i].payload) : q[i].payload[k] = r + 1
    BY <2>3 DEF Spells
  <2>5. i = 1
    <3> SUFFICES ASSUME i # 1 PROVE FALSE
      OBVIOUS
    <3>1. 1 < i
      OBVIOUS
    <3>2. x + m < q[i].payload[1]
      BY <1>1, <1>3, <1>7, <2>2, <2>4, <3>1 DEF Spells, m
    <3>3. PICK y \in Nat : Consecutive(q[i].payload, y)
      BY <2>4 DEF Spells
    <3>4. PICK k \in 1 .. Len(q[i].payload) : q[i].payload[k] = r + 1
      BY <2>4
    <3>5. Len(q[i].payload) \in Nat /\ q[i].payload[1] = y + 1 /\ q[i].payload[k] = y + k
      BY <3>3, <3>4, ConsecutiveFacts
    <3> QED BY <2>1, <2>2, <3>2, <3>4, <3>5
  <2>6. x = r
    <3>1. PICK k \in 1 .. m : h.payload[k] = r + 1
      BY <1>1, <2>4, <2>5 DEF m
    <3>2. h.payload[k] = x + k
      BY <2>1, <3>1 DEF Consecutive, m
    <3> QED BY <2>1, <2>2, <3>1, <3>2
  <2>7. ASSUME NEW j \in 1 .. Len(Q), IsData(Q[j], c)
        PROVE  /\ \E y \in Nat : r + m <= y /\ y + Len(Q[j].payload) <= s /\ Consecutive(Q[j].payload, y)
               /\ \A l \in 1 .. Len(Q) : IsData(Q[l], c) /\ j < l =>
                    Q[j].payload[Len(Q[j].payload)] < Q[l].payload[1]
    <3>1. j + 1 \in 1 .. n /\ 1 < j + 1 /\ Q[j] = q[j + 1]
      BY <1>2
    <3>2. PICK y \in Nat : y + Len(Q[j].payload) <= s /\ Consecutive(Q[j].payload, y)
      BY <2>7, <3>1 DEF Spells
    <3>3. r + m < Q[j].payload[1]
      BY <1>1, <1>3, <1>7, <2>2, <2>6, <2>7, <3>1 DEF Spells, m
    <3>4. Q[j].payload[1] = y + 1
      BY <3>2 DEF Consecutive
    <3>5. r + m <= y
      BY <2>2, <3>3, <3>4
    <3>6. \A l \in 1 .. Len(Q) : IsData(Q[l], c) /\ j < l =>
            Q[j].payload[Len(Q[j].payload)] < Q[l].payload[1]
      BY <1>2, <1>4, <2>7 DEF Spells
    <3> QED BY <3>2, <3>5, <3>6
  <2>8. ASSUME NEW b \in Nat, r + m < b, b <= s
        PROVE  \E j \in 1 .. Len(Q) : IsData(Q[j], c) /\ \E k \in 1 .. Len(Q[j].payload) : Q[j].payload[k] = b
    <3>1. r < b
      BY <2>2, <2>8
    <3>2. PICK j \in 1 .. n : IsData(q[j], c) /\ \E k \in 1 .. Len(q[j].payload) : q[j].payload[k] = b
      BY <2>8, <3>1 DEF Spells
    <3>3. j # 1
      <4> SUFFICES ASSUME j = 1 PROVE FALSE
        OBVIOUS
      <4>1. PICK k \in 1 .. m : h.payload[k] = b
        BY <1>1, <3>2 DEF m
      <4>2. b = r + k
        BY <2>1, <2>6, <4>1 DEF Consecutive, m
      <4> QED BY <2>2, <2>8, <4>2
    <3>4. j - 1 \in 1 .. Len(Q) /\ Q[j - 1] = q[j]
      BY <1>5, <3>3
    <3> QED BY <3>2, <3>4
  <2>9. Spells(Q, c, r + m, s)
    BY <2>7, <2>8 DEF Spells
  <2> QED BY <2>1, <2>6, <2>9
<1> QED BY <1>6, <1>7 DEF Q, h, m

-----------------------------------------------------------------------------
(* The state                                                               *)

Carried == {"request", "data", "creditRequest", "creditUpdate", "shutdown", "reset"}
WriterPc == {"idle", "armed", "blocked", "data", "sent", "creditRequest", "parked", "gone"}
ReaderPc == {"idle", "armed", "creditUpdate", "parked", "eof", "gone"}
ControlPc == {"idle", "request", "connecting", "armed", "parked", "open", "shutdown", "reset", "gone"}
AcceptedPc == {"idle", "open", "shutdown", "reset", "gone"}

TypeOK ==
  /\ plan \in Plans
  /\ conn \in [Ends -> [Conns -> Connections]]
  /\ queued \in Seq(Conns)
  /\ wire \in [Ends -> Seq(Packets)]
  /\ pump \in [Ends -> Packets \cup {NoPacket}]
  /\ pc \in [Ends -> [Conns -> [Tasks -> WriterPc \cup ReaderPc \cup ControlPc]]]
  /\ packet \in [Ends -> [Conns -> [Tasks -> Packets \cup {NoPacket}]]]
  /\ done \in [Ends -> [Conns -> Nat]]
  /\ drained \in [Ends -> [Conns -> Seq(Nat)]]
  /\ got \in [Ends -> [Conns -> Seq(Nat)]]
  /\ ended \in [Ends -> [Conns -> BOOLEAN]]
  /\ faults \in Nat

\* Each task is at a step of its own call, with the packet it is to transmit.
TaskOf(c) ==
  \A e \in Ends :
    /\ \A w \in Writers : pc[e][c][w] \in WriterPc
    /\ pc[e][c]["reader"] \in ReaderPc
    /\ pc[e][c]["control"] \in ControlPc
    /\ e = "b" => pc[e][c]["control"] \in AcceptedPc
    /\ \A t \in Tasks :
         /\ pc[e][c][t] \in Carried => packet[e][c][t].op = pc[e][c][t]
         /\ pc[e][c][t] = "sent" => packet[e][c][t].op = "data"
         /\ pc[e][c][t] \notin Carried \cup {"sent"} => packet[e][c][t] = NoPacket
         /\ packet[e][c][t] # NoPacket => packet[e][c][t].c = c
TaskInv == \A c \in Conns : TaskOf(c)

Waiting(c) == \E i \in 1 .. Len(queued) : queued[i] = c

\* SlotsOwned with the task that still has its reset to transmit: its slot is
\* free already.
SlotOf(c) ==
  \A e \in Ends :
    /\ ~Exists(e, c) => conn[e][c] = Free
    /\ Exists(e, c) /\ pc[e][c]["control"] \in {"idle", "reset", "gone"} =>
         e = "b" /\ (c \in orphans \/ Waiting(c))

\* The request of connection c has not been handled.
Unborn(c) == pc["a"][c]["control"] \in {"idle", "request"} \/ Has(wire["b"], c, "request")
Replying(e, c) == pump[e] # NoPacket /\ pump[e].c = c

\* Until then nothing has been done with the connection, by either end.
BirthOf(c) ==
  /\ Unborn(c) =>
       /\ ~Exists("b", c) /\ conn["a"][c].state # "established"
       /\ pc["a"][c]["control"] \notin {"open", "shutdown"}
       /\ \A t \in Tasks : pc["b"][c][t] = "idle" /\ (t # "control" => pc["a"][c][t] = "idle")
       /\ \A e \in Ends :
            /\ got[e][c] = <<>> /\ drained[e][c] = <<>> /\ done[e][c] = 0
            /\ ~Replying(e, c)
       /\ ~Waiting(c) /\ ~Mentions(wire["a"], c) /\ ~Has(wire["b"], c, "data")
  /\ pc["a"][c]["control"] \in {"idle", "request"} => ~Mentions(wire["b"], c)
  /\ pc["a"][c]["control"] # "idle" => c \in DOMAIN plan.bytes
BirthInv == \A c \in Conns : BirthOf(c)

\* The request comes first and once, the response once and only while "a" is
\* not established.
OrderOf(c) ==
  /\ \A e \in Ends : Replying(e, c) => pump[e].op \in {"reset", "response", "creditUpdate"}
  /\ RequestFirst(wire["b"], c) /\ ~Has(wire["a"], c, "request")
  /\ ResponseOnce(wire["a"], c) /\ ~Has(wire["b"], c, "response")
  /\ Replying("a", c) => pump["a"].op # "response"
  /\ Replying("b", c) /\ pump["b"].op = "response" =>
       ~Has(wire["a"], c, "response") /\ conn["a"][c].state # "established"
  /\ Has(wire["a"], c, "response") => conn["a"][c].state # "established"

TableOf(c) == TaskOf(c) /\ SlotOf(c) /\ BirthOf(c) /\ OrderOf(c)
TableInv == TypeOK /\ \A c \in Conns : TableOf(c)

-----------------------------------------------------------------------------
(* Types                                                                   *)

LEMMA EndsFacts ==
  /\ "a" \in Ends /\ "b" \in Ends
  /\ \A e \in Ends : Other(e) \in Ends /\ Other(e) # e /\ Other(Other(e)) = e /\ (e = "a" \/ e = "b")
  /\ Other("a") = "b" /\ Other("b") = "a"
  BY DEF Ends, Other

LEMMA TaskFacts ==
  /\ "reader" \in Tasks /\ "control" \in Tasks /\ "reader" \notin Writers /\ "control" \notin Writers
  /\ \A w \in Writers : w \in Tasks /\ w # "reader" /\ w # "control"
  /\ \A t \in Tasks : t \in Writers \/ t = "reader" \/ t = "control"
  BY WritersAssumption DEF Tasks

LEMMA OpenedType ==
  ASSUME NEW s \in States
  PROVE  Opened(s) \in Connections
  BY DEF Opened, Connections, Directions

LEMMA FreeType == Free \in Connections /\ Free.state = "none"
  BY OpenedType DEF Free, States, Opened

LEMMA PacketTypes ==
  ASSUME NEW k \in Connections, NEW c \in Conns, NEW op \in Ops
  PROVE  /\ Header(op, c, k) \in Packets /\ Header(op, c, k).op = op /\ Header(op, c, k).c = c
         /\ Header(op, c, k).buf = Window /\ Header(op, c, k).fwd = k.fwd
         /\ Header(op, c, k).flags = {}
         /\ Reply(op, c) \in Packets /\ Reply(op, c).op = op /\ Reply(op, c).c = c
<1>1. k.fwd \in Nat
  BY DEF Connections
<1> QED BY <1>1, WindowAssumption DEF Header, Reply, Packets, Directions

LEMMA NoPacketFacts == NoPacket.op = "none" /\ \A p \in Packets : p # NoPacket /\ p.op # "none"
  BY DEF NoPacket, Packets, Ops

LEMMA AbsorbType ==
  ASSUME NEW k \in Connections, NEW p \in Packets
  PROVE  /\ Absorb(k, p) \in Connections
         /\ Absorb(k, p) = [k EXCEPT !.peerBuf = p.buf, !.peerFwd = p.fwd, !.asked = FALSE]
         /\ Announced(k) \in Connections
<1>1. p.buf \in Nat /\ p.fwd \in Nat /\ k.fwd \in Nat
  BY DEF Connections, Packets
<1> QED BY <1>1 DEF Absorb, Announced, Connections

LEMMA EntryFields ==
  ASSUME NEW k \in Connections
  PROVE  /\ k.state \in States /\ k.receive \in Seq(Nat) /\ Len(k.receive) \in Nat
         /\ k.fwd \in Nat /\ k.tx \in Nat /\ k.peerBuf \in Nat /\ k.peerFwd \in Nat /\ k.announced \in Nat
         /\ k.local \in SUBSET Directions /\ k.peer \in SUBSET Directions
         /\ k.transmitting \in BOOLEAN /\ k.asked \in BOOLEAN
  BY DEF Connections

LEMMA PacketFields ==
  ASSUME NEW p \in Packets
  PROVE  /\ p.op \in Ops /\ p.c \in Conns /\ p.flags \in SUBSET Directions
         /\ p.payload \in Seq(Nat) /\ Len(p.payload) \in Nat /\ p.buf \in Nat /\ p.fwd \in Nat
  BY DEF Packets

LEMMA AbsorbFields ==
  ASSUME NEW k \in Connections, NEW p \in Packets
  PROVE  /\ Absorb(k, p).state = k.state /\ Absorb(k, p).receive = k.receive
         /\ Absorb(k, p).local = k.local /\ Absorb(k, p).peer = k.peer
         /\ Absorb(k, p).fwd = k.fwd /\ Absorb(k, p).tx = k.tx
         /\ Absorb(k, p).transmitting = k.transmitting
         /\ Absorb(k, p).peerBuf = p.buf /\ Absorb(k, p).peerFwd = p.fwd
  BY DEF Connections, Absorb

-----------------------------------------------------------------------------
(* What the pump does with packet p: the entry becomes k, the reply is r.  *)

Takes(e, p, k, r) ==
  /\ pump[e] = NoPacket /\ wire[e] # <<>> /\ p = Head(wire[e])
  /\ wire' = [wire EXCEPT ![e] = Tail(@)]
  /\ conn' = [conn EXCEPT ![e][p.c] = k]
  /\ pump' = [pump EXCEPT ![e] = r]
  /\ UNCHANGED <<plan, pc, packet, done, drained, got, ended, faults, orphans>>

Refuses(e, p, k, r) ==
  /\ p.op = "request" /\ k = conn[e][p.c] /\ r = Reply("reset", p.c) /\ queued' = queued

Admits(e, p, k, r) ==
  /\ p.op = "request" /\ e = "b" /\ ~Exists(e, p.c) /\ k = Absorb(Opened("established"), p)
  /\ r = Header("response", p.c, k) /\ queued' = Append(queued, p.c)

Ignores(e, p, k, r) ==
  /\ p.op # "request" /\ ~Exists(e, p.c) /\ k = conn[e][p.c] /\ queued' = queued
  /\ r = IF p.op \in {"reset", "creditUpdate"} THEN NoPacket ELSE Reply("reset", p.c)

Establishes(e, p, k, r) ==
  /\ p.op = "response" /\ conn[e][p.c].state = "connecting" /\ queued' = queued
  /\ k = [Absorb(conn[e][p.c], p) EXCEPT !.state = "established"] /\ r = NoPacket

Mistimed(e, p, k, r) ==
  /\ p.op = "response" /\ Exists(e, p.c) /\ conn[e][p.c].state # "connecting" /\ queued' = queued
  /\ k = Absorb(conn[e][p.c], p) /\ r = Reply("reset", p.c)

IsReset(e, p, k, r) ==
  /\ p.op = "reset" /\ Exists(e, p.c) /\ queued' = queued /\ r = NoPacket
  /\ k = [conn[e][p.c] EXCEPT !.state = IF conn[e][p.c].state = "connecting" THEN "refused" ELSE "reset"]

HalfCloses(e, p, k, r) ==
  /\ p.op = "shutdown" /\ Exists(e, p.c) /\ queued' = queued
  /\ conn[e][p.c].peer \cup p.flags # Directions
  /\ k = [Absorb(conn[e][p.c], p) EXCEPT !.peer = conn[e][p.c].peer \cup p.flags] /\ r = NoPacket

FullyCloses(e, p, k, r) ==
  /\ p.op = "shutdown" /\ Exists(e, p.c) /\ queued' = queued
  /\ conn[e][p.c].peer \cup p.flags = Directions
  /\ k = [Absorb(conn[e][p.c], p) EXCEPT !.peer = Directions, !.state = "closed"]
  /\ r = Reply("reset", p.c)

Stores(e, p, k, r) ==
  /\ p.op = "data" /\ conn[e][p.c].state \in Live /\ queued' = queued
  /\ Len(p.payload) <= Window - Len(conn[e][p.c].receive)
  /\ k = [Absorb(conn[e][p.c], p) EXCEPT !.receive = conn[e][p.c].receive \o p.payload] /\ r = NoPacket

Discards(e, p, k, r) ==
  /\ p.op = "data" /\ Exists(e, p.c) /\ queued' = queued
  /\ conn[e][p.c].state \notin Live \/ Len(p.payload) > Window - Len(conn[e][p.c].receive)
  /\ k = [Absorb(conn[e][p.c], p) EXCEPT
            !.state = IF conn[e][p.c].state \in Live THEN "reset" ELSE conn[e][p.c].state]
  /\ r = Reply("reset", p.c)

TakesCredit(e, p, k, r) ==
  /\ Exists(e, p.c) /\ queued' = queued
  /\ \/ p.op = "creditUpdate" /\ k = Absorb(conn[e][p.c], p) /\ r = NoPacket
     \/ /\ p.op = "creditRequest"
        /\ k = Announced(Absorb(conn[e][p.c], p)) /\ r = Header("creditUpdate", p.c, k)

Outcome(e, p, k, r) ==
  \/ Refuses(e, p, k, r) \/ Admits(e, p, k, r) \/ Ignores(e, p, k, r)
  \/ Establishes(e, p, k, r) \/ Mistimed(e, p, k, r) \/ IsReset(e, p, k, r)
  \/ HalfCloses(e, p, k, r) \/ FullyCloses(e, p, k, r)
  \/ Stores(e, p, k, r) \/ Discards(e, p, k, r) \/ TakesCredit(e, p, k, r)

LEMMA ConnEntry ==
  ASSUME NEW c1 \in [Ends -> [Conns -> Connections]], NEW e \in Ends, NEW c \in Conns, NEW k \in Connections
  PROVE  /\ [c1 EXCEPT ![e][c] = k] \in [Ends -> [Conns -> Connections]]
         /\ [c1 EXCEPT ![e][c] = k][e][c] = k
         /\ \A x \in Ends, d \in Conns : x # e \/ d # c => [c1 EXCEPT ![e][c] = k][x][d] = c1[x][d]
         /\ [c1 EXCEPT ![e][c] = c1[e][c]] = c1
  OBVIOUS

LEMMA OutcomeTypes ==
  ASSUME TypeOK, NEW e \in Ends, NEW p \in Packets, NEW k, NEW r, Outcome(e, p, k, r)
  PROVE  k \in Connections /\ r \in Packets \cup {NoPacket} /\ p.c \in Conns
<1>1. p.c \in Conns /\ p.flags \in SUBSET Directions /\ p.payload \in Seq(Nat)
  BY DEF Packets
<1> DEFINE old == conn[e][p.c]
<1>2. old \in Connections
  BY <1>1 DEF TypeOK
<1>3. Absorb(old, p) \in Connections /\ Absorb(Opened("established"), p) \in Connections
  BY <1>2, AbsorbType, OpenedType DEF States
<1>4. Reply("reset", p.c) \in Packets
  BY <1>1, <1>2, PacketTypes DEF Ops
<1>5. \A q \in Connections : Header("response", p.c, q) \in Packets /\ Header("creditUpdate", p.c, q) \in Packets
  BY <1>1, PacketTypes DEF Ops
<1>6. \A q \in Connections, s \in States : [q EXCEPT !.state = s] \in Connections
  BY DEF Connections
<1>7. \A q \in Connections, f \in SUBSET Directions, s \in States : [q EXCEPT !.peer = f, !.state = s] \in Connections /\ [q EXCEPT !.peer = f] \in Connections
  BY DEF Connections
<1>8. [Absorb(old, p) EXCEPT !.receive = old.receive \o p.payload] \in Connections
  <2>1. old.receive \o p.payload \in Seq(Nat)
    BY <1>1, <1>2 DEF Connections
  <2> QED BY <1>3, <2>1 DEF Connections
<1>9. Announced(Absorb(old, p)) \in Connections
  BY <1>3, AbsorbType
<1>10. old.state \in States /\ old.peer \in SUBSET Directions
  BY <1>2 DEF Connections
<1>11. {"established", "reset", "refused", "closed"} \subseteq States
  BY DEF States
<1> HIDE DEF old
<1>a. CASE Refuses(e, p, k, r)
  BY <1>a, <1>1, <1>2, <1>4 DEF Refuses, old
<1>b. CASE Admits(e, p, k, r)
  BY <1>b, <1>1, <1>3, <1>5 DEF Admits
<1>c. CASE Ignores(e, p, k, r)
  BY <1>c, <1>1, <1>2, <1>4 DEF Ignores, old
<1>d. CASE Establishes(e, p, k, r)
  BY <1>d, <1>1, <1>3, <1>6, <1>11 DEF Establishes, old
<1>e. CASE Mistimed(e, p, k, r)
  BY <1>e, <1>1, <1>3, <1>4 DEF Mistimed, old
<1>f. CASE IsReset(e, p, k, r)
  BY <1>f, <1>1, <1>2, <1>6, <1>11 DEF IsReset, old
<1>g. CASE HalfCloses(e, p, k, r)
  <2>1. old.peer \cup p.flags \in SUBSET Directions
    BY <1>1, <1>10
  <2> QED BY <1>g, <1>1, <1>3, <1>7, <1>11, <2>1 DEF HalfCloses, old
<1>h. CASE FullyCloses(e, p, k, r)
  BY <1>h, <1>1, <1>3, <1>4, <1>7, <1>11 DEF FullyCloses, old
<1>i. CASE Stores(e, p, k, r)
  BY <1>i, <1>1, <1>8 DEF Stores, old
<1>j. CASE Discards(e, p, k, r)
  BY <1>j, <1>1, <1>3, <1>4, <1>6, <1>10, <1>11 DEF Discards, old
<1>k. CASE TakesCredit(e, p, k, r)
  BY <1>k, <1>1, <1>3, <1>5, <1>9 DEF TakesCredit, old
<1> QED BY <1>a, <1>b, <1>c, <1>d, <1>e, <1>f, <1>g, <1>h, <1>i, <1>j, <1>k DEF Outcome

LEMMA AnswersPump ==
  ASSUME NEW e, NEW r, Answers(e, r)
  PROVE  pump' = [pump EXCEPT ![e] = r]
  BY DEF Answers, Signals

LEMMA ReceiveTakes ==
  ASSUME TypeOK, NEW e \in Ends, Receive(e)
  PROVE  \E p \in Packets : \E k, r : Takes(e, p, k, r) /\ Outcome(e, p, k, r)
<1> DEFINE p == Head(wire[e])
           old == conn[e][p.c]
<1>1. wire[e] \in Seq(Packets) /\ wire[e] # <<>>
  BY DEF TypeOK, Receive
<1>2. p \in Packets
  BY <1>1, TailElements
<1>3. p.c \in Conns /\ p.op \in Ops /\ p.payload \in Seq(Nat)
  BY <1>2 DEF Packets
<1>4. conn \in [Ends -> [Conns -> Connections]] /\ old \in Connections
  BY <1>3 DEF TypeOK
<1>5. /\ pump[e] = NoPacket /\ wire' = [wire EXCEPT ![e] = Tail(@)]
      /\ UNCHANGED <<plan, pc, packet, done, drained, got, ended, faults, orphans>>
  BY DEF Receive, resultVars
<1>6. [conn EXCEPT ![e][p.c] = old] = conn
  BY <1>3, <1>4, ConnEntry
<1> SUFFICES \E k, r : conn' = [conn EXCEPT ![e][p.c] = k] /\ pump' = [pump EXCEPT ![e] = r] /\ Outcome(e, p, k, r)
  BY <1>1, <1>2, <1>5 DEF Takes
<1>abs. /\ Absorb(old, p).state = old.state /\ Absorb(old, p).peer = old.peer
        /\ Absorb(old, p).receive = old.receive
  BY <1>2, <1>4, AbsorbFields
<1>7. CASE p.op = "request"
  <2>1. HandleRequest(e, p)
    BY <1>7 DEF Receive
  <2> DEFINE k == Absorb(Opened("established"), p)
  <2>2. CASE Answers(e, Reply("reset", p.c)) /\ UNCHANGED <<conn, queued>>
    BY <1>6, <1>7, <2>2, AnswersPump DEF Outcome, Refuses
  <2>3. CASE e = "b" /\ ~Exists(e, p.c) /\ Set(e, p.c, k) /\ queued' = Append(queued, p.c) /\ Answers(e, Header("response", p.c, k))
    BY <1>7, <2>3, AnswersPump DEF Outcome, Admits, Set
  <2> QED BY <2>1, <2>2, <2>3 DEF HandleRequest
<1>8. CASE p.op # "request" /\ ~Exists(e, p.c)
  <2>1. HandleUnknown(e, p)
    BY <1>8 DEF Receive
  <2> QED BY <1>6, <1>8, <2>1, AnswersPump DEF Outcome, Ignores, HandleUnknown
<1>9. CASE p.op = "response" /\ Exists(e, p.c)
  <2>1. HandleResponse(e, p)
    BY <1>9 DEF Receive
  <2>2. CASE old.state = "connecting"
    BY <1>9, <1>abs, <2>1, <2>2, AnswersPump DEF Outcome, Establishes, HandleResponse, Set
  <2>3. CASE old.state # "connecting"
    BY <1>9, <1>abs, <2>1, <2>3, AnswersPump DEF Outcome, Mistimed, HandleResponse, Set
  <2> QED BY <2>2, <2>3
<1>10. CASE p.op = "reset" /\ Exists(e, p.c)
  <2>1. HandleReset(e, p)
    BY <1>10 DEF Receive
  <2> DEFINE k == [old EXCEPT !.state = IF old.state = "connecting" THEN "refused" ELSE "reset"]
  <2>2. conn' = [conn EXCEPT ![e][p.c] = k]
    BY <1>3, <1>4, <2>1 DEF HandleReset
  <2>3. pump' = [pump EXCEPT ![e] = NoPacket] /\ queued' = queued
    BY <2>1, AnswersPump DEF HandleReset
  <2>4. IsReset(e, p, k, NoPacket)
    BY <1>10, <2>3 DEF IsReset
  <2> QED BY <2>2, <2>3, <2>4 DEF Outcome
<1>11. CASE p.op = "shutdown" /\ Exists(e, p.c)
  <2>1. HandleShutdown(e, p)
    BY <1>11 DEF Receive
  <2>a. Absorb(old, p) \in Connections
    BY <1>2, <1>4, AbsorbType
  <2>2. CASE old.peer \cup p.flags = Directions
    <3> DEFINE k == [Absorb(old, p) EXCEPT !.peer = Directions, !.state = "closed"]
    <3>1. conn' = [conn EXCEPT ![e][p.c] = k] /\ Answers(e, Reply("reset", p.c)) /\ queued' = queued
      BY <1>abs, <2>1, <2>2, <2>a DEF HandleShutdown, Set, Connections
    <3> QED BY <1>11, <2>2, <3>1, AnswersPump DEF Outcome, FullyCloses
  <2>3. CASE old.peer \cup p.flags # Directions
    <3> DEFINE k == [Absorb(old, p) EXCEPT !.peer = old.peer \cup p.flags]
    <3>1. conn' = [conn EXCEPT ![e][p.c] = k] /\ Answers(e, NoPacket) /\ queued' = queued
      <4>1. [Absorb(old, p) EXCEPT !.peer = old.peer \cup p.flags, !.state = Absorb(old, p).state] = k
        BY <2>a DEF Connections
      <4> QED BY <1>abs, <2>1, <2>3, <4>1 DEF HandleShutdown, Set
    <3> QED BY <1>11, <2>3, <3>1, AnswersPump DEF Outcome, HalfCloses
  <2> QED BY <2>2, <2>3
<1>12. CASE p.op = "data" /\ Exists(e, p.c)
  <2>1. HandleData(e, p)
    BY <1>12 DEF Receive
  <2>a. Absorb(old, p) \in Connections
    BY <1>2, <1>4, AbsorbType
  <2>b. Len(p.payload) \in Nat /\ Len(old.receive) \in Nat /\ Window \in Nat
    BY <1>2, <1>4, WindowAssumption, EntryFields, PacketFields
  <2>2. CASE old.state \in Live /\ ~(Len(p.payload) > Window - Len(old.receive))
    <3> DEFINE k == [Absorb(old, p) EXCEPT !.receive = old.receive \o p.payload]
    <3>1. conn' = [conn EXCEPT ![e][p.c] = k] /\ Answers(e, NoPacket) /\ queued' = queued
      BY <1>abs, <2>1, <2>2 DEF HandleData, Set
    <3>2. Len(p.payload) <= Window - Len(old.receive)
      <4>1. \A x, y, z \in Nat : ~(x > y - z) => x <= y - z
        OBVIOUS
      <4> QED BY <2>2, <2>b, <4>1, Zenon
    <3> QED BY <1>12, <2>2, <3>1, <3>2, AnswersPump DEF Outcome, Stores
  <2>3. CASE old.state \notin Live \/ Len(p.payload) > Window - Len(old.receive)
    <3> DEFINE k == [Absorb(old, p) EXCEPT !.state = IF old.state \in Live THEN "reset" ELSE old.state]
    <3>1. k = IF old.state \in Live THEN [Absorb(old, p) EXCEPT !.state = "reset"] ELSE Absorb(old, p)
      BY <1>abs, <2>a DEF Connections
    <3>2. conn' = [conn EXCEPT ![e][p.c] = k] /\ Answers(e, Reply("reset", p.c)) /\ queued' = queued
      BY <1>abs, <2>1, <2>3, <3>1 DEF HandleData, Set
    <3> QED BY <1>12, <2>3, <3>2, AnswersPump DEF Outcome, Discards
  <2> QED BY <2>2, <2>3
<1>13. CASE p.op = "creditUpdate" /\ Exists(e, p.c)
  <2>1. HandleCreditUpdate(e, p)
    BY <1>13 DEF Receive
  <2> QED BY <1>13, <2>1, AnswersPump DEF Outcome, TakesCredit, HandleCreditUpdate, Set
<1>14. CASE p.op = "creditRequest" /\ Exists(e, p.c)
  <2>1. HandleCreditRequest(e, p)
    BY <1>14 DEF Receive
  <2> QED BY <1>14, <2>1, AnswersPump DEF Outcome, TakesCredit, HandleCreditRequest, Set
<1> QED BY <1>3, <1>7, <1>8, <1>9, <1>10, <1>11, <1>12, <1>13, <1>14 DEF Ops

-----------------------------------------------------------------------------
(* What the tasks do.  Moves: a task goes on without touching the table.   *)

Moves(e, c, t, x, y) ==
  /\ pc[e][c][t] = x /\ pc' = [pc EXCEPT ![e][c][t] = y]
  /\ x \notin Carried \cup {"sent", "gone", "eof"} /\ y \notin Carried \cup {"sent"}
  /\ t \in Writers => y \in WriterPc
  /\ t = "reader" => y \in ReaderPc
  /\ t = "control" =>
       /\ e = "a" /\ x \in {"connecting", "armed", "parked"} /\ y \in {"armed", "parked", "open"}
       /\ y = "open" => conn[e][c].state = "established"
  /\ t # "control" /\ x = "idle" => pc[e][c]["control"] = "open"
  /\ IF y = "eof"
     THEN /\ t = "reader" /\ x = "armed" /\ AtEof(conn[e][c])
          /\ ended' = [ended EXCEPT ![e][c] = TRUE]
     ELSE ended' = ended
  /\ UNCHANGED <<plan, conn, queued, wire, pump, packet, done, drained, got, faults, orphans>>

\* A task decides on packet p, and the entry becomes k.
Decision(e, c, t, x, p, k) ==
  /\ pc[e][c][t] = x /\ pc' = [pc EXCEPT ![e][c][t] = p.op]
  /\ packet' = [packet EXCEPT ![e][c][t] = p]
  /\ conn' = [conn EXCEPT ![e][c] = k]
  /\ UNCHANGED <<plan, queued, wire, pump, done, got, ended, faults, orphans>>

DataPacket(e, c, n) ==
  [Header("data", c, conn[e][c]) EXCEPT !.payload = [i \in 1 .. n |-> done[e][c] + i]]

Writes(e, c, w, n) ==
  /\ conn[e][c].state = "established" /\ "send" \notin conn[e][c].local /\ ~conn[e][c].transmitting
  /\ n \in Nat \ {0} /\ n <= PeerFree(conn[e][c]) /\ n <= plan.bytes[c][e] - done[e][c]
  /\ Decision(e, c, w, "armed", DataPacket(e, c, n), [Announced(conn[e][c]) EXCEPT !.transmitting = TRUE])
  /\ drained' = drained

Asks(e, c, w) ==
  /\ conn[e][c].state = "established"
  /\ Decision(e, c, w, "blocked", Header("creditRequest", c, conn[e][c]),
              [Announced(conn[e][c]) EXCEPT !.asked = TRUE])
  /\ drained' = drained

\* The reader takes n bytes out of the ring.
Readable(e, c, n) ==
  /\ Exists(e, c) /\ n \in 1 .. Len(conn[e][c].receive)
Reading(k, n) ==
  [k EXCEPT !.receive = SubSeq(k.receive, n + 1, Len(k.receive)), !.fwd = (k.fwd + n) % Wrap]

Updates(e, c, n) ==
  /\ Readable(e, c, n)
  /\ Decision(e, c, "reader", "armed", Header("creditUpdate", c, Reading(conn[e][c], n)),
              Announced(Reading(conn[e][c], n)))
  /\ drained' = [drained EXCEPT ![e][c] = SubSeq(conn[e][c].receive, 1, n)]

Hands(e, c, n) ==
  /\ Readable(e, c, n)
  /\ pc[e][c]["reader"] = "armed" /\ pc' = [pc EXCEPT ![e][c]["reader"] = "idle"]
  /\ conn' = [conn EXCEPT ![e][c] = Reading(conn[e][c], n)]
  /\ got' = [got EXCEPT ![e][c] = @ \o SubSeq(conn[e][c].receive, 1, n)]
  /\ UNCHANGED <<plan, queued, wire, pump, packet, done, drained, ended, faults, orphans>>

Connects(c) ==
  /\ c \in DOMAIN plan.bytes
  /\ Decision("a", c, "control", "idle", Header("request", c, Free), Opened("connecting"))
  /\ drained' = drained

\* A slot is given back, with a reset or without.
Abandons(e, c, x) ==
  /\ conn[e][c].state \in Live
  /\ x = "open" \/ (e = "a" /\ x = "parked")
  /\ Decision(e, c, "control", x, Header("reset", c, conn[e][c]), Free)
  /\ drained' = drained

Frees(e, c, x) ==
  /\ conn[e][c].state \notin Live
  /\ x = "open" \/ (e = "a" /\ x \in {"armed", "parked"})
  /\ pc[e][c]["control"] = x /\ pc' = [pc EXCEPT ![e][c]["control"] = "gone"]
  /\ conn' = [conn EXCEPT ![e][c] = Free]
  /\ UNCHANGED <<plan, queued, wire, pump, packet, done, drained, got, ended, faults, orphans>>

ShutPacket(e, c, dirs) ==
  [Header("shutdown", c, conn[e][c]) EXCEPT !.flags = conn[e][c].local \cup dirs]

Shuts(e, c, dirs) ==
  /\ dirs \in SUBSET Directions /\ <<e, dirs>> \in plan.shuts
  /\ conn[e][c].state \in Live
  /\ "send" \in dirs /\ ~plan.shutsWhileWriting => \A w \in Writers : pc[e][c][w] \in {"idle", "gone"}
  /\ Decision(e, c, "control", "open", ShutPacket(e, c, dirs),
              [Announced(conn[e][c]) EXCEPT !.local = conn[e][c].local \cup dirs])
  /\ drained' = drained

Accepts(c) ==
  /\ queued # <<>> /\ c = Head(queued) /\ queued' = Tail(queued)
  /\ pc["b"][c]["control"] = "idle" /\ pc' = [pc EXCEPT !["b"][c]["control"] = "open"]
  /\ UNCHANGED <<plan, conn, wire, pump, packet, done, drained, got, ended, faults, orphans>>

Stays == UNCHANGED <<plan, conn, queued, wire, pump, pc, packet, done, drained, got, ended, faults, orphans>>

TaskStep(e, c) ==
  \/ \E t \in Tasks : \E x, y : Moves(e, c, t, x, y)
  \/ \E w \in Writers : (\E n : Writes(e, c, w, n)) \/ Asks(e, c, w) \/ FinishWrite(e, c, w)
  \/ \E n : Updates(e, c, n) \/ Hands(e, c, n)
  \/ \E x : Abandons(e, c, x) \/ Frees(e, c, x)
  \/ \E dirs : Shuts(e, c, dirs)
  \/ \E t \in Tasks : Transmit(e, c, t) \/ TransmitFails(e, c, t)

Step ==
  \/ Stays \/ CloseListener
  \/ \E c \in Conns : Accepts(c) \/ Connects(c)
  \/ \E e \in Ends : SendReply(e) \/ TransportReset(e)
  \/ \E e \in Ends, p \in Packets : \E k, r : Takes(e, p, k, r) /\ Outcome(e, p, k, r)
  \/ \E e \in Ends, c \in Conns : TaskStep(e, c)

LEMMA MoveCases ==
  ASSUME TypeOK, TaskInv, NEW e \in Ends, NEW c \in Conns, NEW t \in Tasks
  PROVE  /\ Wake(e, c, t) \/ (t \in Writers /\ StartWrite(e, c, t)) \/ (t = "reader" /\ StartRead(e, c))
            \/ Expire(e, c, t) \/ (t = "control" /\ e = "a" /\ ArmConnect(c))
         => \E x, y : Moves(e, c, t, x, y)
<1> USE DEF Goes, Arms, tableVars, resultVars, Carried
<1>1. CASE Wake(e, c, t)
  <2>1. t = "control" => e = "a"
    BY <1>1, EndsFacts DEF Wake, TaskInv, TaskOf, AcceptedPc
  <2>2. Moves(e, c, t, "parked", "armed")
    BY <1>1, <2>1 DEF Wake, Moves, WriterPc, ReaderPc
  <2> QED BY <2>2
<1>2. CASE t \in Writers /\ StartWrite(e, c, t)
  <2>1. Moves(e, c, t, "idle", "armed")
    BY <1>2, TaskFacts DEF StartWrite, Moves, WriterPc
  <2> QED BY <2>1
<1>3. CASE t = "reader" /\ StartRead(e, c)
  <2>1. Moves(e, c, t, "idle", "armed")
    BY <1>3, TaskFacts DEF StartRead, Moves, ReaderPc
  <2> QED BY <2>1
<1>4. CASE Expire(e, c, t)
  <2>1. Moves(e, c, t, "parked", "idle")
    BY <1>4 DEF Expire, Moves, ReaderPc, WriterPc
  <2> QED BY <2>1
<1>5. CASE t = "control" /\ e = "a" /\ ArmConnect(c)
  <2>1. Moves(e, c, t, "connecting", "armed")
    BY <1>5, TaskFacts DEF ArmConnect, Moves
  <2> QED BY <2>1
<1> QED BY <1>1, <1>2, <1>3, <1>4, <1>5

LEMMA BegunIsPlanned ==
  ASSUME TypeOK, BirthInv, NEW e \in Ends, NEW c \in Conns, NEW t \in Tasks, pc[e][c][t] # "idle"
  PROVE  c \in DOMAIN plan.bytes /\ plan.bytes[c][e] \in Nat
<1>1. ASSUME pc["a"][c]["control"] = "idle" PROVE FALSE
  <2>1. Unborn(c)
    BY <1>1 DEF Unborn
  <2>2. pc["b"][c][t] = "idle" /\ (t # "control" => pc["a"][c][t] = "idle")
    BY <2>1 DEF BirthInv, BirthOf
  <2> QED BY <1>1, <2>2, EndsFacts
<1>2. c \in DOMAIN plan.bytes
  BY <1>1 DEF BirthInv, BirthOf
<1>3. plan.bytes[c] \in [Ends -> Nat]
  BY <1>2, PlansAssumption DEF TypeOK
<1> QED BY <1>2, <1>3

LEMMA PeerFreeType ==
  ASSUME NEW k \in Connections
  PROVE  PeerFree(k) \in Nat
<1>1. k.tx \in Nat /\ k.peerFwd \in Nat /\ k.peerBuf \in Nat
  BY EntryFields
<1>2. Wrap \in Nat /\ Wrap > 0
  BY WindowAssumption
<1>3. Minus(k.tx, k.peerFwd) \in 0 .. Wrap - 1
  BY <1>1, <1>2 DEF Minus
<1> QED BY <1>1, <1>2, <1>3 DEF PeerFree

LEMMA WriteCases ==
  ASSUME TypeOK, BirthInv, NEW e \in Ends, NEW c \in Conns, NEW w \in Writers,
         BeginWrite(e, c, w) \/ CreditRequest(e, c, w)
  PROVE  (\E x, y : Moves(e, c, w, x, y)) \/ (\E n : Writes(e, c, w, n)) \/ Asks(e, c, w)
<1> USE DEF Goes, Decides, resultVars, Carried, Set
<1>k. conn[e][c] \in Connections /\ w \in Tasks
  BY TaskFacts DEF TypeOK
<1>1. CASE BeginWrite(e, c, w)
  <2> DEFINE n == Allowed(conn[e][c], plan.bytes[c][e] - done[e][c])
  <2>1. CASE Goes(e, c, w, "armed", "gone") /\ UNCHANGED <<conn, packet>>
    <3>1. Moves(e, c, w, "armed", "gone")
      BY <1>1, <2>1, TaskFacts DEF BeginWrite, Moves, WriterPc
    <3> QED BY <3>1
  <2>4. CASE Goes(e, c, w, "armed", "idle") /\ UNCHANGED <<conn, packet>>
    <3>1. Moves(e, c, w, "armed", "idle")
      BY <1>1, <2>4, TaskFacts DEF BeginWrite, Moves, WriterPc
    <3> QED BY <3>1
  <2>2. CASE Goes(e, c, w, "armed", "blocked") /\ UNCHANGED <<conn, packet>>
    <3>1. Moves(e, c, w, "armed", "blocked")
      BY <1>1, <2>2, TaskFacts DEF BeginWrite, Moves, WriterPc
    <3> QED BY <3>1
  <2>3. CASE /\ conn[e][c].state = "established" /\ "send" \notin conn[e][c].local
             /\ ~conn[e][c].transmitting /\ n > 0
             /\ Set(e, c, [Announced(conn[e][c]) EXCEPT !.transmitting = TRUE])
             /\ Decides(e, c, w, "armed", DataPacket(e, c, n))
    <3>1. pc[e][c][w] # "idle"
      BY <2>3
    <3>2. plan.bytes[c][e] \in Nat
      BY <1>k, <3>1, BegunIsPlanned
    <3>3. done[e][c] \in Nat /\ MaxPayload \in Nat /\ PeerFree(conn[e][c]) \in Nat
      BY <1>k, SizesAssumption, PeerFreeType DEF TypeOK
    <3>4. n \in Nat \ {0} /\ n <= PeerFree(conn[e][c]) /\ n <= plan.bytes[c][e] - done[e][c]
      BY <2>3, <3>2, <3>3 DEF Allowed, MinOf
    <3>5. UNCHANGED <<plan, queued, wire, pump, done, drained, got, ended, faults, orphans>>
      BY <1>1 DEF BeginWrite
    <3> HIDE DEF n
    <3>6. Writes(e, c, w, n)
      BY <2>3, <3>4, <3>5 DEF Writes, Decision
    <3> QED BY <3>6
  <2> QED BY <1>1, <2>1, <2>2, <2>3, <2>4 DEF BeginWrite, DataPacket
<1>2. CASE CreditRequest(e, c, w)
  <2>1. UNCHANGED <<plan, queued, wire, pump, done, drained, got, ended, faults, orphans>>
    BY <1>2 DEF CreditRequest
  <2>2. CASE Goes(e, c, w, "blocked", IF Exists(e, c) THEN "parked" ELSE "gone") /\ UNCHANGED <<conn, packet>>
    <3>1. Moves(e, c, w, "blocked", IF Exists(e, c) THEN "parked" ELSE "gone")
      BY <2>1, <2>2, TaskFacts DEF Moves, WriterPc
    <3> QED BY <3>1
  <2>3. CASE /\ conn[e][c].state = "established"
             /\ Set(e, c, [Announced(conn[e][c]) EXCEPT !.asked = TRUE])
             /\ Decides(e, c, w, "blocked", Header("creditRequest", c, conn[e][c]))
    BY <2>1, <2>3 DEF Asks, Decision
  <2> QED BY <1>2, <2>2, <2>3 DEF CreditRequest
<1> QED BY <1>1, <1>2

LEMMA ReadCases ==
  ASSUME TypeOK, NEW e \in Ends, NEW c \in Conns, Read(e, c)
  PROVE  (\E x, y : Moves(e, c, "reader", x, y)) \/ \E n : Updates(e, c, n) \/ Hands(e, c, n)
<1> USE DEF Goes, Carried
<1>k. conn[e][c] \in Connections
  BY DEF TypeOK
<1>0. UNCHANGED <<plan, queued, wire, pump, done, faults, orphans>>
  BY DEF Read
<1>1. CASE Goes(e, c, "reader", "armed", "gone") /\ UNCHANGED <<conn, packet, drained, got, ended>>
  <2>1. Moves(e, c, "reader", "armed", "gone")
    BY <1>0, <1>1, TaskFacts DEF Moves, ReaderPc
  <2> QED BY <2>1
<1>2. CASE Goes(e, c, "reader", "armed", "parked") /\ UNCHANGED <<conn, packet, drained, got, ended>>
  <2>1. Moves(e, c, "reader", "armed", "parked")
    BY <1>0, <1>2, TaskFacts DEF Moves, ReaderPc
  <2> QED BY <2>1
<1>3. CASE /\ AtEof(conn[e][c]) /\ Goes(e, c, "reader", "armed", "eof")
           /\ ended' = [ended EXCEPT ![e][c] = TRUE] /\ UNCHANGED <<conn, packet, drained, got>>
  <2>1. Moves(e, c, "reader", "armed", "eof")
    BY <1>0, <1>3, TaskFacts DEF Moves, ReaderPc
  <2> QED BY <2>1
<1>4. CASE /\ Exists(e, c) /\ conn[e][c].receive # <<>>
           /\ Drain(e, c, MinOf(plan.maxRead, Len(conn[e][c].receive)))
           /\ UNCHANGED ended
  <2> DEFINE n == MinOf(plan.maxRead, Len(conn[e][c].receive))
             k == conn[e][c]
             read == [k EXCEPT !.receive = SubSeq(@, n + 1, Len(@)), !.fwd = (@ + n) % Wrap]
  <2>1. plan.maxRead \in Nat \ {0}
    BY PlansAssumption DEF TypeOK
  <2>2. k.receive \in Seq(Nat) /\ k.receive # <<>>
    BY <1>4, <1>k, EntryFields
  <2>3. Readable(e, c, n)
    <3>1. Len(k.receive) \in Nat \ {0}
      BY <2>2
    <3> QED BY <1>4, <2>1, <3>1 DEF Readable, MinOf
  <2> HIDE DEF n
  <2>4. read = Reading(k, n)
    BY <1>k DEF Reading, Connections
  <2>5. Drain(e, c, n)
    BY <1>4 DEF n
  <2>6. CASE /\ Set(e, c, Announced(read)) /\ Decides(e, c, "reader", "armed", Header("creditUpdate", c, read))
             /\ drained' = [drained EXCEPT ![e][c] = SubSeq(k.receive, 1, n)] /\ UNCHANGED got
    <3>1. Updates(e, c, n)
      BY <1>0, <1>4, <2>3, <2>4, <2>6 DEF Updates, Decision, Decides, Set
    <3> QED BY <3>1
  <2>7. CASE /\ Set(e, c, read) /\ Goes(e, c, "reader", "armed", "idle")
             /\ got' = [got EXCEPT ![e][c] = @ \o SubSeq(k.receive, 1, n)] /\ UNCHANGED <<packet, drained>>
    <3>1. Hands(e, c, n)
      BY <1>0, <1>4, <2>3, <2>4, <2>7 DEF Hands, Set
    <3> QED BY <3>1
  <2> QED BY <2>5, <2>6, <2>7 DEF Drain
<1> QED BY <1>1, <1>2, <1>3, <1>4 DEF Read, Exists

LEMMA ControlCases ==
  ASSUME TypeOK, NEW e \in Ends, NEW c \in Conns
  PROVE  /\ e = "a" /\ ConnectProgress(c) => (\E x, y : Moves(e, c, "control", x, y)) \/ \E x : Frees(e, c, x)
         /\ e = "a" /\ ConnectExpires(c) => \E x : Abandons(e, c, x) \/ Frees(e, c, x)
         /\ Close(e, c) => \E x : Abandons(e, c, x) \/ Frees(e, c, x)
         /\ e = "a" /\ Connect(c) => Connects(c)
         /\ \A dirs \in SUBSET Directions : <<e, dirs>> \in plan.shuts /\ Shutdown(e, c, dirs) => Shuts(e, c, dirs)
<1> USE DEF Goes, Carried, Decides, Set, resultVars
<1>1. ASSUME e = "a", ConnectProgress(c)
      PROVE  (\E x, y : Moves(e, c, "control", x, y)) \/ \E x : Frees(e, c, x)
  <2>1. CASE conn["a"][c].state \in Live
    <3>1. Moves(e, c, "control", "armed", IF conn["a"][c].state = "established" THEN "open" ELSE "parked")
      BY <1>1, <2>1, TaskFacts DEF ConnectProgress, Moves
    <3> QED BY <3>1
  <2>2. CASE conn["a"][c].state \notin Live
    <3>1. Frees(e, c, "armed")
      BY <1>1, <2>2 DEF ConnectProgress, Frees
    <3> QED BY <3>1
  <2> QED BY <2>1, <2>2
<1>2. ASSUME NEW x, Closes(e, c, x), x = "open" \/ (e = "a" /\ x = "parked")
      PROVE  Abandons(e, c, x) \/ Frees(e, c, x)
  <2>1. CASE conn[e][c].state \in Live
    <3>1. Header("reset", c, conn[e][c]).op = "reset"
      BY DEF Header
    <3> QED BY <1>2, <2>1, <3>1 DEF Closes, Abandons, Decision
  <2>2. CASE conn[e][c].state \notin Live
    BY <1>2, <2>2 DEF Closes, Frees
  <2> QED BY <2>1, <2>2
<1>3. ASSUME e = "a", Connect(c) PROVE Connects(c)
  BY <1>3 DEF Connect, Connects, Decision
<1>4. ASSUME NEW dirs \in SUBSET Directions, <<e, dirs>> \in plan.shuts, Shutdown(e, c, dirs) PROVE Shuts(e, c, dirs)
  <2>1. [Announced(conn[e][c]) EXCEPT !.local = @ \cup dirs] = [Announced(conn[e][c]) EXCEPT !.local = conn[e][c].local \cup dirs]
    <3>1. conn[e][c] \in Connections
      BY DEF TypeOK
    <3> QED BY <3>1 DEF Announced, Connections
  <2> QED BY <1>4, <2>1 DEF Shutdown, Shuts, Decision, ShutPacket
<1> QED BY <1>1, <1>2, <1>3, <1>4 DEF ConnectExpires, Close

LEMMA NextIsStep ==
  ASSUME TypeOK, TaskInv, BirthInv, [Next]_vars
  PROVE  Step
<1>1. CASE UNCHANGED vars
  BY <1>1 DEF vars, Step, Stays
<1>2. ASSUME NEW e \in Ends, Pump(e) \/ TransportReset(e) PROVE Step
  <2>1. CASE Receive(e)
    BY <2>1, ReceiveTakes DEF Step
  <2> QED BY <1>2, <2>1 DEF Pump, Step
<1>3. CASE Accept
  <2>1. CASE /\ listening /\ queued # <<>> /\ Goes("b", Head(queued), "control", "idle", "open") /\ queued' = Tail(queued)
    <3>1. Head(queued) \in Conns
      BY <2>1 DEF TypeOK
    <3>2. Accepts(Head(queued))
      BY <1>3, <2>1 DEF Accept, Accepts, Goes, resultVars
    <3> QED BY <3>1, <3>2 DEF Step
  <2>2. CASE UNCHANGED <<pc, queued, acceptSeen>>
    BY <1>3, <2>2 DEF Accept, Step, Stays, resultVars
  <2> QED BY <1>3, <2>1, <2>2 DEF Accept
<1>4. CASE AcceptWakes
  BY <1>4 DEF AcceptWakes, Step, Stays, resultVars, tableVars
<1>5. CASE CloseListener
  BY <1>5 DEF Step
<1>6. ASSUME NEW c \in Conns, Connect(c) \/ ConnectExpires(c) PROVE Step
  BY <1>6, ControlCases, EndsFacts DEF Step, TaskStep
<1>7. ASSUME NEW e \in Ends, NEW c \in Conns,
             \/ StartRead(e, c) \/ Close(e, c)
             \/ \E w \in Writers : StartWrite(e, c, w)
             \/ \E dirs \in SUBSET Directions : <<e, dirs>> \in plan.shuts /\ Shutdown(e, c, dirs)
      PROVE  TaskStep(e, c)
  <2>1. CASE StartRead(e, c)
    BY <2>1, MoveCases, TaskFacts DEF TaskStep
  <2>2. CASE Close(e, c)
    BY <2>2, ControlCases DEF TaskStep
  <2>3. CASE \E w \in Writers : StartWrite(e, c, w)
    BY <2>3, MoveCases, TaskFacts DEF TaskStep
  <2>4. CASE \E dirs \in SUBSET Directions : <<e, dirs>> \in plan.shuts /\ Shutdown(e, c, dirs)
    BY <2>4, ControlCases DEF TaskStep
  <2> QED BY <1>7, <2>1, <2>2, <2>3, <2>4
<1>8. ASSUME NEW e \in Ends, NEW c \in Conns, NEW t \in Tasks,
             Continue(e, c, t) \/ TransmitFails(e, c, t) \/ Expire(e, c, t)
      PROVE  TaskStep(e, c)
  <2>1. CASE Transmit(e, c, t) \/ TransmitFails(e, c, t)
    BY <2>1 DEF TaskStep
  <2>2. CASE Wake(e, c, t) \/ Expire(e, c, t) \/ (t = "control" /\ e = "a" /\ ArmConnect(c))
    BY <2>2, MoveCases DEF TaskStep
  <2>3. CASE t \in Writers /\ (BeginWrite(e, c, t) \/ CreditRequest(e, c, t))
    BY <2>3, WriteCases DEF TaskStep
  <2>4. CASE t \in Writers /\ FinishWrite(e, c, t)
    BY <2>4 DEF TaskStep
  <2>5. CASE t = "reader" /\ Read(e, c)
    BY <2>5, ReadCases DEF TaskStep
  <2>6. CASE t = "control" /\ e = "a" /\ ConnectProgress(c)
    BY <2>6, ControlCases DEF TaskStep
  <2> QED BY <1>8, <2>1, <2>2, <2>3, <2>4, <2>5, <2>6 DEF Continue
<1>9. ASSUME NEW e \in Ends, NEW c \in Conns, TaskStep(e, c) PROVE Step
  BY <1>9 DEF Step
<1> QED BY <1>1, <1>2, <1>3, <1>4, <1>5, <1>6, <1>7, <1>8, <1>9 DEF Next

LEMMA TaskEntry ==
  ASSUME NEW S, NEW f \in [Ends -> [Conns -> [Tasks -> S]]],
         NEW e \in Ends, NEW c \in Conns, NEW t \in Tasks, NEW y \in S
  PROVE  /\ [f EXCEPT ![e][c][t] = y] \in [Ends -> [Conns -> [Tasks -> S]]]
         /\ [f EXCEPT ![e][c][t] = y][e][c][t] = y
         /\ \A x \in Ends, d \in Conns, u \in Tasks :
              x # e \/ d # c \/ u # t => [f EXCEPT ![e][c][t] = y][x][d][u] = f[x][d][u]
  OBVIOUS

LEMMA ConnEntryOf ==
  ASSUME NEW S, NEW f \in [Ends -> [Conns -> S]], NEW e \in Ends, NEW c \in Conns, NEW y \in S
  PROVE  /\ [f EXCEPT ![e][c] = y] \in [Ends -> [Conns -> S]]
         /\ [f EXCEPT ![e][c] = y][e][c] = y
         /\ \A x \in Ends, d \in Conns : x # e \/ d # c => [f EXCEPT ![e][c] = y][x][d] = f[x][d]
  OBVIOUS

LEMMA EndEntryOf ==
  ASSUME NEW S, NEW f \in [Ends -> S], NEW e \in Ends, NEW y \in S
  PROVE  /\ [f EXCEPT ![e] = y] \in [Ends -> S] /\ [f EXCEPT ![e] = y][e] = y
         /\ \A x \in Ends : x # e => [f EXCEPT ![e] = y][x] = f[x]
  OBVIOUS

DecisionEffect(e, c, t, x, p, k) ==
  /\ pc' \in [Ends -> [Conns -> [Tasks -> WriterPc \cup ReaderPc \cup ControlPc]]]
  /\ packet' \in [Ends -> [Conns -> [Tasks -> Packets \cup {NoPacket}]]]
  /\ conn' \in [Ends -> [Conns -> Connections]]
  /\ pc[e][c][t] = x /\ pc'[e][c][t] = p.op /\ packet'[e][c][t] = p /\ conn'[e][c] = k
  /\ \A y \in Ends, d \in Conns, u \in Tasks :
       y # e \/ d # c \/ u # t => pc'[y][d][u] = pc[y][d][u] /\ packet'[y][d][u] = packet[y][d][u]
  /\ \A y \in Ends, d \in Conns : y # e \/ d # c => conn'[y][d] = conn[y][d]
  /\ UNCHANGED <<plan, queued, wire, pump, done, got, ended, faults, orphans>>

\* What a decision changes, with p and k of their types.
LEMMA DecisionFacts ==
  ASSUME TypeOK, NEW e \in Ends, NEW c \in Conns, NEW t \in Tasks, NEW x, NEW p \in Packets,
         NEW k \in Connections, Decision(e, c, t, x, p, k), p.op \in Carried
  PROVE  DecisionEffect(e, c, t, x, p, k)
<1>1. p.op \in WriterPc \cup ReaderPc \cup ControlPc
  BY DEF Carried, WriterPc, ReaderPc, ControlPc
<1>2. /\ pc' \in [Ends -> [Conns -> [Tasks -> WriterPc \cup ReaderPc \cup ControlPc]]]
      /\ pc'[e][c][t] = p.op
      /\ \A y \in Ends, d \in Conns, u \in Tasks : y # e \/ d # c \/ u # t => pc'[y][d][u] = pc[y][d][u]
  <2>1. pc' = [pc EXCEPT ![e][c][t] = p.op] /\ pc \in [Ends -> [Conns -> [Tasks -> WriterPc \cup ReaderPc \cup ControlPc]]]
    BY DEF Decision, TypeOK
  <2> QED BY <1>1, <2>1, TaskEntry
<1>3. /\ packet' \in [Ends -> [Conns -> [Tasks -> Packets \cup {NoPacket}]]]
      /\ packet'[e][c][t] = p
      /\ \A y \in Ends, d \in Conns, u \in Tasks : y # e \/ d # c \/ u # t => packet'[y][d][u] = packet[y][d][u]
  <2>1. packet' = [packet EXCEPT ![e][c][t] = p] /\ packet \in [Ends -> [Conns -> [Tasks -> Packets \cup {NoPacket}]]]
    BY DEF Decision, TypeOK
  <2>2. p \in Packets \cup {NoPacket}
    OBVIOUS
  <2> QED BY <2>1, <2>2, TaskEntry
<1>4. /\ conn' \in [Ends -> [Conns -> Connections]] /\ conn'[e][c] = k
      /\ \A y \in Ends, d \in Conns : y # e \/ d # c => conn'[y][d] = conn[y][d]
  <2>1. conn' = [conn EXCEPT ![e][c] = k] /\ conn \in [Ends -> [Conns -> Connections]]
    BY DEF Decision, TypeOK
  <2> QED BY <2>1, ConnEntry
<1> QED BY <1>2, <1>3, <1>4 DEF Decision, DecisionEffect

LEMMA DecisionTypes ==
  ASSUME TypeOK, NEW e \in Ends, NEW c \in Conns
  PROVE  /\ \A n \in Nat : DataPacket(e, c, n) \in Packets
         /\ \A n : DataPacket(e, c, n).op = "data" /\ DataPacket(e, c, n).c = c
                   /\ DataPacket(e, c, n).buf = Window /\ DataPacket(e, c, n).fwd = conn[e][c].fwd
                   /\ DataPacket(e, c, n).payload = [i \in 1 .. n |-> done[e][c] + i]
         /\ [Announced(conn[e][c]) EXCEPT !.transmitting = TRUE] \in Connections
         /\ [Announced(conn[e][c]) EXCEPT !.asked = TRUE] \in Connections
         /\ \A n \in 1 .. Len(conn[e][c].receive) :
              /\ Reading(conn[e][c], n) \in Connections /\ Announced(Reading(conn[e][c], n)) \in Connections
              /\ SubSeq(conn[e][c].receive, 1, n) \in Seq(Nat)
<1>1. conn[e][c] \in Connections /\ done[e][c] \in Nat
  BY DEF TypeOK
<1>2. conn[e][c].fwd \in Nat /\ conn[e][c].local \in SUBSET Directions /\ conn[e][c].receive \in Seq(Nat)
  BY <1>1, EntryFields
<1>3. Announced(conn[e][c]) \in Connections
  BY <1>1, <1>2 DEF Announced, Connections
<1>4. ASSUME NEW n \in Nat PROVE DataPacket(e, c, n) \in Packets
  <2>1. [i \in 1 .. n |-> done[e][c] + i] \in Seq(Nat)
    BY <1>1
  <2>2. Header("data", c, conn[e][c]) \in Packets
    BY <1>1, PacketTypes DEF Ops
  <2> QED BY <2>1, <2>2 DEF DataPacket, Packets
<1>5. ASSUME NEW n
      PROVE  /\ DataPacket(e, c, n).op = "data" /\ DataPacket(e, c, n).c = c
             /\ DataPacket(e, c, n).buf = Window /\ DataPacket(e, c, n).fwd = conn[e][c].fwd
             /\ DataPacket(e, c, n).payload = [i \in 1 .. n |-> done[e][c] + i]
  BY DEF DataPacket, Header
<1>6. /\ [Announced(conn[e][c]) EXCEPT !.transmitting = TRUE] \in Connections
      /\ [Announced(conn[e][c]) EXCEPT !.asked = TRUE] \in Connections
  BY <1>3 DEF Connections
<1>7. ASSUME NEW n \in 1 .. Len(conn[e][c].receive)
      PROVE  /\ Reading(conn[e][c], n) \in Connections /\ Announced(Reading(conn[e][c], n)) \in Connections
             /\ SubSeq(conn[e][c].receive, 1, n) \in Seq(Nat)
  <2>1. Wrap \in Nat /\ Wrap > 0 /\ n \in Nat
    BY <1>2, WindowAssumption
  <2>2. (conn[e][c].fwd + n) % Wrap \in Nat
    BY <1>2, <2>1
  <2>3. SubSeq(conn[e][c].receive, n + 1, Len(conn[e][c].receive)) \in Seq(Nat)
    BY <1>2, <2>1
  <2>4. Reading(conn[e][c], n) \in Connections
    BY <1>1, <2>2, <2>3 DEF Reading, Connections
  <2>5. Announced(Reading(conn[e][c], n)) \in Connections
    BY <2>4, AbsorbType, EntryFields DEF Announced, Connections
  <2>6. SubSeq(conn[e][c].receive, 1, n) \in Seq(Nat)
    BY <1>2, <2>1
  <2> QED BY <2>4, <2>5, <2>6
<1> QED BY <1>4, <1>5, <1>6, <1>7

LEMMA ShutFacts ==
  ASSUME TypeOK, NEW e \in Ends, NEW c \in Conns, NEW dirs \in SUBSET Directions
  PROVE  /\ ShutPacket(e, c, dirs) \in Packets /\ ShutPacket(e, c, dirs).op = "shutdown"
         /\ ShutPacket(e, c, dirs).c = c /\ ShutPacket(e, c, dirs).flags = conn[e][c].local \cup dirs
         /\ ShutPacket(e, c, dirs).buf = Window /\ ShutPacket(e, c, dirs).fwd = conn[e][c].fwd
         /\ [Announced(conn[e][c]) EXCEPT !.local = conn[e][c].local \cup dirs] \in Connections
<1>1. conn[e][c] \in Connections
  BY DEF TypeOK
<1>2. conn[e][c].fwd \in Nat /\ conn[e][c].local \in SUBSET Directions
  BY <1>1, EntryFields
<1>3. Announced(conn[e][c]) \in Connections
  BY <1>1, <1>2 DEF Announced, Connections
<1>4. Header("shutdown", c, conn[e][c]) \in Packets
  BY <1>1, PacketTypes DEF Ops
<1>5. conn[e][c].local \cup dirs \in SUBSET Directions
  BY <1>2
<1>6. ShutPacket(e, c, dirs) \in Packets
  BY <1>4, <1>5 DEF ShutPacket, Packets
<1>7. /\ ShutPacket(e, c, dirs).op = "shutdown"
      /\ ShutPacket(e, c, dirs).c = c /\ ShutPacket(e, c, dirs).flags = conn[e][c].local \cup dirs
      /\ ShutPacket(e, c, dirs).buf = Window /\ ShutPacket(e, c, dirs).fwd = conn[e][c].fwd
  BY DEF ShutPacket, Header
<1>8. [Announced(conn[e][c]) EXCEPT !.local = conn[e][c].local \cup dirs] \in Connections
  BY <1>3, <1>5 DEF Connections
<1> QED BY <1>6, <1>7, <1>8

\* The decisions there are: the packet and the entry have their types, and the
\* packet is one the task transmits.
LEMMA DecisionKinds ==
  ASSUME TypeOK, NEW e \in Ends, NEW c \in Conns
  PROVE  /\ \A w \in Writers : \A n : Writes(e, c, w, n) =>
              /\ DataPacket(e, c, n) \in Packets
              /\ [Announced(conn[e][c]) EXCEPT !.transmitting = TRUE] \in Connections
         /\ \A w \in Writers : Asks(e, c, w) =>
              /\ Header("creditRequest", c, conn[e][c]) \in Packets
              /\ [Announced(conn[e][c]) EXCEPT !.asked = TRUE] \in Connections
         /\ \A n : Updates(e, c, n) =>
              /\ Header("creditUpdate", c, Reading(conn[e][c], n)) \in Packets
              /\ Announced(Reading(conn[e][c], n)) \in Connections
         /\ Header("request", c, Free) \in Packets /\ Opened("connecting") \in Connections
         /\ Header("reset", c, conn[e][c]) \in Packets /\ Free \in Connections
<1>1. conn[e][c] \in Connections
  BY DEF TypeOK
<1>2. ASSUME NEW n, Updates(e, c, n)
      PROVE  /\ Header("creditUpdate", c, Reading(conn[e][c], n)) \in Packets
             /\ Announced(Reading(conn[e][c], n)) \in Connections
  <2>1. n \in 1 .. Len(conn[e][c].receive)
    BY <1>2 DEF Updates, Readable
  <2>2. Reading(conn[e][c], n) \in Connections /\ Announced(Reading(conn[e][c], n)) \in Connections
    BY <2>1, DecisionTypes
  <2> QED BY <2>2, PacketTypes DEF Ops
<1>3. Free \in Connections /\ Opened("connecting") \in Connections
  BY FreeType, OpenedType DEF States
<1>4. /\ Header("request", c, Free) \in Packets /\ Header("reset", c, conn[e][c]) \in Packets
      /\ Header("creditRequest", c, conn[e][c]) \in Packets
  BY <1>1, <1>3, PacketTypes DEF Ops
<1>5. ASSUME NEW w \in Writers, NEW n, Writes(e, c, w, n)
      PROVE  /\ DataPacket(e, c, n) \in Packets
             /\ [Announced(conn[e][c]) EXCEPT !.transmitting = TRUE] \in Connections
  <2>1. n \in Nat
    BY <1>5 DEF Writes
  <2> QED BY <2>1, DecisionTypes
<1>6. [Announced(conn[e][c]) EXCEPT !.asked = TRUE] \in Connections
  BY DecisionTypes
<1> QED BY <1>2, <1>3, <1>4, <1>5, <1>6

LEMMA DecisionKeepsTypes ==
  ASSUME TypeOK, NEW e \in Ends, NEW c \in Conns, NEW t \in Tasks, NEW x, NEW p \in Packets,
         NEW k \in Connections, Decision(e, c, t, x, p, k), p.op \in Carried,
         drained' \in [Ends -> [Conns -> Seq(Nat)]]
  PROVE  TypeOK'
<1>1. DecisionEffect(e, c, t, x, p, k)
  BY DecisionFacts
<1> QED BY <1>1 DEF TypeOK, DecisionEffect

LEMMA TypeTask ==
  ASSUME TypeOK, TaskInv, NEW e \in Ends, NEW c \in Conns, TaskStep(e, c)
  PROVE  TypeOK'
<1>k. conn[e][c] \in Connections /\ conn \in [Ends -> [Conns -> Connections]]
  BY DEF TypeOK
<1>p. pc \in [Ends -> [Conns -> [Tasks -> WriterPc \cup ReaderPc \cup ControlPc]]]
  BY DEF TypeOK
<1>q. packet \in [Ends -> [Conns -> [Tasks -> Packets \cup {NoPacket}]]]
  BY DEF TypeOK
<1>d. /\ drained \in [Ends -> [Conns -> Seq(Nat)]] /\ got \in [Ends -> [Conns -> Seq(Nat)]]
      /\ done \in [Ends -> [Conns -> Nat]]
  BY DEF TypeOK
<1>1. ASSUME NEW t \in Tasks, NEW x, NEW y, Moves(e, c, t, x, y) PROVE TypeOK'
  <2>1. y \in WriterPc \cup ReaderPc \cup ControlPc
    BY <1>1, TaskFacts DEF Moves, ControlPc
  <2>2. pc' \in [Ends -> [Conns -> [Tasks -> WriterPc \cup ReaderPc \cup ControlPc]]]
    BY <1>1, <1>p, <2>1, TaskEntry DEF Moves
  <2>3. ended' \in [Ends -> [Conns -> BOOLEAN]]
    <3>1. ended \in [Ends -> [Conns -> BOOLEAN]] /\ TRUE \in BOOLEAN
      BY DEF TypeOK
    <3>2. ended' = ended \/ ended' = [ended EXCEPT ![e][c] = TRUE]
      BY <1>1 DEF Moves
    <3>3. [ended EXCEPT ![e][c] = TRUE] \in [Ends -> [Conns -> BOOLEAN]]
      BY <3>1, ConnEntryOf
    <3> QED BY <3>1, <3>2, <3>3
  <2> QED BY <1>1, <2>2, <2>3 DEF Moves, TypeOK
<1>2. ASSUME NEW w \in Writers, NEW n, Writes(e, c, w, n) PROVE TypeOK'
  <2>1. drained' = drained /\ DataPacket(e, c, n).op = "data"
    BY <1>2 DEF Writes, DataPacket, Header
  <2>2. Decision(e, c, w, "armed", DataPacket(e, c, n), [Announced(conn[e][c]) EXCEPT !.transmitting = TRUE])
    BY <1>2 DEF Writes
  <2> QED BY <1>2, <1>d, <2>1, <2>2, TaskFacts, DecisionKinds, DecisionKeepsTypes DEF Carried
<1>3. ASSUME NEW w \in Writers, Asks(e, c, w) PROVE TypeOK'
  <2>1. drained' = drained /\ Header("creditRequest", c, conn[e][c]).op = "creditRequest"
    BY <1>3 DEF Asks, Header
  <2>2. Decision(e, c, w, "blocked", Header("creditRequest", c, conn[e][c]), [Announced(conn[e][c]) EXCEPT !.asked = TRUE])
    BY <1>3 DEF Asks
  <2> QED BY <1>3, <1>d, <2>1, <2>2, TaskFacts, DecisionKinds, DecisionKeepsTypes DEF Carried
<1>4. ASSUME NEW n, Updates(e, c, n) PROVE TypeOK'
  <2> DEFINE p == Header("creditUpdate", c, Reading(conn[e][c], n))
             k == Announced(Reading(conn[e][c], n))
  <2>1. p.op = "creditUpdate"
    BY DEF Header
  <2>2. Decision(e, c, "reader", "armed", p, k) /\ drained' = [drained EXCEPT ![e][c] = SubSeq(conn[e][c].receive, 1, n)]
    BY <1>4 DEF Updates
  <2>3. SubSeq(conn[e][c].receive, 1, n) \in Seq(Nat)
    BY <1>4, DecisionTypes DEF Updates, Readable
  <2>4. drained' \in [Ends -> [Conns -> Seq(Nat)]]
    BY <1>d, <2>2, <2>3, ConnEntryOf
  <2>5. p \in Packets /\ k \in Connections
    BY <1>4, DecisionKinds
  <2> QED BY <2>1, <2>2, <2>4, <2>5, TaskFacts, DecisionKeepsTypes DEF Carried
<1>5. ASSUME NEW n, Hands(e, c, n) PROVE TypeOK'
  <2>1. n \in 1 .. Len(conn[e][c].receive)
    BY <1>5 DEF Hands, Readable
  <2>2. SubSeq(conn[e][c].receive, 1, n) \in Seq(Nat) /\ Reading(conn[e][c], n) \in Connections
    BY <2>1, DecisionTypes
  <2>3. conn' \in [Ends -> [Conns -> Connections]]
    BY <1>5, <1>k, <2>2, ConnEntry DEF Hands
  <2>4. got[e][c] \o SubSeq(conn[e][c].receive, 1, n) \in Seq(Nat)
    BY <1>d, <2>2
  <2>5. got' \in [Ends -> [Conns -> Seq(Nat)]]
    BY <1>5, <1>d, <2>4, ConnEntryOf DEF Hands
  <2>6. pc' \in [Ends -> [Conns -> [Tasks -> WriterPc \cup ReaderPc \cup ControlPc]]]
    BY <1>5, <1>p, TaskFacts, TaskEntry DEF Hands, WriterPc
  <2> QED BY <1>5, <2>3, <2>5, <2>6 DEF Hands, TypeOK
<1>6. ASSUME NEW x, Abandons(e, c, x) PROVE TypeOK'
  <2>1. drained' = drained /\ Header("reset", c, conn[e][c]).op = "reset"
    BY <1>6 DEF Abandons, Header
  <2>2. Decision(e, c, "control", x, Header("reset", c, conn[e][c]), Free)
    BY <1>6 DEF Abandons
  <2> QED BY <1>d, <2>1, <2>2, TaskFacts, DecisionKinds, DecisionKeepsTypes DEF Carried
<1>7. ASSUME NEW x, Frees(e, c, x) PROVE TypeOK'
  <2>1. conn' \in [Ends -> [Conns -> Connections]]
    BY <1>7, <1>k, FreeType, ConnEntry DEF Frees
  <2>2. pc' \in [Ends -> [Conns -> [Tasks -> WriterPc \cup ReaderPc \cup ControlPc]]]
    BY <1>7, <1>p, TaskFacts, TaskEntry DEF Frees, WriterPc
  <2> QED BY <1>7, <2>1, <2>2 DEF Frees, TypeOK
<1>8. ASSUME NEW dirs, Shuts(e, c, dirs) PROVE TypeOK'
  <2> DEFINE k == [Announced(conn[e][c]) EXCEPT !.local = conn[e][c].local \cup dirs]
  <2>1. dirs \in SUBSET Directions /\ drained' = drained /\ Decision(e, c, "control", "open", ShutPacket(e, c, dirs), k)
    BY <1>8 DEF Shuts
  <2>2. ShutPacket(e, c, dirs) \in Packets /\ ShutPacket(e, c, dirs).op = "shutdown" /\ k \in Connections
    BY <2>1, ShutFacts
  <2> QED BY <1>d, <2>1, <2>2, TaskFacts, DecisionKeepsTypes DEF Carried
<1>9. ASSUME NEW t \in Tasks, Transmit(e, c, t) PROVE TypeOK'
  <2> DEFINE p == packet[e][c][t]
  <2>1. p \in Packets \cup {NoPacket} /\ pc[e][c][t] \in WriterPc \cup ReaderPc \cup ControlPc /\ pc[e][c][t] = p.op
    BY <1>9, <1>p, <1>q DEF Transmit, Transmits
  <2>2. p \in Packets
    BY <2>1 DEF NoPacket, WriterPc, ReaderPc, ControlPc
  <2>3. p.op \in Carried
    BY <2>1, <2>2 DEF Packets, Ops, WriterPc, ReaderPc, ControlPc, Carried
  <2>4. AfterTransmit(p.op) \in WriterPc \cup ReaderPc \cup ControlPc
    BY <2>3 DEF AfterTransmit, Carried, WriterPc, ReaderPc, ControlPc
  <2>5. pc' \in [Ends -> [Conns -> [Tasks -> WriterPc \cup ReaderPc \cup ControlPc]]]
    BY <1>9, <1>p, <2>4, TaskEntry DEF Transmit, Goes
  <2>6. packet' \in [Ends -> [Conns -> [Tasks -> Packets \cup {NoPacket}]]]
    <3>1. packet' = [packet EXCEPT ![e][c][t] = IF p.op = "data" THEN p ELSE NoPacket]
      BY <1>9, <1>q DEF Transmit
    <3>2. (IF p.op = "data" THEN p ELSE NoPacket) \in Packets \cup {NoPacket}
      BY <2>2
    <3> QED BY <1>q, <3>1, <3>2, TaskEntry
  <2>7. wire' \in [Ends -> Seq(Packets)]
    <3>1. Other(e) \in Ends /\ wire \in [Ends -> Seq(Packets)]
      BY EndsFacts DEF TypeOK
    <3>2. Append(wire[Other(e)], p) \in Seq(Packets)
      BY <2>2, <3>1
    <3>3. wire' = [wire EXCEPT ![Other(e)] = Append(wire[Other(e)], p)]
      BY <1>9, <3>1 DEF Transmit
    <3> QED BY <3>1, <3>2, <3>3, EndEntryOf
  <2>8. drained' \in [Ends -> [Conns -> Seq(Nat)]] /\ got' \in [Ends -> [Conns -> Seq(Nat)]]
    <3>1. got[e][c] \o drained[e][c] \in Seq(Nat) /\ <<>> \in Seq(Nat)
      BY <1>d
    <3>2. CASE t = "reader"
      <4>1. /\ got' = [got EXCEPT ![e][c] = got[e][c] \o drained[e][c]]
            /\ drained' = [drained EXCEPT ![e][c] = <<>>]
        BY <1>9, <1>d, <3>2 DEF Transmit
      <4> QED BY <1>d, <3>1, <4>1, ConnEntryOf
    <3>3. CASE t # "reader"
      BY <1>9, <1>d, <3>3 DEF Transmit
    <3> QED BY <3>2, <3>3
  <2>9. UNCHANGED <<plan, conn, queued, pump, done, ended, faults, orphans>>
    BY <1>9 DEF Transmit, tableVars
  <2> QED BY <2>5, <2>6, <2>7, <2>8, <2>9 DEF TypeOK
<1>10. ASSUME NEW t \in Tasks, TransmitFails(e, c, t) PROVE TypeOK'
  <2>1. pc' \in [Ends -> [Conns -> [Tasks -> WriterPc \cup ReaderPc \cup ControlPc]]]
    <3>1. (IF packet[e][c][t].op = "shutdown" THEN "open" ELSE "gone") \in WriterPc \cup ReaderPc \cup ControlPc
      BY DEF WriterPc, ControlPc
    <3> QED BY <1>10, <1>p, <3>1, TaskEntry DEF TransmitFails, Goes
  <2>2. packet' \in [Ends -> [Conns -> [Tasks -> Packets \cup {NoPacket}]]]
    <3>1. NoPacket \in Packets \cup {NoPacket}
      OBVIOUS
    <3> QED BY <1>10, <1>q, <3>1, TaskEntry DEF TransmitFails
  <2>3. conn' \in [Ends -> [Conns -> Connections]]
    <3>1. [conn[e][c] EXCEPT !.transmitting = FALSE] \in Connections
      BY <1>k DEF Connections
    <3>2. PICK k \in Connections : conn' = conn \/ conn' = [conn EXCEPT ![e][c] = k]
      BY <1>10, <3>1, FreeType DEF TransmitFails, Set
    <3>3. [conn EXCEPT ![e][c] = k] \in [Ends -> [Conns -> Connections]]
      BY <1>k, ConnEntry
    <3> QED BY <1>k, <3>2, <3>3
  <2>4. UNCHANGED <<plan, queued, wire, pump, done, drained, got, ended, orphans>> /\ faults' = faults + 1
    BY <1>10 DEF TransmitFails, resultVars
  <2> QED BY <2>1, <2>2, <2>3, <2>4 DEF TypeOK
<1>11. ASSUME NEW w \in Writers, FinishWrite(e, c, w) PROVE TypeOK'
  <2> DEFINE n == Len(packet[e][c][w].payload)
  <2>0. w \in Tasks
    BY TaskFacts
  <2>1. packet[e][c][w] \in Packets
    <3>1. packet[e][c][w].op = "data"
      BY <1>11, <2>0 DEF FinishWrite, TaskInv, TaskOf
    <3>2. packet[e][c][w] \in Packets \cup {NoPacket}
      BY <1>q, <2>0
    <3> QED BY <3>1, <3>2 DEF NoPacket
  <2>2. n \in Nat
    BY <2>1, PacketFields
  <2> HIDE DEF n
  <2>3. done' \in [Ends -> [Conns -> Nat]]
    <3>1. done[e][c] + n \in Nat /\ done' = [done EXCEPT ![e][c] = done[e][c] + n]
      BY <1>11, <1>d, <2>2 DEF FinishWrite, n
    <3> QED BY <1>d, <3>1, ConnEntryOf
  <2>4. packet' \in [Ends -> [Conns -> [Tasks -> Packets \cup {NoPacket}]]]
    <3>1. NoPacket \in Packets \cup {NoPacket}
      OBVIOUS
    <3> QED BY <1>11, <1>q, <2>0, <3>1, TaskEntry DEF FinishWrite
  <2>5. pc' \in [Ends -> [Conns -> [Tasks -> WriterPc \cup ReaderPc \cup ControlPc]]]
    <3>1. PICK y \in {"armed", "idle"} : pc' = [pc EXCEPT ![e][c][w] = y]
      BY <1>11 DEF FinishWrite
    <3>2. y \in WriterPc \cup ReaderPc \cup ControlPc
      BY DEF WriterPc
    <3> QED BY <1>p, <2>0, <3>1, <3>2, TaskEntry
  <2>6. conn' \in [Ends -> [Conns -> Connections]]
    <3> DEFINE k == [conn[e][c] EXCEPT !.transmitting = FALSE, !.tx = (@ + n) % Wrap]
    <3>1. (conn[e][c].tx + n) % Wrap \in Nat
      <4>1. Wrap \in Nat /\ Wrap > 0 /\ conn[e][c].tx \in Nat
        BY <1>k, WindowAssumption, EntryFields
      <4> QED BY <2>2, <4>1
    <3>2. k \in Connections
      BY <1>k, <3>1 DEF Connections
    <3>3. conn' = conn \/ conn' = [conn EXCEPT ![e][c] = k]
      BY <1>11, <1>k DEF FinishWrite, n
    <3> HIDE DEF k
    <3>4. [conn EXCEPT ![e][c] = k] \in [Ends -> [Conns -> Connections]]
      BY <1>k, <3>2, ConnEntry
    <3> QED BY <1>k, <3>3, <3>4
  <2>7. UNCHANGED <<plan, queued, wire, pump, drained, got, ended, faults, orphans>>
    BY <1>11 DEF FinishWrite
  <2> QED BY <2>3, <2>4, <2>5, <2>6, <2>7 DEF TypeOK
<1> QED BY <1>1, <1>2, <1>3, <1>4, <1>5, <1>6, <1>7, <1>8, <1>9, <1>10, <1>11 DEF TaskStep

-----------------------------------------------------------------------------
(* The effects of the other steps, variable by variable                    *)

MovesEffect(e, c, t, x, y) ==
  /\ pc[e][c][t] = x /\ pc'[e][c][t] = y
  /\ \A z \in Ends, d \in Conns, u \in Tasks : z # e \/ d # c \/ u # t => pc'[z][d][u] = pc[z][d][u]
  /\ UNCHANGED <<plan, conn, queued, wire, pump, packet, done, drained, got, faults, orphans>>

LEMMA MovesFacts ==
  ASSUME TypeOK, NEW e \in Ends, NEW c \in Conns, NEW t \in Tasks, NEW x, NEW y, Moves(e, c, t, x, y)
  PROVE  MovesEffect(e, c, t, x, y)
<1>1. y \in WriterPc \cup ReaderPc \cup ControlPc
  BY TaskFacts DEF Moves, ControlPc
<1>2. pc' = [pc EXCEPT ![e][c][t] = y] /\ pc \in [Ends -> [Conns -> [Tasks -> WriterPc \cup ReaderPc \cup ControlPc]]]
  BY DEF Moves, TypeOK
<1> QED BY <1>1, <1>2, TaskEntry DEF Moves, MovesEffect

HandsEffect(e, c, n) ==
  /\ pc[e][c]["reader"] = "armed" /\ pc'[e][c]["reader"] = "idle"
  /\ \A z \in Ends, d \in Conns, u \in Tasks : z # e \/ d # c \/ u # "reader" => pc'[z][d][u] = pc[z][d][u]
  /\ conn'[e][c] = Reading(conn[e][c], n)
  /\ \A z \in Ends, d \in Conns : z # e \/ d # c => conn'[z][d] = conn[z][d]
  /\ got'[e][c] = got[e][c] \o SubSeq(conn[e][c].receive, 1, n)
  /\ \A z \in Ends, d \in Conns : z # e \/ d # c => got'[z][d] = got[z][d]
  /\ UNCHANGED <<plan, queued, wire, pump, packet, done, drained, ended, faults, orphans>>

LEMMA HandsFacts ==
  ASSUME TypeOK, NEW e \in Ends, NEW c \in Conns, NEW n, Hands(e, c, n)
  PROVE  HandsEffect(e, c, n)
<1>1. pc' = [pc EXCEPT ![e][c]["reader"] = "idle"] /\ pc \in [Ends -> [Conns -> [Tasks -> WriterPc \cup ReaderPc \cup ControlPc]]]
  BY DEF Hands, TypeOK
<1>2. "idle" \in WriterPc \cup ReaderPc \cup ControlPc
  BY DEF WriterPc
<1>3. /\ pc'[e][c]["reader"] = "idle"
      /\ \A z \in Ends, d \in Conns, u \in Tasks : z # e \/ d # c \/ u # "reader" => pc'[z][d][u] = pc[z][d][u]
  BY <1>1, <1>2, TaskFacts, TaskEntry
<1>4. n \in 1 .. Len(conn[e][c].receive)
  BY DEF Hands, Readable
<1>5. Reading(conn[e][c], n) \in Connections /\ SubSeq(conn[e][c].receive, 1, n) \in Seq(Nat)
  BY <1>4, DecisionTypes
<1>6. conn' = [conn EXCEPT ![e][c] = Reading(conn[e][c], n)] /\ conn \in [Ends -> [Conns -> Connections]]
  BY DEF Hands, TypeOK
<1>7. got \in [Ends -> [Conns -> Seq(Nat)]]
  BY DEF TypeOK
<1>8. got[e][c] \o SubSeq(conn[e][c].receive, 1, n) \in Seq(Nat)
  BY <1>5, <1>7
<1>9. got' = [got EXCEPT ![e][c] = got[e][c] \o SubSeq(conn[e][c].receive, 1, n)]
  BY <1>7 DEF Hands
<1>10. /\ conn'[e][c] = Reading(conn[e][c], n)
       /\ \A z \in Ends, d \in Conns : z # e \/ d # c => conn'[z][d] = conn[z][d]
  BY <1>5, <1>6, ConnEntry
<1>11. /\ got'[e][c] = got[e][c] \o SubSeq(conn[e][c].receive, 1, n)
       /\ \A z \in Ends, d \in Conns : z # e \/ d # c => got'[z][d] = got[z][d]
  BY <1>7, <1>8, <1>9, ConnEntryOf
<1> QED BY <1>3, <1>10, <1>11 DEF Hands, HandsEffect

FreesEffect(e, c, x) ==
  /\ pc[e][c]["control"] = x /\ pc'[e][c]["control"] = "gone"
  /\ \A z \in Ends, d \in Conns, u \in Tasks : z # e \/ d # c \/ u # "control" => pc'[z][d][u] = pc[z][d][u]
  /\ conn'[e][c] = Free
  /\ \A z \in Ends, d \in Conns : z # e \/ d # c => conn'[z][d] = conn[z][d]
  /\ UNCHANGED <<plan, queued, wire, pump, packet, done, drained, got, ended, faults, orphans>>

LEMMA FreesFacts ==
  ASSUME TypeOK, NEW e \in Ends, NEW c \in Conns, NEW x, Frees(e, c, x)
  PROVE  FreesEffect(e, c, x)
<1>1. pc' = [pc EXCEPT ![e][c]["control"] = "gone"] /\ pc \in [Ends -> [Conns -> [Tasks -> WriterPc \cup ReaderPc \cup ControlPc]]]
  BY DEF Frees, TypeOK
<1>2. "gone" \in WriterPc \cup ReaderPc \cup ControlPc
  BY DEF WriterPc
<1>3. /\ pc'[e][c]["control"] = "gone"
      /\ \A z \in Ends, d \in Conns, u \in Tasks : z # e \/ d # c \/ u # "control" => pc'[z][d][u] = pc[z][d][u]
  BY <1>1, <1>2, TaskFacts, TaskEntry
<1>4. conn' = [conn EXCEPT ![e][c] = Free] /\ conn \in [Ends -> [Conns -> Connections]]
  BY DEF Frees, TypeOK
<1>5. /\ conn'[e][c] = Free
      /\ \A z \in Ends, d \in Conns : z # e \/ d # c => conn'[z][d] = conn[z][d]
  BY <1>4, FreeType, ConnEntry
<1> QED BY <1>3, <1>5 DEF Frees, FreesEffect

CarriesItsOwn(e, c, t) ==
  /\ packet[e][c][t] \in Packets /\ packet[e][c][t].c = c
  /\ pc[e][c][t] = packet[e][c][t].op /\ packet[e][c][t].op \in Carried
  /\ t \in Writers => packet[e][c][t].op \in {"data", "creditRequest"}
  /\ t = "reader" => packet[e][c][t].op = "creditUpdate"
  /\ t = "control" => packet[e][c][t].op \in {"request", "shutdown", "reset"}
  /\ packet[e][c][t].op = "request" => e = "a"

\* The packet a task is at is one of its kind.
LEMMA TransmitsPacket ==
  ASSUME TypeOK, TaskInv, NEW e \in Ends, NEW c \in Conns, NEW t \in Tasks, Transmits(e, c, t)
  PROVE  CarriesItsOwn(e, c, t)
<1> DEFINE p == packet[e][c][t]
<1>1. p \in Packets \cup {NoPacket} /\ pc[e][c][t] \in WriterPc \cup ReaderPc \cup ControlPc /\ pc[e][c][t] = p.op
  BY DEF TypeOK, Transmits
<1>2. p \in Packets
  BY <1>1 DEF NoPacket, WriterPc, ReaderPc, ControlPc
<1>3. p.op \in Carried
  BY <1>1, <1>2 DEF Packets, Ops, WriterPc, ReaderPc, ControlPc, Carried
<1>4. p.c = c
  BY <1>2, NoPacketFacts DEF TaskInv, TaskOf
<1>5. /\ t \in Writers => p.op \in WriterPc
      /\ t = "reader" => p.op \in ReaderPc
      /\ t = "control" => p.op \in ControlPc /\ (e = "b" => p.op \in AcceptedPc)
  BY <1>1 DEF TaskInv, TaskOf
<1> QED BY <1>1, <1>2, <1>3, <1>4, <1>5, TaskFacts, EndsFacts DEF WriterPc, ReaderPc, ControlPc, AcceptedPc, Carried, CarriesItsOwn

TransmitEffect(e, c, t) ==
  /\ pc'[e][c][t] = AfterTransmit(packet[e][c][t].op)
  /\ packet'[e][c][t] = IF packet[e][c][t].op = "data" THEN packet[e][c][t] ELSE NoPacket
  /\ \A z \in Ends, d \in Conns, u \in Tasks :
       z # e \/ d # c \/ u # t => pc'[z][d][u] = pc[z][d][u] /\ packet'[z][d][u] = packet[z][d][u]
  /\ wire'[Other(e)] = Append(wire[Other(e)], packet[e][c][t]) /\ wire'[e] = wire[e]
  /\ t = "reader" => got'[e][c] = got[e][c] \o drained[e][c] /\ drained'[e][c] = <<>>
  /\ \A z \in Ends, d \in Conns :
       t # "reader" \/ z # e \/ d # c => got'[z][d] = got[z][d] /\ drained'[z][d] = drained[z][d]
  /\ UNCHANGED <<plan, conn, queued, pump, done, ended, faults, orphans>>

LEMMA TransmitFacts ==
  ASSUME TypeOK, TaskInv, NEW e \in Ends, NEW c \in Conns, NEW t \in Tasks, Transmit(e, c, t)
  PROVE  TransmitEffect(e, c, t)
<1> DEFINE p == packet[e][c][t]
<1>1. p \in Packets /\ p.op \in Carried
  <2>1. CarriesItsOwn(e, c, t)
    BY TransmitsPacket DEF Transmit
  <2> QED BY <2>1 DEF CarriesItsOwn
<1>2. AfterTransmit(p.op) \in WriterPc \cup ReaderPc \cup ControlPc
  BY <1>1 DEF AfterTransmit, Carried, WriterPc, ReaderPc, ControlPc
<1>3. pc' = [pc EXCEPT ![e][c][t] = AfterTransmit(p.op)] /\ pc \in [Ends -> [Conns -> [Tasks -> WriterPc \cup ReaderPc \cup ControlPc]]]
  BY DEF Transmit, Goes, TypeOK
<1>4. packet \in [Ends -> [Conns -> [Tasks -> Packets \cup {NoPacket}]]]
  BY DEF TypeOK
<1>5. packet' = [packet EXCEPT ![e][c][t] = IF p.op = "data" THEN p ELSE NoPacket]
  BY <1>4 DEF Transmit
<1>6. (IF p.op = "data" THEN p ELSE NoPacket) \in Packets \cup {NoPacket}
  BY <1>1
<1>7. /\ pc'[e][c][t] = AfterTransmit(p.op)
      /\ \A z \in Ends, d \in Conns, u \in Tasks : z # e \/ d # c \/ u # t => pc'[z][d][u] = pc[z][d][u]
  BY <1>2, <1>3, TaskEntry
<1>8. /\ packet'[e][c][t] = IF p.op = "data" THEN p ELSE NoPacket
      /\ \A z \in Ends, d \in Conns, u \in Tasks : z # e \/ d # c \/ u # t => packet'[z][d][u] = packet[z][d][u]
  BY <1>4, <1>5, <1>6, TaskEntry
<1>9. wire'[Other(e)] = Append(wire[Other(e)], p) /\ wire'[e] = wire[e]
  <2>1. wire \in [Ends -> Seq(Packets)] /\ Other(e) \in Ends /\ Other(e) # e
    BY EndsFacts DEF TypeOK
  <2> QED BY <2>1 DEF Transmit
<1>10. got \in [Ends -> [Conns -> Seq(Nat)]] /\ drained \in [Ends -> [Conns -> Seq(Nat)]]
  BY DEF TypeOK
<1>11. ASSUME t = "reader"
       PROVE  /\ got'[e][c] = got[e][c] \o drained[e][c] /\ drained'[e][c] = <<>>
              /\ \A z \in Ends, d \in Conns : z # e \/ d # c => got'[z][d] = got[z][d] /\ drained'[z][d] = drained[z][d]
  <2>1. /\ got' = [got EXCEPT ![e][c] = got[e][c] \o drained[e][c]]
        /\ drained' = [drained EXCEPT ![e][c] = <<>>]
    BY <1>10, <1>11 DEF Transmit
  <2>2. got[e][c] \o drained[e][c] \in Seq(Nat) /\ <<>> \in Seq(Nat)
    BY <1>10
  <2>3. /\ got'[e][c] = got[e][c] \o drained[e][c]
        /\ \A z \in Ends, d \in Conns : z # e \/ d # c => got'[z][d] = got[z][d]
    <3>1. PICK y \in Seq(Nat) : y = got[e][c] \o drained[e][c]
      BY <2>2
    <3>2. got' = [got EXCEPT ![e][c] = y]
      BY <2>1, <3>1
    <3>3. got'[e][c] = y /\ \A z \in Ends, d \in Conns : z # e \/ d # c => got'[z][d] = got[z][d]
      BY <1>10, <3>2, ConnEntryOf
    <3> QED BY <3>1, <3>3
  <2>4. /\ drained'[e][c] = <<>>
        /\ \A z \in Ends, d \in Conns : z # e \/ d # c => drained'[z][d] = drained[z][d]
    BY <1>10, <2>1, <2>2, ConnEntryOf
  <2> QED BY <2>3, <2>4
<1>12. t # "reader" => UNCHANGED <<got, drained>>
  BY DEF Transmit
<1> QED BY <1>7, <1>8, <1>9, <1>11, <1>12 DEF Transmit, tableVars, TransmitEffect

FailureEffect(e, c, t) ==
  /\ pc'[e][c][t] = IF packet[e][c][t].op = "shutdown" THEN "open" ELSE "gone"
  /\ packet'[e][c][t] = NoPacket
  /\ \A z \in Ends, d \in Conns, u \in Tasks :
       z # e \/ d # c \/ u # t => pc'[z][d][u] = pc[z][d][u] /\ packet'[z][d][u] = packet[z][d][u]
  /\ \/ packet[e][c][t].op = "data" /\ Exists(e, c) /\ conn'[e][c] = [conn[e][c] EXCEPT !.transmitting = FALSE]
     \/ packet[e][c][t].op = "request" /\ conn'[e][c] = Free
     \/ /\ packet[e][c][t].op # "request" /\ ~(packet[e][c][t].op = "data" /\ Exists(e, c))
        /\ conn'[e][c] = conn[e][c]
  /\ \A z \in Ends, d \in Conns : z # e \/ d # c => conn'[z][d] = conn[z][d]
  /\ UNCHANGED <<plan, queued, wire, pump, done, drained, got, ended, orphans>>
  /\ faults' = faults + 1 /\ faults < plan.faults

LEMMA TransmitFailsFacts ==
  ASSUME TypeOK, TaskInv, NEW e \in Ends, NEW c \in Conns, NEW t \in Tasks, TransmitFails(e, c, t)
  PROVE  FailureEffect(e, c, t)
<1> DEFINE p == packet[e][c][t]
           y == IF p.op = "shutdown" THEN "open" ELSE "gone"
<1>1. y \in WriterPc \cup ReaderPc \cup ControlPc
  BY DEF WriterPc, ControlPc
<1>2. pc' = [pc EXCEPT ![e][c][t] = y] /\ pc \in [Ends -> [Conns -> [Tasks -> WriterPc \cup ReaderPc \cup ControlPc]]]
  BY DEF TransmitFails, Goes, TypeOK
<1>3. packet' = [packet EXCEPT ![e][c][t] = NoPacket] /\ packet \in [Ends -> [Conns -> [Tasks -> Packets \cup {NoPacket}]]]
  BY DEF TransmitFails, TypeOK
<1>4. NoPacket \in Packets \cup {NoPacket}
  OBVIOUS
<1>5. /\ pc'[e][c][t] = y
      /\ \A z \in Ends, d \in Conns, u \in Tasks : z # e \/ d # c \/ u # t => pc'[z][d][u] = pc[z][d][u]
  BY <1>1, <1>2, TaskEntry
<1>6. /\ packet'[e][c][t] = NoPacket
      /\ \A z \in Ends, d \in Conns, u \in Tasks : z # e \/ d # c \/ u # t => packet'[z][d][u] = packet[z][d][u]
  BY <1>3, <1>4, TaskEntry
<1>7. conn \in [Ends -> [Conns -> Connections]]
  BY DEF TypeOK
<1>8. \/ p.op = "data" /\ Exists(e, c) /\ conn' = [conn EXCEPT ![e][c] = [conn[e][c] EXCEPT !.transmitting = FALSE]]
      \/ p.op = "request" /\ conn' = [conn EXCEPT ![e][c] = Free]
      \/ p.op # "request" /\ ~(p.op = "data" /\ Exists(e, c)) /\ conn' = conn
  BY DEF TransmitFails, Set
<1>9. [conn[e][c] EXCEPT !.transmitting = FALSE] \in Connections
  <2>1. conn[e][c] \in Connections
    BY <1>7
  <2> QED BY <2>1 DEF Connections
<1>10. /\ \/ p.op = "data" /\ Exists(e, c) /\ conn'[e][c] = [conn[e][c] EXCEPT !.transmitting = FALSE]
          \/ p.op = "request" /\ conn'[e][c] = Free
          \/ p.op # "request" /\ ~(p.op = "data" /\ Exists(e, c)) /\ conn'[e][c] = conn[e][c]
       /\ \A z \in Ends, d \in Conns : z # e \/ d # c => conn'[z][d] = conn[z][d]
  <2>1. CASE p.op = "data" /\ Exists(e, c) /\ conn' = [conn EXCEPT ![e][c] = [conn[e][c] EXCEPT !.transmitting = FALSE]]
    <3>1. PICK k \in Connections : k = [conn[e][c] EXCEPT !.transmitting = FALSE]
      BY <1>9
    <3>2. conn' = [conn EXCEPT ![e][c] = k]
      BY <2>1, <3>1
    <3>3. conn'[e][c] = k /\ \A z \in Ends, d \in Conns : z # e \/ d # c => conn'[z][d] = conn[z][d]
      BY <1>7, <3>2, ConnEntry
    <3> QED BY <2>1, <3>1, <3>3
  <2>2. CASE p.op = "request" /\ conn' = [conn EXCEPT ![e][c] = Free]
    BY <1>7, <2>2, FreeType, ConnEntry
  <2> QED BY <1>8, <2>1, <2>2
<1> QED BY <1>5, <1>6, <1>10 DEF TransmitFails, resultVars, FailureEffect

FinishEffect(e, c, w) ==
  /\ packet[e][c][w] \in Packets /\ packet[e][c][w].op = "data" /\ pc[e][c][w] = "sent"
  /\ pc'[e][c][w] \in {"armed", "idle"} /\ packet'[e][c][w] = NoPacket
  /\ \A z \in Ends, d \in Conns, u \in Tasks :
       z # e \/ d # c \/ u # w => pc'[z][d][u] = pc[z][d][u] /\ packet'[z][d][u] = packet[z][d][u]
  /\ done'[e][c] = done[e][c] + Len(packet[e][c][w].payload)
  /\ \A z \in Ends, d \in Conns : z # e \/ d # c => done'[z][d] = done[z][d]
  /\ ~Exists(e, c) => conn'[e][c] = conn[e][c]
  /\ Exists(e, c) =>
       conn'[e][c] = [conn[e][c] EXCEPT !.transmitting = FALSE,
                       !.tx = (conn[e][c].tx + Len(packet[e][c][w].payload)) % Wrap]
  /\ \A z \in Ends, d \in Conns : z # e \/ d # c => conn'[z][d] = conn[z][d]
  /\ UNCHANGED <<plan, queued, wire, pump, drained, got, ended, faults, orphans>>

LEMMA FinishFacts ==
  ASSUME TypeOK, TaskInv, NEW e \in Ends, NEW c \in Conns, NEW w \in Writers, FinishWrite(e, c, w)
  PROVE  FinishEffect(e, c, w)
<1> DEFINE n == Len(packet[e][c][w].payload)
<1>0. w \in Tasks
  BY TaskFacts
<1>q. packet \in [Ends -> [Conns -> [Tasks -> Packets \cup {NoPacket}]]]
  BY DEF TypeOK
<1>1. packet[e][c][w] \in Packets /\ packet[e][c][w].op = "data" /\ pc[e][c][w] = "sent"
  <2>1. packet[e][c][w].op = "data" /\ pc[e][c][w] = "sent"
    BY <1>0 DEF FinishWrite, TaskInv, TaskOf
  <2>2. packet[e][c][w] \in Packets \cup {NoPacket}
    BY <1>q, <1>0
  <2> QED BY <2>1, <2>2 DEF NoPacket
<1>2. n \in Nat
  BY <1>1, PacketFields
<1> HIDE DEF n
<1>3. done \in [Ends -> [Conns -> Nat]] /\ done[e][c] + n \in Nat
  BY <1>2 DEF TypeOK
<1>4. done' = [done EXCEPT ![e][c] = done[e][c] + n]
  BY <1>3 DEF FinishWrite, n
<1>5. /\ done'[e][c] = done[e][c] + n
      /\ \A z \in Ends, d \in Conns : z # e \/ d # c => done'[z][d] = done[z][d]
  BY <1>3, <1>4, ConnEntryOf
<1>6. PICK y \in {"armed", "idle"} : pc' = [pc EXCEPT ![e][c][w] = y]
  BY DEF FinishWrite
<1>7. y \in WriterPc \cup ReaderPc \cup ControlPc
  BY DEF WriterPc
<1>8. /\ pc'[e][c][w] = y
      /\ \A z \in Ends, d \in Conns, u \in Tasks : z # e \/ d # c \/ u # w => pc'[z][d][u] = pc[z][d][u]
  <2>1. pc \in [Ends -> [Conns -> [Tasks -> WriterPc \cup ReaderPc \cup ControlPc]]]
    BY DEF TypeOK
  <2> QED BY <1>0, <1>6, <1>7, <2>1, TaskEntry
<1>9. /\ packet'[e][c][w] = NoPacket
      /\ \A z \in Ends, d \in Conns, u \in Tasks : z # e \/ d # c \/ u # w => packet'[z][d][u] = packet[z][d][u]
  <2>1. packet' = [packet EXCEPT ![e][c][w] = NoPacket] /\ NoPacket \in Packets \cup {NoPacket}
    BY DEF FinishWrite
  <2> QED BY <1>0, <1>q, <2>1, TaskEntry
<1> DEFINE k == [conn[e][c] EXCEPT !.transmitting = FALSE, !.tx = (conn[e][c].tx + n) % Wrap]
<1>10. conn \in [Ends -> [Conns -> Connections]]
  BY DEF TypeOK
<1>11. k \in Connections
  <2>1. (conn[e][c].tx + n) % Wrap \in Nat
    <3>1. Wrap \in Nat /\ Wrap > 0 /\ conn[e][c].tx \in Nat
      BY <1>10, WindowAssumption, EntryFields
    <3> QED BY <1>2, <3>1
  <2>2. conn[e][c] \in Connections
    BY <1>10
  <2> QED BY <2>1, <2>2 DEF Connections
<1>12. /\ ~Exists(e, c) => conn' = conn
       /\ Exists(e, c) => conn' = [conn EXCEPT ![e][c] = k]
  BY <1>10 DEF FinishWrite, n
<1> HIDE DEF k
<1>13. Exists(e, c) => conn'[e][c] = k /\ \A z \in Ends, d \in Conns : z # e \/ d # c => conn'[z][d] = conn[z][d]
  <2> SUFFICES ASSUME Exists(e, c) PROVE conn'[e][c] = k /\ \A z \in Ends, d \in Conns : z # e \/ d # c => conn'[z][d] = conn[z][d]
    OBVIOUS
  <2>1. conn' = [conn EXCEPT ![e][c] = k]
    BY <1>12
  <2> QED BY <1>10, <1>11, <2>1, ConnEntry
<1>14. UNCHANGED <<plan, queued, wire, pump, drained, got, ended, faults, orphans>>
  BY DEF FinishWrite
<1> QED BY <1>1, <1>5, <1>6, <1>8, <1>9, <1>12, <1>13, <1>14 DEF k, n, FinishEffect

TakesEffect(e, p, k, r) ==
  /\ k \in Connections /\ r \in Packets \cup {NoPacket} /\ p.c \in Conns
  /\ conn[e][p.c] \in Connections
  /\ wire[e] \in Seq(Packets) /\ wire[e] # <<>> /\ p = Head(wire[e])
  /\ wire'[e] = Tail(wire[e]) /\ wire'[Other(e)] = wire[Other(e)]
  /\ pump[e] = NoPacket /\ pump'[e] = r /\ pump'[Other(e)] = pump[Other(e)]
  /\ conn'[e][p.c] = k
  /\ \A z \in Ends, d \in Conns : z # e \/ d # p.c => conn'[z][d] = conn[z][d]
  /\ UNCHANGED <<plan, pc, packet, done, drained, got, ended, faults, orphans>>

LEMMA TakesFacts ==
  ASSUME TypeOK, NEW e \in Ends, NEW p \in Packets, NEW k, NEW r, Takes(e, p, k, r), Outcome(e, p, k, r)
  PROVE  TakesEffect(e, p, k, r)
<1>1. k \in Connections /\ r \in Packets \cup {NoPacket} /\ p.c \in Conns
  BY OutcomeTypes
<1>2. /\ conn \in [Ends -> [Conns -> Connections]] /\ wire \in [Ends -> Seq(Packets)]
      /\ pump \in [Ends -> Packets \cup {NoPacket}] /\ Other(e) \in Ends /\ Other(e) # e
  BY EndsFacts DEF TypeOK
<1>3. conn' = [conn EXCEPT ![e][p.c] = k]
  BY DEF Takes
<1>4. /\ conn'[e][p.c] = k
      /\ \A z \in Ends, d \in Conns : z # e \/ d # p.c => conn'[z][d] = conn[z][d]
  <2>1. PICK c \in Conns : c = p.c
    BY <1>1
  <2>2. conn' = [conn EXCEPT ![e][c] = k]
    BY <1>3, <2>1
  <2> QED BY <1>1, <1>2, <2>1, <2>2, ConnEntry
<1>5. wire'[e] = Tail(wire[e]) /\ wire'[Other(e)] = wire[Other(e)]
  BY <1>2 DEF Takes
<1>6. pump'[e] = r /\ pump'[Other(e)] = pump[Other(e)]
  BY <1>2 DEF Takes
<1> QED BY <1>1, <1>2, <1>4, <1>5, <1>6 DEF Takes, TakesEffect

ReplyEffect(e) ==
  /\ pump[e] \in Packets /\ pump'[e] = NoPacket /\ pump'[Other(e)] = pump[Other(e)]
  /\ \/ wire'[Other(e)] = Append(wire[Other(e)], pump[e]) /\ faults' = faults
     \/ wire'[Other(e)] = wire[Other(e)] /\ faults' = faults + 1 /\ faults < plan.faults
  /\ wire'[e] = wire[e]
  /\ UNCHANGED <<plan, conn, queued, pc, packet, done, drained, got, ended, orphans>>

LEMMA ReplyFacts ==
  ASSUME TypeOK, NEW e \in Ends, SendReply(e)
  PROVE  ReplyEffect(e)
<1>1. /\ wire \in [Ends -> Seq(Packets)]
      /\ pump \in [Ends -> Packets \cup {NoPacket}] /\ Other(e) \in Ends /\ Other(e) # e
  BY EndsFacts DEF TypeOK
<1>2. pump' = [pump EXCEPT ![e] = NoPacket] /\ pump[e] # NoPacket
  BY DEF SendReply, Signals
<1>3. \/ wire' = [wire EXCEPT ![Other(e)] = Append(wire[Other(e)], pump[e])] /\ faults' = faults
      \/ wire' = wire /\ faults' = faults + 1 /\ faults < plan.faults
  BY <1>1 DEF SendReply
<1>4. pump[e] \in Packets /\ pump'[e] = NoPacket /\ pump'[Other(e)] = pump[Other(e)]
  BY <1>1, <1>2
<1>5. /\ \/ wire'[Other(e)] = Append(wire[Other(e)], pump[e]) /\ faults' = faults
         \/ wire'[Other(e)] = wire[Other(e)] /\ faults' = faults + 1 /\ faults < plan.faults
      /\ wire'[e] = wire[e]
  BY <1>1, <1>3
<1> QED BY <1>4, <1>5 DEF SendReply, tableVars, resultVars, ReplyEffect

TransportEffect(e) ==
  /\ \A c \in Conns : conn'[e][c] = IF Exists(e, c) THEN [conn[e][c] EXCEPT !.state = "reset"] ELSE Free
  /\ \A z \in Ends, c \in Conns : z # e => conn'[z][c] = conn[z][c]
  /\ conn' \in [Ends -> [Conns -> Connections]]
  /\ pump' = pump
  /\ e = "b" => queued' = <<>> /\ orphans' = orphans \cup {queued[i] : i \in DOMAIN queued}
  /\ e # "b" => UNCHANGED <<queued, orphans>>
  /\ faults' = faults + 1 /\ faults < plan.faults
  /\ UNCHANGED <<plan, wire, pc, packet, done, drained, got, ended>>

LEMMA TransportFacts ==
  ASSUME TypeOK, NEW e \in Ends, TransportReset(e)
  PROVE  TransportEffect(e)
<1>1. conn \in [Ends -> [Conns -> Connections]] /\ pump \in [Ends -> Packets \cup {NoPacket}]
  BY DEF TypeOK
<1>2. pump' = pump
  <2>1. pump[e] = NoPacket /\ pump' = [pump EXCEPT ![e] = NoPacket]
    BY DEF TransportReset, Signals
  <2> QED BY <1>1, <2>1
<1> DEFINE f == [c \in Conns |-> IF Exists(e, c) THEN [conn[e][c] EXCEPT !.state = "reset"] ELSE Free]
<1>3. conn' = [conn EXCEPT ![e] = f]
  BY <1>1 DEF TransportReset
<1>4. f \in [Conns -> Connections]
  <2>1. ASSUME NEW c \in Conns PROVE f[c] \in Connections
    <3>1. conn[e][c] \in Connections
      BY <1>1
    <3>2. [conn[e][c] EXCEPT !.state = "reset"] \in Connections
      BY <3>1 DEF Connections, States
    <3> QED BY <3>2, FreeType
  <2> QED BY <2>1
<1>5. conn'[e] = f /\ \A z \in Ends : z # e => conn'[z] = conn[z]
  BY <1>1, <1>3
<1>6. conn' \in [Ends -> [Conns -> Connections]]
  <2> HIDE DEF f
  <2> QED BY <1>1, <1>3, <1>4
<1> QED BY <1>2, <1>5, <1>6 DEF TransportReset, resultVars, TransportEffect

AcceptsEffect(c) ==
  /\ pc["b"][c]["control"] = "idle" /\ pc'["b"][c]["control"] = "open"
  /\ \A z \in Ends, d \in Conns, u \in Tasks : z # "b" \/ d # c \/ u # "control" => pc'[z][d][u] = pc[z][d][u]
  /\ queued' \in Seq(Conns) /\ Waiting(c)
  /\ \A d \in Conns : d # c => (Waiting(d)' <=> Waiting(d))
  /\ Waiting(c)' => Waiting(c)
  /\ UNCHANGED <<plan, conn, wire, pump, packet, done, drained, got, ended, faults, orphans>>

LEMMA AcceptsFacts ==
  ASSUME TypeOK, NEW c \in Conns, Accepts(c)
  PROVE  AcceptsEffect(c)
<1>1. pc' = [pc EXCEPT !["b"][c]["control"] = "open"] /\ pc \in [Ends -> [Conns -> [Tasks -> WriterPc \cup ReaderPc \cup ControlPc]]]
  BY DEF Accepts, TypeOK
<1>2. "open" \in WriterPc \cup ReaderPc \cup ControlPc
  BY DEF ControlPc
<1>3. /\ pc'["b"][c]["control"] = "open"
      /\ \A z \in Ends, d \in Conns, u \in Tasks : z # "b" \/ d # c \/ u # "control" => pc'[z][d][u] = pc[z][d][u]
  BY <1>1, <1>2, TaskFacts, EndsFacts, TaskEntry
<1>4. queued \in Seq(Conns) /\ queued # <<>> /\ queued' = Tail(queued) /\ c = Head(queued)
  BY DEF Accepts, TypeOK
<1>5. /\ queued' \in Seq(Conns) /\ Len(queued) \in Nat /\ Len(queued) >= 1 /\ Len(queued') = Len(queued) - 1
      /\ queued[1] = c
      /\ \A i \in 1 .. Len(queued) - 1 : queued'[i] = queued[i + 1]
  BY <1>4
<1>6. \A d \in Conns : Waiting(d)' => Waiting(d)
  <2>1. \A i \in 1 .. Len(queued') : i + 1 \in 1 .. Len(queued) /\ queued'[i] = queued[i + 1]
    BY <1>5
  <2> QED BY <2>1 DEF Waiting
<1>7. ASSUME NEW d \in Conns, d # c, Waiting(d) PROVE Waiting(d)'
  <2>1. PICK i \in 1 .. Len(queued) : queued[i] = d
    BY <1>7 DEF Waiting
  <2>2. i # 1
    BY <1>5, <1>7, <2>1
  <2>3. i - 1 \in 1 .. Len(queued') /\ (i - 1) + 1 = i
    BY <1>5, <2>2
  <2>4. queued'[i - 1] = d
    BY <1>5, <2>1, <2>3
  <2> QED BY <2>3, <2>4 DEF Waiting
<1>8. Waiting(c)
  BY <1>5 DEF Waiting
<1> QED BY <1>3, <1>5, <1>6, <1>7, <1>8 DEF Accepts, AcceptsEffect

LEMMA TypeRest ==
  ASSUME TypeOK, TaskInv, Step
  PROVE  TypeOK'
<1>t. /\ conn \in [Ends -> [Conns -> Connections]] /\ wire \in [Ends -> Seq(Packets)]
      /\ pump \in [Ends -> Packets \cup {NoPacket}] /\ queued \in Seq(Conns)
      /\ pc \in [Ends -> [Conns -> [Tasks -> WriterPc \cup ReaderPc \cup ControlPc]]]
  BY DEF TypeOK
<1>1. CASE Stays
  BY <1>1 DEF Stays, TypeOK
<1>2. CASE CloseListener
  <2>1. UNCHANGED <<plan, conn, wire, pump, pc, packet, done, drained, got, ended>> /\ queued' = <<>> /\ faults' = faults + 1
    BY <1>2 DEF CloseListener, taskVars, resultVars
  <2> QED BY <2>1 DEF TypeOK
<1>3. ASSUME NEW c \in Conns, Accepts(c) PROVE TypeOK'
  <2>1. pc' \in [Ends -> [Conns -> [Tasks -> WriterPc \cup ReaderPc \cup ControlPc]]]
    BY <1>3, <1>t, TaskEntry, TaskFacts, EndsFacts DEF Accepts, ControlPc
  <2>2. queued' \in Seq(Conns) /\ UNCHANGED <<plan, conn, wire, pump, packet, done, drained, got, ended, faults, orphans>>
    <3>e. AcceptsEffect(c)
      BY <1>3, AcceptsFacts
    <3> QED BY <3>e DEF AcceptsEffect
  <2> QED BY <2>1, <2>2 DEF TypeOK
<1>4. ASSUME NEW c \in Conns, Connects(c) PROVE TypeOK'
  <2>1. Decision("a", c, "control", "idle", Header("request", c, Free), Opened("connecting")) /\ drained' = drained
    BY <1>4 DEF Connects
  <2>2. Header("request", c, Free) \in Packets /\ Opened("connecting") \in Connections
    BY DecisionKinds, EndsFacts
  <2>3. Header("request", c, Free).op \in Carried /\ drained' \in [Ends -> [Conns -> Seq(Nat)]]
    BY <2>1 DEF Header, Carried, TypeOK
  <2> QED BY <2>1, <2>2, <2>3, TaskFacts, EndsFacts, DecisionKeepsTypes
<1>5. ASSUME NEW e \in Ends, SendReply(e) PROVE TypeOK'
  <2>0. Other(e) \in Ends /\ pump[e] \in Packets /\ wire[Other(e)] \in Seq(Packets)
    <3>e. ReplyEffect(e)
      BY <1>5, ReplyFacts
    <3> QED BY <1>t, <3>e, EndsFacts DEF ReplyEffect
  <2>1. pump' \in [Ends -> Packets \cup {NoPacket}]
    <3>1. NoPacket \in Packets \cup {NoPacket} /\ pump' = [pump EXCEPT ![e] = NoPacket]
      BY <1>5 DEF SendReply, Signals
    <3> QED BY <1>t, <3>1, EndEntryOf
  <2>2. wire' \in [Ends -> Seq(Packets)]
    <3>1. Append(wire[Other(e)], pump[e]) \in Seq(Packets)
      BY <2>0
    <3>2. [wire EXCEPT ![Other(e)] = Append(wire[Other(e)], pump[e])] \in [Ends -> Seq(Packets)]
      BY <1>t, <2>0, <3>1, EndEntryOf
    <3>3. wire' = [wire EXCEPT ![Other(e)] = Append(wire[Other(e)], pump[e])] \/ wire' = wire
      BY <1>5, <1>t, <2>0 DEF SendReply
    <3> QED BY <1>t, <3>2, <3>3
  <2>3. /\ faults' = faults \/ faults' = faults + 1
        /\ UNCHANGED <<plan, conn, queued, pc, packet, done, drained, got, ended, orphans>>
    <3>e. ReplyEffect(e)
      BY <1>5, ReplyFacts
    <3> QED BY <3>e DEF ReplyEffect
  <2>4. faults' \in Nat
    BY <2>3 DEF TypeOK
  <2>5. /\ plan' \in Plans /\ queued' \in Seq(Conns)
    BY <2>3 DEF TypeOK
  <2> QED BY <2>1, <2>2, <2>3, <2>4, <2>5 DEF TypeOK
<1>6. ASSUME NEW e \in Ends, TransportReset(e) PROVE TypeOK'
  <2>1. /\ conn' \in [Ends -> [Conns -> Connections]] /\ pump' = pump /\ faults' = faults + 1
        /\ queued' = <<>> \/ queued' = queued
        /\ UNCHANGED <<plan, wire, pc, packet, done, drained, got, ended>>
    <3>e. TransportEffect(e)
      BY <1>6, TransportFacts
    <3> QED BY <3>e DEF TransportEffect
  <2>2. queued' \in Seq(Conns)
    <3>1. <<>> \in Seq(Conns)
      OBVIOUS
    <3> QED BY <1>t, <2>1, <3>1
  <2> QED BY <2>1, <2>2 DEF TypeOK
<1>7. ASSUME NEW e \in Ends, NEW p \in Packets, NEW k, NEW r, Takes(e, p, k, r), Outcome(e, p, k, r) PROVE TypeOK'
  <2>1. /\ k \in Connections /\ r \in Packets \cup {NoPacket} /\ p.c \in Conns
        /\ wire[e] \in Seq(Packets) /\ wire[e] # <<>>
        /\ UNCHANGED <<plan, pc, packet, done, drained, got, ended, faults, orphans>>
    <3>e. TakesEffect(e, p, k, r)
      BY <1>7, TakesFacts
    <3> QED BY <3>e DEF TakesEffect
  <2>2. Tail(wire[e]) \in Seq(Packets)
    BY <2>1, TailElements
  <2>3. wire' \in [Ends -> Seq(Packets)]
    <3>1. wire' = [wire EXCEPT ![e] = Tail(wire[e])]
      BY <1>7, <1>t DEF Takes
    <3> QED BY <1>t, <2>2, <3>1, EndEntryOf
  <2>4. pump' \in [Ends -> Packets \cup {NoPacket}]
    BY <1>7, <1>t, <2>1, EndEntryOf DEF Takes
  <2>5. conn' \in [Ends -> [Conns -> Connections]]
    <3>1. PICK c \in Conns : c = p.c
      BY <2>1
    <3>2. conn' = [conn EXCEPT ![e][c] = k]
      BY <1>7, <3>1 DEF Takes
    <3> QED BY <1>t, <2>1, <3>2, ConnEntry
  <2>6. queued' \in Seq(Conns)
    <3>1. queued' = queued \/ queued' = Append(queued, p.c)
      BY <1>7 DEF Outcome, Refuses, Admits, Ignores, Establishes, Mistimed, IsReset, HalfCloses, FullyCloses, Stores, Discards, TakesCredit
    <3>2. Append(queued, p.c) \in Seq(Conns)
      BY <1>t, <2>1
    <3> QED BY <1>t, <3>1, <3>2
  <2> QED BY <2>1, <2>3, <2>4, <2>5, <2>6 DEF TypeOK
<1> QED BY <1>1, <1>2, <1>3, <1>4, <1>5, <1>6, <1>7, TypeTask DEF Step

-----------------------------------------------------------------------------
(* A step is about one connection, except for those of the link and of the *)
(* listener.                                                               *)

SideKept(e, c) ==
  /\ conn'[e][c] = conn[e][c] /\ done'[e][c] = done[e][c] /\ got'[e][c] = got[e][c]
  /\ drained'[e][c] = drained[e][c] /\ ended'[e][c] = ended[e][c]
  /\ \A t \in Tasks : pc'[e][c][t] = pc[e][c][t] /\ packet'[e][c][t] = packet[e][c][t]

LineKept(e, c) ==
  /\ Mentions(wire'[e], c) <=> Mentions(wire[e], c)
  /\ \A op \in Ops : Has(wire'[e], c, op) <=> Has(wire[e], c, op)
  /\ RequestFirst(wire[e], c) => RequestFirst(wire'[e], c)
  /\ ResponseOnce(wire[e], c) => ResponseOnce(wire'[e], c)
  /\ \A r, s \in Nat : Spells(wire[e], c, r, s) => Spells(wire'[e], c, r, s)
  /\ \A r \in Nat : Honest(wire[e], c, r) => Honest(wire'[e], c, r)
  /\ HasFinal(wire'[e], c) <=> HasFinal(wire[e], c)
  /\ DataFirst(wire[e], c) => DataFirst(wire'[e], c)

PumpKept(e, c) ==
  /\ Replying(e, c) => pump'[e] = pump[e]
  /\ pump'[e] # NoPacket /\ pump'[e].c = c => Replying(e, c)

PlaceKept(c) ==
  /\ plan' = plan /\ (Waiting(c)' <=> Waiting(c)) /\ (c \in orphans' <=> c \in orphans)
  /\ faults' = 0 => faults = 0

Untouched(c) ==
  PlaceKept(c) /\ \A e \in Ends : SideKept(e, c) /\ LineKept(e, c) /\ PumpKept(e, c)

LEMMA LineSame ==
  ASSUME NEW e, NEW c, wire'[e] = wire[e]
  PROVE  LineKept(e, c)
  BY DEF LineKept

LEMMA LineMore ==
  ASSUME NEW e \in Ends, NEW c \in Conns, wire[e] \in Seq(Packets), NEW p \in Packets, p.c # c,
         wire'[e] = Append(wire[e], p)
  PROVE  LineKept(e, c)
<1>1. PICK q \in Seq(Packets) : q = wire[e]
  OBVIOUS
<1>2. PICK q2 : q2 = wire'[e] /\ q2 = Append(q, p)
  BY <1>1
<1>3. /\ Mentions(q2, c) <=> Mentions(q, c)
      /\ \A op \in Ops : Has(q2, c, op) <=> Has(q, c, op)
  BY <1>2, AppendHas
<1>4. /\ RequestFirst(q, c) => RequestFirst(q2, c)
      /\ ResponseOnce(q, c) => ResponseOnce(q2, c)
  BY <1>2, AppendOrder
<1>5. \A r, s \in Nat : Spells(q, c, r, s) => Spells(q2, c, r, s)
  BY <1>2, SpellsPast DEF IsData
<1>6. ASSUME NEW r \in Nat, Honest(q, c, r) PROVE Honest(q2, c, r)
  <2>1. r <= r
    OBVIOUS
  <2> QED BY <1>2, <1>6, <2>1, HonestQueue
<1>7. (HasFinal(q2, c) <=> HasFinal(q, c)) /\ (DataFirst(q, c) => DataFirst(q2, c))
  BY <1>2, AppendFinal DEF Final, IsData
<1> QED BY <1>1, <1>2, <1>3, <1>4, <1>5, <1>6, <1>7 DEF LineKept

LEMMA LineLess ==
  ASSUME NEW e \in Ends, NEW c \in Conns, wire[e] \in Seq(Packets), wire[e] # <<>>, Head(wire[e]).c # c,
         wire'[e] = Tail(wire[e])
  PROVE  LineKept(e, c)
<1>1. PICK q \in Seq(Packets) : q = wire[e] /\ q # <<>> /\ Head(q).c # c
  OBVIOUS
<1>2. PICK q2 : q2 = wire'[e] /\ q2 = Tail(q)
  BY <1>1
<1>3. /\ Mentions(q2, c) <=> Mentions(q, c)
      /\ \A op \in Ops : Has(q2, c, op) <=> Has(q, c, op)
  BY <1>1, <1>2, TailHas
<1>4. /\ RequestFirst(q, c) => RequestFirst(q2, c)
      /\ ResponseOnce(q, c) => ResponseOnce(q2, c)
  BY <1>1, <1>2, TailOrder
<1>5. \A r, s \in Nat : Spells(q, c, r, s) => Spells(q2, c, r, s)
  BY <1>1, <1>2, SpellsTail DEF IsData
<1>6. ASSUME NEW r \in Nat, Honest(q, c, r) PROVE Honest(q2, c, r)
  <2>1. r <= r
    OBVIOUS
  <2> QED BY <1>1, <1>2, <1>6, <2>1, HonestQueue
<1>7. (HasFinal(q2, c) <=> HasFinal(q, c)) /\ (DataFirst(q, c) => DataFirst(q2, c))
  BY <1>1, <1>2, TailFinal DEF Final
<1> QED BY <1>1, <1>2, <1>3, <1>4, <1>5, <1>6, <1>7 DEF LineKept


\* What a step of a task of end e at connection c leaves alone.
TaskKeeps(e, c) ==
  /\ UNCHANGED <<plan, queued, pump, orphans>> /\ (faults' = 0 => faults = 0)
  /\ \A z \in Ends, d \in Conns : z # e \/ d # c => SideKept(z, d)
  /\ wire'[e] = wire[e]
  /\ wire'[Other(e)] = wire[Other(e)] \/ \E p \in Packets : p.c = c /\ wire'[Other(e)] = Append(wire[Other(e)], p)

LEMMA DecisionKeeps ==
  ASSUME TypeOK, NEW e \in Ends, NEW c \in Conns, NEW t \in Tasks, NEW x, NEW p \in Packets,
         NEW k \in Connections, Decision(e, c, t, x, p, k), p.op \in Carried,
         \A z \in Ends, d \in Conns : z # e \/ d # c => drained'[z][d] = drained[z][d]
  PROVE  TaskKeeps(e, c)
<1>1. /\ \A y \in Ends, d \in Conns, u \in Tasks :
           y # e \/ d # c \/ u # t => pc'[y][d][u] = pc[y][d][u] /\ packet'[y][d][u] = packet[y][d][u]
      /\ \A y \in Ends, d \in Conns : y # e \/ d # c => conn'[y][d] = conn[y][d]
      /\ UNCHANGED <<plan, queued, wire, pump, done, got, ended, faults, orphans>>
  <2>1. DecisionEffect(e, c, t, x, p, k)
    BY DecisionFacts
  <2> QED BY <2>1 DEF DecisionEffect
<1> QED BY <1>1 DEF TaskKeeps, SideKept

LEMMA TaskFrame ==
  ASSUME TypeOK, TaskInv, NEW e \in Ends, NEW c \in Conns, TaskStep(e, c)
  PROVE  TaskKeeps(e, c)
<1>f. faults \in Nat /\ (faults + 1 = 0 => faults = 0)
  BY DEF TypeOK
<1>o. Other(e) \in Ends
  BY EndsFacts
<1>1. ASSUME NEW t \in Tasks, NEW x, NEW y, Moves(e, c, t, x, y) PROVE TaskKeeps(e, c)
  <2>1. /\ \A z \in Ends, d \in Conns, u \in Tasks : z # e \/ d # c \/ u # t => pc'[z][d][u] = pc[z][d][u]
        /\ UNCHANGED <<plan, conn, queued, wire, pump, packet, done, drained, got, faults, orphans>>
    <3>e. MovesEffect(e, c, t, x, y)
      BY <1>1, MovesFacts
    <3> QED BY <3>e DEF MovesEffect
  <2>2. \A z \in Ends, d \in Conns : z # e \/ d # c => ended'[z][d] = ended[z][d]
    <3>1. ended \in [Ends -> [Conns -> BOOLEAN]] /\ TRUE \in BOOLEAN
      BY DEF TypeOK
    <3>2. ended' = ended \/ ended' = [ended EXCEPT ![e][c] = TRUE]
      BY <1>1 DEF Moves
    <3> QED BY <3>1, <3>2
  <2> QED BY <2>1, <2>2 DEF TaskKeeps, SideKept
<1>2. ASSUME NEW w \in Writers, NEW n, Writes(e, c, w, n) PROVE TaskKeeps(e, c)
  <2>1. drained' = drained /\ DataPacket(e, c, n).op = "data"
    BY <1>2 DEF Writes, DataPacket, Header
  <2>2. Decision(e, c, w, "armed", DataPacket(e, c, n), [Announced(conn[e][c]) EXCEPT !.transmitting = TRUE])
    BY <1>2 DEF Writes
  <2> QED BY <1>2, <2>1, <2>2, TaskFacts, DecisionKinds, DecisionKeeps DEF Carried
<1>3. ASSUME NEW w \in Writers, Asks(e, c, w) PROVE TaskKeeps(e, c)
  <2>1. drained' = drained /\ Header("creditRequest", c, conn[e][c]).op = "creditRequest"
    BY <1>3 DEF Asks, Header
  <2>2. Decision(e, c, w, "blocked", Header("creditRequest", c, conn[e][c]), [Announced(conn[e][c]) EXCEPT !.asked = TRUE])
    BY <1>3 DEF Asks
  <2> QED BY <1>3, <2>1, <2>2, TaskFacts, DecisionKinds, DecisionKeeps DEF Carried
<1>4. ASSUME NEW n, Updates(e, c, n) PROVE TaskKeeps(e, c)
  <2>1. PICK p : p = Header("creditUpdate", c, Reading(conn[e][c], n))
    OBVIOUS
  <2>2. PICK k : k = Announced(Reading(conn[e][c], n))
    OBVIOUS
  <2>3. p \in Packets /\ k \in Connections /\ p.op = "creditUpdate"
    BY <1>4, <2>1, <2>2, DecisionKinds DEF Header
  <2>4. Decision(e, c, "reader", "armed", p, k)
    BY <1>4, <2>1, <2>2 DEF Updates
  <2>5. \A z \in Ends, d \in Conns : z # e \/ d # c => drained'[z][d] = drained[z][d]
    <3>1. SubSeq(conn[e][c].receive, 1, n) \in Seq(Nat)
      BY <1>4, DecisionTypes DEF Updates, Readable
    <3>2. drained' = [drained EXCEPT ![e][c] = SubSeq(conn[e][c].receive, 1, n)] /\ drained \in [Ends -> [Conns -> Seq(Nat)]]
      BY <1>4 DEF Updates, TypeOK
    <3> QED BY <3>1, <3>2, ConnEntryOf
  <2> QED BY <2>3, <2>4, <2>5, TaskFacts, DecisionKeeps DEF Carried
<1>5. ASSUME NEW n, Hands(e, c, n) PROVE TaskKeeps(e, c)
  <2>e. HandsEffect(e, c, n)
    BY <1>5, HandsFacts
  <2> QED BY <2>e DEF HandsEffect, TaskKeeps, SideKept
<1>6. ASSUME NEW x, Abandons(e, c, x) PROVE TaskKeeps(e, c)
  <2>1. drained' = drained /\ Header("reset", c, conn[e][c]).op = "reset"
    BY <1>6 DEF Abandons, Header
  <2>2. Decision(e, c, "control", x, Header("reset", c, conn[e][c]), Free)
    BY <1>6 DEF Abandons
  <2> QED BY <2>1, <2>2, TaskFacts, DecisionKinds, DecisionKeeps DEF Carried
<1>7. ASSUME NEW x, Frees(e, c, x) PROVE TaskKeeps(e, c)
  <2>e. FreesEffect(e, c, x)
    BY <1>7, FreesFacts
  <2> QED BY <2>e DEF FreesEffect, TaskKeeps, SideKept
<1>8. ASSUME NEW dirs, Shuts(e, c, dirs) PROVE TaskKeeps(e, c)
  <2> DEFINE k == [Announced(conn[e][c]) EXCEPT !.local = conn[e][c].local \cup dirs]
  <2>1. dirs \in SUBSET Directions /\ drained' = drained /\ Decision(e, c, "control", "open", ShutPacket(e, c, dirs), k)
    BY <1>8 DEF Shuts
  <2>2. ShutPacket(e, c, dirs) \in Packets /\ ShutPacket(e, c, dirs).op = "shutdown" /\ k \in Connections
    BY <2>1, ShutFacts
  <2> QED BY <2>1, <2>2, TaskFacts, DecisionKeeps DEF Carried
<1>9. ASSUME NEW t \in Tasks, Transmit(e, c, t) PROVE TaskKeeps(e, c)
  <2>1. packet[e][c][t] \in Packets /\ packet[e][c][t].c = c
    <3>e. CarriesItsOwn(e, c, t)
      BY <1>9, TransmitsPacket DEF Transmit
    <3> QED BY <3>e DEF CarriesItsOwn
  <2>2. /\ \A z \in Ends, d \in Conns, u \in Tasks :
             z # e \/ d # c \/ u # t => pc'[z][d][u] = pc[z][d][u] /\ packet'[z][d][u] = packet[z][d][u]
        /\ \A z \in Ends, d \in Conns :
             t # "reader" \/ z # e \/ d # c => got'[z][d] = got[z][d] /\ drained'[z][d] = drained[z][d]
    <3>e. TransmitEffect(e, c, t)
      BY <1>9, TransmitFacts
    <3> QED BY <3>e DEF TransmitEffect
  <2>3. /\ wire'[Other(e)] = Append(wire[Other(e)], packet[e][c][t]) /\ wire'[e] = wire[e]
        /\ UNCHANGED <<plan, conn, queued, pump, done, ended, faults, orphans>>
    <3>e. TransmitEffect(e, c, t)
      BY <1>9, TransmitFacts
    <3> QED BY <3>e DEF TransmitEffect
  <2>4. \A z \in Ends, d \in Conns : z # e \/ d # c => SideKept(z, d)
    BY <2>2, <2>3 DEF SideKept
  <2> QED BY <2>1, <2>3, <2>4 DEF TaskKeeps
<1>10. ASSUME NEW t \in Tasks, TransmitFails(e, c, t) PROVE TaskKeeps(e, c)
  <2>1. /\ \A z \in Ends, d \in Conns, u \in Tasks :
             z # e \/ d # c \/ u # t => pc'[z][d][u] = pc[z][d][u] /\ packet'[z][d][u] = packet[z][d][u]
        /\ \A z \in Ends, d \in Conns : z # e \/ d # c => conn'[z][d] = conn[z][d]
    <3>e. FailureEffect(e, c, t)
      BY <1>10, TransmitFailsFacts
    <3> QED BY <3>e DEF FailureEffect
  <2>2. /\ UNCHANGED <<plan, queued, wire, pump, done, drained, got, ended, orphans>> /\ faults' = faults + 1
    <3>e. FailureEffect(e, c, t)
      BY <1>10, TransmitFailsFacts
    <3> QED BY <3>e DEF FailureEffect
  <2>3. \A z \in Ends, d \in Conns : z # e \/ d # c => SideKept(z, d)
    BY <2>1, <2>2 DEF SideKept
  <2> QED BY <1>f, <2>2, <2>3 DEF TaskKeeps
<1>11. ASSUME NEW w \in Writers, FinishWrite(e, c, w) PROVE TaskKeeps(e, c)
  <2>1. /\ \A z \in Ends, d \in Conns, u \in Tasks :
             z # e \/ d # c \/ u # w => pc'[z][d][u] = pc[z][d][u] /\ packet'[z][d][u] = packet[z][d][u]
        /\ \A z \in Ends, d \in Conns : z # e \/ d # c => conn'[z][d] = conn[z][d]
        /\ \A z \in Ends, d \in Conns : z # e \/ d # c => done'[z][d] = done[z][d]
    <3>e. FinishEffect(e, c, w)
      BY <1>11, FinishFacts
    <3> QED BY <3>e DEF FinishEffect
  <2>2. UNCHANGED <<plan, queued, wire, pump, drained, got, ended, faults, orphans>>
    <3>e. FinishEffect(e, c, w)
      BY <1>11, FinishFacts
    <3> QED BY <3>e DEF FinishEffect
  <2>3. \A z \in Ends, d \in Conns : z # e \/ d # c => SideKept(z, d)
    BY <2>1, <2>2 DEF SideKept
  <2> QED BY <2>2, <2>3 DEF TaskKeeps
<1> QED BY <1>1, <1>2, <1>3, <1>4, <1>5, <1>6, <1>7, <1>8, <1>9, <1>10, <1>11 DEF TaskStep

\* The steps about connection c.
PacketStep(e, c, p, k, r) == p.c = c /\ Takes(e, p, k, r) /\ Outcome(e, p, k, r)
ReplyStep(e, c) == SendReply(e) /\ pump[e].c = c
ConnStep(c) ==
  \/ Accepts(c) \/ Connects(c)
  \/ \E e \in Ends : TaskStep(e, c) \/ ReplyStep(e, c)
  \/ \E e \in Ends, p \in Packets : \E k, r : PacketStep(e, c, p, k, r)

LEMMA TaskStepUntouched ==
  ASSUME TypeOK, NEW e \in Ends, NEW c \in Conns, TaskKeeps(e, c), NEW d \in Conns, d # c
  PROVE  Untouched(d)
<1>1. wire[Other(e)] \in Seq(Packets) /\ Other(e) \in Ends
  BY EndsFacts DEF TypeOK
<1>2. LineKept(Other(e), d)
  <2>1. CASE wire'[Other(e)] = wire[Other(e)]
    BY <2>1, LineSame
  <2>2. ASSUME NEW p \in Packets, p.c = c, wire'[Other(e)] = Append(wire[Other(e)], p) PROVE LineKept(Other(e), d)
    BY <1>1, <2>2, LineMore
  <2> QED BY <2>1, <2>2 DEF TaskKeeps
<1>3. LineKept(e, d)
  BY LineSame DEF TaskKeeps
<1>4. \A z \in Ends : LineKept(z, d)
  BY <1>2, <1>3, EndsFacts
<1>5. PlaceKept(d)
  BY DEF TaskKeeps, PlaceKept, Waiting
<1>6. \A z \in Ends : SideKept(z, d) /\ PumpKept(z, d)
  BY DEF TaskKeeps, PumpKept, Replying
<1> QED BY <1>4, <1>5, <1>6 DEF Untouched

LEMMA Focus ==
  ASSUME TypeOK, TaskInv, Step
  PROVE  \/ CloseListener \/ \E e \in Ends : TransportReset(e)
         \/ \A d \in Conns : Untouched(d)
         \/ \E c \in Conns : ConnStep(c) /\ \A d \in Conns : d # c => Untouched(d)
<1>1. CASE Stays
  BY <1>1, LineSame DEF Stays, Untouched, PlaceKept, SideKept, PumpKept, Waiting, Replying
<1>2. ASSUME NEW c \in Conns, Accepts(c), NEW d \in Conns, d # c PROVE Untouched(d)
  <2>1. /\ \A z \in Ends, u \in Tasks : pc'[z][d][u] = pc[z][d][u]
        /\ Waiting(d)' <=> Waiting(d)
        /\ UNCHANGED <<plan, conn, wire, pump, packet, done, drained, got, ended, faults, orphans>>
    <3>e. AcceptsEffect(c)
      BY <1>2, AcceptsFacts
    <3> QED BY <1>2, <3>e DEF AcceptsEffect
  <2> QED BY <2>1, LineSame DEF Untouched, PlaceKept, SideKept, PumpKept, Replying
<1>3. ASSUME NEW c \in Conns, Connects(c) PROVE TaskKeeps("a", c)
  <2>1. Decision("a", c, "control", "idle", Header("request", c, Free), Opened("connecting")) /\ drained' = drained
    BY <1>3 DEF Connects
  <2>2. Header("request", c, Free) \in Packets /\ Opened("connecting") \in Connections
    BY DecisionKinds, EndsFacts
  <2>3. Header("request", c, Free).op \in Carried
    BY DEF Header, Carried
  <2> QED BY <2>1, <2>2, <2>3, TaskFacts, EndsFacts, DecisionKeeps
<1>4. ASSUME NEW e \in Ends, SendReply(e) PROVE pump[e].c \in Conns /\ \A d \in Conns : d # pump[e].c => Untouched(d)
  <2>1. /\ pump[e] \in Packets /\ pump'[e] = NoPacket /\ pump'[Other(e)] = pump[Other(e)]
        /\ \/ wire'[Other(e)] = Append(wire[Other(e)], pump[e]) /\ faults' = faults
           \/ wire'[Other(e)] = wire[Other(e)] /\ faults' = faults + 1
        /\ wire'[e] = wire[e]
        /\ UNCHANGED <<plan, conn, queued, pc, packet, done, drained, got, ended, orphans>>
    <3>e. ReplyEffect(e)
      BY <1>4, ReplyFacts
    <3> QED BY <3>e DEF ReplyEffect
  <2>2. pump[e].c \in Conns /\ wire[Other(e)] \in Seq(Packets) /\ Other(e) \in Ends
    BY <2>1, PacketFields, EndsFacts DEF TypeOK
  <2>3. ASSUME NEW d \in Conns, d # pump[e].c PROVE Untouched(d)
    <3>1. LineKept(Other(e), d)
      BY <2>1, <2>2, <2>3, LineSame, LineMore
    <3>2. LineKept(e, d)
      BY <2>1, LineSame
    <3>3. PumpKept(e, d) /\ PumpKept(Other(e), d)
      BY <2>1, <2>3 DEF PumpKept, Replying
    <3>4. faults' = 0 => faults = 0
      BY <2>1 DEF TypeOK
    <3>5. PlaceKept(d) /\ \A z \in Ends : SideKept(z, d)
      BY <2>1, <3>4 DEF PlaceKept, SideKept, Waiting
    <3> QED BY <3>1, <3>2, <3>3, <3>5, EndsFacts DEF Untouched
  <2> QED BY <2>2, <2>3
<1>5. ASSUME NEW e \in Ends, NEW p \in Packets, NEW k, NEW r, Takes(e, p, k, r), Outcome(e, p, k, r)
      PROVE  p.c \in Conns /\ \A d \in Conns : d # p.c => Untouched(d)
  <2>1. /\ r \in Packets \cup {NoPacket} /\ p.c \in Conns
        /\ wire[e] \in Seq(Packets) /\ wire[e] # <<>> /\ p = Head(wire[e])
        /\ wire'[e] = Tail(wire[e]) /\ wire'[Other(e)] = wire[Other(e)]
        /\ pump[e] = NoPacket /\ pump'[e] = r /\ pump'[Other(e)] = pump[Other(e)]
        /\ \A z \in Ends, d \in Conns : z # e \/ d # p.c => conn'[z][d] = conn[z][d]
        /\ UNCHANGED <<plan, pc, packet, done, drained, got, ended, faults, orphans>>
    <3>e. TakesEffect(e, p, k, r)
      BY <1>5, TakesFacts
    <3> QED BY <3>e DEF TakesEffect
  <2>2. r = NoPacket \/ r.c = p.c
    <3>1. \A op, q : Header(op, p.c, q).c = p.c /\ Reply(op, p.c).c = p.c
      BY DEF Header, Reply
    <3>2. r = NoPacket \/ \E op, q : r = Header(op, p.c, q) \/ r = Reply(op, p.c)
      BY <1>5 DEF Outcome, Refuses, Admits, Ignores, Establishes, Mistimed, IsReset, HalfCloses, FullyCloses, Stores, Discards, TakesCredit
    <3> QED BY <3>1, <3>2
  <2>3. queued \in Seq(Conns) /\ (queued' = queued \/ queued' = Append(queued, p.c))
    BY <1>5 DEF TypeOK, Outcome, Refuses, Admits, Ignores, Establishes, Mistimed, IsReset, HalfCloses, FullyCloses, Stores, Discards, TakesCredit
  <2>4. ASSUME NEW d \in Conns, d # p.c PROVE Untouched(d)
    <3>1. LineKept(Other(e), d) /\ LineKept(e, d)
      BY <2>1, <2>4, LineSame, LineLess
    <3>2. PumpKept(e, d) /\ PumpKept(Other(e), d)
      BY <2>1, <2>2, <2>4 DEF PumpKept, Replying
    <3>3. Waiting(d)' <=> Waiting(d)
      <4>1. CASE queued' = queued
        BY <4>1 DEF Waiting
      <4>2. CASE queued' = Append(queued, p.c)
        <5>1. /\ Len(queued') = Len(queued) + 1 /\ Len(queued) \in Nat /\ queued'[Len(queued) + 1] = p.c
              /\ \A i \in 1 .. Len(queued) : queued'[i] = queued[i]
          BY <2>1, <2>3, <4>2
        <5>2. \A i : i \in 1 .. Len(queued') <=> i \in 1 .. Len(queued) \/ i = Len(queued) + 1
          BY <5>1
        <5> QED BY <2>4, <5>1, <5>2 DEF Waiting
      <4> QED BY <2>3, <4>1, <4>2
    <3>4. PlaceKept(d) /\ \A z \in Ends : SideKept(z, d)
      BY <2>1, <2>4, <3>3 DEF PlaceKept, SideKept
    <3> QED BY <3>1, <3>2, <3>4, EndsFacts DEF Untouched
  <2> QED BY <2>1, <2>4
<1>6. ASSUME NEW e \in Ends, NEW c \in Conns, TaskStep(e, c), NEW d \in Conns, d # c PROVE Untouched(d)
  BY <1>6, TaskFrame, TaskStepUntouched
<1>7. ASSUME NEW c \in Conns, Connects(c), NEW d \in Conns, d # c PROVE Untouched(d)
  BY <1>3, <1>7, EndsFacts, TaskStepUntouched
<1> QED BY <1>1, <1>2, <1>4, <1>5, <1>6, <1>7 DEF Step, ConnStep, PacketStep, ReplyStep

-----------------------------------------------------------------------------
(* The table                                                               *)

\* Step y with packet q is one of task t's.
Fits(e, c, t, y, q) ==
  /\ t \in Writers => y \in WriterPc
  /\ t = "reader" => y \in ReaderPc
  /\ t = "control" => y \in ControlPc /\ (e = "b" => y \in AcceptedPc)
  /\ y \in Carried => q.op = y
  /\ y = "sent" => q.op = "data"
  /\ y \notin Carried \cup {"sent"} => q = NoPacket
  /\ q # NoPacket => q.c = c

\* A task goes from x to y with packet q, and the entry becomes k.
Advances(e, c, t, x, y, q, k) ==
  /\ pc[e][c][t] = x /\ pc'[e][c][t] = y /\ packet'[e][c][t] = q /\ conn'[e][c] = k
  /\ \A u \in Tasks : u # t => pc'[e][c][u] = pc[e][c][u] /\ packet'[e][c][u] = packet[e][c][u]
  /\ Fits(e, c, t, y, q)
  /\ k = Free \/ k = conn[e][c] \/ (k.state = conn[e][c].state /\ Exists(e, c))
  /\ t = "control" =>
       /\ x # "idle" /\ y \notin {"idle", "request"}
       /\ y \in {"reset", "gone"} => k = Free \/ (x = "reset" /\ k = conn[e][c])
       /\ y \in {"open", "shutdown"} => x \in {"open", "shutdown"} \/ conn[e][c].state = "established"
       /\ done'[e][c] = done[e][c] /\ got'[e][c] = got[e][c] /\ drained'[e][c] = drained[e][c]
  /\ t # "control" => x # "idle" \/ pc[e][c]["control"] = "open"
  /\ \/ wire'[Other(e)] = wire[Other(e)]
     \/ /\ packet[e][c][t] \in Packets /\ packet[e][c][t].c = c /\ packet[e][c][t].op = x /\ x \in Carried
        /\ x = "request" => e = "a" /\ t = "control"
        /\ wire'[Other(e)] = Append(wire[Other(e)], packet[e][c][t])

\* A decision is an advance.
LEMMA DecisionAdvances ==
  ASSUME TypeOK, TaskInv, NEW e \in Ends, NEW c \in Conns, NEW t \in Tasks, NEW x, NEW p \in Packets,
         NEW k \in Connections, Decision(e, c, t, x, p, k), p.c = c,
         \/ t \in Writers /\ p.op \in {"data", "creditRequest"}
         \/ t = "reader" /\ p.op = "creditUpdate"
         \/ t = "control" /\ p.op \in {"shutdown", "reset"} /\ drained' = drained,
         x # "idle",
         k = Free \/ (k.state = conn[e][c].state /\ Exists(e, c)),
         p.op = "reset" => k = Free,
         p.op = "shutdown" => x = "open"
  PROVE  Advances(e, c, t, x, p.op, p, k)
<1>1. p.op \in Carried /\ p # NoPacket
  BY NoPacketFacts DEF Carried
<1>2. DecisionEffect(e, c, t, x, p, k)
  BY <1>1, DecisionFacts
<1>3. Fits(e, c, t, p.op, p)
  BY <1>1, TaskFacts DEF Fits, WriterPc, ReaderPc, ControlPc, AcceptedPc, Carried
<1>4. \A u \in Tasks : u # t => pc'[e][c][u] = pc[e][c][u] /\ packet'[e][c][u] = packet[e][c][u]
  BY <1>2 DEF DecisionEffect
<1>5. pc[e][c][t] = x /\ pc'[e][c][t] = p.op /\ packet'[e][c][t] = p /\ conn'[e][c] = k /\ UNCHANGED <<wire, done, got>>
  BY <1>2 DEF DecisionEffect
<1>6. t = "control" =>
       /\ x # "idle" /\ p.op \notin {"idle", "request"}
       /\ p.op \in {"reset", "gone"} => k = Free \/ (x = "reset" /\ k = conn[e][c])
       /\ p.op \in {"open", "shutdown"} => x \in {"open", "shutdown"} \/ conn[e][c].state = "established"
       /\ done'[e][c] = done[e][c] /\ got'[e][c] = got[e][c] /\ drained'[e][c] = drained[e][c]
  BY <1>5, TaskFacts
<1> QED BY <1>3, <1>4, <1>5, <1>6 DEF Advances

LEMMA SameState ==
  ASSUME NEW k \in Connections
  PROVE  /\ Announced(k).state = k.state
         /\ [Announced(k) EXCEPT !.transmitting = TRUE].state = k.state
         /\ [Announced(k) EXCEPT !.asked = TRUE].state = k.state
         /\ \A d : [Announced(k) EXCEPT !.local = d].state = k.state
         /\ \A n : Reading(k, n).state = k.state /\ Announced(Reading(k, n)).state = k.state
         /\ [k EXCEPT !.transmitting = FALSE].state = k.state
         /\ \A n : [k EXCEPT !.transmitting = FALSE, !.tx = n].state = k.state
         /\ [k EXCEPT !.state = "reset"].state = "reset"
  BY DEF Connections, Announced, Reading

LEMMA TaskAdvances ==
  ASSUME TypeOK, TaskInv, NEW e \in Ends, NEW c \in Conns, TaskStep(e, c)
  PROVE  \E t \in Tasks : \E x, y, q, k : Advances(e, c, t, x, y, q, k)
<1>k. conn[e][c] \in Connections
  BY DEF TypeOK
<1>l. \A s \in Live : s # "none"
  BY DEF Live
<1>s. /\ [Announced(conn[e][c]) EXCEPT !.transmitting = TRUE].state = conn[e][c].state
      /\ [Announced(conn[e][c]) EXCEPT !.asked = TRUE].state = conn[e][c].state
      /\ \A d : [Announced(conn[e][c]) EXCEPT !.local = d].state = conn[e][c].state
      /\ \A n : Reading(conn[e][c], n).state = conn[e][c].state /\ Announced(Reading(conn[e][c], n)).state = conn[e][c].state
      /\ [conn[e][c] EXCEPT !.transmitting = FALSE].state = conn[e][c].state
      /\ \A n : [conn[e][c] EXCEPT !.transmitting = FALSE, !.tx = n].state = conn[e][c].state
  BY <1>k, SameState
<1>1. ASSUME NEW t \in Tasks, NEW x, NEW y, Moves(e, c, t, x, y) PROVE Advances(e, c, t, x, y, packet[e][c][t], conn[e][c])
  <2>1. MovesEffect(e, c, t, x, y)
    BY <1>1, MovesFacts
  <2>2. packet[e][c][t] = NoPacket
    BY <1>1 DEF Moves, TaskInv, TaskOf
  <2>3. Fits(e, c, t, y, packet[e][c][t])
    <3>1. /\ t \in Writers => y \in WriterPc
          /\ t = "reader" => y \in ReaderPc
          /\ t = "control" => e = "a" /\ y \in {"armed", "parked", "open"}
          /\ y \notin Carried \cup {"sent"}
      BY <1>1 DEF Moves
    <3> QED BY <2>2, <3>1 DEF Fits, ControlPc
  <2>4. /\ t = "control" => x \in {"connecting", "armed", "parked"} /\ y \in {"armed", "parked", "open"}
                            /\ (y = "open" => conn[e][c].state = "established")
        /\ t # "control" => x # "idle" \/ pc[e][c]["control"] = "open"
    BY <1>1 DEF Moves
  <2>5. t = "control" => x # "idle" /\ y \notin {"idle", "request", "reset", "gone", "shutdown"}
    BY <2>4
  <2> QED BY <2>1, <2>3, <2>4, <2>5 DEF Advances, MovesEffect
<1>2. ASSUME NEW w \in Writers, NEW n, Writes(e, c, w, n)
      PROVE  \E x, y, q, k : Advances(e, c, w, x, y, q, k)
  <2>1. PICK p : p = DataPacket(e, c, n)
    OBVIOUS
  <2>2. PICK k : k = [Announced(conn[e][c]) EXCEPT !.transmitting = TRUE]
    OBVIOUS
  <2>3. p \in Packets /\ k \in Connections /\ p.op = "data" /\ p.c = c
    BY <1>2, <2>1, <2>2, DecisionKinds DEF DataPacket, Header
  <2>4. Decision(e, c, w, "armed", p, k) /\ Exists(e, c)
    BY <1>2, <2>1, <2>2 DEF Writes, Exists
  <2>5. k.state = conn[e][c].state
    BY <1>s, <2>2
  <2>6. Advances(e, c, w, "armed", p.op, p, k)
    BY <2>3, <2>4, <2>5, TaskFacts, DecisionAdvances
  <2> QED BY <2>6
<1>3. ASSUME NEW w \in Writers, Asks(e, c, w)
      PROVE  \E x, y, q, k : Advances(e, c, w, x, y, q, k)
  <2>1. PICK p : p = Header("creditRequest", c, conn[e][c])
    OBVIOUS
  <2>2. PICK k : k = [Announced(conn[e][c]) EXCEPT !.asked = TRUE]
    OBVIOUS
  <2>3. p \in Packets /\ k \in Connections /\ p.op = "creditRequest" /\ p.c = c
    BY <1>3, <2>1, <2>2, DecisionKinds DEF Header
  <2>4. Decision(e, c, w, "blocked", p, k) /\ Exists(e, c)
    BY <1>3, <2>1, <2>2 DEF Asks, Exists
  <2>5. k.state = conn[e][c].state
    BY <1>s, <2>2
  <2>6. Advances(e, c, w, "blocked", p.op, p, k)
    BY <2>3, <2>4, <2>5, TaskFacts, DecisionAdvances
  <2> QED BY <2>6
<1>4. ASSUME NEW n, Updates(e, c, n)
      PROVE  \E x, y, q, k : Advances(e, c, "reader", x, y, q, k)
  <2>1. PICK p : p = Header("creditUpdate", c, Reading(conn[e][c], n))
    OBVIOUS
  <2>2. PICK k : k = Announced(Reading(conn[e][c], n))
    OBVIOUS
  <2>3. p \in Packets /\ k \in Connections /\ p.op = "creditUpdate" /\ p.c = c
    BY <1>4, <2>1, <2>2, DecisionKinds DEF Header
  <2>4. Decision(e, c, "reader", "armed", p, k) /\ Exists(e, c)
    BY <1>4, <2>1, <2>2 DEF Updates, Readable
  <2>5. k.state = conn[e][c].state
    BY <1>s, <2>2
  <2>6. Advances(e, c, "reader", "armed", p.op, p, k)
    BY <2>3, <2>4, <2>5, TaskFacts, DecisionAdvances
  <2> QED BY <2>6
<1>5. ASSUME NEW n, Hands(e, c, n)
      PROVE  Advances(e, c, "reader", "armed", "idle", packet[e][c]["reader"], Reading(conn[e][c], n))
  <2>1. HandsEffect(e, c, n)
    BY <1>5, HandsFacts
  <2>2. packet[e][c]["reader"] = NoPacket
    <3>1. "armed" \notin Carried \cup {"sent"} /\ pc[e][c]["reader"] = "armed"
      BY <2>1 DEF Carried, HandsEffect
    <3> QED BY <3>1, TaskFacts DEF TaskInv, TaskOf
  <2>3. Fits(e, c, "reader", "idle", packet[e][c]["reader"])
    BY <2>2, TaskFacts DEF Fits, ReaderPc, Carried
  <2>4. Exists(e, c) /\ Reading(conn[e][c], n).state = conn[e][c].state
    BY <1>5, <1>s DEF Hands, Readable
  <2> QED BY <2>1, <2>3, <2>4, TaskFacts DEF Advances, HandsEffect
<1>6. ASSUME NEW x, Abandons(e, c, x)
      PROVE  \E y, q, k : Advances(e, c, "control", x, y, q, k)
  <2>1. PICK p : p = Header("reset", c, conn[e][c])
    OBVIOUS
  <2>2. PICK k : k = Free
    OBVIOUS
  <2>3. p \in Packets /\ k \in Connections /\ p.op = "reset" /\ p.c = c
    BY <2>1, <2>2, DecisionKinds DEF Header
  <2>4. Decision(e, c, "control", x, p, k) /\ x # "idle" /\ drained' = drained
    BY <1>6, <2>1, <2>2 DEF Abandons
  <2>5. Advances(e, c, "control", x, p.op, p, k)
    BY <2>2, <2>3, <2>4, TaskFacts, DecisionAdvances
  <2> QED BY <2>5
<1>7. ASSUME NEW x, Frees(e, c, x)
      PROVE  Advances(e, c, "control", x, "gone", packet[e][c]["control"], Free)
  <2>1. FreesEffect(e, c, x) /\ x \in {"open", "armed", "parked"}
    BY <1>7, FreesFacts DEF Frees
  <2>2. packet[e][c]["control"] = NoPacket
    <3>1. pc[e][c]["control"] \notin Carried \cup {"sent"}
      BY <2>1 DEF Carried, FreesEffect
    <3> QED BY <3>1, TaskFacts DEF TaskInv, TaskOf
  <2>3. Fits(e, c, "control", "gone", packet[e][c]["control"])
    BY <2>2, TaskFacts DEF Fits, ControlPc, AcceptedPc, Carried
  <2>4. x # "idle"
    BY <2>1
  <2> QED BY <2>1, <2>3, <2>4, TaskFacts DEF Advances, FreesEffect
<1>8. ASSUME NEW dirs, Shuts(e, c, dirs)
      PROVE  \E x, y, q, k : Advances(e, c, "control", x, y, q, k)
  <2>1. PICK p : p = ShutPacket(e, c, dirs)
    OBVIOUS
  <2>2. PICK k : k = [Announced(conn[e][c]) EXCEPT !.local = conn[e][c].local \cup dirs]
    OBVIOUS
  <2>3. p \in Packets /\ k \in Connections /\ p.op = "shutdown" /\ p.c = c
    BY <1>8, <2>1, <2>2, ShutFacts DEF Shuts
  <2>4. Decision(e, c, "control", "open", p, k) /\ drained' = drained /\ Exists(e, c)
    BY <1>8, <1>l, <2>1, <2>2 DEF Shuts, Exists
  <2>5. k.state = conn[e][c].state
    BY <1>s, <2>2
  <2>6. Advances(e, c, "control", "open", p.op, p, k)
    BY <2>3, <2>4, <2>5, TaskFacts, DecisionAdvances
  <2> QED BY <2>6
<1>9. ASSUME NEW t \in Tasks, Transmit(e, c, t)
      PROVE  \E x, y, q, k : Advances(e, c, t, x, y, q, k)
  <2>1. TransmitEffect(e, c, t) /\ CarriesItsOwn(e, c, t)
    BY <1>9, TransmitFacts, TransmitsPacket DEF Transmit
  <2>2. PICK p \in Packets : p = packet[e][c][t]
    BY <2>1 DEF CarriesItsOwn
  <2>3. /\ p.c = c /\ pc[e][c][t] = p.op /\ p.op \in Carried
        /\ t \in Writers => p.op \in {"data", "creditRequest"}
        /\ t = "reader" => p.op = "creditUpdate"
        /\ t = "control" => p.op \in {"request", "shutdown", "reset"}
        /\ p.op = "request" => e = "a"
    BY <2>1, <2>2 DEF CarriesItsOwn
  <2>4. PICK y : y = AfterTransmit(p.op)
    OBVIOUS
  <2>5. PICK q : q = IF p.op = "data" THEN p ELSE NoPacket
    OBVIOUS
  <2>6. /\ pc'[e][c][t] = y /\ packet'[e][c][t] = q /\ UNCHANGED <<conn, done>>
        /\ \A u \in Tasks : u # t => pc'[e][c][u] = pc[e][c][u] /\ packet'[e][c][u] = packet[e][c][u]
        /\ wire'[Other(e)] = Append(wire[Other(e)], p)
        /\ t # "reader" => got'[e][c] = got[e][c] /\ drained'[e][c] = drained[e][c]
    BY <2>1, <2>2, <2>4, <2>5 DEF TransmitEffect
  <2>7. /\ p.op = "request" => y = "connecting"
        /\ p.op = "data" => y = "sent"
        /\ p.op = "creditRequest" => y = "parked"
        /\ p.op = "creditUpdate" => y = "idle"
        /\ p.op = "shutdown" => y = "open"
        /\ p.op = "reset" => y = "gone"
    BY <2>4 DEF AfterTransmit
  <2>8. Fits(e, c, t, y, q)
    BY <2>3, <2>5, <2>7, TaskFacts, EndsFacts DEF Fits, WriterPc, ReaderPc, ControlPc, AcceptedPc, Carried
  <2>9. t = "control" =>
          /\ p.op # "idle" /\ y \notin {"idle", "request"}
          /\ y \in {"reset", "gone"} => p.op = "reset"
          /\ y \in {"open", "shutdown"} => p.op \in {"open", "shutdown"}
    BY <2>3, <2>7
  <2>10. p.op # "idle" /\ (p.op = "request" => t = "control")
    BY <2>3, TaskFacts DEF Carried
  <2>11. Advances(e, c, t, p.op, y, q, conn[e][c])
    BY <2>2, <2>3, <2>6, <2>8, <2>9, <2>10, TaskFacts DEF Advances
  <2> QED BY <2>11
<1>10. ASSUME NEW t \in Tasks, TransmitFails(e, c, t)
       PROVE  \E x, y, q, k : Advances(e, c, t, x, y, q, k)
  <2>1. FailureEffect(e, c, t) /\ CarriesItsOwn(e, c, t)
    BY <1>10, TransmitFailsFacts, TransmitsPacket DEF TransmitFails
  <2>2. PICK p \in Packets : p = packet[e][c][t]
    BY <2>1 DEF CarriesItsOwn
  <2>3. /\ p.c = c /\ pc[e][c][t] = p.op /\ p.op \in Carried
        /\ t \in Writers => p.op \in {"data", "creditRequest"}
        /\ t = "reader" => p.op = "creditUpdate"
        /\ t = "control" => p.op \in {"request", "shutdown", "reset"}
    BY <2>1, <2>2 DEF CarriesItsOwn
  <2>4. PICK y : y = IF p.op = "shutdown" THEN "open" ELSE "gone"
    OBVIOUS
  <2>5. PICK k : k = conn'[e][c]
    OBVIOUS
  <2>6. /\ pc'[e][c][t] = y /\ packet'[e][c][t] = NoPacket /\ UNCHANGED <<wire, done, got, drained>>
        /\ \A u \in Tasks : u # t => pc'[e][c][u] = pc[e][c][u] /\ packet'[e][c][u] = packet[e][c][u]
    BY <2>1, <2>2, <2>4 DEF FailureEffect
  <2>7. /\ k = Free \/ k = conn[e][c] \/ (k.state = conn[e][c].state /\ Exists(e, c))
        /\ p.op = "request" => k = Free
        /\ p.op = "reset" => k = conn[e][c]
    BY <1>s, <2>1, <2>2, <2>5 DEF FailureEffect
  <2>8. Fits(e, c, t, y, NoPacket)
    BY <2>3, <2>4, TaskFacts DEF Fits, WriterPc, ReaderPc, ControlPc, AcceptedPc, Carried
  <2>9. t = "control" =>
          /\ p.op # "idle" /\ y \notin {"idle", "request"}
          /\ y \in {"reset", "gone"} => k = Free \/ (p.op = "reset" /\ k = conn[e][c])
          /\ y \in {"open", "shutdown"} => p.op \in {"open", "shutdown"}
    BY <2>3, <2>4, <2>7
  <2>10. p.op # "idle"
    BY <2>3 DEF Carried
  <2>11. Advances(e, c, t, p.op, y, NoPacket, k)
    BY <2>3, <2>5, <2>6, <2>7, <2>8, <2>9, <2>10 DEF Advances
  <2> QED BY <2>11
<1>11. ASSUME NEW w \in Writers, FinishWrite(e, c, w)
       PROVE  \E x, y, q, k : Advances(e, c, w, x, y, q, k)
  <2>1. FinishEffect(e, c, w)
    BY <1>11, FinishFacts
  <2>2. PICK k : k = conn'[e][c]
    OBVIOUS
  <2>3. PICK y \in {"armed", "idle"} : y = pc'[e][c][w]
    BY <2>1 DEF FinishEffect
  <2>4. /\ pc[e][c][w] = "sent" /\ packet'[e][c][w] = NoPacket /\ wire' = wire
        /\ \A u \in Tasks : u # w => pc'[e][c][u] = pc[e][c][u] /\ packet'[e][c][u] = packet[e][c][u]
    BY <2>1 DEF FinishEffect
  <2>5. k = conn[e][c] \/ (k.state = conn[e][c].state /\ Exists(e, c))
    <3>1. \/ k = conn[e][c]
          \/ Exists(e, c) /\ \E m : k = [conn[e][c] EXCEPT !.transmitting = FALSE, !.tx = m]
      BY <2>1, <2>2 DEF FinishEffect
    <3> QED BY <1>s, <3>1
  <2>6. Fits(e, c, w, y, NoPacket)
    BY <2>3, TaskFacts DEF Fits, WriterPc, Carried
  <2>7. Advances(e, c, w, "sent", y, NoPacket, k)
    BY <2>2, <2>3, <2>4, <2>5, <2>6, TaskFacts DEF Advances
  <2> QED BY <2>7
<1> QED BY <1>1, <1>2, <1>3, <1>4, <1>5, <1>6, <1>7, <1>8, <1>9, <1>10, <1>11, TaskFacts DEF TaskStep

LEMMA TableUntouched ==
  ASSUME NEW c \in Conns, TableOf(c), Untouched(c)
  PROVE  TableOf(c)'
<1>1. /\ plan' = plan /\ (Waiting(c)' <=> Waiting(c)) /\ (c \in orphans' <=> c \in orphans)
      /\ \A e \in Ends :
           /\ conn'[e][c] = conn[e][c] /\ done'[e][c] = done[e][c] /\ got'[e][c] = got[e][c]
           /\ drained'[e][c] = drained[e][c]
           /\ \A t \in Tasks : pc'[e][c][t] = pc[e][c][t] /\ packet'[e][c][t] = packet[e][c][t]
           /\ Replying(e, c) => pump'[e] = pump[e]
           /\ Replying(e, c)' => Replying(e, c)
  BY DEF Untouched, PlaceKept, SideKept, PumpKept, Replying
<1>2. \A e \in Ends :
           /\ Mentions(wire'[e], c) <=> Mentions(wire[e], c)
           /\ \A op \in Ops : Has(wire'[e], c, op) <=> Has(wire[e], c, op)
           /\ RequestFirst(wire[e], c) => RequestFirst(wire'[e], c)
           /\ ResponseOnce(wire[e], c) => ResponseOnce(wire'[e], c)
  BY DEF Untouched, LineKept
<1>3. {"request", "response", "data"} \subseteq Ops
  BY DEF Ops
<1>4. TaskOf(c)'
  BY <1>1, TaskFacts DEF TableOf, TaskOf
<1>5. SlotOf(c)'
  BY <1>1, TaskFacts DEF TableOf, SlotOf, Exists
<1>6. Unborn(c)' <=> Unborn(c)
  BY <1>1, <1>2, <1>3, EndsFacts, TaskFacts DEF Unborn
<1>7. BirthOf(c)'
  BY <1>1, <1>2, <1>3, <1>6, EndsFacts, TaskFacts DEF TableOf, BirthOf, Exists
<1>8. OrderOf(c)'
  BY <1>1, <1>2, <1>3, EndsFacts DEF TableOf, OrderOf
<1> QED BY <1>4, <1>5, <1>7, <1>8 DEF TableOf

\* Before the request is handled only the connecting task is at work.
LEMMA UnbornAdvances ==
  ASSUME NEW e \in Ends, NEW c \in Conns, NEW t \in Tasks, NEW x, NEW y, NEW q, NEW k,
         Advances(e, c, t, x, y, q, k), BirthOf(c), Unborn(c)
  PROVE  e = "a" /\ t = "control"
<1>1. /\ pc["a"][c]["control"] # "open"
      /\ pc["b"][c][t] = "idle" /\ (t # "control" => pc["a"][c][t] = "idle") /\ pc["b"][c]["control"] = "idle"
  BY TaskFacts DEF BirthOf
<1>2. /\ pc[e][c][t] = x /\ (t = "control" => x # "idle")
      /\ t # "control" => x # "idle" \/ pc[e][c]["control"] = "open"
  BY DEF Advances
<1> QED BY <1>1, <1>2, EndsFacts

\* A task makes no connection unborn again.
LEMMA UnbornKept ==
  ASSUME TypeOK, NEW e \in Ends, NEW c \in Conns, NEW t \in Tasks, NEW x, NEW y, NEW q, NEW k,
         Advances(e, c, t, x, y, q, k), TaskKeeps(e, c), Unborn(c)'
  PROVE  Unborn(c)
<1>0. wire'[e] = wire[e] /\ SideKept(Other(e), c) /\ \A z \in Ends : z = e \/ z = Other(e)
  BY EndsFacts DEF TaskKeeps
<1>1. /\ \A z \in Ends, u \in Tasks : z # e \/ u # t => pc'[z][c][u] = pc[z][c][u]
      /\ pc[e][c][t] = x /\ pc'[e][c][t] = y
  <2>1. \A u \in Tasks : pc'[Other(e)][c][u] = pc[Other(e)][c][u]
    BY <1>0 DEF SideKept
  <2>2. (\A u \in Tasks : u # t => pc'[e][c][u] = pc[e][c][u]) /\ pc[e][c][t] = x /\ pc'[e][c][t] = y
    BY DEF Advances
  <2> QED BY <1>0, <2>1, <2>2
<1>2. t = "control" => y \notin {"idle", "request"}
  BY DEF Advances
<1>3. CASE pc'["a"][c]["control"] \in {"idle", "request"}
  BY <1>1, <1>2, <1>3, TaskFacts, EndsFacts DEF Unborn
<1>4. CASE Has(wire'["b"], c, "request")
  <2>1. CASE wire'["b"] = wire["b"]
    BY <1>4, <2>1 DEF Unborn
  <2>2. CASE wire'["b"] # wire["b"]
    <3>1. e = "a" /\ Other(e) = "b"
      BY <1>0, <2>2, EndsFacts
    <3>2. PICK p \in Packets : /\ p.c = c /\ p.op = x /\ (x = "request" => t = "control")
                               /\ wire'["b"] = Append(wire["b"], p)
      BY <2>2, <3>1 DEF Advances
    <3>3. wire["b"] \in Seq(Packets) /\ "request" \in Ops
      BY EndsFacts DEF TypeOK, Ops
    <3>4. Has(wire["b"], c, "request") \/ x = "request"
      BY <1>4, <3>2, <3>3, AppendHas
    <3> QED BY <1>1, <3>1, <3>2, <3>4 DEF Unborn
  <2> QED BY <2>1, <2>2
<1> QED BY <1>3, <1>4 DEF Unborn

LEMMA TableAdvances ==
  ASSUME TypeOK, NEW e \in Ends, NEW c \in Conns, NEW t \in Tasks, NEW x, NEW y, NEW q, NEW k,
         Advances(e, c, t, x, y, q, k), TaskKeeps(e, c), TableOf(c)
  PROVE  TableOf(c)'
<1>0. /\ UNCHANGED <<plan, queued, pump, orphans>> /\ wire'[e] = wire[e]
      /\ SideKept(Other(e), c)
  BY EndsFacts DEF TaskKeeps
<1>z. \A z \in Ends : z = e \/ z = Other(e)
  BY EndsFacts
<1>1. /\ \A z \in Ends, u \in Tasks : z # e \/ u # t => pc'[z][c][u] = pc[z][c][u] /\ packet'[z][c][u] = packet[z][c][u]
      /\ pc[e][c][t] = x /\ pc'[e][c][t] = y /\ packet'[e][c][t] = q /\ conn'[e][c] = k
      /\ conn'[Other(e)][c] = conn[Other(e)][c]
  <2>1. /\ \A u \in Tasks : pc'[Other(e)][c][u] = pc[Other(e)][c][u] /\ packet'[Other(e)][c][u] = packet[Other(e)][c][u]
        /\ conn'[Other(e)][c] = conn[Other(e)][c]
    BY <1>0 DEF SideKept
  <2>2. /\ \A u \in Tasks : u # t => pc'[e][c][u] = pc[e][c][u] /\ packet'[e][c][u] = packet[e][c][u]
        /\ pc[e][c][t] = x /\ pc'[e][c][t] = y /\ packet'[e][c][t] = q /\ conn'[e][c] = k
    BY DEF Advances
  <2> QED BY <1>z, <2>1, <2>2
<1>2. TaskOf(c)'
  <2>1. Fits(e, c, t, y, q)
    BY DEF Advances
  <2> QED BY <1>1, <2>1, TaskFacts DEF TableOf, TaskOf, Fits
<1>3. k = Free \/ k = conn[e][c] \/ (k.state = conn[e][c].state /\ Exists(e, c))
  BY DEF Advances
<1>4. t = "control" => (y \in {"reset", "gone"} => k = Free \/ (x = "reset" /\ k = conn[e][c]))
                       /\ x # "idle" /\ y \notin {"idle", "request"}
  BY DEF Advances
<1>f. Free.state = "none"
  BY FreeType
<1>5. SlotOf(c)'
  <2>1. ASSUME NEW z \in Ends, ~(conn'[z][c].state # "none") PROVE conn'[z][c] = Free
    <3>1. CASE z = e
      BY <1>1, <1>3, <2>1, <3>1 DEF TableOf, SlotOf, Exists
    <3>2. CASE z = Other(e)
      BY <1>1, <2>1, <3>2 DEF TableOf, SlotOf, Exists
    <3> QED BY <1>z, <3>1, <3>2
  <2>2. ASSUME NEW z \in Ends, conn'[z][c].state # "none", pc'[z][c]["control"] \in {"idle", "reset", "gone"}
        PROVE  z = "b" /\ (c \in orphans \/ Waiting(c))
    <3>1. conn[z][c].state # "none"
      <4>1. CASE z = e
        BY <1>1, <1>3, <1>f, <2>2, <4>1 DEF Exists
      <4>2. CASE z = Other(e)
        BY <1>1, <2>2, <4>2
      <4> QED BY <1>z, <4>1, <4>2
    <3>2. pc[z][c]["control"] \in {"idle", "reset", "gone"}
      BY <1>1, <1>4, <1>f, <2>2, TaskFacts
    <3> QED BY <3>1, <3>2 DEF TableOf, SlotOf, Exists
  <2>3. Waiting(c)' <=> Waiting(c)
    BY <1>0 DEF Waiting
  <2> QED BY <1>0, <2>1, <2>2, <2>3 DEF SlotOf, Exists
<1>w. /\ wire["a"] \in Seq(Packets) /\ wire["b"] \in Seq(Packets) /\ wire[Other(e)] \in Seq(Packets)
      /\ Other(e) \in Ends
  BY EndsFacts DEF TypeOK
<1>ops. {"request", "response", "data"} \subseteq Ops
  BY DEF Ops
<1>p. \/ wire'[Other(e)] = wire[Other(e)]
      \/ /\ x \in Carried /\ (x = "request" => e = "a" /\ t = "control")
         /\ \E p \in Packets : p.c = c /\ p.op = x /\ wire'[Other(e)] = Append(wire[Other(e)], p)
  BY DEF Advances
<1>q. \A op \in Ops : Has(wire'[Other(e)], c, op) <=> Has(wire[Other(e)], c, op) \/ (op = x /\ wire'[Other(e)] # wire[Other(e)])
  <2>1. CASE wire'[Other(e)] = wire[Other(e)]
    BY <2>1
  <2>2. ASSUME NEW p \in Packets, p.c = c, p.op = x, wire'[Other(e)] = Append(wire[Other(e)], p)
        PROVE  \A op \in Ops : Has(wire'[Other(e)], c, op) <=> Has(wire[Other(e)], c, op) \/ (op = x /\ wire'[Other(e)] # wire[Other(e)])
    <3>1. Append(wire[Other(e)], p) # wire[Other(e)]
      BY <1>w
    <3> QED BY <1>w, <2>2, <3>1, AppendHas
  <2> QED BY <1>p, <2>1, <2>2
<1>u. ASSUME Unborn(c)' PROVE Unborn(c)
  BY <1>u, UnbornKept
<1>6. BirthOf(c)'
  <2>1. ASSUME Unborn(c)'
        PROVE  /\ conn'["b"][c].state = "none" /\ conn'["a"][c].state # "established"
               /\ pc'["a"][c]["control"] \notin {"open", "shutdown"}
               /\ \A u \in Tasks : pc'["b"][c][u] = "idle" /\ (u # "control" => pc'["a"][c][u] = "idle")
               /\ \A z \in Ends :
                    /\ got'[z][c] = <<>> /\ drained'[z][c] = <<>> /\ done'[z][c] = 0
                    /\ ~Replying(z, c)'
               /\ ~Waiting(c)' /\ ~Mentions(wire'["a"], c) /\ ~Has(wire'["b"], c, "data")
    <3>1. Unborn(c)
      BY <1>u, <2>1
    <3>2. e = "a" /\ t = "control"
      BY <3>1, UnbornAdvances DEF TableOf
    <3>3. /\ ~Exists("b", c) /\ conn["a"][c].state # "established"
          /\ pc["a"][c]["control"] \notin {"open", "shutdown"}
          /\ \A u \in Tasks : pc["b"][c][u] = "idle" /\ (u # "control" => pc["a"][c][u] = "idle")
          /\ \A z \in Ends :
               /\ got[z][c] = <<>> /\ drained[z][c] = <<>> /\ done[z][c] = 0
               /\ ~Replying(z, c)
          /\ ~Waiting(c) /\ ~Mentions(wire["a"], c) /\ ~Has(wire["b"], c, "data")
      BY <3>1 DEF TableOf, BirthOf
    <3>4. conn'["b"][c].state = "none" /\ conn'["a"][c].state # "established"
      BY <1>1, <1>3, <1>f, <3>2, <3>3, EndsFacts DEF Exists
    <3>5. pc'["a"][c]["control"] \notin {"open", "shutdown"}
      <4>1. y \in {"open", "shutdown"} => x \in {"open", "shutdown"} \/ conn[e][c].state = "established"
        BY <3>2 DEF Advances
      <4> QED BY <1>1, <3>2, <3>3, <4>1
    <3>6. \A u \in Tasks : pc'["b"][c][u] = "idle" /\ (u # "control" => pc'["a"][c][u] = "idle")
      BY <1>1, <3>2, <3>3, EndsFacts
    <3>7. \A z \in Ends : got'[z][c] = <<>> /\ drained'[z][c] = <<>> /\ done'[z][c] = 0
      <4>1. done'[e][c] = done[e][c] /\ got'[e][c] = got[e][c] /\ drained'[e][c] = drained[e][c]
        BY <3>2 DEF Advances
      <4>2. done'[Other(e)][c] = done[Other(e)][c] /\ got'[Other(e)][c] = got[Other(e)][c] /\ drained'[Other(e)][c] = drained[Other(e)][c]
        BY <1>0 DEF SideKept
      <4> QED BY <3>2, <3>3, <4>1, <4>2, EndsFacts
    <3>8. \A z \in Ends : ~Replying(z, c)'
      BY <1>0, <3>3 DEF Replying
    <3>9. ~Waiting(c)' /\ ~Mentions(wire'["a"], c)
      BY <1>0, <3>2, <3>3 DEF Waiting
    <3>10. ~Has(wire'["b"], c, "data")
      <4>1. x # "data"
        <5>1. x \in ControlPc
          BY <1>1, <3>2 DEF TableOf, TaskOf
        <5> QED BY <5>1 DEF ControlPc
      <4> QED BY <1>q, <1>ops, <3>2, <3>3, <4>1, EndsFacts
    <3> QED BY <3>4, <3>5, <3>6, <3>7, <3>8, <3>9, <3>10
  <2>2. ASSUME pc'["a"][c]["control"] \in {"idle", "request"} PROVE ~Mentions(wire'["b"], c)
    <3>1. ~(e = "a" /\ t = "control") /\ pc["a"][c]["control"] \in {"idle", "request"}
      BY <1>1, <1>4, <2>2, TaskFacts, EndsFacts
    <3>2. Unborn(c)
      BY <3>1 DEF Unborn
    <3> QED BY <3>1, <3>2, UnbornAdvances DEF TableOf
  <2>3. ASSUME pc'["a"][c]["control"] # "idle" PROVE c \in DOMAIN plan.bytes
    <3>1. pc["a"][c]["control"] # "idle"
      BY <1>1, <1>4, <2>3, TaskFacts, EndsFacts
    <3> QED BY <3>1 DEF TableOf, BirthOf
  <2> QED BY <1>0, <2>1, <2>2, <2>3 DEF BirthOf, Exists
<1>7. OrderOf(c)'
  <2>1. /\ Replying("a", c)' <=> Replying("a", c)
        /\ Replying("b", c)' <=> Replying("b", c)
        /\ pump' = pump
    BY <1>0 DEF Replying
  <2>2. conn'["a"][c].state = "established" => conn["a"][c].state = "established"
    BY <1>1, <1>3, <1>f, EndsFacts
  <2>3. x # "response" \/ wire'[Other(e)] = wire[Other(e)]
    BY <1>p DEF Carried
  <2>4. /\ ~Has(wire'["a"], c, "request") /\ ~Has(wire'["b"], c, "response")
        /\ Has(wire'["a"], c, "response") <=> Has(wire["a"], c, "response")
    <3>1. ~Has(wire["a"], c, "request") /\ ~Has(wire["b"], c, "response")
      BY DEF TableOf, OrderOf
    <3>2. CASE e = "a"
      BY <1>0, <1>q, <1>ops, <2>3, <3>1, <3>2, EndsFacts
    <3>3. CASE e = "b"
      BY <1>0, <1>p, <1>q, <1>ops, <2>3, <3>1, <3>3, EndsFacts
    <3> QED BY <3>2, <3>3, EndsFacts
  <2>5. RequestFirst(wire'["b"], c) /\ ResponseOnce(wire'["a"], c)
    <3>1. RequestFirst(wire["b"], c) /\ ResponseOnce(wire["a"], c)
      BY DEF TableOf, OrderOf
    <3>2. CASE wire'[Other(e)] = wire[Other(e)]
      BY <1>0, <3>1, <3>2, EndsFacts
    <3>3. ASSUME NEW p \in Packets, p.c = c, p.op = x, x \in Carried, x = "request" => e = "a" /\ t = "control",
                 wire'[Other(e)] = Append(wire[Other(e)], p)
          PROVE  RequestFirst(wire'["b"], c) /\ ResponseOnce(wire'["a"], c)
      <4>1. CASE e = "a"
        <5>1. p.op = "request" => ~Mentions(wire["b"], c)
          <6> SUFFICES ASSUME p.op = "request" PROVE ~Mentions(wire["b"], c)
            OBVIOUS
          <6>1. pc["a"][c]["control"] = "request"
            BY <1>1, <3>3, <4>1
          <6> QED BY <6>1 DEF TableOf, BirthOf
        <5>2. RequestFirst(Append(wire["b"], p), c)
          BY <1>w, <3>1, <5>1, AppendOrder
        <5> QED BY <1>0, <3>1, <3>3, <4>1, <5>2, EndsFacts
      <4>2. CASE e = "b"
        <5>1. p.op # "response"
          BY <3>3 DEF Carried
        <5>2. ResponseOnce(Append(wire["a"], p), c)
          BY <1>w, <3>1, <5>1, AppendOrder
        <5> QED BY <1>0, <3>1, <3>3, <4>2, <5>2, EndsFacts
      <4> QED BY <4>1, <4>2, EndsFacts
    <3> QED BY <1>p, <3>2, <3>3
  <2>6. \A z \in Ends : Replying(z, c)' <=> Replying(z, c)
    BY <2>1, EndsFacts
  <2> QED BY <2>1, <2>2, <2>4, <2>5, <2>6 DEF TableOf, OrderOf
<1> QED BY <1>2, <1>5, <1>6, <1>7 DEF TableOf

\* What packet p makes of the entry, as far as the handshake goes.
Admitted(e, c, p, k, r) ==
  /\ p.op = "request" /\ e = "b" /\ ~Exists(e, c) /\ k.state = "established"
  /\ r \in Packets /\ r.c = c /\ r.op = "response" /\ queued' = Append(queued, c)

Handled(e, c, p, k, r) ==
  /\ queued' = queued
  /\ r = NoPacket \/ (r \in Packets /\ r.c = c /\ r.op \in {"reset", "creditUpdate"})
  /\ k = conn[e][c] \/ (Exists(e, c) /\ k.state # "none")
  /\ k.state = "connecting" => conn[e][c].state = "connecting" /\ p.op # "response"
  /\ k.state = "established" =>
       conn[e][c].state = "established" \/ (p.op = "response" /\ conn[e][c].state = "connecting")
  /\ conn[e][c].state \in Live /\ k.state \notin Live => p.op = "reset" \/ (r # NoPacket /\ r.op = "reset")
  /\ r # NoPacket /\ r.op = "reset" =>
       \/ p.op = "request" \/ (p.op = "response" /\ conn[e][c].state = "established")
       \/ k.state \notin Live
  /\ p.op = "reset" => k.state \notin Live

LEMMA AbsorbedStates ==
  ASSUME NEW old \in Connections, NEW p \in Packets
  PROVE  /\ Absorb(old, p).state = old.state
         /\ \A s : [Absorb(old, p) EXCEPT !.state = s].state = s /\ [old EXCEPT !.state = s].state = s
         /\ \A d : [Absorb(old, p) EXCEPT !.peer = d].state = old.state
         /\ \A d, s : [Absorb(old, p) EXCEPT !.peer = d, !.state = s].state = s
         /\ \A b : [Absorb(old, p) EXCEPT !.receive = b].state = old.state
         /\ Announced(Absorb(old, p)).state = old.state
  BY DEF Connections, Absorb, Announced

LEMMA PacketStepFacts ==
  ASSUME TypeOK, NEW e \in Ends, NEW c \in Conns, NEW p \in Packets, NEW k, NEW r, PacketStep(e, c, p, k, r)
  PROVE  Admitted(e, c, p, k, r) \/ Handled(e, c, p, k, r)
<1>0. p.c = c /\ Outcome(e, p, k, r)
  BY DEF PacketStep
<1>1. PICK old \in Connections : old = conn[e][c]
  BY DEF TypeOK
<1>2. /\ Absorb(old, p).state = old.state
      /\ \A s : [Absorb(old, p) EXCEPT !.state = s].state = s /\ [old EXCEPT !.state = s].state = s
      /\ \A d : [Absorb(old, p) EXCEPT !.peer = d].state = old.state
      /\ \A d, s : [Absorb(old, p) EXCEPT !.peer = d, !.state = s].state = s
      /\ \A b : [Absorb(old, p) EXCEPT !.receive = b].state = old.state
      /\ Announced(Absorb(old, p)).state = old.state
  BY AbsorbedStates
<1>3. Reply("reset", c) \in Packets /\ Reply("reset", c).c = c /\ Reply("reset", c).op = "reset"
  BY <1>1, PacketTypes DEF Ops
<1>4. \A op \in {"response", "creditUpdate"}, q \in Connections : Header(op, c, q) \in Packets /\ Header(op, c, q).c = c /\ Header(op, c, q).op = op
  BY PacketTypes DEF Ops
<1>5. k \in Connections
  BY <1>0, OutcomeTypes
<1>6. /\ "established" \in Live /\ "connecting" \in Live
      /\ {"none", "reset", "refused", "closed"} \cap Live = {}
      /\ \A s \in Live : s # "none"
  BY DEF Live
<1>7. NoPacket # Reply("reset", c)
  BY <1>3, NoPacketFacts
<1> USE DEF Handled, Exists
<1>a. CASE Refuses(e, p, k, r)
  BY <1>a, <1>0, <1>1, <1>3 DEF Refuses
<1>b. CASE Admits(e, p, k, r)
  <2>1. k.state = "established"
    <3>1. Opened("established") \in Connections /\ Opened("established").state = "established"
      BY OpenedType DEF States, Opened
    <3> QED BY <1>b, <3>1, AbsorbFields DEF Admits
  <2> QED BY <1>b, <1>0, <1>4, <1>5, <2>1 DEF Admits, Admitted
<1>c. CASE Ignores(e, p, k, r)
  BY <1>c, <1>0, <1>1, <1>3, <1>6 DEF Ignores
<1>d. CASE Establishes(e, p, k, r)
  BY <1>d, <1>0, <1>1, <1>2, <1>6 DEF Establishes
<1>e. CASE Mistimed(e, p, k, r)
  BY <1>e, <1>0, <1>1, <1>2, <1>3, <1>6 DEF Mistimed, Live
<1>f. CASE IsReset(e, p, k, r)
  BY <1>f, <1>0, <1>1, <1>2, <1>6 DEF IsReset
<1>g. CASE HalfCloses(e, p, k, r)
  BY <1>g, <1>0, <1>1, <1>2, <1>6 DEF HalfCloses
<1>h. CASE FullyCloses(e, p, k, r)
  BY <1>h, <1>0, <1>1, <1>2, <1>3, <1>6, <1>7 DEF FullyCloses
<1>i. CASE Stores(e, p, k, r)
  BY <1>i, <1>0, <1>1, <1>2, <1>6 DEF Stores
<1>j. CASE Discards(e, p, k, r)
  BY <1>j, <1>0, <1>1, <1>2, <1>3, <1>6, <1>7 DEF Discards
<1>k. CASE TakesCredit(e, p, k, r)
  BY <1>k, <1>0, <1>1, <1>2, <1>4, <1>5, <1>6 DEF TakesCredit
<1> QED BY <1>0, <1>a, <1>b, <1>c, <1>d, <1>e, <1>f, <1>g, <1>h, <1>i, <1>j, <1>k DEF Outcome

LEMMA AppendWaiting ==
  ASSUME TypeOK, NEW c \in Conns, queued' = Append(queued, c)
  PROVE  Waiting(c)'
<1>1. /\ Len(queued') = Len(queued) + 1 /\ Len(queued) \in Nat /\ queued'[Len(queued) + 1] = c
  BY DEF TypeOK
<1>2. Len(queued) + 1 \in 1 .. Len(queued')
  BY <1>1
<1> QED BY <1>1, <1>2 DEF Waiting

\* The request of a connection a packet of which has been received was handled.
LEMMA PacketBorn ==
  ASSUME TypeOK, NEW e \in Ends, NEW c \in Conns, NEW p \in Packets, p.c = c,
         wire[e] # <<>>, p = Head(wire[e]), TableOf(c),
         wire'[e] = Tail(wire[e]), wire'[Other(e)] = wire[Other(e)]
  PROVE  /\ ~Has(wire'["b"], c, "request") /\ pc["a"][c]["control"] \notin {"idle", "request"}
         /\ p.op = "request" => e = "b" /\ Unborn(c)
         /\ p.op # "request" => ~Unborn(c)
<1>1. wire[e] \in Seq(Packets) /\ Mentions(wire[e], c) /\ Has(wire[e], c, p.op)
  <2>1. wire[e] \in Seq(Packets) /\ p.op \in Ops
    BY PacketFields DEF TypeOK
  <2> QED BY <2>1, TailHas
<1>2. pc["a"][c]["control"] \notin {"idle", "request"}
  <2> SUFFICES ASSUME pc["a"][c]["control"] \in {"idle", "request"} PROVE FALSE
    OBVIOUS
  <2>1. Unborn(c)
    BY DEF Unborn
  <2>2. ~Mentions(wire["a"], c) /\ ~Mentions(wire["b"], c)
    BY <2>1 DEF TableOf, BirthOf
  <2> QED BY <1>1, <2>2, EndsFacts
<1>3. CASE e = "a"
  <2>1. p.op # "request" /\ wire'["b"] = wire["b"]
    BY <1>1, <1>3, EndsFacts DEF TableOf, OrderOf
  <2>2. ~Unborn(c)
    BY <1>1, <1>3 DEF TableOf, BirthOf
  <2> QED BY <1>2, <2>1, <2>2 DEF Unborn
<1>4. CASE e = "b"
  <2>1. RequestFirst(wire["b"], c)
    BY DEF TableOf, OrderOf
  <2>2. ~Has(wire'["b"], c, "request")
    BY <1>1, <1>4, <2>1, TailOrder
  <2>3. Has(wire["b"], c, "request") => p.op = "request"
    BY <1>1, <1>4, <2>2, TailHas DEF Ops
  <2> QED BY <1>1, <1>2, <1>4, <2>2, <2>3 DEF Unborn
<1> QED BY <1>3, <1>4, EndsFacts

LEMMA TablePacket ==
  ASSUME TypeOK, NEW e \in Ends, NEW c \in Conns, NEW p \in Packets, NEW k, NEW r,
         PacketStep(e, c, p, k, r), TableOf(c)
  PROVE  TableOf(c)'
<1>0. TakesEffect(e, p, k, r) /\ p.c = c
  BY TakesFacts DEF PacketStep
<1>1. /\ wire[e] \in Seq(Packets) /\ wire[e] # <<>> /\ p = Head(wire[e])
      /\ wire'[e] = Tail(wire[e]) /\ wire'[Other(e)] = wire[Other(e)]
      /\ pump[e] = NoPacket /\ pump'[e] = r /\ pump'[Other(e)] = pump[Other(e)]
      /\ conn'[e][c] = k /\ conn'[Other(e)][c] = conn[Other(e)][c]
      /\ UNCHANGED <<plan, pc, packet, done, drained, got, orphans>>
  BY <1>0, EndsFacts DEF TakesEffect
<1>2. Admitted(e, c, p, k, r) \/ Handled(e, c, p, k, r)
  BY PacketStepFacts
<1>z. \A z \in Ends : z = e \/ z = Other(e)
  BY EndsFacts
<1>b. /\ ~Has(wire'["b"], c, "request") /\ pc["a"][c]["control"] \notin {"idle", "request"}
      /\ p.op = "request" => e = "b" /\ Unborn(c)
      /\ p.op # "request" => ~Unborn(c)
  BY <1>0, <1>1, PacketBorn
<1>3. TaskOf(c)'
  BY <1>1 DEF TableOf, TaskOf
<1>4. Waiting(c) => Waiting(c)'
  BY <1>2, AppendWaiting DEF Handled, Admitted, Waiting
<1>5. SlotOf(c)'
  <2>1. ASSUME NEW z \in Ends, conn'[z][c].state = "none" PROVE conn'[z][c] = Free
    <3>1. CASE z = e
      BY <1>1, <1>2, <2>1, <3>1 DEF TableOf, SlotOf, Exists, Handled, Admitted
    <3>2. CASE z = Other(e)
      BY <1>1, <2>1, <3>2 DEF TableOf, SlotOf, Exists
    <3> QED BY <1>z, <3>1, <3>2
  <2>2. ASSUME NEW z \in Ends, conn'[z][c].state # "none", pc[z][c]["control"] \in {"idle", "reset", "gone"}
        PROVE  z = "b" /\ (c \in orphans \/ Waiting(c)')
    <3>1. CASE conn[z][c].state # "none"
      BY <1>4, <2>2, <3>1 DEF TableOf, SlotOf, Exists
    <3>2. CASE conn[z][c].state = "none"
      <4>1. z = e
        BY <1>1, <1>z, <2>2, <3>2
      <4>2. Admitted(e, c, p, k, r)
        BY <1>1, <1>2, <2>2, <3>2, <4>1 DEF Handled, Exists
      <4> QED BY <4>1, <4>2, AppendWaiting DEF Admitted
    <3> QED BY <3>1, <3>2
  <2> QED BY <1>1, <2>1, <2>2 DEF SlotOf, Exists
<1>6. BirthOf(c)'
  <2>1. ~Unborn(c)'
    BY <1>1, <1>b DEF Unborn
  <2>2. pc["a"][c]["control"] # "idle" => c \in DOMAIN plan.bytes
    BY DEF TableOf, BirthOf
  <2> QED BY <1>1, <1>b, <2>1, <2>2 DEF BirthOf
<1>h. Has(wire[e], c, p.op) /\ p.op \in Ops
  BY <1>0, <1>1, TailHas, PacketFields
<1>7. OrderOf(c)'
  <2>1. RequestFirst(wire'["b"], c) /\ ResponseOnce(wire'["a"], c)
    <3>1. RequestFirst(wire["b"], c) /\ ResponseOnce(wire["a"], c)
      BY DEF TableOf, OrderOf
    <3>2. CASE e = "a"
      BY <1>1, <3>1, <3>2, TailOrder, EndsFacts
    <3>3. CASE e = "b"
      BY <1>1, <3>1, <3>3, TailOrder, EndsFacts
    <3> QED BY <3>2, <3>3, EndsFacts
  <2>2. ASSUME NEW z \in Ends, NEW op \in Ops, Has(wire'[z], c, op) PROVE Has(wire[z], c, op)
    <3>1. CASE z = e
      BY <1>1, <2>2, <3>1, TailHas
    <3>2. CASE z = Other(e)
      BY <1>1, <2>2, <3>2
    <3> QED BY <1>z, <3>1, <3>2
  <2>3. ~Has(wire'["a"], c, "request") /\ ~Has(wire'["b"], c, "response")
    BY <2>2, EndsFacts DEF TableOf, OrderOf, Ops
  <2>4. CASE Admitted(e, c, p, k, r)
    <3>1. e = "b" /\ r.op = "response" /\ r # NoPacket /\ Unborn(c)
      BY <1>b, <2>4, NoPacketFacts DEF Admitted
    <3>2. ~Mentions(wire["a"], c) /\ conn["a"][c].state # "established" /\ ~Replying("a", c)
      BY <3>1, EndsFacts DEF TableOf, BirthOf
    <3>3. ~Has(wire'["a"], c, "response") /\ conn'["a"][c].state # "established"
      BY <1>1, <3>1, <3>2, HasMentions, EndsFacts
    <3>4. ~Replying("a", c)' /\ pump'["b"] = r
      BY <1>1, <3>1, <3>2, EndsFacts DEF Replying
    <3> QED BY <2>1, <2>3, <3>1, <3>3, <3>4, EndsFacts DEF OrderOf
  <2>5. CASE Handled(e, c, p, k, r)
    <3>1. \A z \in Ends : Replying(z, c)' => pump'[z].op \in {"reset", "response", "creditUpdate"}
      <4>1. Replying(e, c)' => pump'[e].op \in {"reset", "response", "creditUpdate"}
        BY <1>1, <2>5 DEF Handled, Replying
      <4>2. Replying(Other(e), c)' => pump'[Other(e)].op \in {"reset", "response", "creditUpdate"}
        BY <1>1, EndsFacts DEF TableOf, OrderOf, Replying
      <4> QED BY <1>z, <4>1, <4>2
    <3>2. \A z \in Ends : Replying(z, c)' /\ pump'[z].op = "response" => z = Other(e) /\ Replying(z, c) /\ pump[z].op = "response"
      <4>1. r # NoPacket => r.op # "response"
        BY <2>5 DEF Handled
      <4> QED BY <1>1, <1>z, <4>1 DEF Replying
    <3>3. conn'["a"][c].state = "established" =>
            \/ conn["a"][c].state = "established"
            \/ e = "a" /\ p.op = "response"
      BY <1>1, <1>z, <2>5, EndsFacts DEF Handled
    <3>4. e = "a" /\ p.op = "response" => ~Has(wire'["a"], c, "response") /\ ~(Replying("b", c) /\ pump["b"].op = "response")
      <4> SUFFICES ASSUME e = "a", p.op = "response"
                   PROVE  ~Has(wire'["a"], c, "response") /\ ~(Replying("b", c) /\ pump["b"].op = "response")
        OBVIOUS
      <4>1. ResponseOnce(wire["a"], c) /\ Has(wire["a"], c, "response")
        BY <1>h DEF TableOf, OrderOf
      <4>2. ~Has(wire'["a"], c, "response")
        BY <1>0, <1>1, <4>1, TailOrder
      <4> QED BY <4>1, <4>2 DEF TableOf, OrderOf
    <3>5. /\ Replying("a", c)' => pump'["a"].op # "response"
          /\ Replying("b", c)' /\ pump'["b"].op = "response" =>
               ~Has(wire'["a"], c, "response") /\ conn'["a"][c].state # "established"
      <4>1. ~(Replying("a", c) /\ pump["a"].op = "response")
        BY DEF TableOf, OrderOf
      <4>2. Replying("b", c) /\ pump["b"].op = "response" => ~Has(wire["a"], c, "response") /\ conn["a"][c].state # "established"
        BY DEF TableOf, OrderOf
      <4> QED BY <2>2, <3>2, <3>3, <3>4, <4>1, <4>2, EndsFacts DEF Ops
    <3>6. Has(wire'["a"], c, "response") => conn'["a"][c].state # "established"
      <4>1. Has(wire["a"], c, "response") => conn["a"][c].state # "established"
        BY DEF TableOf, OrderOf
      <4> QED BY <2>2, <3>3, <3>4, <4>1, EndsFacts DEF Ops
    <3> QED BY <2>1, <2>3, <3>1, <3>5, <3>6 DEF OrderOf
  <2> QED BY <1>2, <2>4, <2>5
<1> QED BY <1>3, <1>5, <1>6, <1>7 DEF TableOf

LEMMA TableReply ==
  ASSUME TypeOK, NEW e \in Ends, NEW c \in Conns, ReplyStep(e, c), TableOf(c)
  PROVE  TableOf(c)'
<1>0. ReplyEffect(e) /\ pump[e].c = c
  BY ReplyFacts DEF ReplyStep
<1>1. PICK p \in Packets : p = pump[e] /\ p.c = c /\ p # NoPacket
  BY <1>0, NoPacketFacts DEF ReplyEffect
<1>2. /\ pump'[e] = NoPacket /\ pump'[Other(e)] = pump[Other(e)] /\ wire'[e] = wire[e]
      /\ wire'[Other(e)] = Append(wire[Other(e)], p) \/ wire'[Other(e)] = wire[Other(e)]
      /\ UNCHANGED <<plan, conn, queued, pc, packet, done, drained, got, ended, orphans>>
  BY <1>0, <1>1 DEF ReplyEffect
<1>z. /\ \A z \in Ends : z = e \/ z = Other(e)
      /\ Other(e) \in Ends /\ wire[Other(e)] \in Seq(Packets)
  BY EndsFacts DEF TypeOK
<1>3. Replying(e, c) /\ ~Replying(e, c)' /\ (Replying(Other(e), c)' <=> Replying(Other(e), c))
  BY <1>1, <1>2 DEF Replying
<1>4. ~Unborn(c)
  BY <1>3 DEF TableOf, BirthOf
<1>5. p.op \in {"reset", "response", "creditUpdate"} /\ (e = "a" => p.op # "response")
  BY <1>1, <1>3 DEF TableOf, OrderOf
<1>6. TaskOf(c)' /\ SlotOf(c)'
  BY <1>2 DEF TableOf, TaskOf, SlotOf, Exists, Waiting
<1>7. ASSUME NEW op \in Ops
      PROVE  /\ Has(wire'[Other(e)], c, op) => Has(wire[Other(e)], c, op) \/ p.op = op
             /\ Has(wire'[e], c, op) => Has(wire[e], c, op)
  <2>1. CASE wire'[Other(e)] = Append(wire[Other(e)], p)
    <3>1. Has(Append(wire[Other(e)], p), c, op) => Has(wire[Other(e)], c, op) \/ p.op = op
      BY <1>1, <1>z, AppendHas
    <3> QED BY <1>2, <2>1, <3>1
  <2>2. CASE wire'[Other(e)] = wire[Other(e)]
    BY <1>2, <2>2
  <2> QED BY <1>2, <2>1, <2>2
<1>ops. {"request", "response", "data"} \subseteq Ops
  BY DEF Ops
<1>8. BirthOf(c)'
  <2>1. ~Has(wire'["b"], c, "request")
    BY <1>4, <1>5, <1>7, <1>ops, <1>z, EndsFacts DEF Unborn
  <2>2. ~Unborn(c)'
    BY <1>2, <1>4, <2>1 DEF Unborn
  <2>3. pc["a"][c]["control"] \notin {"idle", "request"} /\ c \in DOMAIN plan.bytes
    BY <1>4 DEF TableOf, BirthOf, Unborn
  <2> QED BY <1>2, <2>2, <2>3 DEF BirthOf
<1>9. OrderOf(c)'
  <2>1. ~Has(wire'["a"], c, "request") /\ ~Has(wire'["b"], c, "response")
    BY <1>5, <1>7, <1>ops, <1>z, EndsFacts DEF TableOf, OrderOf
  <2>2. RequestFirst(wire'["b"], c) /\ ResponseOnce(wire'["a"], c)
    <3>1. RequestFirst(wire["b"], c) /\ ResponseOnce(wire["a"], c)
      BY DEF TableOf, OrderOf
    <3>2. CASE e = "a"
      <4>1. RequestFirst(Append(wire["b"], p), c)
        BY <1>5, <1>z, <3>1, <3>2, AppendOrder, EndsFacts
      <4> QED BY <1>2, <3>1, <3>2, <4>1, EndsFacts
    <3>3. CASE e = "b"
      <4>1. p.op = "response" => ~Has(wire["a"], c, "response")
        BY <1>1, <1>3, <3>3 DEF TableOf, OrderOf
      <4>2. ResponseOnce(Append(wire["a"], p), c)
        BY <1>z, <3>1, <3>3, <4>1, AppendOrder, EndsFacts
      <4> QED BY <1>2, <3>1, <3>3, <4>2, EndsFacts
    <3> QED BY <3>2, <3>3, EndsFacts
  <2>3. \A z \in Ends : Replying(z, c)' => Replying(z, c) /\ pump'[z] = pump[z] /\ z = Other(e)
    BY <1>2, <1>3, <1>z
  <2>4. CASE e = "a"
    <3>1. wire'["a"] = wire["a"]
      BY <1>2, <2>4
    <3> QED BY <1>2, <2>1, <2>2, <2>3, <3>1, EndsFacts DEF TableOf, OrderOf
  <2>5. CASE e = "b"
    <3>1. Has(wire'["a"], c, "response") => conn["a"][c].state # "established"
      BY <1>1, <1>3, <1>7, <1>ops, <2>5, EndsFacts DEF TableOf, OrderOf
    <3>2. ~Replying("b", c)'
      BY <1>3, <2>5
    <3> QED BY <1>2, <2>1, <2>2, <2>3, <3>1, <3>2, EndsFacts DEF TableOf, OrderOf
  <2> QED BY <2>4, <2>5, EndsFacts
<1> QED BY <1>6, <1>8, <1>9 DEF TableOf

LEMMA TableConnects ==
  ASSUME TypeOK, NEW c \in Conns, Connects(c), TableOf(c)
  PROVE  TableOf(c)'
<1>1. PICK p \in Packets : p = Header("request", c, Free) /\ p.op = "request" /\ p.c = c
  BY DecisionKinds, EndsFacts DEF Header
<1>2. PICK k \in Connections : k = Opened("connecting") /\ k.state = "connecting"
  BY OpenedType DEF States, Opened
<1>3. Decision("a", c, "control", "idle", p, k) /\ drained' = drained /\ c \in DOMAIN plan.bytes
  BY <1>1, <1>2 DEF Connects
<1>4. DecisionEffect("a", c, "control", "idle", p, k)
  BY <1>1, <1>3, DecisionFacts, EndsFacts, TaskFacts DEF Carried
<1>5. /\ pc["a"][c]["control"] = "idle" /\ pc'["a"][c]["control"] = "request" /\ packet'["a"][c]["control"] = p
      /\ conn'["a"][c] = k /\ conn'["b"][c] = conn["b"][c]
      /\ \A z \in Ends, u \in Tasks : z # "a" \/ u # "control" => pc'[z][c][u] = pc[z][c][u] /\ packet'[z][c][u] = packet[z][c][u]
      /\ UNCHANGED <<plan, queued, wire, pump, done, drained, got, orphans>>
  BY <1>1, <1>3, <1>4, EndsFacts DEF DecisionEffect
<1>6. TaskOf(c)'
  <2>1. Fits("a", c, "control", "request", p)
    BY <1>1, TaskFacts DEF Fits, ControlPc, Carried
  <2> QED BY <1>5, <2>1, TaskFacts DEF TableOf, TaskOf, Fits
<1>7. Waiting(c)' <=> Waiting(c)
  BY <1>5 DEF Waiting
<1>8. SlotOf(c)'
  <2>1. pc'["b"][c]["control"] = pc["b"][c]["control"]
    BY <1>5, TaskFacts, EndsFacts
  <2>2. \A z \in Ends : z = "a" \/ z = "b"
    BY EndsFacts
  <2>3. conn["b"][c].state = "none" => conn["b"][c] = Free
    BY EndsFacts DEF TableOf, SlotOf, Exists
  <2>4. /\ "b" \in Ends /\ (c \in orphans' \/ Waiting(c)' <=> c \in orphans \/ Waiting(c))
    BY <1>5, <1>7, EndsFacts
  <2>5. SlotOf(c)
    BY DEF TableOf
  <2> QED BY <1>2, <1>5, <2>1, <2>2, <2>3, <2>4, <2>5 DEF SlotOf, Exists
<1>9. Unborn(c)
  BY <1>5 DEF Unborn
<1>10. \A z \in Ends : Replying(z, c)' <=> Replying(z, c)
  BY <1>5 DEF Replying
<1>11. BirthOf(c)'
  BY <1>2, <1>3, <1>5, <1>7, <1>9, <1>10, EndsFacts, TaskFacts DEF TableOf, BirthOf, Exists
<1>12. OrderOf(c)'
  BY <1>2, <1>5, <1>10, EndsFacts DEF TableOf, OrderOf
<1> QED BY <1>6, <1>8, <1>11, <1>12 DEF TableOf

LEMMA TableAccepts ==
  ASSUME TypeOK, NEW c \in Conns, Accepts(c), TableOf(c)
  PROVE  TableOf(c)'
<1>0. AcceptsEffect(c)
  BY AcceptsFacts
<1>1. /\ pc["b"][c]["control"] = "idle" /\ pc'["b"][c]["control"] = "open"
      /\ \A z \in Ends, u \in Tasks : z # "b" \/ u # "control" => pc'[z][c][u] = pc[z][c][u]
      /\ Waiting(c) /\ UNCHANGED <<plan, conn, wire, pump, packet, done, drained, got, orphans>>
  BY <1>0 DEF AcceptsEffect
<1>2. TaskOf(c)'
  <2>1. Fits("b", c, "control", "open", packet["b"][c]["control"])
    <3>1. packet["b"][c]["control"] = NoPacket
      <4>1. pc["b"][c]["control"] \notin Carried \cup {"sent"}
        BY <1>1 DEF Carried
      <4> QED BY <4>1, EndsFacts, TaskFacts DEF TableOf, TaskOf
    <3> QED BY <3>1, TaskFacts DEF Fits, ControlPc, AcceptedPc, Carried
  <2> QED BY <1>1, <2>1, TaskFacts DEF TableOf, TaskOf, Fits
<1>3. SlotOf(c)'
  <2>1. pc'["a"][c]["control"] = pc["a"][c]["control"]
    BY <1>1, EndsFacts, TaskFacts
  <2>2. \A z \in Ends : z = "a" \/ z = "b"
    BY EndsFacts
  <2>3. \A z \in Ends : conn[z][c].state = "none" => conn[z][c] = Free
    BY DEF TableOf, SlotOf, Exists
  <2>4. ~(conn["a"][c].state # "none" /\ pc["a"][c]["control"] \in {"idle", "reset", "gone"})
    BY EndsFacts DEF TableOf, SlotOf, Exists
  <2> QED BY <1>1, <2>1, <2>2, <2>3, <2>4 DEF SlotOf, Exists
<1>4. ~Unborn(c) /\ (Unborn(c)' <=> Unborn(c))
  BY <1>1, EndsFacts, TaskFacts DEF TableOf, BirthOf, Unborn
<1>5. BirthOf(c)'
  BY <1>1, <1>4, EndsFacts, TaskFacts DEF TableOf, BirthOf
<1>6. OrderOf(c)'
  <2>1. \A z \in Ends : Replying(z, c)' <=> Replying(z, c)
    BY <1>1 DEF Replying
  <2> QED BY <1>1, <2>1, EndsFacts DEF TableOf, OrderOf
<1> QED BY <1>2, <1>3, <1>5, <1>6 DEF TableOf

LEMMA DroppedQueue ==
  ASSUME TypeOK, NEW c \in Conns, Waiting(c)
  PROVE  c \in {queued[i] : i \in DOMAIN queued}
<1>1. DOMAIN queued = 1 .. Len(queued)
  BY DEF TypeOK
<1> QED BY <1>1 DEF Waiting

LEMMA TableTransport ==
  ASSUME TypeOK, NEW e \in Ends, NEW c \in Conns, TransportReset(e), TableOf(c)
  PROVE  TableOf(c)'
<1>0. TransportEffect(e)
  BY TransportFacts
<1>1. /\ conn'[e][c] = IF Exists(e, c) THEN [conn[e][c] EXCEPT !.state = "reset"] ELSE Free
      /\ conn'[Other(e)][c] = conn[Other(e)][c] /\ pump' = pump
      /\ UNCHANGED <<plan, wire, pc, packet, done, drained, got>>
  BY <1>0, EndsFacts DEF TransportEffect
<1>2. c \in orphans \/ Waiting(c) => c \in orphans' \/ Waiting(c)'
  <2>1. CASE e = "b"
    <3>1. orphans' = orphans \cup {queued[i] : i \in DOMAIN queued}
      BY <1>0, <2>1 DEF TransportEffect
    <3> QED BY <3>1, DroppedQueue
  <2>2. CASE e # "b"
    BY <1>0, <2>2 DEF TransportEffect, Waiting
  <2> QED BY <2>1, <2>2
<1>3. Waiting(c)' => Waiting(c)
  <2>1. CASE queued' = <<>>
    BY <2>1 DEF Waiting
  <2>2. CASE queued' = queued
    BY <2>2 DEF Waiting
  <2> QED BY <1>0, <2>1, <2>2 DEF TransportEffect
<1>4. /\ Exists(e, c) => conn'[e][c].state = "reset"
      /\ ~Exists(e, c) => conn'[e][c] = Free
  <2>1. conn[e][c] \in Connections
    BY DEF TypeOK
  <2>2. [conn[e][c] EXCEPT !.state = "reset"].state = "reset"
    BY <2>1, SameState
  <2> QED BY <1>1, <2>2
<1>f. Free.state = "none"
  BY FreeType
<1>z. \A z \in Ends : z = e \/ z = Other(e)
  BY EndsFacts
<1>5. TaskOf(c)'
  BY <1>1 DEF TableOf, TaskOf
<1>6. SlotOf(c)'
  <2>1. ASSUME NEW z \in Ends, conn'[z][c].state = "none" PROVE conn'[z][c] = Free
    <3>1. CASE z = e
      BY <1>4, <2>1, <3>1
    <3>2. CASE z = Other(e)
      BY <1>1, <2>1, <3>2 DEF TableOf, SlotOf, Exists
    <3> QED BY <1>z, <3>1, <3>2
  <2>2. \A z \in Ends : conn'[z][c].state # "none" => Exists(z, c)
    BY <1>1, <1>4, <1>f, <1>z DEF Exists
  <2> QED BY <1>1, <1>2, <2>1, <2>2 DEF TableOf, SlotOf, Exists
<1>7. \A z \in Ends : Replying(z, c)' <=> Replying(z, c)
  BY <1>1 DEF Replying
<1>8. conn'["a"][c].state = "established" => conn["a"][c].state = "established"
  BY <1>1, <1>4, <1>f, <1>z, EndsFacts
<1>9. ~Exists("b", c) => conn'["b"][c].state = "none"
  BY <1>1, <1>4, <1>f, <1>z, EndsFacts DEF Exists
<1>10. Unborn(c)' <=> Unborn(c)
  BY <1>1 DEF Unborn
<1>11. BirthOf(c)'
  BY <1>1, <1>3, <1>7, <1>8, <1>9, <1>10 DEF TableOf, BirthOf, Exists
<1>12. OrderOf(c)'
  BY <1>1, <1>7, <1>8, EndsFacts DEF TableOf, OrderOf
<1> QED BY <1>5, <1>6, <1>11, <1>12 DEF TableOf

LEMMA TableListener ==
  ASSUME TypeOK, NEW c \in Conns, CloseListener, TableOf(c)
  PROVE  TableOf(c)'
<1>1. /\ UNCHANGED <<plan, conn, wire, pump, pc, packet, done, drained, got>>
      /\ queued' = <<>> /\ orphans' = orphans \cup {queued[i] : i \in DOMAIN queued}
  BY DEF CloseListener, taskVars, resultVars
<1>2. ~Waiting(c)' /\ (c \in orphans \/ Waiting(c) => c \in orphans')
  BY <1>1, DroppedQueue DEF Waiting
<1>3. \A z \in Ends : Replying(z, c)' <=> Replying(z, c)
  BY <1>1 DEF Replying
<1>4. Unborn(c)' <=> Unborn(c)
  BY <1>1 DEF Unborn
<1>5. TaskOf(c)' /\ SlotOf(c)'
  BY <1>1, <1>2 DEF TableOf, TaskOf, SlotOf, Exists
<1>6. BirthOf(c)' /\ OrderOf(c)'
  BY <1>1, <1>2, <1>3, <1>4, EndsFacts DEF TableOf, BirthOf, OrderOf, Exists
<1> QED BY <1>5, <1>6 DEF TableOf

LEMMA TableStart ==
  ASSUME Init
  PROVE  TableInv
<1>1. TypeOK
  <2>1. /\ NoPacket \in Packets \cup {NoPacket} /\ Free \in Connections
        /\ "idle" \in WriterPc \cup ReaderPc \cup ControlPc
        /\ <<>> \in Seq(Nat) /\ <<>> \in Seq(Packets) /\ <<>> \in Seq(Conns) /\ 0 \in Nat /\ FALSE \in BOOLEAN
    BY FreeType DEF WriterPc
  <2>2. conn \in [Ends -> [Conns -> Connections]] /\ wire \in [Ends -> Seq(Packets)] /\ pump \in [Ends -> Packets \cup {NoPacket}]
    BY <2>1 DEF Init
  <2>3. pc \in [Ends -> [Conns -> [Tasks -> WriterPc \cup ReaderPc \cup ControlPc]]]
    BY <2>1 DEF Init
  <2>4. packet \in [Ends -> [Conns -> [Tasks -> Packets \cup {NoPacket}]]]
    BY <2>1 DEF Init
  <2>5. /\ done \in [Ends -> [Conns -> Nat]] /\ drained \in [Ends -> [Conns -> Seq(Nat)]]
        /\ got \in [Ends -> [Conns -> Seq(Nat)]]
    BY <2>1 DEF Init
  <2>6. ended \in [Ends -> [Conns -> BOOLEAN]]
    BY DEF Init
  <2>7. plan \in Plans /\ queued \in Seq(Conns) /\ faults \in Nat
    BY <2>1 DEF Init
  <2> QED BY <2>2, <2>3, <2>4, <2>5, <2>6, <2>7 DEF TypeOK
<1>2. ASSUME NEW c \in Conns PROVE TableOf(c)
  <2>1. /\ \A e \in Ends : conn[e][c] = Free /\ wire[e] = <<>> /\ pump[e] = NoPacket
        /\ \A e \in Ends, t \in Tasks : pc[e][c][t] = "idle" /\ packet[e][c][t] = NoPacket
        /\ \A e \in Ends : done[e][c] = 0 /\ drained[e][c] = <<>> /\ got[e][c] = <<>>
        /\ queued = <<>>
    BY DEF Init
  <2>2. TaskOf(c)
    BY <2>1, TaskFacts DEF TaskOf, WriterPc, ReaderPc, ControlPc, AcceptedPc, Carried
  <2>3. SlotOf(c)
    BY <2>1, FreeType DEF SlotOf, Exists
  <2>4. ~Waiting(c) /\ \A e \in Ends : ~Replying(e, c) /\ ~Mentions(wire[e], c) /\ \A op \in Ops : ~Has(wire[e], c, op)
    <3>1. ~Waiting(c)
      BY <2>1 DEF Waiting
    <3>2. \A op \in Ops : ~Has(<<>>, c, op)
      BY EmptyHas
    <3>3. ~Mentions(<<>>, c)
      BY EmptyHas
    <3>4. \A e \in Ends : ~Replying(e, c)
      BY <2>1 DEF Replying
    <3> QED BY <2>1, <3>1, <3>2, <3>3, <3>4
  <2>5. BirthOf(c)
    BY <2>1, <2>4, FreeType, EndsFacts, TaskFacts DEF BirthOf, Exists, Ops
  <2>6. RequestFirst(<<>>, c) /\ ResponseOnce(<<>>, c)
    BY DEF RequestFirst, ResponseOnce
  <2>7. OrderOf(c)
    BY <2>1, <2>4, <2>6, EndsFacts DEF OrderOf, Ops
  <2> QED BY <2>2, <2>3, <2>5, <2>7 DEF TableOf
<1> QED BY <1>1, <1>2 DEF TableInv

LEMMA TableConnStep ==
  ASSUME TypeOK, TaskInv, NEW c \in Conns, TableOf(c), ConnStep(c)
  PROVE  TableOf(c)'
<1>1. ASSUME NEW e \in Ends, TaskStep(e, c) PROVE TableOf(c)'
  <2>1. TaskKeeps(e, c)
    BY <1>1, TaskFrame
  <2>2. PICK t \in Tasks : \E x, y, q, k : Advances(e, c, t, x, y, q, k)
    BY <1>1, TaskAdvances
  <2>3. PICK x, y, q, k : Advances(e, c, t, x, y, q, k)
    BY <2>2
  <2> QED BY <2>1, <2>3, TableAdvances
<1> QED BY <1>1, TableAccepts, TableConnects, TableReply, TablePacket DEF ConnStep

LEMMA TableNext ==
  ASSUME TableInv, [Next]_vars
  PROVE  TableInv'
<1>1. TypeOK /\ TaskInv /\ BirthInv /\ \A c \in Conns : TableOf(c)
  BY DEF TableInv, TaskInv, BirthInv, TableOf
<1>2. Step
  BY <1>1, NextIsStep
<1>3. TypeOK'
  BY <1>1, <1>2, TypeRest
<1>4. ASSUME NEW c \in Conns PROVE TableOf(c)'
  <2>1. CASE CloseListener
    BY <1>1, <2>1, TableListener
  <2>2. ASSUME NEW e \in Ends, TransportReset(e) PROVE TableOf(c)'
    BY <1>1, <2>2, TableTransport
  <2>3. CASE Untouched(c)
    BY <1>1, <2>3, TableUntouched
  <2>4. CASE ConnStep(c)
    BY <1>1, <2>4, TableConnStep
  <2> QED BY <1>1, <1>2, <2>1, <2>2, <2>3, <2>4, Focus
<1> QED BY <1>3, <1>4 DEF TableInv

\* The table, the wire and the tasks only ever hold what their types allow: no
\* handler makes a connection, a packet or a queue of another shape.
THEOREM VsockTypeCorrect == Spec => []TypeOK
<1>1. Init => TableInv
  BY TableStart
<1>2. TableInv /\ [Next]_vars => TableInv'
  BY TableNext
<1>3. TableInv => TypeOK
  BY DEF TableInv
<1> QED BY <1>1, <1>2, <1>3, PTL DEF Spec

\* Every slot of the table has an owner that will give it back (close and
\* connect_progress of table.rs free it), or waits to be accepted, or was left
\* behind by a closed listener or a reset transport.
THEOREM TableSlotsAreOwned == Spec => []SlotsOwned
<1>1. Init => TableInv
  BY TableStart
<1>2. TableInv /\ [Next]_vars => TableInv'
  BY TableNext
<1>3. TableInv => SlotsOwned
  <2> SUFFICES ASSUME TableInv, NEW e \in Ends, NEW c \in Conns, Exists(e, c),
                      pc[e][c]["control"] \in {"idle", "gone"}
               PROVE  e = "b" /\ (c \in orphans \/ \E i \in DOMAIN queued : queued[i] = c)
    BY DEF SlotsOwned
  <2>1. e = "b" /\ (c \in orphans \/ Waiting(c))
    BY DEF TableInv, TableOf, SlotOf
  <2>2. DOMAIN queued = 1 .. Len(queued)
    BY DEF TableInv, TypeOK
  <2> QED BY <2>1, <2>2 DEF Waiting
<1> QED BY <1>1, <1>2, <1>3, PTL DEF Spec

-----------------------------------------------------------------------------
(* The other end                                                           *)

\* A reset of connection c is on its way to end e: Notice, by its tasks.
Coming(e, c) ==
  \/ Has(wire[e], c, "reset")
  \/ Replying(Other(e), c) /\ pump[Other(e)].op = "reset"
  \/ pc[Other(e)][c]["control"] = "reset"

Asking(c) == pc["a"][c]["control"] = "request" \/ Has(wire["b"], c, "request")
Answering(c) == Has(wire["a"], c, "response") \/ (Replying("b", c) /\ pump["b"].op = "response")

\* Whoever has a reset on its way has given the connection up.  While nothing
\* was lost, each end the handshake tells of the connection still has its peer,
\* or has a reset coming.
PeerOf(c) ==
  /\ \A e \in Ends : Coming(Other(e), c) => conn[e][c].state \notin Live
  /\ faults = 0 =>
       /\ \A e \in Ends : conn[e][c].state = "established" => conn[Other(e)][c].state \in Live \/ Coming(e, c)
       /\ Asking(c) => conn["a"][c].state \in Live \/ Coming("b", c)
       /\ conn["a"][c].state = "connecting" /\ Answering(c) => conn["b"][c].state \in Live \/ Coming("a", c)
PeerInv == TableInv /\ \A c \in Conns : PeerOf(c)

\* A task that lets go of a live connection has its reset to transmit, and
\* transmits it, unless the device fails.
Parts(e, c) ==
  faults' = 0 =>
    /\ conn[e][c].state \in Live => conn'[e][c].state = conn[e][c].state \/ pc'[e][c]["control"] = "reset"
    /\ pc[e][c]["control"] = "reset" =>
         \/ pc'[e][c]["control"] = "reset"
         \/ /\ packet[e][c]["control"] \in Packets
            /\ packet[e][c]["control"].op = "reset" /\ packet[e][c]["control"].c = c
            /\ wire'[Other(e)] = Append(wire[Other(e)], packet[e][c]["control"])

LEMMA TaskParts ==
  ASSUME TypeOK, TaskInv, NEW e \in Ends, NEW c \in Conns, TaskStep(e, c)
  PROVE  Parts(e, c)
<1>k. conn[e][c] \in Connections
  BY DEF TypeOK
<1>s. /\ [Announced(conn[e][c]) EXCEPT !.transmitting = TRUE].state = conn[e][c].state
      /\ [Announced(conn[e][c]) EXCEPT !.asked = TRUE].state = conn[e][c].state
      /\ \A d : [Announced(conn[e][c]) EXCEPT !.local = d].state = conn[e][c].state
      /\ \A n : Reading(conn[e][c], n).state = conn[e][c].state /\ Announced(Reading(conn[e][c], n)).state = conn[e][c].state
      /\ \A n : [conn[e][c] EXCEPT !.transmitting = FALSE, !.tx = n].state = conn[e][c].state
  BY <1>k, SameState
<1>d. ASSUME NEW t \in Tasks, NEW x, NEW p \in Packets, NEW k \in Connections, Decision(e, c, t, x, p, k),
             p.op \in Carried, x # "reset", k.state = conn[e][c].state \/ (p.op = "reset" /\ t = "control")
      PROVE  Parts(e, c)
  <2>1. DecisionEffect(e, c, t, x, p, k)
    BY <1>d, DecisionFacts
  <2>2. /\ pc[e][c][t] = x /\ pc'[e][c][t] = p.op /\ conn'[e][c] = k
        /\ "control" # t => pc'[e][c]["control"] = pc[e][c]["control"]
    BY <2>1, TaskFacts DEF DecisionEffect
  <2> QED BY <1>d, <2>2 DEF Parts
<1>1. ASSUME NEW t \in Tasks, NEW x, NEW y, Moves(e, c, t, x, y) PROVE Parts(e, c)
  <2>1. MovesEffect(e, c, t, x, y) /\ (t = "control" => x # "reset")
    BY <1>1, MovesFacts DEF Moves
  <2>2. conn'[e][c] = conn[e][c] /\ (pc[e][c]["control"] = "reset" => pc'[e][c]["control"] = "reset")
    BY <2>1, TaskFacts DEF MovesEffect
  <2> QED BY <2>2 DEF Parts
<1>2. ASSUME NEW w \in Writers, NEW n, Writes(e, c, w, n) PROVE Parts(e, c)
  <2>1. PICK p : p = DataPacket(e, c, n)
    OBVIOUS
  <2>2. PICK k : k = [Announced(conn[e][c]) EXCEPT !.transmitting = TRUE]
    OBVIOUS
  <2>3. p \in Packets /\ k \in Connections /\ p.op = "data"
    BY <1>2, <2>1, <2>2, DecisionKinds DEF DataPacket, Header
  <2>4. Decision(e, c, w, "armed", p, k)
    BY <1>2, <2>1, <2>2 DEF Writes
  <2>5. k.state = conn[e][c].state
    BY <1>s, <2>2
  <2>6. p.op \in Carried /\ w \in Tasks
    BY <2>3, TaskFacts DEF Carried
  <2> QED BY <1>d, <2>3, <2>4, <2>5, <2>6
<1>3. ASSUME NEW w \in Writers, Asks(e, c, w) PROVE Parts(e, c)
  <2>1. PICK p : p = Header("creditRequest", c, conn[e][c])
    OBVIOUS
  <2>2. PICK k : k = [Announced(conn[e][c]) EXCEPT !.asked = TRUE]
    OBVIOUS
  <2>3. p \in Packets /\ k \in Connections /\ p.op = "creditRequest"
    BY <1>3, <2>1, <2>2, DecisionKinds DEF Header
  <2>4. Decision(e, c, w, "blocked", p, k)
    BY <1>3, <2>1, <2>2 DEF Asks
  <2>5. k.state = conn[e][c].state
    BY <1>s, <2>2
  <2>6. p.op \in Carried /\ w \in Tasks
    BY <2>3, TaskFacts DEF Carried
  <2> QED BY <1>d, <2>3, <2>4, <2>5, <2>6
<1>4. ASSUME NEW n, Updates(e, c, n) PROVE Parts(e, c)
  <2>1. PICK p : p = Header("creditUpdate", c, Reading(conn[e][c], n))
    OBVIOUS
  <2>2. PICK k : k = Announced(Reading(conn[e][c], n))
    OBVIOUS
  <2>3. p \in Packets /\ k \in Connections /\ p.op = "creditUpdate"
    BY <1>4, <2>1, <2>2, DecisionKinds DEF Header
  <2>4. Decision(e, c, "reader", "armed", p, k)
    BY <1>4, <2>1, <2>2 DEF Updates
  <2>5. k.state = conn[e][c].state
    BY <1>s, <2>2
  <2>6. p.op \in Carried /\ "reader" \in Tasks
    BY <2>3, TaskFacts DEF Carried
  <2> QED BY <1>d, <2>3, <2>4, <2>5, <2>6
<1>5. ASSUME NEW n, Hands(e, c, n) PROVE Parts(e, c)
  <2>1. HandsEffect(e, c, n)
    BY <1>5, HandsFacts
  <2>2. conn'[e][c] = Reading(conn[e][c], n) /\ pc'[e][c]["control"] = pc[e][c]["control"]
    BY <2>1, TaskFacts DEF HandsEffect
  <2> QED BY <1>s, <2>2 DEF Parts
<1>6. ASSUME NEW x, Abandons(e, c, x) PROVE Parts(e, c)
  <2>1. PICK p : p = Header("reset", c, conn[e][c])
    OBVIOUS
  <2>3. p \in Packets /\ Free \in Connections /\ p.op = "reset"
    BY <2>1, DecisionKinds DEF Header
  <2>4. Decision(e, c, "control", x, p, Free) /\ x # "reset"
    BY <1>6, <2>1 DEF Abandons
  <2> QED BY <1>d, <2>3, <2>4, TaskFacts DEF Carried
<1>7. ASSUME NEW x, Frees(e, c, x) PROVE Parts(e, c)
  <2>1. FreesEffect(e, c, x) /\ x # "reset" /\ conn[e][c].state \notin Live
    BY <1>7, FreesFacts DEF Frees
  <2> QED BY <2>1 DEF Parts, FreesEffect
<1>8. ASSUME NEW dirs, Shuts(e, c, dirs) PROVE Parts(e, c)
  <2>1. PICK p : p = ShutPacket(e, c, dirs)
    OBVIOUS
  <2>2. PICK k : k = [Announced(conn[e][c]) EXCEPT !.local = conn[e][c].local \cup dirs]
    OBVIOUS
  <2>3. p \in Packets /\ k \in Connections /\ p.op = "shutdown"
    BY <1>8, <2>1, <2>2, ShutFacts DEF Shuts
  <2>4. Decision(e, c, "control", "open", p, k)
    BY <1>8, <2>1, <2>2 DEF Shuts
  <2>5. k.state = conn[e][c].state
    BY <1>s, <2>2
  <2>6. p.op \in Carried /\ "control" \in Tasks
    BY <2>3, TaskFacts DEF Carried
  <2> QED BY <1>d, <2>3, <2>4, <2>5, <2>6
<1>9. ASSUME NEW t \in Tasks, Transmit(e, c, t) PROVE Parts(e, c)
  <2>1. TransmitEffect(e, c, t) /\ CarriesItsOwn(e, c, t)
    BY <1>9, TransmitFacts, TransmitsPacket DEF Transmit
  <2>2. /\ conn' = conn /\ wire'[Other(e)] = Append(wire[Other(e)], packet[e][c][t])
        /\ "control" # t => pc'[e][c]["control"] = pc[e][c]["control"]
    BY <2>1, TaskFacts DEF TransmitEffect
  <2>3. packet[e][c][t] \in Packets /\ packet[e][c][t].c = c /\ packet[e][c][t].op = pc[e][c][t]
    BY <2>1 DEF CarriesItsOwn
  <2> QED BY <2>2, <2>3 DEF Parts
<1>10. ASSUME NEW t \in Tasks, TransmitFails(e, c, t) PROVE Parts(e, c)
  <2>1. FailureEffect(e, c, t) /\ faults \in Nat
    BY <1>10, TransmitFailsFacts DEF TypeOK
  <2>2. faults' = faults + 1
    BY <2>1 DEF FailureEffect
  <2> QED BY <2>1, <2>2 DEF Parts
<1>11. ASSUME NEW w \in Writers, FinishWrite(e, c, w) PROVE Parts(e, c)
  <2>1. FinishEffect(e, c, w)
    BY <1>11, FinishFacts
  <2>2. pc'[e][c]["control"] = pc[e][c]["control"]
    BY <2>1, TaskFacts DEF FinishEffect
  <2>3. \/ conn'[e][c] = conn[e][c]
        \/ \E m : conn'[e][c] = [conn[e][c] EXCEPT !.transmitting = FALSE, !.tx = m]
    BY <2>1 DEF FinishEffect
  <2> QED BY <1>s, <2>2, <2>3 DEF Parts
<1> QED BY <1>1, <1>2, <1>3, <1>4, <1>5, <1>6, <1>7, <1>8, <1>9, <1>10, <1>11 DEF TaskStep

LEMMA PeerUntouched ==
  ASSUME NEW c \in Conns, PeerOf(c), Untouched(c)
  PROVE  PeerOf(c)'
<1>1. /\ faults' = 0 => faults = 0
      /\ \A e \in Ends :
           /\ conn'[e][c] = conn[e][c]
           /\ pc'[e][c]["control"] = pc[e][c]["control"]
           /\ Replying(e, c) => pump'[e] = pump[e]
           /\ Replying(e, c)' => Replying(e, c)
           /\ Replying(e, c) => Replying(e, c)'
  BY TaskFacts DEF Untouched, PlaceKept, SideKept, PumpKept, Replying
<1>2. \A e \in Ends : \A op \in {"request", "response", "reset"} : Has(wire'[e], c, op) <=> Has(wire[e], c, op)
  BY DEF Untouched, LineKept, Ops
<1>3. \A e \in Ends : Coming(e, c)' <=> Coming(e, c)
  BY <1>1, <1>2, EndsFacts DEF Coming
<1>4. (Asking(c)' <=> Asking(c)) /\ (Answering(c)' <=> Answering(c))
  BY <1>1, <1>2, EndsFacts DEF Asking, Answering
<1> QED BY <1>1, <1>3, <1>4, EndsFacts DEF PeerOf

LEMMA PeerTask ==
  ASSUME TypeOK, TaskInv, NEW e \in Ends, NEW c \in Conns, TaskStep(e, c), TableOf(c), PeerOf(c)
  PROVE  PeerOf(c)'
<1>0. TaskKeeps(e, c) /\ Parts(e, c)
  BY TaskFrame, TaskParts
<1>a. PICK t \in Tasks : \E x, y, q, k : Advances(e, c, t, x, y, q, k)
  BY TaskAdvances
<1>1. PICK x, y, q, k : Advances(e, c, t, x, y, q, k)
  BY <1>a
<1>2. PICK o \in Ends : o = Other(e) /\ e = Other(o) /\ o # e /\ (\A z \in Ends : z = e \/ z = o)
  BY EndsFacts
<1>3. /\ pump' = pump /\ wire'[e] = wire[e] /\ conn'[o][c] = conn[o][c] /\ (faults' = 0 => faults = 0)
      /\ pc'[o][c]["control"] = pc[o][c]["control"]
  <2>1. SideKept(o, c)
    BY <1>0, <1>2 DEF TaskKeeps
  <2> QED BY <1>0, <2>1, TaskFacts DEF TaskKeeps, SideKept
<1>4. /\ pc[e][c][t] = x /\ pc'[e][c][t] = y /\ conn'[e][c] = k
      /\ t # "control" => pc'[e][c]["control"] = pc[e][c]["control"]
      /\ k = Free \/ k = conn[e][c] \/ (k.state = conn[e][c].state /\ Exists(e, c))
      /\ t = "control" => y # "request" /\ (y = "reset" => k = Free \/ (x = "reset" /\ k = conn[e][c]))
  BY <1>1, TaskFacts DEF Advances
<1>5. \/ wire'[o] = wire[o]
      \/ /\ packet[e][c][t] \in Packets /\ packet[e][c][t].c = c /\ packet[e][c][t].op = x /\ x \in Carried
         /\ x = "request" => e = "a" /\ t = "control"
         /\ wire'[o] = Append(wire[o], packet[e][c][t])
  BY <1>1, <1>2 DEF Advances
<1>6. x = "reset" => t = "control"
  <2>1. t \in Writers => x \in WriterPc
    BY <1>4 DEF TableOf, TaskOf
  <2>2. t = "reader" => x \in ReaderPc
    BY <1>4 DEF TableOf, TaskOf
  <2> QED BY <2>1, <2>2, TaskFacts DEF WriterPc, ReaderPc
<1>7. ASSUME NEW op \in Ops, Has(wire'[o], c, op) PROVE Has(wire[o], c, op) \/ (x = op /\ op \in Carried /\ (op = "request" => e = "a" /\ t = "control"))
  <2>1. CASE wire'[o] = wire[o]
    BY <1>7, <2>1
  <2>2. CASE wire'[o] # wire[o]
    <3>1. PICK p \in Packets : p.c = c /\ p.op = x /\ x \in Carried /\ (x = "request" => e = "a" /\ t = "control") /\ wire'[o] = Append(wire[o], p)
      BY <1>5, <2>2
    <3>2. wire[o] \in Seq(Packets)
      BY DEF TypeOK
    <3>3. Has(Append(wire[o], p), c, op) => Has(wire[o], c, op) \/ p.op = op
      BY <3>2, AppendHas
    <3> QED BY <1>7, <3>1, <3>3
  <2> QED BY <2>1, <2>2
<1>8. ASSUME NEW op \in Ops, Has(wire[o], c, op) PROVE Has(wire'[o], c, op)
  <2>1. CASE wire'[o] = wire[o]
    BY <1>8, <2>1
  <2>2. CASE wire'[o] # wire[o]
    <3>1. PICK p \in Packets : wire'[o] = Append(wire[o], p)
      BY <1>5, <2>2
    <3>2. wire[o] \in Seq(Packets)
      BY DEF TypeOK
    <3>3. Has(Append(wire[o], p), c, op)
      BY <1>8, <3>2, AppendHas
    <3> QED BY <3>1, <3>3
  <2> QED BY <2>1, <2>2
<1>ops. {"request", "response", "reset"} \subseteq Ops /\ "response" \notin Carried
  BY DEF Ops, Carried
<1>f. Free.state = "none" /\ "none" \notin Live
  BY FreeType DEF Live
<1>9. Coming(e, c)' <=> Coming(e, c)
  BY <1>2, <1>3 DEF Coming, Replying
<1>10. Coming(o, c)' => Coming(o, c) \/ conn'[e][c] = Free
  <2>1. Has(wire'[o], c, "reset") => Has(wire[o], c, "reset") \/ pc[e][c]["control"] = "reset"
    BY <1>4, <1>6, <1>7, <1>ops
  <2>2. pc'[e][c]["control"] = "reset" => pc[e][c]["control"] = "reset" \/ k = Free
    BY <1>4
  <2> QED BY <1>2, <1>3, <1>4, <2>1, <2>2 DEF Coming, Replying
<1>11. faults' = 0 /\ Coming(o, c) => Coming(o, c)'
  <2>1. CASE Has(wire[o], c, "reset")
    BY <1>8, <1>ops, <2>1 DEF Coming
  <2>2. CASE Replying(e, c) /\ pump[e].op = "reset"
    BY <1>2, <1>3, <2>2 DEF Coming, Replying
  <2>3. CASE pc[e][c]["control"] = "reset"
    <3>1. CASE pc'[e][c]["control"] = "reset"
      BY <1>2, <3>1 DEF Coming
    <3>2. CASE faults' = 0 /\ pc'[e][c]["control"] # "reset"
      <4>1. PICK p \in Packets : p.op = "reset" /\ p.c = c /\ wire'[o] = Append(wire[o], p)
        BY <1>0, <1>2, <2>3, <3>2 DEF Parts
      <4>2. wire[o] \in Seq(Packets)
        BY DEF TypeOK
      <4>3. Has(Append(wire[o], p), c, "reset")
        BY <1>ops, <4>1, <4>2, AppendHas
      <4> QED BY <4>1, <4>3 DEF Coming
    <3> QED BY <3>1, <3>2
  <2> QED BY <1>2, <2>1, <2>2, <2>3 DEF Coming
<1>12. /\ conn'[e][c].state \in Live => conn[e][c].state = conn'[e][c].state
       /\ faults' = 0 /\ conn[e][c].state \in Live => conn'[e][c].state \in Live \/ Coming(o, c)'
  BY <1>0, <1>2, <1>4, <1>f DEF Parts, Coming
<1>13. Asking(c)' => Asking(c)
  <2>1. CASE e = "a"
    <3>1. Has(wire'["b"], c, "request") => Has(wire["b"], c, "request") \/ pc["a"][c]["control"] = "request"
      BY <1>2, <1>4, <1>7, <1>ops, <2>1, EndsFacts
    <3>2. pc'["a"][c]["control"] = "request" => pc["a"][c]["control"] = "request"
      BY <1>4, <2>1
    <3> QED BY <3>1, <3>2 DEF Asking
  <2>2. CASE e = "b"
    BY <1>2, <1>3, <2>2, EndsFacts DEF Asking
  <2> QED BY <2>1, <2>2, EndsFacts
<1>14. Answering(c)' => Answering(c)
  <2>1. CASE e = "a"
    BY <1>3, <2>1 DEF Answering, Replying
  <2>2. CASE e = "b"
    BY <1>2, <1>3, <1>7, <1>ops, <2>2, EndsFacts DEF Answering, Replying
  <2> QED BY <2>1, <2>2, EndsFacts
<1>15. ASSUME NEW z \in Ends, Coming(Other(z), c)' PROVE conn'[z][c].state \notin Live
  <2>0. PeerOf(c)
    OBVIOUS
  <2>1. CASE z = e
    <3>1. Coming(o, c) \/ conn'[e][c] = Free
      BY <1>2, <1>10, <1>15, <2>1
    <3>2. Coming(o, c) => conn[e][c].state \notin Live
      BY <1>2 DEF PeerOf
    <3> QED BY <1>12, <1>f, <2>1, <3>1, <3>2
  <2>2. CASE z = o
    <3>1. Coming(e, c)
      BY <1>2, <1>9, <1>15, <2>2
    <3>2. conn[o][c].state \notin Live
      BY <1>2, <3>1 DEF PeerOf
    <3> QED BY <1>3, <2>2, <3>2
  <2> QED BY <1>2, <2>1, <2>2
<1>16. ASSUME faults' = 0
       PROVE  /\ \A z \in Ends : conn'[z][c].state = "established" => conn'[Other(z)][c].state \in Live \/ Coming(z, c)'
              /\ Asking(c)' => conn'["a"][c].state \in Live \/ Coming("b", c)'
              /\ conn'["a"][c].state = "connecting" /\ Answering(c)' => conn'["b"][c].state \in Live \/ Coming("a", c)'
  <2>0. /\ \A z \in Ends : conn[z][c].state = "established" => conn[Other(z)][c].state \in Live \/ Coming(z, c)
        /\ Asking(c) => conn["a"][c].state \in Live \/ Coming("b", c)
        /\ conn["a"][c].state = "connecting" /\ Answering(c) => conn["b"][c].state \in Live \/ Coming("a", c)
    BY <1>3, <1>16 DEF PeerOf
  <2>l. "established" \in Live /\ "connecting" \in Live
    BY DEF Live
  <2>1. \A z \in Ends : /\ conn[z][c].state \in Live => conn'[z][c].state \in Live \/ Coming(Other(z), c)'
                        /\ Coming(z, c) => Coming(z, c)'
                        /\ conn'[z][c].state \in Live => conn[z][c].state = conn'[z][c].state
    BY <1>2, <1>3, <1>9, <1>11, <1>12, <1>16
  <2>2. ASSUME NEW z \in Ends, conn'[z][c].state = "established" PROVE conn'[Other(z)][c].state \in Live \/ Coming(z, c)'
    <3>1. Other(z) \in Ends /\ Other(Other(z)) = z
      BY EndsFacts
    <3>2. conn[Other(z)][c].state \in Live \/ Coming(z, c)
      BY <2>0, <2>1, <2>2, <2>l
    <3> QED BY <2>1, <3>1, <3>2
  <2>3. Asking(c)' => conn'["a"][c].state \in Live \/ Coming("b", c)'
    BY <1>13, <2>0, <2>1, EndsFacts
  <2>4. conn'["a"][c].state = "connecting" /\ Answering(c)' => conn'["b"][c].state \in Live \/ Coming("a", c)'
    BY <1>14, <2>0, <2>1, <2>l, EndsFacts
  <2> QED BY <2>2, <2>3, <2>4
<1> QED BY <1>15, <1>16 DEF PeerOf

LEMMA PeerPacket ==
  ASSUME TypeOK, NEW e \in Ends, NEW c \in Conns, NEW p \in Packets, NEW k, NEW r,
         PacketStep(e, c, p, k, r), TableOf(c), PeerOf(c)
  PROVE  PeerOf(c)'
<1>0. TakesEffect(e, p, k, r) /\ p.c = c
  BY TakesFacts DEF PacketStep
<1>o. PICK o \in Ends : o = Other(e) /\ e = Other(o) /\ o # e /\ (\A z \in Ends : z = e \/ z = o)
  BY EndsFacts
<1>1. /\ wire[e] \in Seq(Packets) /\ wire[e] # <<>> /\ p = Head(wire[e])
      /\ wire'[e] = Tail(wire[e]) /\ wire'[o] = wire[o]
      /\ pump[e] = NoPacket /\ pump'[e] = r /\ pump'[o] = pump[o]
      /\ conn'[e][c] = k /\ conn'[o][c] = conn[o][c]
      /\ UNCHANGED <<pc, faults>>
  BY <1>0, <1>o DEF TakesEffect
<1>2. Admitted(e, c, p, k, r) \/ Handled(e, c, p, k, r)
  BY PacketStepFacts
<1>b. /\ ~Has(wire'["b"], c, "request") /\ pc["a"][c]["control"] \notin {"idle", "request"}
      /\ p.op = "request" => e = "b" /\ Unborn(c)
      /\ p.op # "request" => ~Unborn(c)
  BY <1>0, <1>1, <1>o, PacketBorn
<1>ops. {"request", "response", "reset"} \subseteq Ops
  BY DEF Ops
<1>h. p.op \in Ops /\ \A op \in Ops : Has(wire[e], c, op) <=> Has(wire'[e], c, op) \/ p.op = op
  BY <1>0, <1>1, TailHas, PacketFields
<1>l. "established" \in Live /\ "connecting" \in Live /\ "none" \notin Live
      /\ \A s \in Live : s = "established" \/ s = "connecting"
  BY DEF Live
<1>3. ~Asking(c)'
  BY <1>1, <1>b DEF Asking
<1>4. ~(Replying(e, c))
  BY <1>1 DEF Replying
<1>5. Coming(e, c)' => Coming(e, c)
  BY <1>1, <1>h, <1>o, <1>ops DEF Coming, Replying
<1>6. p.op # "reset" /\ Coming(e, c) => Coming(e, c)'
  BY <1>1, <1>h, <1>o, <1>ops DEF Coming, Replying
<1>7. Coming(o, c) => Coming(o, c)'
  BY <1>1, <1>4, <1>o DEF Coming, Replying
<1>8. Coming(o, c)' => Coming(o, c) \/ (r # NoPacket /\ r.op = "reset")
  BY <1>1, <1>o DEF Coming, Replying
<1>9. p.op = "reset" => Coming(e, c)
  BY <1>h, <1>ops DEF Coming
<1>d. /\ Coming(o, c) => conn[e][c].state \notin Live
      /\ Coming(e, c) => conn[o][c].state \notin Live
  BY <1>o DEF PeerOf
<1>u. faults = 0 =>
       /\ conn[e][c].state = "established" => conn[o][c].state \in Live \/ Coming(e, c)
       /\ conn[o][c].state = "established" => conn[e][c].state \in Live \/ Coming(o, c)
       /\ Asking(c) => conn["a"][c].state \in Live \/ Coming("b", c)
       /\ conn["a"][c].state = "connecting" /\ Answering(c) => conn["b"][c].state \in Live \/ Coming("a", c)
  BY <1>o DEF PeerOf
<1>v. p.op = "response" => e = "a" /\ conn["a"][c].state # "established" /\ Answering(c)
  <2>1. p.op = "response" => Has(wire[e], c, "response")
    BY <1>h, <1>ops
  <2> QED BY <2>1, EndsFacts DEF TableOf, OrderOf, Answering
<1>10. CASE Admitted(e, c, p, k, r)
  <2>1. /\ p.op = "request" /\ e = "b" /\ o = "a" /\ k.state = "established" /\ r.op = "response" /\ Unborn(c)
    BY <1>10, <1>b, <1>o, EndsFacts DEF Admitted
  <2>2. /\ conn["a"][c].state # "established" /\ ~Mentions(wire["a"], c) /\ pc["b"][c]["control"] = "idle"
        /\ ~Exists("b", c)
    BY <2>1, TaskFacts DEF TableOf, BirthOf
  <2>3. ~Coming(o, c)'
    <3>1. ~Has(wire'["a"], c, "reset")
      BY <1>1, <2>1, <2>2, HasMentions
    <3> QED BY <1>1, <1>o, <2>1, <2>2, <3>1 DEF Coming, Replying
  <2>4. Asking(c)
    BY <1>h, <1>ops, <2>1 DEF Asking
  <2>5. \A z \in Ends : Coming(Other(z), c)' => conn'[z][c].state \notin Live
    BY <1>1, <1>5, <1>d, <1>o, <2>3
  <2>6. faults = 0 => \A z \in Ends : conn'[z][c].state = "established" => conn'[Other(z)][c].state \in Live \/ Coming(z, c)'
    BY <1>1, <1>6, <1>o, <1>u, <2>1, <2>2, <2>4
  <2>7. conn'["b"][c].state \in Live
    BY <1>1, <1>l, <2>1
  <2> QED BY <1>1, <1>3, <2>5, <2>6, <2>7 DEF PeerOf
<1>11. CASE Handled(e, c, p, k, r)
  <2>1. /\ r = NoPacket \/ (r \in Packets /\ r.c = c /\ r.op \in {"reset", "creditUpdate"})
        /\ k = conn[e][c] \/ (Exists(e, c) /\ k.state # "none")
        /\ k.state = "connecting" => conn[e][c].state = "connecting" /\ p.op # "response"
        /\ k.state = "established" =>
             conn[e][c].state = "established" \/ (p.op = "response" /\ conn[e][c].state = "connecting")
        /\ conn[e][c].state \in Live /\ k.state \notin Live => p.op = "reset" \/ (r # NoPacket /\ r.op = "reset")
        /\ r # NoPacket /\ r.op = "reset" =>
             \/ p.op = "request" \/ (p.op = "response" /\ conn[e][c].state = "established")
             \/ k.state \notin Live
        /\ p.op = "reset" => k.state \notin Live
    BY <1>11 DEF Handled
  <2>2. p.op = "request" => k.state \notin Live
    <3>1. p.op = "request" => ~Exists(e, c)
      BY <1>b DEF TableOf, BirthOf
    <3> QED BY <1>l, <2>1, <3>1 DEF Exists
  <2>3. r # NoPacket /\ r.op = "reset" => k.state \notin Live
    BY <1>v, <2>1, <2>2
  <2>4. k.state \in Live => conn[e][c].state \in Live
    BY <1>l, <2>1
  <2>5. \A z \in Ends : Coming(Other(z), c)' => conn'[z][c].state \notin Live
    BY <1>1, <1>5, <1>8, <1>d, <1>o, <2>3, <2>4
  <2>6. r # NoPacket /\ r.op = "reset" => Coming(o, c)'
    BY <1>1, <1>o, <2>1 DEF Coming, Replying
  <2>7. conn[e][c].state \in Live /\ conn[o][c].state \in Live => k.state \in Live \/ Coming(o, c)'
    BY <1>9, <1>d, <2>1, <2>6
  <2>8. Answering(c)' => Answering(c)
    <3>1. Has(wire'["a"], c, "response") => Has(wire["a"], c, "response")
      BY <1>1, <1>h, <1>o, <1>ops, EndsFacts
    <3>2. Replying("b", c)' /\ pump'["b"].op = "response" => Replying("b", c) /\ pump["b"].op = "response"
      BY <1>1, <1>o, <2>1, EndsFacts DEF Replying
    <3> QED BY <3>1, <3>2 DEF Answering
  <2>9. ASSUME faults = 0, conn'[e][c].state = "established" PROVE conn'[o][c].state \in Live \/ Coming(e, c)'
    <3>1. p.op # "reset"
      BY <1>1, <1>l, <2>1, <2>9
    <3>2. conn[o][c].state \in Live \/ Coming(e, c)
      <4>1. CASE conn[e][c].state = "established"
        BY <1>u, <2>9, <4>1
      <4>2. CASE p.op = "response" /\ conn[e][c].state = "connecting"
        BY <1>o, <1>u, <1>v, <2>9, <4>2, EndsFacts
      <4> QED BY <1>1, <2>1, <2>9, <4>1, <4>2
    <3> QED BY <1>1, <1>6, <3>1, <3>2
  <2>10. ASSUME faults = 0, conn'[o][c].state = "established" PROVE conn'[e][c].state \in Live \/ Coming(o, c)'
    BY <1>1, <1>7, <1>l, <1>u, <2>7, <2>10
  <2>11. ASSUME faults = 0, conn'["a"][c].state = "connecting", Answering(c)'
         PROVE  conn'["b"][c].state \in Live \/ Coming("a", c)'
    <3>1. CASE e = "a"
      <4>1. conn["a"][c].state = "connecting" /\ p.op # "reset" /\ o = "b"
        BY <1>1, <1>l, <1>o, <2>1, <2>11, <3>1, EndsFacts
      <4> QED BY <1>1, <1>6, <1>u, <2>8, <2>11, <3>1, <4>1
    <3>2. CASE e = "b"
      <4>1. conn["a"][c].state = "connecting" /\ o = "a"
        BY <1>1, <1>o, <2>11, <3>2, EndsFacts
      <4> QED BY <1>1, <1>7, <1>l, <1>u, <2>7, <2>8, <2>11, <3>2, <4>1
    <3> QED BY <3>1, <3>2, EndsFacts
  <2>12. faults = 0 => \A z \in Ends : conn'[z][c].state = "established" => conn'[Other(z)][c].state \in Live \/ Coming(z, c)'
    BY <1>o, <2>9, <2>10
  <2> QED BY <1>1, <1>3, <2>5, <2>11, <2>12 DEF PeerOf
<1> QED BY <1>2, <1>10, <1>11

LEMMA PeerReply ==
  ASSUME TypeOK, NEW e \in Ends, NEW c \in Conns, ReplyStep(e, c), TableOf(c), PeerOf(c)
  PROVE  PeerOf(c)'
<1>0. ReplyEffect(e) /\ pump[e].c = c
  BY ReplyFacts DEF ReplyStep
<1>o. PICK o \in Ends : o = Other(e) /\ e = Other(o) /\ o # e /\ (\A z \in Ends : z = e \/ z = o)
  BY EndsFacts
<1>1. PICK p \in Packets : p = pump[e] /\ p.c = c /\ p # NoPacket
  BY <1>0, NoPacketFacts DEF ReplyEffect
<1>2. /\ pump'[e] = NoPacket /\ pump'[o] = pump[o] /\ wire'[e] = wire[e]
      /\ \/ wire'[o] = Append(wire[o], p) /\ faults' = faults
         \/ wire'[o] = wire[o] /\ faults' = faults + 1
      /\ UNCHANGED <<conn, pc>> /\ wire[o] \in Seq(Packets) /\ faults \in Nat
  BY <1>0, <1>1, <1>o DEF ReplyEffect, TypeOK
<1>3. p.op \in {"reset", "response", "creditUpdate"} /\ (e = "a" => p.op # "response")
  BY <1>1 DEF TableOf, OrderOf, Replying
<1>ops. {"request", "response", "reset"} \subseteq Ops
  BY DEF Ops
<1>4. \A op \in Ops : Has(wire'[o], c, op) => Has(wire[o], c, op) \/ p.op = op
  <2>1. \A op \in Ops : Has(Append(wire[o], p), c, op) => Has(wire[o], c, op) \/ p.op = op
    BY <1>2, AppendHas
  <2> QED BY <1>2, <2>1
<1>5. faults' = 0 => faults = 0 /\ \A op \in Ops : Has(wire[o], c, op) \/ p.op = op => Has(wire'[o], c, op)
  <2>1. \A op \in Ops : Has(wire[o], c, op) \/ p.op = op => Has(Append(wire[o], p), c, op)
    BY <1>1, <1>2, AppendHas
  <2>2. faults' = 0 => wire'[o] = Append(wire[o], p) /\ faults' = faults
    BY <1>2
  <2> QED BY <2>1, <2>2
<1>6. \A z \in Ends : Coming(z, c)' => Coming(z, c)
  <2>1. Coming(o, c)' => Coming(o, c)
    BY <1>1, <1>2, <1>4, <1>o, <1>ops DEF Coming, Replying
  <2>2. Coming(e, c)' => Coming(e, c)
    BY <1>2, <1>o DEF Coming, Replying
  <2> QED BY <1>o, <2>1, <2>2
<1>7. faults' = 0 => \A z \in Ends : Coming(z, c) => Coming(z, c)'
  <2>1. faults' = 0 /\ Coming(o, c) => Coming(o, c)'
    BY <1>1, <1>2, <1>5, <1>o, <1>ops DEF Coming, Replying
  <2>2. Coming(e, c) => Coming(e, c)'
    BY <1>2, <1>o DEF Coming, Replying
  <2> QED BY <1>o, <2>1, <2>2
<1>8. Asking(c)' => Asking(c)
  <2>1. Has(wire'["b"], c, "request") => Has(wire["b"], c, "request")
    BY <1>2, <1>3, <1>4, <1>o, <1>ops, EndsFacts
  <2> QED BY <1>2, <2>1 DEF Asking
<1>9. Answering(c)' => Answering(c)
  <2>1. CASE e = "a"
    BY <1>2, <1>o, <2>1, EndsFacts DEF Answering, Replying
  <2>2. CASE e = "b"
    BY <1>1, <1>2, <1>4, <1>o, <1>ops, <2>2, EndsFacts DEF Answering, Replying
  <2> QED BY <2>1, <2>2, EndsFacts
<1> QED BY <1>2, <1>5, <1>6, <1>7, <1>8, <1>9, EndsFacts DEF PeerOf

LEMMA PeerConnects ==
  ASSUME TypeOK, NEW c \in Conns, Connects(c), TableOf(c), PeerOf(c)
  PROVE  PeerOf(c)'
<1>1. PICK p \in Packets : p = Header("request", c, Free) /\ p.op = "request"
  BY DecisionKinds, EndsFacts DEF Header
<1>2. PICK k \in Connections : k = Opened("connecting") /\ k.state = "connecting"
  BY OpenedType DEF States, Opened
<1>4. DecisionEffect("a", c, "control", "idle", p, k)
  BY <1>1, <1>2, DecisionFacts, EndsFacts, TaskFacts DEF Carried, Connects
<1>5. /\ pc["a"][c]["control"] = "idle" /\ pc'["a"][c]["control"] = "request"
      /\ conn'["a"][c] = k /\ conn'["b"][c] = conn["b"][c]
      /\ pc'["b"][c]["control"] = pc["b"][c]["control"]
      /\ UNCHANGED <<wire, pump, faults>>
  BY <1>1, <1>4, EndsFacts, TaskFacts DEF DecisionEffect
<1>6. /\ ~Mentions(wire["a"], c) /\ ~Mentions(wire["b"], c) /\ ~Replying("a", c) /\ ~Replying("b", c)
      /\ pc["b"][c]["control"] = "idle" /\ ~Exists("b", c)
  BY <1>5, EndsFacts, TaskFacts DEF TableOf, BirthOf, Unborn
<1>7. \A op \in Ops : ~Has(wire["a"], c, op) /\ ~Has(wire["b"], c, op)
  BY <1>6, HasMentions
<1>8. ~Coming("a", c)' /\ ~Coming("b", c)' /\ ~Answering(c)'
  BY <1>5, <1>6, <1>7, EndsFacts DEF Coming, Answering, Replying, Ops
<1>9. \A z \in Ends : ~Coming(z, c)' /\ conn'[z][c].state # "established"
  BY <1>2, <1>5, <1>6, <1>8, EndsFacts DEF Exists
<1>10. conn'["a"][c].state \in Live
  BY <1>2, <1>5 DEF Live
<1> QED BY <1>8, <1>9, <1>10, EndsFacts DEF PeerOf

LEMMA PeerQuiet ==
  ASSUME NEW c \in Conns, PeerOf(c), UNCHANGED <<conn, wire, pump>>, faults' = 0 => faults = 0,
         \A z \in Ends : \A x \in {"reset", "request"} : pc'[z][c]["control"] = x <=> pc[z][c]["control"] = x
  PROVE  PeerOf(c)'
<1>1. \A z \in Ends : Coming(z, c)' <=> Coming(z, c)
  BY EndsFacts DEF Coming, Replying
<1>2. (Asking(c)' <=> Asking(c)) /\ (Answering(c)' <=> Answering(c))
  BY EndsFacts DEF Asking, Answering, Replying
<1> QED BY <1>1, <1>2, EndsFacts DEF PeerOf

LEMMA PeerTransport ==
  ASSUME TypeOK, NEW e \in Ends, NEW c \in Conns, TransportReset(e), PeerOf(c)
  PROVE  PeerOf(c)'
<1>0. TransportEffect(e) /\ faults \in Nat
  BY TransportFacts DEF TypeOK
<1>1. /\ conn'[e][c] = IF Exists(e, c) THEN [conn[e][c] EXCEPT !.state = "reset"] ELSE Free
      /\ conn'[Other(e)][c] = conn[Other(e)][c]
      /\ UNCHANGED <<wire, pump, pc>> /\ faults' = faults + 1
  BY <1>0, EndsFacts DEF TransportEffect
<1>2. conn'[e][c].state \notin Live
  <2>1. conn[e][c] \in Connections
    BY DEF TypeOK
  <2>2. [conn[e][c] EXCEPT !.state = "reset"].state = "reset"
    BY <2>1, SameState
  <2> QED BY <1>1, <2>2, FreeType DEF Live
<1>3. \A z \in Ends : Coming(z, c)' <=> Coming(z, c)
  BY <1>1 DEF Coming, Replying
<1>4. faults' # 0
  BY <1>0, <1>1
<1>5. \A z \in Ends : z = e \/ z = Other(e)
  BY EndsFacts
<1>6. ASSUME NEW z \in Ends, Coming(Other(z), c)' PROVE conn'[z][c].state \notin Live
  <2>1. CASE z = e
    BY <1>2, <2>1
  <2>2. CASE z = Other(e)
    BY <1>1, <1>3, <1>6, <2>2, EndsFacts DEF PeerOf
  <2> QED BY <1>5, <2>1, <2>2
<1> QED BY <1>4, <1>6 DEF PeerOf

LEMMA PeerStart ==
  ASSUME Init, NEW c \in Conns
  PROVE  PeerOf(c)
<1>1. /\ \A e \in Ends : conn[e][c] = Free /\ wire[e] = <<>> /\ pump[e] = NoPacket
      /\ \A e \in Ends : pc[e][c]["control"] = "idle"
  BY TaskFacts DEF Init
<1>2. \A op : ~Has(<<>>, c, op)
  BY EmptyHas
<1>3. \A e \in Ends : ~Coming(e, c)
  BY <1>1, <1>2, EndsFacts DEF Coming, Replying
<1>4. ~Asking(c) /\ ~Answering(c)
  BY <1>1, <1>2, EndsFacts DEF Asking, Answering, Replying
<1> QED BY <1>1, <1>3, <1>4, FreeType, EndsFacts DEF PeerOf

LEMMA PeerNext ==
  ASSUME PeerInv, [Next]_vars
  PROVE  PeerInv'
<1>1. TypeOK /\ TaskInv /\ BirthInv /\ \A c \in Conns : TableOf(c) /\ PeerOf(c)
  BY DEF PeerInv, TableInv, TaskInv, BirthInv, TableOf
<1>2. Step /\ TableInv'
  BY <1>1, NextIsStep, TableNext DEF PeerInv
<1>3. ASSUME NEW c \in Conns PROVE PeerOf(c)'
  <2>1. CASE CloseListener
    <3>1. UNCHANGED <<conn, wire, pump, pc>> /\ faults' = faults + 1 /\ faults \in Nat
      BY <1>1, <2>1 DEF CloseListener, taskVars, TypeOK
    <3> QED BY <1>1, <3>1, PeerQuiet
  <2>2. ASSUME NEW e \in Ends, TransportReset(e) PROVE PeerOf(c)'
    BY <1>1, <2>2, PeerTransport
  <2>3. CASE Untouched(c)
    BY <1>1, <2>3, PeerUntouched
  <2>4. CASE ConnStep(c)
    <3>1. CASE Accepts(c)
      <4>1. AcceptsEffect(c)
        BY <1>1, <3>1, AcceptsFacts
      <4>2. /\ UNCHANGED <<conn, wire, pump, faults>>
            /\ pc["b"][c]["control"] = "idle" /\ pc'["b"][c]["control"] = "open"
            /\ pc'["a"][c]["control"] = pc["a"][c]["control"]
        BY <4>1, EndsFacts, TaskFacts DEF AcceptsEffect
      <4>3. \A z \in Ends : \A x \in {"reset", "request"} : pc'[z][c]["control"] = x <=> pc[z][c]["control"] = x
        BY <4>2, EndsFacts
      <4> QED BY <1>1, <4>2, <4>3, PeerQuiet
    <3> QED BY <1>1, <2>4, <3>1, PeerConnects, PeerTask, PeerReply, PeerPacket DEF ConnStep
  <2> QED BY <1>1, <1>2, <2>1, <2>2, <2>3, <2>4, Focus
<1> QED BY <1>2, <1>3 DEF PeerInv

\* The reset the table has yet to deliver is one of the packets under way.
LEMMA ComingIsNotice ==
  ASSUME TypeOK, NEW c \in Conns, TaskOf(c), NEW e \in Ends, Coming(e, c)
  PROVE  Notice(e, c)
<1>1. wire[e] \in Seq(Packets) /\ DOMAIN wire[e] = 1 .. Len(wire[e])
  BY DEF TypeOK
<1>2. CASE Has(wire[e], c, "reset")
  <2>1. PICK i \in DOMAIN wire[e] : wire[e][i].c = c /\ wire[e][i].op = "reset"
    BY <1>1, <1>2 DEF Has
  <2>2. wire[e][i] \in Packets
    BY <1>1, <2>1
  <2> QED BY <2>1, <2>2, NoPacketFacts DEF Notice
<1>3. CASE Replying(Other(e), c) /\ pump[Other(e)].op = "reset"
  BY <1>3 DEF Notice, Replying
<1>4. CASE pc[Other(e)][c]["control"] = "reset"
  <2>1. packet[Other(e)][c]["control"].op = "reset"
    BY <1>4, EndsFacts, TaskFacts DEF TaskOf, Carried
  <2>2. packet[Other(e)][c]["control"] # NoPacket
    BY <2>1, NoPacketFacts
  <2>3. packet[Other(e)][c]["control"].c = c
    BY <2>2, EndsFacts, TaskFacts DEF TaskOf
  <2> QED BY <2>1, <2>2, <2>3 DEF Notice
<1> QED BY <1>2, <1>3, <1>4 DEF Coming

\* While nothing was lost, an end that takes the connection to be up is right or
\* will be told: whatever both ends do in whatever order (close and
\* handle_packet of table.rs), a reset is on its way.
THEOREM UpIsKnown == Spec => []UpHasPeer
<1>1. Init => PeerInv
  BY TableStart, PeerStart DEF PeerInv
<1>2. PeerInv /\ [Next]_vars => PeerInv'
  BY PeerNext
<1>3. PeerInv => UpHasPeer
  <2> SUFFICES ASSUME PeerInv, faults = 0, NEW e \in Ends, NEW c \in Conns,
                      conn[e][c].state = "established", conn[Other(e)][c].state \notin Live
               PROVE  Notice(e, c)
    BY DEF UpHasPeer
  <2>1. Coming(e, c)
    BY DEF PeerInv, PeerOf
  <2>2. TypeOK /\ TaskOf(c)
    BY DEF PeerInv, TableInv, TableOf
  <2> QED BY <2>1, <2>2, ComingIsNotice
<1> QED BY <1>1, <1>2, <1>3, PTL DEF Spec

-----------------------------------------------------------------------------
(* The bytes                                                               *)

\* What the reader of end e took out of the ring, and what was ever put into it.
Taken(e, c) == Len(got[e][c]) + Len(drained[e][c])
Arrived(e, c) == Taken(e, c) + Len(conn[e][c].receive)

Holds(e, c, w) == pc[e][c][w] \in {"data", "sent"}

\* One writer at a time holds a packet: the bytes that come next, within what
\* the program writes and within the credit.
WriteOf(e, c) ==
  /\ c \in DOMAIN plan.bytes => done[e][c] <= plan.bytes[c][e]
  /\ done[e][c] <= Taken(Other(e), c) + Window
  /\ \A w \in Writers : Holds(e, c, w) =>
       /\ c \in DOMAIN plan.bytes /\ Consecutive(packet[e][c][w].payload, done[e][c])
       /\ done[e][c] + Len(packet[e][c][w].payload) <= plan.bytes[c][e]
       /\ done[e][c] + Len(packet[e][c][w].payload) <= Taken(Other(e), c) + Window
       /\ Exists(e, c) => conn[e][c].transmitting
       /\ \A v \in Writers : Holds(e, c, v) => v = w

\* No more arrives than was sent, and to a live end all of it is on its way.
ReadOf(e, c) ==
  /\ pc[e][c]["reader"] \notin {"creditUpdate", "gone"} => drained[e][c] = <<>>
  /\ Arrived(e, c) <= Sent(Other(e), c)
  /\ conn[e][c].state \in Live => Spells(wire[e], c, Arrived(e, c), Sent(Other(e), c))

\* The counters of the entry are the true ones, those of the peer are behind.
EntryOf(e, c) ==
  Exists(e, c) =>
    /\ conn[e][c].fwd = Taken(e, c) /\ conn[e][c].tx = done[e][c]
    /\ conn[e][c].peerBuf <= Window /\ conn[e][c].peerFwd <= Taken(Other(e), c)

\* No packet of end e announces more than its reader took.
NewsOf(e, c) ==
  /\ Replying(e, c) => Credible(pump[e], Taken(e, c))
  /\ Honest(wire[Other(e)], c, Taken(e, c))
  /\ \A t \in Tasks : packet[e][c][t] # NoPacket => Credible(packet[e][c][t], Taken(e, c))

StreamOf(c) == \A e \in Ends : WriteOf(e, c) /\ ReadOf(e, c) /\ EntryOf(e, c) /\ NewsOf(e, c)
StreamInv == TableInv /\ \A c \in Conns : StreamOf(c)

\* No stream is as long as the counters count: 4 GiB.
Short == \A p \in Plans : \A c \in DOMAIN p.bytes : \A e \in Ends : p.bytes[c][e] < Wrap

-----------------------------------------------------------------------------
\* What was handed to the device, of any state of the writers.
Total(d, f, g) ==
  d + IF \E w \in Writers : f[w] = "sent" THEN Len(g[CHOOSE w \in Writers : f[w] = "sent"].payload) ELSE 0

LEMMA TotalNone ==
  ASSUME NEW d \in Nat, NEW f, NEW g, \A w \in Writers : f[w] # "sent"
  PROVE  Total(d, f, g) = d
  BY DEF Total

LEMMA TotalOne ==
  ASSUME NEW d \in Nat, NEW f, NEW g, NEW w \in Writers, f[w] = "sent", \A v \in Writers : f[v] = "sent" => v = w
  PROVE  Total(d, f, g) = d + Len(g[w].payload)
<1>1. \E v \in Writers : f[v] = "sent"
  OBVIOUS
<1>2. PICK u : u = CHOOSE v \in Writers : f[v] = "sent"
  OBVIOUS
<1>3. u \in Writers /\ f[u] = "sent"
  BY <1>1, <1>2
<1>4. u = w
  BY <1>3
<1> QED BY <1>1, <1>2, <1>4 DEF Total

LEMMA StreamTypes ==
  ASSUME TypeOK, NEW e \in Ends, NEW c \in Conns
  PROVE  /\ Taken(e, c) \in Nat /\ Arrived(e, c) \in Nat /\ Taken(e, c) <= Arrived(e, c)
         /\ Arrived(e, c) = Taken(e, c) + Len(conn[e][c].receive) /\ Len(conn[e][c].receive) \in Nat
         /\ done[e][c] \in Nat /\ conn[e][c] \in Connections
         /\ c \in DOMAIN plan.bytes => plan.bytes[c][e] \in Nat
<1>1. got[e][c] \in Seq(Nat) /\ drained[e][c] \in Seq(Nat) /\ conn[e][c] \in Connections /\ done[e][c] \in Nat
  BY DEF TypeOK
<1>2. conn[e][c].receive \in Seq(Nat)
  BY <1>1, EntryFields
<1>3. c \in DOMAIN plan.bytes => plan.bytes[c][e] \in Nat
  BY PlansAssumption DEF TypeOK
<1>4. PICK x, y, z \in Nat : x = Len(got[e][c]) /\ y = Len(drained[e][c]) /\ z = Len(conn[e][c].receive)
  BY <1>1, <1>2
<1>5. Taken(e, c) = x + y /\ Arrived(e, c) = (x + y) + z
  BY <1>4 DEF Taken, Arrived
<1>6. x + y \in Nat /\ (x + y) + z \in Nat /\ x + y <= (x + y) + z
  OBVIOUS
<1> QED BY <1>1, <1>3, <1>4, <1>5, <1>6

LEMMA StreamTypesNext ==
  ASSUME TypeOK', NEW e \in Ends, NEW c \in Conns
  PROVE  /\ Taken(e, c)' \in Nat /\ Arrived(e, c)' \in Nat /\ Taken(e, c)' <= Arrived(e, c)'
         /\ Arrived(e, c)' = Taken(e, c)' + Len(conn'[e][c].receive) /\ Len(conn'[e][c].receive) \in Nat
         /\ done'[e][c] \in Nat /\ conn'[e][c] \in Connections
         /\ c \in DOMAIN plan'.bytes => plan'.bytes[c][e] \in Nat
<1>1. got'[e][c] \in Seq(Nat) /\ drained'[e][c] \in Seq(Nat) /\ conn'[e][c] \in Connections /\ done'[e][c] \in Nat
  BY DEF TypeOK
<1>2. conn'[e][c].receive \in Seq(Nat)
  BY <1>1, EntryFields
<1>3. c \in DOMAIN plan'.bytes => plan'.bytes[c][e] \in Nat
  BY PlansAssumption DEF TypeOK
<1>4. PICK x, y, z \in Nat : x = Len(got'[e][c]) /\ y = Len(drained'[e][c]) /\ z = Len(conn'[e][c].receive)
  BY <1>1, <1>2
<1>5. Taken(e, c)' = x + y /\ Arrived(e, c)' = (x + y) + z
  BY <1>4 DEF Taken, Arrived
<1>6. x + y \in Nat /\ (x + y) + z \in Nat /\ x + y <= (x + y) + z
  OBVIOUS
<1> QED BY <1>1, <1>3, <1>4, <1>5, <1>6

LEMMA SentFacts ==
  ASSUME TypeOK, NEW e \in Ends, NEW c \in Conns, WriteOf(e, c)
  PROVE  /\ (\A w \in Writers : pc[e][c][w] # "sent") => Sent(e, c) = done[e][c]
         /\ \A w \in Writers : pc[e][c][w] = "sent" => Sent(e, c) = done[e][c] + Len(packet[e][c][w].payload)
         /\ Sent(e, c) \in Nat /\ done[e][c] <= Sent(e, c)
         /\ Sent(e, c) <= Taken(Other(e), c) + Window
         /\ c \in DOMAIN plan.bytes => Sent(e, c) <= plan.bytes[c][e]
<1>0. Sent(e, c) = Total(done[e][c], pc[e][c], packet[e][c])
  BY DEF Sent, Total
<1>d. done[e][c] \in Nat
  BY StreamTypes
<1>1. ASSUME \A w \in Writers : pc[e][c][w] # "sent" PROVE Sent(e, c) = done[e][c]
  BY <1>0, <1>1, <1>d, TotalNone
<1>2. ASSUME NEW w \in Writers, pc[e][c][w] = "sent"
      PROVE  /\ Sent(e, c) = done[e][c] + Len(packet[e][c][w].payload) /\ Len(packet[e][c][w].payload) \in Nat
             /\ Sent(e, c) <= Taken(Other(e), c) + Window
             /\ c \in DOMAIN plan.bytes => Sent(e, c) <= plan.bytes[c][e]
  <2>1. \A v \in Writers : pc[e][c][v] = "sent" => v = w
    BY <1>2 DEF WriteOf, Holds
  <2>2. Sent(e, c) = done[e][c] + Len(packet[e][c][w].payload)
    <3>1. PICK d, f, g : d \in Nat /\ d = done[e][c] /\ f = pc[e][c] /\ g = packet[e][c]
      BY <1>d
    <3>f. f[w] = "sent" /\ \A v \in Writers : f[v] = "sent" => v = w
      BY <1>2, <2>1, <3>1
    <3>d. d \in Nat
      BY <3>1
    <3>2. Total(d, f, g) = d + Len(g[w].payload)
      BY <3>d, <3>f, TotalOne
    <3> QED BY <1>0, <3>1, <3>2
  <2>3. /\ Consecutive(packet[e][c][w].payload, done[e][c])
        /\ done[e][c] + Len(packet[e][c][w].payload) <= plan.bytes[c][e]
        /\ done[e][c] + Len(packet[e][c][w].payload) <= Taken(Other(e), c) + Window
    BY <1>2 DEF WriteOf, Holds
  <2>4. Len(packet[e][c][w].payload) \in Nat
    BY <2>3 DEF Consecutive
  <2> QED BY <2>2, <2>3, <2>4
<1> DEFINE Bounds ==
      /\ Sent(e, c) \in Nat /\ done[e][c] <= Sent(e, c)
      /\ Sent(e, c) <= Taken(Other(e), c) + Window
      /\ c \in DOMAIN plan.bytes => Sent(e, c) <= plan.bytes[c][e]
<1>3. ASSUME \A w \in Writers : pc[e][c][w] # "sent" PROVE Bounds
  <2>1. Sent(e, c) = done[e][c]
    BY <1>1, <1>3
  <2> QED BY <1>d, <2>1 DEF WriteOf
<1>4. ASSUME \E w \in Writers : pc[e][c][w] = "sent" PROVE Bounds
  <2>1. PICK w \in Writers : pc[e][c][w] = "sent"
    BY <1>4
  <2>2. PICK n \in Nat : n = Len(packet[e][c][w].payload) /\ Sent(e, c) = done[e][c] + n
    BY <1>2, <2>1
  <2>3. Sent(e, c) \in Nat /\ done[e][c] <= Sent(e, c)
    BY <1>d, <2>2
  <2> QED BY <1>2, <2>1, <2>3
<1>5. Bounds
  BY <1>3, <1>4
<1> QED BY <1>1, <1>2, <1>5

\* The writers of end e hold what they held.
HoldsKept(e, c) ==
  /\ done'[e][c] = done[e][c]
  /\ \A w \in Writers :
       /\ pc'[e][c][w] = "sent" <=> pc[e][c][w] = "sent"
       /\ Holds(e, c, w)' => Holds(e, c, w) /\ packet'[e][c][w] = packet[e][c][w]
       /\ Holds(e, c, w)' /\ Exists(e, c)' => Exists(e, c) /\ conn'[e][c].transmitting = conn[e][c].transmitting

LEMMA WriteKept ==
  ASSUME TypeOK, TypeOK', plan' = plan, NEW e \in Ends, NEW c \in Conns, HoldsKept(e, c),
         Taken(Other(e), c) <= Taken(Other(e), c)', WriteOf(e, c)
  PROVE  WriteOf(e, c)' /\ Sent(e, c)' = Sent(e, c)
<1>1. done'[e][c] = done[e][c] /\ done[e][c] \in Nat
  BY StreamTypes DEF HoldsKept
<1>2. PICK x \in Nat : x = Taken(Other(e), c)
  BY StreamTypes, EndsFacts
<1>3. PICK y \in Nat : y = Taken(Other(e), c)' /\ x <= y
  BY <1>2, StreamTypesNext, EndsFacts
<1>w. Window \in Nat
  BY WindowAssumption
<1>4. \A n \in Nat : n <= x + Window => n <= y + Window
  BY <1>3, <1>w
<1>5. ASSUME NEW w \in Writers, Holds(e, c, w)'
      PROVE  /\ c \in DOMAIN plan.bytes /\ Consecutive(packet'[e][c][w].payload, done[e][c])
             /\ done[e][c] + Len(packet'[e][c][w].payload) <= plan.bytes[c][e]
             /\ done[e][c] + Len(packet'[e][c][w].payload) <= y + Window
             /\ Exists(e, c)' => conn'[e][c].transmitting
             /\ \A v \in Writers : Holds(e, c, v)' => v = w
  <2>1. Holds(e, c, w) /\ packet'[e][c][w] = packet[e][c][w]
    BY <1>5 DEF HoldsKept
  <2>2. /\ c \in DOMAIN plan.bytes /\ Consecutive(packet[e][c][w].payload, done[e][c])
        /\ done[e][c] + Len(packet[e][c][w].payload) <= plan.bytes[c][e]
        /\ done[e][c] + Len(packet[e][c][w].payload) <= x + Window
    BY <1>2, <2>1 DEF WriteOf
  <2>3. done[e][c] + Len(packet[e][c][w].payload) <= y + Window
    <3>1. done[e][c] + Len(packet[e][c][w].payload) \in Nat
      BY <1>1, <2>2 DEF Consecutive
    <3> QED BY <1>4, <2>2, <3>1
  <2>4. Exists(e, c)' => conn'[e][c].transmitting
    BY <1>5, <2>1 DEF WriteOf, HoldsKept
  <2>5. \A v \in Writers : Holds(e, c, v)' => v = w
    BY <2>1 DEF WriteOf, HoldsKept
  <2> QED BY <2>1, <2>2, <2>3, <2>4, <2>5
<1>6. done[e][c] <= y + Window /\ (c \in DOMAIN plan.bytes => done[e][c] <= plan.bytes[c][e])
  BY <1>1, <1>2, <1>4 DEF WriteOf
<1>7. WriteOf(e, c)'
  BY <1>1, <1>3, <1>5, <1>6 DEF WriteOf
<1>8. Sent(e, c)' = Sent(e, c)
  <2>0. Sent(e, c)' = Total(done'[e][c], pc'[e][c], packet'[e][c])
    BY DEF Sent, Total
  <2>1. CASE \A w \in Writers : pc[e][c][w] # "sent"
    <3>1. \A w \in Writers : pc'[e][c][w] # "sent"
      BY <2>1 DEF HoldsKept
    <3>2. Sent(e, c)' = done'[e][c]
      BY <1>1, <2>0, <3>1, TotalNone
    <3> QED BY <1>1, <2>1, <3>2, SentFacts
  <2>2. ASSUME NEW w \in Writers, pc[e][c][w] = "sent" PROVE Sent(e, c)' = Sent(e, c)
    <3>1. pc'[e][c][w] = "sent" /\ packet'[e][c][w] = packet[e][c][w]
      BY <2>2 DEF HoldsKept, Holds
    <3>2. \A v \in Writers : pc'[e][c][v] = "sent" => v = w
      BY <1>5, <3>1 DEF Holds
    <3>3. Sent(e, c)' = done'[e][c] + Len(packet'[e][c][w].payload)
      <4>1. PICK d, f, g : d \in Nat /\ d = done'[e][c] /\ f = pc'[e][c] /\ g = packet'[e][c]
        BY <1>1
      <4>f. f[w] = "sent" /\ \A v \in Writers : f[v] = "sent" => v = w
        BY <3>1, <3>2, <4>1
      <4>d. d \in Nat
        BY <4>1
      <4>2. Total(d, f, g) = d + Len(g[w].payload)
        BY <4>d, <4>f, TotalOne
      <4> QED BY <2>0, <4>1, <4>2
    <3> QED BY <1>1, <2>2, <3>1, <3>3, SentFacts
  <2> QED BY <2>1, <2>2
<1> QED BY <1>7, <1>8

LEMMA ReadKept ==
  ASSUME TypeOK, TypeOK', NEW e \in Ends, NEW c \in Conns, ReadOf(e, c), WriteOf(Other(e), c),
         Sent(Other(e), c)' = Sent(Other(e), c),
         pc'[e][c]["reader"] \notin {"creditUpdate", "gone"} => drained'[e][c] = <<>>,
         Arrived(e, c)' <= Arrived(e, c),
         conn'[e][c].state \in Live => conn[e][c].state \in Live /\ Arrived(e, c)' = Arrived(e, c),
         \A r, s \in Nat : Spells(wire[e], c, r, s) => Spells(wire'[e], c, r, s)
  PROVE  ReadOf(e, c)'
<1>1. PICK s \in Nat : s = Sent(Other(e), c)
  BY SentFacts, EndsFacts
<1>2. PICK r \in Nat : r = Arrived(e, c)
  BY StreamTypes
<1>3. PICK r2 \in Nat : r2 = Arrived(e, c)' /\ r2 <= r
  BY <1>2, StreamTypesNext
<1>4. r2 <= s
  BY <1>1, <1>2, <1>3 DEF ReadOf
<1>5. conn'[e][c].state \in Live => Spells(wire'[e], c, r2, s)
  BY <1>1, <1>2, <1>3 DEF ReadOf
<1> QED BY <1>1, <1>3, <1>4, <1>5 DEF ReadOf

\* Packets that were credible stay so, as the reader only goes on.
LEMMA CredibleLater ==
  ASSUME NEW p \in Packets, NEW r \in Nat, NEW s \in Nat, r <= s, Credible(p, r)
  PROVE  Credible(p, s)
<1>1. p.fwd \in Nat
  BY PacketFields
<1> QED BY <1>1 DEF Credible

LEMMA NewsKept ==
  ASSUME TypeOK, TypeOK', NEW e \in Ends, NEW c \in Conns, NewsOf(e, c),
         Taken(e, c) <= Taken(e, c)',
         Replying(e, c)' => (Replying(e, c) /\ pump'[e] = pump[e]) \/ Credible(pump'[e], Taken(e, c)'),
         Honest(wire[Other(e)], c, Taken(e, c)') => Honest(wire'[Other(e)], c, Taken(e, c)'),
         \A t \in Tasks : packet'[e][c][t] # NoPacket =>
           packet'[e][c][t] = packet[e][c][t] \/ Credible(packet'[e][c][t], Taken(e, c)')
  PROVE  NewsOf(e, c)'
<1>1. PICK x \in Nat : x = Taken(e, c)
  BY StreamTypes
<1>2. PICK y \in Nat : y = Taken(e, c)' /\ x <= y
  BY <1>1, StreamTypesNext
<1>3. Replying(e, c)' => Credible(pump'[e], y)
  <2>1. CASE Replying(e, c) /\ pump'[e] = pump[e]
    <3>1. pump[e] \in Packets
      BY <2>1 DEF TypeOK, Replying
    <3>2. Credible(pump[e], x)
      BY <1>1, <2>1 DEF NewsOf
    <3>3. Credible(pump[e], y)
      BY <1>2, <3>1, <3>2, CredibleLater
    <3> QED BY <2>1, <3>3
  <2> QED BY <1>2, <2>1
<1>4. Honest(wire'[Other(e)], c, y)
  <2>1. PICK q \in Seq(Packets) : q = wire[Other(e)]
    BY EndsFacts DEF TypeOK
  <2>2. Honest(q, c, x)
    BY <1>1, <2>1 DEF NewsOf
  <2>3. Honest(q, c, y)
    BY <1>2, <2>2, HonestQueue
  <2> QED BY <1>2, <2>1, <2>3
<1>5. ASSUME NEW t \in Tasks, packet'[e][c][t] # NoPacket PROVE Credible(packet'[e][c][t], y)
  <2>1. CASE packet'[e][c][t] = packet[e][c][t]
    <3>1. packet[e][c][t] \in Packets
      BY <1>5, <2>1 DEF TypeOK
    <3>2. Credible(packet[e][c][t], x)
      BY <1>1, <1>5, <2>1 DEF NewsOf
    <3>3. Credible(packet[e][c][t], y)
      BY <1>2, <3>1, <3>2, CredibleLater
    <3> QED BY <2>1, <3>3
  <2> QED BY <1>2, <1>5, <2>1
<1> QED BY <1>2, <1>3, <1>4, <1>5 DEF NewsOf

\* The entry of end e is given back, or keeps its counters and takes up no more
\* than credible news.
EntrySteady(e, c) ==
  \/ conn'[e][c] = Free
  \/ /\ Exists(e, c) /\ (conn'[e][c].state \in Live => conn[e][c].state \in Live)
     /\ conn'[e][c].receive = conn[e][c].receive
     /\ conn'[e][c].fwd = conn[e][c].fwd /\ conn'[e][c].tx = conn[e][c].tx
     /\ \/ conn'[e][c].peerBuf = conn[e][c].peerBuf /\ conn'[e][c].peerFwd = conn[e][c].peerFwd
        \/ conn'[e][c].peerBuf <= Window /\ conn'[e][c].peerFwd <= Taken(Other(e), c)

\* End e neither writes nor takes nor receives a byte of the connection.
SideSteady(e, c) ==
  /\ HoldsKept(e, c) /\ EntrySteady(e, c) /\ Taken(e, c)' = Taken(e, c)
  /\ pc'[e][c]["reader"] \notin {"creditUpdate", "gone"} => drained'[e][c] = <<>>
  /\ \A r, s \in Nat : Spells(wire[e], c, r, s) => Spells(wire'[e], c, r, s)
  /\ Replying(e, c)' => (Replying(e, c) /\ pump'[e] = pump[e]) \/ Credible(pump'[e], Taken(e, c))
  /\ Honest(wire[Other(e)], c, Taken(e, c)) => Honest(wire'[Other(e)], c, Taken(e, c))
  /\ \A t \in Tasks : packet'[e][c][t] # NoPacket =>
       packet'[e][c][t] = packet[e][c][t] \/ Credible(packet'[e][c][t], Taken(e, c))

LEMMA FreeFields == Free.state = "none" /\ Free.receive = <<>> /\ Len(Free.receive) = 0 /\ "none" \notin Live
  BY DEF Free, Opened, Live

LEMMA EntryArrived ==
  ASSUME TypeOK, TypeOK', NEW e \in Ends, NEW c \in Conns, EntrySteady(e, c), Taken(e, c)' = Taken(e, c)
  PROVE  /\ Arrived(e, c)' <= Arrived(e, c)
         /\ conn'[e][c].state \in Live => conn[e][c].state \in Live /\ Arrived(e, c)' = Arrived(e, c)
<1>1. PICK x \in Nat : x = Taken(e, c)
  BY StreamTypes
<1>2. PICK n \in Nat : n = Len(conn[e][c].receive) /\ Arrived(e, c) = x + n
  BY <1>1, StreamTypes
<1>3. PICK m \in Nat : m = Len(conn'[e][c].receive) /\ Arrived(e, c)' = x + m
  BY <1>1, StreamTypesNext
<1>4. m <= n /\ (conn'[e][c].state \in Live => conn[e][c].state \in Live /\ m = n)
  BY <1>2, <1>3, FreeFields DEF EntrySteady
<1>5. x + m <= x + n
  <2>1. m <= n
    BY <1>4
  <2> QED BY <2>1
<1>6. m = n => x + m = x + n
  OBVIOUS
<1> QED BY <1>2, <1>3, <1>4, <1>5, <1>6

LEMMA EntryKept ==
  ASSUME TypeOK, NEW e \in Ends, NEW c \in Conns, EntrySteady(e, c), EntryOf(e, c),
         Taken(e, c)' = Taken(e, c), done'[e][c] = done[e][c], Taken(Other(e), c)' = Taken(Other(e), c)
  PROVE  EntryOf(e, c)'
  BY FreeFields DEF EntryOf, EntrySteady, Exists

LEMMA StreamSteady ==
  ASSUME TypeOK, TypeOK', plan' = plan, NEW c \in Conns, StreamOf(c), \A e \in Ends : SideSteady(e, c)
  PROVE  StreamOf(c)'
<1>1. ASSUME NEW e \in Ends
      PROVE  WriteOf(e, c)' /\ Sent(e, c)' = Sent(e, c) /\ EntryOf(e, c)' /\ NewsOf(e, c)'
  <2>1. Taken(e, c)' = Taken(e, c) /\ Taken(Other(e), c)' = Taken(Other(e), c) /\ Taken(Other(e), c) \in Nat /\ Taken(e, c) \in Nat
    BY <1>1, StreamTypes, EndsFacts DEF SideSteady
  <2>2. HoldsKept(e, c) /\ EntrySteady(e, c) /\ done'[e][c] = done[e][c]
    BY <1>1 DEF SideSteady, HoldsKept
  <2>3. WriteOf(e, c) /\ EntryOf(e, c) /\ NewsOf(e, c)
    BY DEF StreamOf
  <2>4. WriteOf(e, c)' /\ Sent(e, c)' = Sent(e, c)
    <3>1. Taken(Other(e), c) <= Taken(Other(e), c)'
      BY <2>1
    <3> QED BY <2>2, <2>3, <3>1, WriteKept
  <2>5. EntryOf(e, c)'
    BY <2>1, <2>2, <2>3, EntryKept
  <2>6. NewsOf(e, c)'
    <3>1. Taken(e, c) <= Taken(e, c)'
      BY <2>1
    <3>2. Replying(e, c)' => (Replying(e, c) /\ pump'[e] = pump[e]) \/ Credible(pump'[e], Taken(e, c)')
      BY <2>1 DEF SideSteady
    <3>3. Honest(wire[Other(e)], c, Taken(e, c)') => Honest(wire'[Other(e)], c, Taken(e, c)')
      BY <2>1 DEF SideSteady
    <3>4. \A t \in Tasks : packet'[e][c][t] # NoPacket =>
            packet'[e][c][t] = packet[e][c][t] \/ Credible(packet'[e][c][t], Taken(e, c)')
      BY <2>1 DEF SideSteady
    <3> QED BY <2>3, <3>1, <3>2, <3>3, <3>4, NewsKept
  <2> QED BY <2>4, <2>5, <2>6
<1>2. ASSUME NEW e \in Ends PROVE ReadOf(e, c)'
  <2>1. EntrySteady(e, c) /\ Taken(e, c)' = Taken(e, c)
    BY DEF SideSteady
  <2>2. /\ Arrived(e, c)' <= Arrived(e, c)
        /\ conn'[e][c].state \in Live => conn[e][c].state \in Live /\ Arrived(e, c)' = Arrived(e, c)
    BY <2>1, EntryArrived
  <2>3. Sent(Other(e), c)' = Sent(Other(e), c) /\ WriteOf(Other(e), c) /\ ReadOf(e, c)
    BY <1>1, EndsFacts DEF StreamOf
  <2>4. /\ pc'[e][c]["reader"] \notin {"creditUpdate", "gone"} => drained'[e][c] = <<>>
        /\ \A r, s \in Nat : Spells(wire[e], c, r, s) => Spells(wire'[e], c, r, s)
    BY DEF SideSteady
  <2> QED BY <2>2, <2>3, <2>4, ReadKept
<1> QED BY <1>1, <1>2 DEF StreamOf

-----------------------------------------------------------------------------
\* An end whose tasks, entry, packets and lines are as they were is steady.
LEMMA SideIsSteady ==
  ASSUME TypeOK, NEW e \in Ends, NEW c \in Conns, TableOf(c), StreamOf(c),
         EntrySteady(e, c) \/ conn'[e][c] = conn[e][c],
         Exists(e, c)' => conn'[e][c].transmitting = conn[e][c].transmitting,
         done'[e][c] = done[e][c], got'[e][c] = got[e][c], drained'[e][c] = drained[e][c],
         \A t \in Tasks : t # "control" => pc'[e][c][t] = pc[e][c][t] /\ packet'[e][c][t] = packet[e][c][t],
         packet'[e][c]["control"] = packet[e][c]["control"],
         \A r, s \in Nat : Spells(wire[e], c, r, s) => Spells(wire'[e], c, r, s),
         Replying(e, c)' => (Replying(e, c) /\ pump'[e] = pump[e]) \/ Credible(pump'[e], Taken(e, c)),
         Honest(wire[Other(e)], c, Taken(e, c)) => Honest(wire'[Other(e)], c, Taken(e, c))
  PROVE  SideSteady(e, c)
<1>1. EntrySteady(e, c)
  <2>1. conn[e][c] = Free \/ Exists(e, c)
    BY DEF TableOf, SlotOf
  <2> QED BY <2>1 DEF EntrySteady
<1>2. Exists(e, c)' => Exists(e, c)
  BY <1>1, FreeFields DEF EntrySteady, Exists
<1>3. \A w \in Writers : w \in Tasks /\ w # "control"
  BY TaskFacts
<1>4. HoldsKept(e, c)
  BY <1>2, <1>3 DEF HoldsKept, Holds
<1>5. Taken(e, c)' = Taken(e, c)
  BY DEF Taken
<1>6. pc'[e][c]["reader"] \notin {"creditUpdate", "gone"} => drained'[e][c] = <<>>
  BY TaskFacts DEF StreamOf, ReadOf
<1>7. \A t \in Tasks : packet'[e][c][t] = packet[e][c][t]
  OBVIOUS
<1> QED BY <1>1, <1>4, <1>5, <1>6, <1>7 DEF SideSteady

LEMMA StreamUntouched ==
  ASSUME TypeOK, TypeOK', NEW c \in Conns, TableOf(c), StreamOf(c), Untouched(c)
  PROVE  StreamOf(c)'
<1>1. plan' = plan
  BY DEF Untouched, PlaceKept
<1>2. ASSUME NEW e \in Ends PROVE SideSteady(e, c)
  <2>1. SideKept(e, c) /\ LineKept(e, c) /\ PumpKept(e, c) /\ LineKept(Other(e), c)
    BY EndsFacts DEF Untouched
  <2>2. /\ conn'[e][c] = conn[e][c] /\ done'[e][c] = done[e][c] /\ got'[e][c] = got[e][c]
        /\ drained'[e][c] = drained[e][c]
        /\ \A t \in Tasks : pc'[e][c][t] = pc[e][c][t] /\ packet'[e][c][t] = packet[e][c][t]
    BY <2>1 DEF SideKept
  <2>3. \A r, s \in Nat : Spells(wire[e], c, r, s) => Spells(wire'[e], c, r, s)
    BY <2>1 DEF LineKept
  <2>4. Replying(e, c)' => Replying(e, c) /\ pump'[e] = pump[e]
    BY <2>1 DEF PumpKept, Replying
  <2>5. Honest(wire[Other(e)], c, Taken(e, c)) => Honest(wire'[Other(e)], c, Taken(e, c))
    <3>1. Taken(e, c) \in Nat
      BY StreamTypes
    <3> QED BY <2>1, <3>1 DEF LineKept
  <2> QED BY <2>2, <2>3, <2>4, <2>5, SideIsSteady, TaskFacts
<1> QED BY <1>1, <1>2, StreamSteady

LEMMA StreamAccepts ==
  ASSUME TypeOK, TypeOK', NEW c \in Conns, TableOf(c), StreamOf(c), Accepts(c)
  PROVE  StreamOf(c)'
<1>1. AcceptsEffect(c)
  BY AcceptsFacts
<1>2. /\ \A z \in Ends, u \in Tasks : u # "control" => pc'[z][c][u] = pc[z][c][u]
      /\ UNCHANGED <<plan, conn, wire, pump, packet, done, drained, got>>
  BY <1>1 DEF AcceptsEffect
<1>3. ASSUME NEW e \in Ends PROVE SideSteady(e, c)
  <2>1. Replying(e, c)' => Replying(e, c) /\ pump'[e] = pump[e]
    BY <1>2 DEF Replying
  <2> QED BY <1>2, <2>1, SideIsSteady, TaskFacts
<1> QED BY <1>2, <1>3, StreamSteady

LEMMA StreamListener ==
  ASSUME TypeOK, TypeOK', NEW c \in Conns, TableOf(c), StreamOf(c), CloseListener
  PROVE  StreamOf(c)'
<1>1. UNCHANGED <<plan, conn, wire, pump, pc, packet, done, drained, got>>
  BY DEF CloseListener, taskVars, resultVars
<1>2. ASSUME NEW e \in Ends PROVE SideSteady(e, c)
  <2>1. Replying(e, c)' => Replying(e, c) /\ pump'[e] = pump[e]
    BY <1>1 DEF Replying
  <2> QED BY <1>1, <2>1, SideIsSteady, TaskFacts
<1> QED BY <1>1, <1>2, StreamSteady

LEMMA StreamTransport ==
  ASSUME TypeOK, TypeOK', NEW e \in Ends, NEW c \in Conns, TableOf(c), StreamOf(c), TransportReset(e)
  PROVE  StreamOf(c)'
<1>0. TransportEffect(e)
  BY TransportFacts
<1>1. /\ conn'[e][c] = IF Exists(e, c) THEN [conn[e][c] EXCEPT !.state = "reset"] ELSE Free
      /\ conn'[Other(e)][c] = conn[Other(e)][c]
      /\ UNCHANGED <<plan, wire, pump, pc, packet, done, drained, got>>
  BY <1>0, EndsFacts DEF TransportEffect
<1>2. ASSUME NEW z \in Ends PROVE SideSteady(z, c)
  <2>1. Replying(z, c)' => Replying(z, c) /\ pump'[z] = pump[z]
    BY <1>1 DEF Replying
  <2>2. /\ EntrySteady(z, c) \/ conn'[z][c] = conn[z][c]
        /\ Exists(z, c)' => conn'[z][c].transmitting = conn[z][c].transmitting
    <3>1. CASE z = Other(e)
      BY <1>1, <3>1
    <3>2. CASE z = e
      <4>1. PICK k \in Connections : k = conn[e][c]
        BY DEF TypeOK
      <4>2. PICK k2 : k2 = [k EXCEPT !.state = "reset"]
        OBVIOUS
      <4>3. /\ k2.state = "reset" /\ k2.receive = k.receive /\ k2.fwd = k.fwd /\ k2.tx = k.tx
            /\ k2.peerBuf = k.peerBuf /\ k2.peerFwd = k.peerFwd /\ k2.transmitting = k.transmitting
        BY <4>1, <4>2 DEF Connections
      <4>4. CASE Exists(e, c)
        <5>1. conn'[e][c] = k2
          BY <1>1, <4>1, <4>2, <4>4
        <5>2. k2.state \notin Live
          BY <4>3 DEF Live
        <5> QED BY <3>2, <4>1, <4>3, <4>4, <5>1, <5>2 DEF EntrySteady
      <4>5. CASE ~Exists(e, c)
        BY <1>1, <3>2, <4>5, FreeFields DEF EntrySteady, Exists
      <4> QED BY <4>4, <4>5
    <3> QED BY <3>1, <3>2, EndsFacts
  <2> QED BY <1>1, <2>1, <2>2, SideIsSteady, TaskFacts
<1> QED BY <1>1, <1>2, StreamSteady

LEMMA StreamReply ==
  ASSUME TypeOK, TypeOK', NEW e \in Ends, NEW c \in Conns, TableOf(c), StreamOf(c), ReplyStep(e, c)
  PROVE  StreamOf(c)'
<1>0. ReplyEffect(e) /\ pump[e].c = c
  BY ReplyFacts DEF ReplyStep
<1>o. PICK o \in Ends : o = Other(e) /\ e = Other(o) /\ o # e /\ (\A z \in Ends : z = e \/ z = o)
  BY EndsFacts
<1>1. PICK p \in Packets : p = pump[e] /\ p.c = c /\ p # NoPacket
  BY <1>0, NoPacketFacts DEF ReplyEffect
<1>2. /\ pump'[e] = NoPacket /\ pump'[o] = pump[o] /\ wire'[e] = wire[e]
      /\ wire'[o] = Append(wire[o], p) \/ wire'[o] = wire[o]
      /\ UNCHANGED <<plan, conn, pc, packet, done, drained, got>> /\ wire[o] \in Seq(Packets)
  BY <1>0, <1>1, <1>o DEF ReplyEffect, TypeOK
<1>3. Replying(e, c) /\ p.op \in {"reset", "response", "creditUpdate"}
  BY <1>1 DEF TableOf, OrderOf, Replying
<1>4. PICK x \in Nat : x = Taken(e, c) /\ Credible(p, x)
  BY <1>1, <1>3, StreamTypes DEF StreamOf, NewsOf
<1>5. Honest(wire[o], c, x) => Honest(wire'[o], c, x)
  <2>1. ASSUME Honest(wire[o], c, x) PROVE Honest(Append(wire[o], p), c, x)
    <3>1. x <= x
      BY <1>4
    <3> QED BY <1>2, <1>4, <2>1, <3>1, HonestQueue
  <2> QED BY <1>2, <2>1
<1>6. \A r, s \in Nat : Spells(wire[o], c, r, s) => Spells(wire'[o], c, r, s)
  <2>1. ~IsData(p, c)
    BY <1>3 DEF IsData
  <2>2. \A r, s \in Nat : Spells(wire[o], c, r, s) => Spells(Append(wire[o], p), c, r, s)
    BY <1>2, <2>1, SpellsPast
  <2> QED BY <1>2, <2>2
<1>7. SideSteady(e, c)
  <2>1. ~Replying(e, c)'
    BY <1>2 DEF Replying
  <2>2. Honest(wire[Other(e)], c, Taken(e, c)) => Honest(wire'[Other(e)], c, Taken(e, c))
    BY <1>4, <1>5, <1>o
  <2> QED BY <1>2, <2>1, <2>2, SideIsSteady, TaskFacts
<1>8. SideSteady(o, c)
  <2>1. Replying(o, c)' => Replying(o, c) /\ pump'[o] = pump[o]
    BY <1>2 DEF Replying
  <2>2. Honest(wire[Other(o)], c, Taken(o, c)) => Honest(wire'[Other(o)], c, Taken(o, c))
    BY <1>2, <1>o
  <2> QED BY <1>2, <1>6, <2>1, <2>2, SideIsSteady, TaskFacts
<1> QED BY <1>2, <1>7, <1>8, <1>o, StreamSteady

LEMMA FarSteady ==
  ASSUME TypeOK, NEW e \in Ends, NEW c \in Conns, TableOf(c), StreamOf(c), TaskKeeps(e, c),
         \A r, s \in Nat : Spells(wire[Other(e)], c, r, s) => Spells(wire'[Other(e)], c, r, s)
  PROVE  SideSteady(Other(e), c)
<1>o. PICK o \in Ends : o = Other(e) /\ e = Other(o) /\ o # e
  BY EndsFacts
<1>1. SideKept(o, c) /\ pump' = pump /\ wire'[e] = wire[e]
  BY <1>o DEF TaskKeeps
<1>2. /\ conn'[o][c] = conn[o][c] /\ done'[o][c] = done[o][c] /\ got'[o][c] = got[o][c]
      /\ drained'[o][c] = drained[o][c]
      /\ \A t \in Tasks : pc'[o][c][t] = pc[o][c][t] /\ packet'[o][c][t] = packet[o][c][t]
  BY <1>1 DEF SideKept
<1>3. Replying(o, c)' => Replying(o, c) /\ pump'[o] = pump[o]
  BY <1>1 DEF Replying
<1>4. Honest(wire[Other(o)], c, Taken(o, c)) => Honest(wire'[Other(o)], c, Taken(o, c))
  BY <1>1, <1>o
<1>5. \A r, s \in Nat : Spells(wire[o], c, r, s) => Spells(wire'[o], c, r, s)
  BY <1>o
<1>6. SideSteady(o, c)
  BY <1>2, <1>3, <1>4, <1>5, SideIsSteady, TaskFacts
<1> QED BY <1>6, <1>o

\* A task step that moves no byte: task t goes from x to y with packet q.
LEMMA StreamQuietly ==
  ASSUME TypeOK, TypeOK', NEW e \in Ends, NEW c \in Conns, TableOf(c), StreamOf(c), TaskKeeps(e, c),
         NEW t \in Tasks, NEW x, NEW y, NEW q,
         pc[e][c][t] = x, pc'[e][c][t] = y, packet'[e][c][t] = q,
         \A u \in Tasks : u # t => pc'[e][c][u] = pc[e][c][u] /\ packet'[e][c][u] = packet[e][c][u],
         x # "sent", y \notin {"data", "sent"},
         q # NoPacket => Credible(q, Taken(e, c)),
         done'[e][c] = done[e][c], Taken(e, c)' = Taken(e, c),
         pc'[e][c]["reader"] \notin {"creditUpdate", "gone"} => drained'[e][c] = <<>>,
         EntrySteady(e, c) \/ conn'[e][c] = conn[e][c],
         Exists(e, c)' => conn'[e][c].transmitting = conn[e][c].transmitting \/ (t \in Writers /\ x = "data"),
         \/ wire'[Other(e)] = wire[Other(e)]
         \/ \E p \in Packets : ~IsData(p, c) /\ Credible(p, Taken(e, c)) /\ wire'[Other(e)] = Append(wire[Other(e)], p)
  PROVE  StreamOf(c)'
<1>o. PICK o \in Ends : o = Other(e) /\ e = Other(o) /\ o # e /\ (\A z \in Ends : z = e \/ z = o)
  BY EndsFacts
<1>p. plan' = plan /\ pump' = pump /\ wire'[e] = wire[e]
  BY DEF TaskKeeps
<1>x. PICK n \in Nat : n = Taken(e, c) /\ n <= n
  BY StreamTypes
<1>q. wire[o] \in Seq(Packets)
  BY DEF TypeOK
<1>1. \A r, s \in Nat : Spells(wire[o], c, r, s) => Spells(wire'[o], c, r, s)
  <2>1. CASE wire'[o] = wire[o]
    BY <2>1
  <2>2. ASSUME NEW p \in Packets, ~IsData(p, c), wire'[o] = Append(wire[o], p)
        PROVE  \A r, s \in Nat : Spells(wire[o], c, r, s) => Spells(wire'[o], c, r, s)
    BY <1>q, <2>2, SpellsPast
  <2> QED BY <1>o, <2>1, <2>2
<1>2. Honest(wire[o], c, n) => Honest(wire'[o], c, n)
  <2>1. CASE wire'[o] = wire[o]
    BY <2>1
  <2>2. ASSUME NEW p \in Packets, Credible(p, n), wire'[o] = Append(wire[o], p), Honest(wire[o], c, n)
        PROVE  Honest(wire'[o], c, n)
    BY <1>q, <1>x, <2>2, HonestQueue
  <2> QED BY <1>o, <1>x, <2>1, <2>2
<1>3. SideSteady(o, c)
  <2>1. \A r, s \in Nat : Spells(wire[Other(e)], c, r, s) => Spells(wire'[Other(e)], c, r, s)
    BY <1>1, <1>o
  <2> QED BY <1>o, <2>1, FarSteady
<1>4. EntrySteady(e, c)
  <2>1. conn[e][c] = Free \/ Exists(e, c)
    BY DEF TableOf, SlotOf
  <2> QED BY <2>1 DEF EntrySteady
<1>5. HoldsKept(e, c)
  <2>1. Exists(e, c)' => Exists(e, c)
    BY <1>4, FreeFields DEF EntrySteady, Exists
  <2>2. ASSUME NEW w \in Writers
        PROVE  /\ pc'[e][c][w] = "sent" <=> pc[e][c][w] = "sent"
               /\ Holds(e, c, w)' => Holds(e, c, w) /\ packet'[e][c][w] = packet[e][c][w]
    <3>1. w \in Tasks
      BY TaskFacts
    <3>2. CASE w = t
      BY <3>2 DEF Holds
    <3>3. CASE w # t
      BY <3>1, <3>3 DEF Holds
    <3> QED BY <3>2, <3>3
  <2>3. ASSUME NEW w \in Writers, Holds(e, c, w)', Exists(e, c)' PROVE conn'[e][c].transmitting = conn[e][c].transmitting
    <3>1. Holds(e, c, w)
      BY <2>2, <2>3
    <3>2. ~(t \in Writers /\ x = "data")
      <4> SUFFICES ASSUME t \in Writers, x = "data" PROVE FALSE
        OBVIOUS
      <4>1. Holds(e, c, t)
        BY DEF Holds
      <4>2. w = t
        BY <3>1, <4>1 DEF StreamOf, WriteOf
      <4> QED BY <2>3, <4>2 DEF Holds
    <3> QED BY <2>3, <3>2
  <2> QED BY <2>1, <2>2, <2>3 DEF HoldsKept
<1>6. SideSteady(e, c)
  <2>1. Replying(e, c)' => Replying(e, c) /\ pump'[e] = pump[e]
    BY <1>p DEF Replying
  <2>2. Honest(wire[Other(e)], c, Taken(e, c)) => Honest(wire'[Other(e)], c, Taken(e, c))
    BY <1>2, <1>o, <1>x
  <2>3. \A u \in Tasks : packet'[e][c][u] # NoPacket => packet'[e][c][u] = packet[e][c][u] \/ Credible(packet'[e][c][u], Taken(e, c))
    OBVIOUS
  <2> QED BY <1>4, <1>5, <1>p, <2>1, <2>2, <2>3 DEF SideSteady
<1> QED BY <1>3, <1>6, <1>o, <1>p, StreamSteady

\* So does a decision on a packet without data.
LEMMA StreamDecides ==
  ASSUME TypeOK, TypeOK', NEW e \in Ends, NEW c \in Conns, TableOf(c), StreamOf(c), TaskKeeps(e, c),
         NEW t \in Tasks, NEW x, NEW p \in Packets, NEW k \in Connections, Decision(e, c, t, x, p, k),
         x \notin {"data", "sent"}, p.op \in {"creditRequest", "shutdown", "reset"}, t # "reader", drained' = drained,
         p.buf = Window, p.fwd = conn[e][c].fwd, Exists(e, c),
         \/ k = Free
         \/ /\ k.state = conn[e][c].state /\ k.receive = conn[e][c].receive /\ k.fwd = conn[e][c].fwd
            /\ k.tx = conn[e][c].tx /\ k.peerBuf = conn[e][c].peerBuf /\ k.peerFwd = conn[e][c].peerFwd
            /\ k.transmitting = conn[e][c].transmitting
  PROVE  StreamOf(c)'
<1>1. p.op \in Carried /\ p.op \notin {"data", "sent"}
  BY DEF Carried
<1>2. DecisionEffect(e, c, t, x, p, k)
  BY <1>1, DecisionFacts
<1>3. /\ pc[e][c][t] = x /\ pc'[e][c][t] = p.op /\ packet'[e][c][t] = p /\ conn'[e][c] = k
      /\ \A u \in Tasks : u # t => pc'[e][c][u] = pc[e][c][u] /\ packet'[e][c][u] = packet[e][c][u]
      /\ UNCHANGED <<wire, done, got>>
  BY <1>2 DEF DecisionEffect
<1>4. Credible(p, Taken(e, c))
  <2>1. p.fwd = Taken(e, c) /\ Taken(e, c) \in Nat
    BY StreamTypes DEF StreamOf, EntryOf
  <2> QED BY <2>1 DEF Credible
<1>5. EntrySteady(e, c) /\ (Exists(e, c)' => conn'[e][c].transmitting = conn[e][c].transmitting)
  BY <1>3, FreeFields DEF EntrySteady, Exists
<1>6. Taken(e, c)' = Taken(e, c)
  BY <1>3 DEF Taken
<1>7. pc'[e][c]["reader"] \notin {"creditUpdate", "gone"} => drained'[e][c] = <<>>
  BY <1>3, TaskFacts DEF StreamOf, ReadOf
<1> QED BY <1>1, <1>3, <1>4, <1>5, <1>6, <1>7, StreamQuietly

LEMMA SameCounters ==
  ASSUME NEW k \in Connections
  PROVE  /\ \A d : LET k2 == [Announced(k) EXCEPT !.local = d] IN
              /\ k2.state = k.state /\ k2.receive = k.receive /\ k2.fwd = k.fwd
              /\ k2.tx = k.tx /\ k2.peerBuf = k.peerBuf /\ k2.peerFwd = k.peerFwd
              /\ k2.transmitting = k.transmitting
         /\ LET k2 == [Announced(k) EXCEPT !.asked = TRUE] IN
              /\ k2.state = k.state /\ k2.receive = k.receive /\ k2.fwd = k.fwd
              /\ k2.tx = k.tx /\ k2.peerBuf = k.peerBuf /\ k2.peerFwd = k.peerFwd
              /\ k2.transmitting = k.transmitting
         /\ LET k2 == [Announced(k) EXCEPT !.transmitting = TRUE] IN
              /\ k2.state = k.state /\ k2.receive = k.receive /\ k2.fwd = k.fwd
              /\ k2.tx = k.tx /\ k2.peerBuf = k.peerBuf /\ k2.peerFwd = k.peerFwd
              /\ k2.transmitting = TRUE
         /\ LET k2 == [k EXCEPT !.transmitting = FALSE] IN
              /\ k2.state = k.state /\ k2.receive = k.receive /\ k2.fwd = k.fwd
              /\ k2.tx = k.tx /\ k2.peerBuf = k.peerBuf /\ k2.peerFwd = k.peerFwd
  BY DEF Connections, Announced

LEMMA StreamControl ==
  ASSUME TypeOK, TypeOK', NEW e \in Ends, NEW c \in Conns, TableOf(c), StreamOf(c), TaskKeeps(e, c)
  PROVE  /\ \A w \in Writers : Asks(e, c, w) => StreamOf(c)'
         /\ \A x : Abandons(e, c, x) => StreamOf(c)'
         /\ \A dirs : Shuts(e, c, dirs) => StreamOf(c)'
<1>k. PICK k0 \in Connections : k0 = conn[e][c]
  BY DEF TypeOK
<1>l. "established" \in Live /\ "none" \notin Live
  BY DEF Live
<1>1. ASSUME NEW w \in Writers, Asks(e, c, w) PROVE StreamOf(c)'
  <2>1. PICK p : p = Header("creditRequest", c, conn[e][c])
    OBVIOUS
  <2>2. PICK k : k = [Announced(k0) EXCEPT !.asked = TRUE]
    OBVIOUS
  <2>3. p \in Packets /\ k \in Connections /\ p.op = "creditRequest" /\ p.buf = Window /\ p.fwd = conn[e][c].fwd
    BY <1>1, <1>k, <2>1, <2>2, DecisionKinds DEF Header
  <2>4. Decision(e, c, w, "blocked", p, k) /\ Exists(e, c) /\ drained' = drained
    BY <1>1, <1>k, <2>1, <2>2 DEF Asks, Exists
  <2>5. /\ k.state = k0.state /\ k.receive = k0.receive /\ k.fwd = k0.fwd
        /\ k.tx = k0.tx /\ k.peerBuf = k0.peerBuf /\ k.peerFwd = k0.peerFwd
        /\ k.transmitting = k0.transmitting
    BY <2>2, SameCounters
  <2> QED BY <1>k, <2>3, <2>4, <2>5, TaskFacts, StreamDecides
<1>2. ASSUME NEW x, Abandons(e, c, x) PROVE StreamOf(c)'
  <2>1. PICK p : p = Header("reset", c, conn[e][c])
    OBVIOUS
  <2>3. p \in Packets /\ Free \in Connections /\ p.op = "reset" /\ p.buf = Window /\ p.fwd = conn[e][c].fwd
    BY <2>1, DecisionKinds DEF Header
  <2>4. Decision(e, c, "control", x, p, Free) /\ Exists(e, c) /\ drained' = drained /\ x \in {"open", "parked"}
    BY <1>2, <1>l, <2>1 DEF Abandons, Exists
  <2>5. x \notin {"data", "sent"}
    BY <2>4
  <2> QED BY <2>3, <2>4, <2>5, TaskFacts, StreamDecides
<1>3. ASSUME NEW dirs, Shuts(e, c, dirs) PROVE StreamOf(c)'
  <2>1. PICK p : p = ShutPacket(e, c, dirs)
    OBVIOUS
  <2>2. PICK k : k = [Announced(k0) EXCEPT !.local = k0.local \cup dirs]
    OBVIOUS
  <2>3. p \in Packets /\ k \in Connections /\ p.op = "shutdown" /\ p.buf = Window /\ p.fwd = conn[e][c].fwd
    BY <1>3, <1>k, <2>1, <2>2, ShutFacts DEF Shuts
  <2>4. Decision(e, c, "control", "open", p, k) /\ Exists(e, c) /\ drained' = drained
    BY <1>3, <1>k, <1>l, <2>1, <2>2 DEF Shuts, Exists
  <2>5. /\ k.state = k0.state /\ k.receive = k0.receive /\ k.fwd = k0.fwd
        /\ k.tx = k0.tx /\ k.peerBuf = k0.peerBuf /\ k.peerFwd = k0.peerFwd
        /\ k.transmitting = k0.transmitting
    BY <2>2, SameCounters
  <2> QED BY <1>k, <2>3, <2>4, <2>5, TaskFacts, StreamDecides
<1> QED BY <1>1, <1>2, <1>3

LEMMA StreamMoves ==
  ASSUME TypeOK, TypeOK', NEW e \in Ends, NEW c \in Conns, TableOf(c), StreamOf(c), TaskKeeps(e, c),
         NEW t \in Tasks, NEW x, NEW y, Moves(e, c, t, x, y)
  PROVE  StreamOf(c)'
<1>1. MovesEffect(e, c, t, x, y)
  BY MovesFacts
<1>2. /\ pc[e][c][t] = x /\ pc'[e][c][t] = y /\ conn' = conn /\ wire' = wire /\ packet' = packet
      /\ \A u \in Tasks : u # t => pc'[e][c][u] = pc[e][c][u]
      /\ UNCHANGED <<done, got, drained>>
  BY <1>1 DEF MovesEffect
<1>3. x \notin Carried \cup {"sent", "gone"} /\ y \notin Carried \cup {"sent"}
  BY DEF Moves
<1>4. x \notin {"sent", "gone", "creditUpdate"} /\ y \notin {"data", "sent"}
  BY <1>3 DEF Carried
<1>5. packet[e][c][t] = NoPacket
  BY <1>2, <1>3 DEF TableOf, TaskOf
<1>6. pc'[e][c]["reader"] \notin {"creditUpdate", "gone"} => drained'[e][c] = <<>>
  BY <1>2, <1>4, TaskFacts DEF StreamOf, ReadOf
<1>7. Taken(e, c)' = Taken(e, c)
  BY <1>2 DEF Taken
<1> QED BY <1>2, <1>4, <1>5, <1>6, <1>7, StreamQuietly

LEMMA StreamFrees ==
  ASSUME TypeOK, TypeOK', NEW e \in Ends, NEW c \in Conns, TableOf(c), StreamOf(c), TaskKeeps(e, c),
         NEW x, Frees(e, c, x)
  PROVE  StreamOf(c)'
<1>1. FreesEffect(e, c, x) /\ x \in {"open", "armed", "parked"}
  BY FreesFacts DEF Frees
<1>2. /\ pc[e][c]["control"] = x /\ pc'[e][c]["control"] = "gone" /\ conn'[e][c] = Free /\ wire' = wire /\ packet' = packet
      /\ \A u \in Tasks : u # "control" => pc'[e][c][u] = pc[e][c][u]
      /\ UNCHANGED <<done, got, drained>>
  BY <1>1 DEF FreesEffect
<1>3. packet[e][c]["control"] = NoPacket /\ x # "sent"
  <2>1. x \notin Carried \cup {"sent"}
    BY <1>1 DEF Carried
  <2> QED BY <1>2, <2>1, TaskFacts DEF TableOf, TaskOf
<1>4. EntrySteady(e, c) /\ ~Exists(e, c)'
  BY <1>2, FreeFields DEF EntrySteady, Exists
<1>5. pc'[e][c]["reader"] \notin {"creditUpdate", "gone"} => drained'[e][c] = <<>>
  BY <1>2, TaskFacts DEF StreamOf, ReadOf
<1>6. Taken(e, c)' = Taken(e, c)
  BY <1>2 DEF Taken
<1> QED BY <1>2, <1>3, <1>4, <1>5, <1>6, TaskFacts, StreamQuietly

LEMMA StreamFails ==
  ASSUME TypeOK, TypeOK', TaskInv, NEW e \in Ends, NEW c \in Conns, TableOf(c), StreamOf(c), TaskKeeps(e, c),
         NEW t \in Tasks, TransmitFails(e, c, t)
  PROVE  StreamOf(c)'
<1>1. FailureEffect(e, c, t) /\ CarriesItsOwn(e, c, t)
  BY TransmitFailsFacts, TransmitsPacket DEF TransmitFails
<1>2. PICK p \in Packets : p = packet[e][c][t]
  BY <1>1 DEF CarriesItsOwn
<1>3. /\ pc[e][c][t] = p.op /\ p.op \in Carried
      /\ t \in Writers => p.op \in {"data", "creditRequest"}
      /\ t = "reader" => p.op = "creditUpdate"
      /\ t = "control" => p.op \in {"request", "shutdown", "reset"}
  BY <1>1, <1>2 DEF CarriesItsOwn
<1>4. PICK y : y = pc'[e][c][t] /\ (y = IF p.op = "shutdown" THEN "open" ELSE "gone")
  BY <1>1, <1>2 DEF FailureEffect
<1>5. /\ packet'[e][c][t] = NoPacket /\ UNCHANGED <<wire, done, got, drained>>
      /\ \A u \in Tasks : u # t => pc'[e][c][u] = pc[e][c][u] /\ packet'[e][c][u] = packet[e][c][u]
      /\ \/ p.op = "data" /\ Exists(e, c) /\ conn'[e][c] = [conn[e][c] EXCEPT !.transmitting = FALSE]
         \/ p.op = "request" /\ conn'[e][c] = Free
         \/ conn'[e][c] = conn[e][c]
  BY <1>1, <1>2 DEF FailureEffect
<1>6. p.op # "sent" /\ y \notin {"data", "sent"} /\ (p.op = "data" => t \in Writers)
  BY <1>3, <1>4, TaskFacts DEF Carried
<1>7. /\ EntrySteady(e, c) \/ conn'[e][c] = conn[e][c]
      /\ Exists(e, c)' => conn'[e][c].transmitting = conn[e][c].transmitting \/ (t \in Writers /\ p.op = "data")
  <2>1. CASE p.op = "data" /\ Exists(e, c) /\ conn'[e][c] = [conn[e][c] EXCEPT !.transmitting = FALSE]
    <3>1. PICK k0 \in Connections : k0 = conn[e][c]
      BY DEF TypeOK
    <3>2. PICK k : k = [k0 EXCEPT !.transmitting = FALSE]
      OBVIOUS
    <3>3. /\ k.state = k0.state /\ k.receive = k0.receive /\ k.fwd = k0.fwd
          /\ k.tx = k0.tx /\ k.peerBuf = k0.peerBuf /\ k.peerFwd = k0.peerFwd
      BY <3>2, SameCounters
    <3> QED BY <1>6, <2>1, <3>1, <3>2, <3>3 DEF EntrySteady
  <2>2. CASE conn'[e][c] = Free
    BY <2>2, FreeFields DEF EntrySteady, Exists
  <2>3. CASE conn'[e][c] = conn[e][c]
    BY <2>3
  <2> QED BY <1>5, <2>1, <2>2, <2>3
<1>8. pc'[e][c]["reader"] \notin {"creditUpdate", "gone"} => drained'[e][c] = <<>>
  <2>1. CASE t = "reader"
    BY <1>3, <1>4, <2>1
  <2>2. CASE t # "reader"
    BY <1>5, <2>2, TaskFacts DEF StreamOf, ReadOf
  <2> QED BY <2>1, <2>2
<1>9. Taken(e, c)' = Taken(e, c)
  BY <1>5 DEF Taken
<1> QED BY <1>3, <1>4, <1>5, <1>6, <1>7, <1>8, <1>9, StreamQuietly

LEMMA StreamSends ==
  ASSUME TypeOK, TypeOK', TaskInv, NEW e \in Ends, NEW c \in Conns, TableOf(c), StreamOf(c), TaskKeeps(e, c),
         NEW t \in Tasks, Transmit(e, c, t), packet[e][c][t].op # "data"
  PROVE  StreamOf(c)'
<1>1. TransmitEffect(e, c, t) /\ CarriesItsOwn(e, c, t)
  BY TransmitFacts, TransmitsPacket DEF Transmit
<1>2. PICK p \in Packets : p = packet[e][c][t]
  BY <1>1 DEF CarriesItsOwn
<1>3. /\ p.c = c /\ pc[e][c][t] = p.op /\ p.op \in Carried /\ p # NoPacket
      /\ t = "reader" => p.op = "creditUpdate"
  BY <1>1, <1>2, NoPacketFacts DEF CarriesItsOwn
<1>4. PICK y : y = pc'[e][c][t] /\ y = AfterTransmit(p.op)
  BY <1>1, <1>2 DEF TransmitEffect
<1>5. /\ packet'[e][c][t] = NoPacket /\ UNCHANGED <<conn, done>>
      /\ \A u \in Tasks : u # t => pc'[e][c][u] = pc[e][c][u] /\ packet'[e][c][u] = packet[e][c][u]
      /\ wire'[Other(e)] = Append(wire[Other(e)], p)
      /\ t = "reader" => got'[e][c] = got[e][c] \o drained[e][c] /\ drained'[e][c] = <<>>
      /\ t # "reader" => got'[e][c] = got[e][c] /\ drained'[e][c] = drained[e][c]
  BY <1>1, <1>2 DEF TransmitEffect
<1>6. p.op # "sent" /\ y \notin {"data", "sent"} /\ p.op # "data"
  BY <1>2, <1>3, <1>4 DEF AfterTransmit, Carried
<1>7. Taken(e, c)' = Taken(e, c)
  <2>1. CASE t = "reader"
    <3>1. PICK g \in Seq(Nat), d \in Seq(Nat) : g = got[e][c] /\ d = drained[e][c]
      BY DEF TypeOK
    <3>2. Len(g \o d) + Len(<<>>) = Len(g) + Len(d)
      BY <3>1
    <3> QED BY <1>5, <2>1, <3>1, <3>2 DEF Taken
  <2>2. CASE t # "reader"
    BY <1>5, <2>2 DEF Taken
  <2> QED BY <2>1, <2>2
<1>8. pc'[e][c]["reader"] \notin {"creditUpdate", "gone"} => drained'[e][c] = <<>>
  <2>1. CASE t = "reader"
    BY <1>5, <2>1
  <2>2. CASE t # "reader"
    BY <1>5, <2>2, TaskFacts DEF StreamOf, ReadOf
  <2> QED BY <2>1, <2>2
<1>9. ~IsData(p, c) /\ Credible(p, Taken(e, c))
  BY <1>2, <1>3, <1>6 DEF IsData, StreamOf, NewsOf
<1> QED BY <1>2, <1>3, <1>4, <1>5, <1>6, <1>7, <1>8, <1>9, StreamQuietly

\* What a step of a task of end e leaves the other end with.
LEMMA FarSide ==
  ASSUME TypeOK, TypeOK', NEW e \in Ends, NEW o \in Ends, o = Other(e), NEW c \in Conns, StreamOf(c),
         TaskKeeps(e, c), Taken(e, c) <= Taken(e, c)'
  PROVE  /\ WriteOf(o, c)' /\ Sent(o, c)' = Sent(o, c) /\ EntryOf(o, c)' /\ NewsOf(o, c)'
         /\ Taken(o, c)' = Taken(o, c) /\ Arrived(o, c)' = Arrived(o, c) /\ SideKept(o, c)
<1>o. e = Other(o) /\ o # e
  BY EndsFacts
<1>1. SideKept(o, c) /\ pump' = pump /\ wire'[e] = wire[e] /\ plan' = plan
  BY <1>o DEF TaskKeeps
<1>2. /\ conn'[o][c] = conn[o][c] /\ done'[o][c] = done[o][c] /\ got'[o][c] = got[o][c]
      /\ drained'[o][c] = drained[o][c]
      /\ \A t \in Tasks : pc'[o][c][t] = pc[o][c][t] /\ packet'[o][c][t] = packet[o][c][t]
  BY <1>1 DEF SideKept
<1>3. WriteOf(o, c) /\ EntryOf(o, c) /\ NewsOf(o, c)
  BY DEF StreamOf
<1>4. HoldsKept(o, c)
  BY <1>2, TaskFacts DEF HoldsKept, Holds, Exists
<1>5. WriteOf(o, c)' /\ Sent(o, c)' = Sent(o, c)
  BY <1>1, <1>3, <1>4, <1>o, WriteKept
<1>6. Taken(o, c)' = Taken(o, c) /\ Arrived(o, c)' = Arrived(o, c)
  BY <1>2 DEF Taken, Arrived
<1>7. EntryOf(o, c)'
  <2>1. PICK x \in Nat : x = Taken(e, c)
    BY StreamTypes
  <2>2. PICK y \in Nat : y = Taken(e, c)' /\ x <= y
    BY <2>1, StreamTypesNext
  <2>3. PICK f \in Nat : f = conn[o][c].peerFwd
    BY StreamTypes, EntryFields
  <2>5. Exists(o, c) => f <= x
    BY <1>3, <1>o, <2>1, <2>3 DEF EntryOf
  <2>4. Exists(o, c) => f <= y
    BY <2>2, <2>5
  <2> QED BY <1>2, <1>3, <1>6, <1>o, <2>2, <2>3, <2>4 DEF EntryOf, Exists
<1>8. NewsOf(o, c)'
  <2>1. Taken(o, c) <= Taken(o, c)'
    BY <1>6, StreamTypes
  <2>2. Replying(o, c)' => (Replying(o, c) /\ pump'[o] = pump[o]) \/ Credible(pump'[o], Taken(o, c)')
    BY <1>1 DEF Replying
  <2>3. Honest(wire[Other(o)], c, Taken(o, c)') => Honest(wire'[Other(o)], c, Taken(o, c)')
    BY <1>1, <1>o
  <2>4. \A t \in Tasks : packet'[o][c][t] # NoPacket =>
            packet'[o][c][t] = packet[o][c][t] \/ Credible(packet'[o][c][t], Taken(o, c)')
    BY <1>2
  <2> QED BY <1>3, <2>1, <2>2, <2>3, <2>4, NewsKept
<1> QED BY <1>1, <1>5, <1>6, <1>7, <1>8

\* The far reader's side of a step that sends nothing.
LEMMA FarRead ==
  ASSUME TypeOK, TypeOK', NEW e \in Ends, NEW o \in Ends, o = Other(e), NEW c \in Conns, StreamOf(c),
         TaskKeeps(e, c), Sent(e, c)' = Sent(e, c), wire'[o] = wire[o]
  PROVE  ReadOf(o, c)'
<1>o. e = Other(o) /\ o # e
  BY EndsFacts
<1>1. SideKept(o, c)
  BY <1>o DEF TaskKeeps
<1>2. /\ conn'[o][c] = conn[o][c] /\ got'[o][c] = got[o][c] /\ drained'[o][c] = drained[o][c]
      /\ pc'[o][c]["reader"] = pc[o][c]["reader"]
  BY <1>1, TaskFacts DEF SideKept
<1>3. ReadOf(o, c)
  BY DEF StreamOf
<1>4. Arrived(o, c)' = Arrived(o, c)
  BY <1>2 DEF Taken, Arrived
<1> QED BY <1>2, <1>3, <1>4, <1>o DEF ReadOf

LEMMA MinusExact ==
  ASSUME NEW x \in Nat, NEW y \in Nat, y <= x, x < Wrap
  PROVE  Minus(x, y) = x - y
<1>1. Wrap \in Nat
  BY WindowAssumption
<1>2. PICK z \in Nat : z = x - y /\ z < Wrap
  BY <1>1
<1>3. (z + Wrap) % Wrap = z
  BY <1>1, <1>2
<1> QED BY <1>2, <1>3 DEF Minus

\* Credit is counted right while the counters do not come round.
LEMMA CreditBound ==
  ASSUME NEW k \in Connections, NEW t \in Nat, NEW n \in Nat \ {0}, n <= PeerFree(k),
         k.peerBuf <= Window, k.peerFwd <= t, t <= k.tx, k.tx < Wrap
  PROVE  k.tx + n <= t + Window
<1>1. PICK d \in Nat, f \in Nat, b \in Nat : d = k.tx /\ f = k.peerFwd /\ b = k.peerBuf
  BY EntryFields
<1>2. Window \in Nat
  BY WindowAssumption
<1>3. f <= d /\ d < Wrap
  BY <1>1
<1>4. Minus(k.tx, k.peerFwd) = d - f
  BY <1>1, <1>3, MinusExact
<1>5. d - f < b /\ n <= b - (d - f)
  BY <1>1, <1>4 DEF PeerFree
<1> QED BY <1>1, <1>2, <1>5

\* A live writer of a short stream: everything is within the counters.
LEMMA Bounded ==
  ASSUME TypeOK, Short, NEW e \in Ends, NEW c \in Conns, StreamOf(c), c \in DOMAIN plan.bytes
  PROVE  /\ Sent(e, c) \in Nat /\ Sent(e, c) < Wrap /\ Sent(e, c) <= plan.bytes[c][e] /\ done[e][c] <= Sent(e, c)
         /\ Taken(Other(e), c) <= Arrived(Other(e), c) /\ Arrived(Other(e), c) <= Sent(e, c)
<1>1. PICK s \in Nat : s = Sent(e, c) /\ s <= plan.bytes[c][e] /\ done[e][c] <= s
  BY SentFacts DEF StreamOf
<1>2. PICK b \in Nat : b = plan.bytes[c][e] /\ b < Wrap
  BY StreamTypes DEF Short, TypeOK
<1>w. Wrap \in Nat
  BY WindowAssumption
<1>3. s < Wrap
  BY <1>1, <1>2, <1>w
<1>4. Other(Other(e)) = e /\ Other(e) \in Ends
  BY EndsFacts
<1>5. Arrived(Other(e), c) <= Sent(e, c)
  BY <1>4 DEF StreamOf, ReadOf
<1> QED BY <1>1, <1>3, <1>4, <1>5, StreamTypes

LEMMA StreamWrites ==
  ASSUME TypeOK, TypeOK', BirthInv, Short, NEW e \in Ends, NEW c \in Conns, TableOf(c), StreamOf(c), TaskKeeps(e, c),
         NEW w \in Writers, NEW n, Writes(e, c, w, n)
  PROVE  StreamOf(c)'
<1>o. PICK o \in Ends : o = Other(e) /\ e = Other(o) /\ o # e /\ (\A z \in Ends : z = e \/ z = o)
  BY EndsFacts
<1>t. w \in Tasks /\ w # "reader" /\ plan' = plan /\ pump' = pump
  BY TaskFacts DEF TaskKeeps
<1>k. PICK k0 \in Connections : k0 = conn[e][c]
  BY DEF TypeOK
<1>n. /\ k0.state = "established" /\ ~k0.transmitting /\ n \in Nat \ {0} /\ n <= PeerFree(k0)
      /\ n <= plan.bytes[c][e] - done[e][c]
  BY <1>k DEF Writes
<1>p. PICK p \in Packets : /\ p = DataPacket(e, c, n) /\ p.op = "data" /\ p.c = c /\ p.buf = Window
                           /\ p.fwd = k0.fwd /\ p.payload = [i \in 1 .. n |-> done[e][c] + i]
  <2>1. n \in Nat
    BY <1>n
  <2>2. DataPacket(e, c, n) \in Packets
    BY <2>1, DecisionTypes
  <2>3. /\ DataPacket(e, c, n).op = "data" /\ DataPacket(e, c, n).c = c
        /\ DataPacket(e, c, n).buf = Window /\ DataPacket(e, c, n).fwd = conn[e][c].fwd
        /\ DataPacket(e, c, n).payload = [i \in 1 .. n |-> done[e][c] + i]
    BY DEF DataPacket, Header
  <2> QED BY <1>k, <2>2, <2>3
<1>q. PICK k \in Connections : k = [Announced(k0) EXCEPT !.transmitting = TRUE]
  BY <1>k, DecisionTypes
<1>s. /\ k.state = k0.state /\ k.receive = k0.receive /\ k.fwd = k0.fwd
      /\ k.tx = k0.tx /\ k.peerBuf = k0.peerBuf /\ k.peerFwd = k0.peerFwd /\ k.transmitting
  <2>1. /\ k.state = k0.state /\ k.receive = k0.receive /\ k.fwd = k0.fwd
        /\ k.tx = k0.tx /\ k.peerBuf = k0.peerBuf /\ k.peerFwd = k0.peerFwd /\ k.transmitting = TRUE
    BY <1>q, SameCounters
  <2> QED BY <2>1
<1>1. Decision(e, c, w, "armed", p, k) /\ drained' = drained
  BY <1>k, <1>p, <1>q DEF Writes
<1>2. DecisionEffect(e, c, w, "armed", p, k)
  BY <1>1, <1>p, <1>t, DecisionFacts DEF Carried
<1>3. /\ pc[e][c][w] = "armed" /\ pc'[e][c][w] = "data" /\ packet'[e][c][w] = p /\ conn'[e][c] = k
      /\ \A u \in Tasks : u # w => pc'[e][c][u] = pc[e][c][u] /\ packet'[e][c][u] = packet[e][c][u]
      /\ UNCHANGED <<wire, done, got, drained>>
  BY <1>1, <1>2, <1>p DEF DecisionEffect
<1>4. Exists(e, c) /\ Exists(e, c)' /\ c \in DOMAIN plan.bytes /\ plan.bytes[c][e] \in Nat
  BY <1>3, <1>k, <1>n, <1>s, <1>t, BegunIsPlanned DEF Exists
<1>5. \A v \in Writers : ~Holds(e, c, v)
  BY <1>4, <1>k, <1>n DEF StreamOf, WriteOf
<1>6. PICK d \in Nat : d = done[e][c] /\ Sent(e, c) = d
  BY <1>5, SentFacts, StreamTypes DEF StreamOf, Holds
<1>7. \A v \in Writers : Holds(e, c, v)' => v = w
  BY <1>3, <1>5, TaskFacts DEF Holds
<1>8. Sent(e, c)' = d
  <2>1. \A v \in Writers : pc'[e][c][v] # "sent"
    BY <1>3, <1>5, TaskFacts DEF Holds
  <2>2. Sent(e, c)' = Total(done'[e][c], pc'[e][c], packet'[e][c])
    BY DEF Sent, Total
  <2> QED BY <1>3, <1>6, <2>1, <2>2, TotalNone
<1>9. Consecutive(p.payload, d) /\ Len(p.payload) = n
  BY <1>6, <1>n, <1>p DEF Consecutive
<1>10. PICK x \in Nat : x = Taken(o, c) /\ d + n <= x + Window
  <2>1. PICK y \in Nat : y = Taken(o, c)
    BY StreamTypes
  <2>2. PICK a \in Nat : a = Arrived(o, c) /\ y <= a /\ a <= d
    BY <1>4, <1>6, <1>o, <2>1, Bounded, StreamTypes
  <2>3. d < Wrap
    BY <1>4, <1>6, Bounded
  <2>4. k0.tx = d /\ k0.peerBuf <= Window /\ k0.peerFwd <= y
    BY <1>4, <1>6, <1>k, <1>o, <2>1 DEF StreamOf, EntryOf
  <2>5. y <= k0.tx /\ k0.tx < Wrap
    BY <2>2, <2>3, <2>4
  <2>6. k0.tx + n <= y + Window
    BY <1>n, <2>4, <2>5, CreditBound
  <2> QED BY <2>1, <2>4, <2>6
<1>11. d + n <= plan.bytes[c][e]
  BY <1>4, <1>6, <1>n
<1>12. Taken(e, c)' = Taken(e, c) /\ Arrived(e, c)' = Arrived(e, c) /\ Taken(e, c) <= Taken(e, c)' /\ Arrived(e, c)' <= Arrived(e, c)
  <2>1. Taken(e, c)' = Taken(e, c) /\ Arrived(e, c)' = Arrived(e, c)
    BY <1>3, <1>k, <1>s DEF Taken, Arrived
  <2> QED BY <2>1, StreamTypes
<1>13. /\ WriteOf(o, c)' /\ Sent(o, c)' = Sent(o, c) /\ EntryOf(o, c)' /\ NewsOf(o, c)' /\ Taken(o, c)' = x
  BY <1>10, <1>12, <1>o, FarSide
<1>14. WriteOf(e, c)'
  <2>1. done'[e][c] = d /\ Taken(Other(e), c)' = x /\ plan' = plan
    BY <1>3, <1>6, <1>13, <1>o, <1>t
  <2>2. d <= plan.bytes[c][e] /\ d <= x + Window
    BY <1>4, <1>6, <1>10, <1>o DEF StreamOf, WriteOf
  <2>3. ASSUME NEW v \in Writers, Holds(e, c, v)'
        PROVE  /\ c \in DOMAIN plan.bytes /\ Consecutive(packet'[e][c][v].payload, d)
               /\ d + Len(packet'[e][c][v].payload) <= plan.bytes[c][e]
               /\ d + Len(packet'[e][c][v].payload) <= x + Window
               /\ conn'[e][c].transmitting
    <3>1. packet'[e][c][v] = p
      BY <1>3, <1>7, <2>3
    <3> QED BY <1>3, <1>4, <1>9, <1>10, <1>11, <1>s, <3>1
  <2> QED BY <1>7, <2>1, <2>2, <2>3 DEF WriteOf
<1>15. ReadOf(e, c)'
  <2>1. ReadOf(e, c) /\ WriteOf(Other(e), c) /\ Sent(Other(e), c)' = Sent(Other(e), c)
    BY <1>13, <1>o DEF StreamOf
  <2>2. pc'[e][c]["reader"] = pc[e][c]["reader"]
    BY <1>3, <1>t, TaskFacts
  <2>3. pc'[e][c]["reader"] \notin {"creditUpdate", "gone"} => drained'[e][c] = <<>>
    BY <1>3, <2>1, <2>2 DEF ReadOf
  <2>4. conn'[e][c].state \in Live => conn[e][c].state \in Live /\ Arrived(e, c)' = Arrived(e, c)
    BY <1>3, <1>12, <1>k, <1>s
  <2>5. \A r, s \in Nat : Spells(wire[e], c, r, s) => Spells(wire'[e], c, r, s)
    BY <1>3
  <2> QED BY <1>12, <2>1, <2>3, <2>4, <2>5, ReadKept
<1>16. EntryOf(e, c)'
  <2>1. EntrySteady(e, c)
    BY <1>3, <1>4, <1>k, <1>s DEF EntrySteady
  <2>2. EntryOf(e, c) /\ done'[e][c] = done[e][c] /\ Taken(Other(e), c)' = Taken(Other(e), c)
    BY <1>3, <1>10, <1>13, <1>o DEF StreamOf
  <2> QED BY <1>12, <2>1, <2>2, EntryKept
<1>17. NewsOf(e, c)'
  <2>1. Credible(p, Taken(e, c)')
    <3>1. p.fwd = Taken(e, c)' /\ Taken(e, c)' \in Nat
      BY <1>4, <1>12, <1>k, <1>p, StreamTypes DEF StreamOf, EntryOf
    <3> QED BY <1>p, <3>1 DEF Credible
  <2>2. Replying(e, c)' => (Replying(e, c) /\ pump'[e] = pump[e]) \/ Credible(pump'[e], Taken(e, c)')
    BY <1>t DEF Replying
  <2>3. Honest(wire[Other(e)], c, Taken(e, c)') => Honest(wire'[Other(e)], c, Taken(e, c)')
    BY <1>3
  <2>4. \A u \in Tasks : packet'[e][c][u] # NoPacket => packet'[e][c][u] = packet[e][c][u] \/ Credible(packet'[e][c][u], Taken(e, c)')
    BY <1>3, <2>1
  <2>5. NewsOf(e, c)
    BY DEF StreamOf
  <2> QED BY <1>12, <2>2, <2>3, <2>4, <2>5, NewsKept
<1>18. ReadOf(o, c)'
  <2>1. Sent(e, c)' = Sent(e, c) /\ wire'[o] = wire[o]
    BY <1>3, <1>6, <1>8
  <2> QED BY <1>o, <2>1, FarRead
<1> QED BY <1>13, <1>14, <1>15, <1>16, <1>17, <1>18, <1>o DEF StreamOf

LEMMA BelowWrap ==
  ASSUME NEW x \in Nat, x < Wrap
  PROVE  x % Wrap = x
<1>1. Wrap \in Nat
  BY WindowAssumption
<1> QED BY <1>1

\* The step that puts a data packet on the wire.
LEMMA StreamLeaves ==
  ASSUME TypeOK, TypeOK', TaskInv, NEW e \in Ends, NEW c \in Conns, TableOf(c), StreamOf(c), TaskKeeps(e, c),
         NEW w \in Tasks, Transmit(e, c, w), packet[e][c][w].op = "data"
  PROVE  StreamOf(c)'
<1>o. PICK o \in Ends : o = Other(e) /\ e = Other(o) /\ o # e /\ (\A z \in Ends : z = e \/ z = o)
  BY EndsFacts
<1>1. TransmitEffect(e, c, w) /\ CarriesItsOwn(e, c, w)
  BY TransmitFacts, TransmitsPacket DEF Transmit
<1>2. PICK p \in Packets : p = packet[e][c][w] /\ p.op = "data" /\ p.c = c
  BY <1>1 DEF CarriesItsOwn
<1>3. w \in Writers /\ pc[e][c][w] = "data" /\ w # "reader" /\ p # NoPacket
  BY <1>1, <1>2, TaskFacts, NoPacketFacts DEF CarriesItsOwn
<1>4. /\ pc'[e][c][w] = "sent" /\ packet'[e][c][w] = p /\ UNCHANGED <<plan, conn, done, pump>>
      /\ \A u \in Tasks : u # w => pc'[e][c][u] = pc[e][c][u] /\ packet'[e][c][u] = packet[e][c][u]
      /\ wire'[o] = Append(wire[o], p) /\ wire'[e] = wire[e] /\ wire[o] \in Seq(Packets)
      /\ got'[e][c] = got[e][c] /\ drained'[e][c] = drained[e][c]
  BY <1>1, <1>2, <1>3, <1>o DEF TransmitEffect, AfterTransmit, TypeOK
<1>5. Taken(e, c)' = Taken(e, c) /\ Arrived(e, c)' = Arrived(e, c) /\ Taken(e, c) <= Taken(e, c)' /\ Arrived(e, c)' <= Arrived(e, c)
  <2>1. Taken(e, c)' = Taken(e, c) /\ Arrived(e, c)' = Arrived(e, c)
    BY <1>4 DEF Taken, Arrived
  <2> QED BY <2>1, StreamTypes
<1>6. /\ WriteOf(o, c)' /\ Sent(o, c)' = Sent(o, c) /\ EntryOf(o, c)' /\ NewsOf(o, c)' /\ Taken(o, c)' = Taken(o, c)
      /\ Arrived(o, c)' = Arrived(o, c) /\ SideKept(o, c)
  BY <1>5, <1>o, FarSide
<1>7. Holds(e, c, w) /\ \A v \in Writers : Holds(e, c, v) => v = w
  BY <1>3 DEF StreamOf, WriteOf, Holds
<1>8. \A v \in Writers : Holds(e, c, v)' => v = w
  BY <1>4, <1>7, TaskFacts DEF Holds
<1>9. PICK d \in Nat, m \in Nat :
        /\ d = done[e][c] /\ m = Len(p.payload) /\ Consecutive(p.payload, d) /\ c \in DOMAIN plan.bytes
        /\ d + m <= plan.bytes[c][e] /\ d + m <= Taken(o, c) + Window
        /\ d <= plan.bytes[c][e] /\ d <= Taken(o, c) + Window
        /\ (Exists(e, c) => conn[e][c].transmitting)
  <2>1. PICK d \in Nat, m \in Nat : d = done[e][c] /\ m = Len(p.payload)
    BY <1>2, StreamTypes, PacketFields
  <2>2. WriteOf(e, c)
    BY DEF StreamOf
  <2>3. /\ c \in DOMAIN plan.bytes /\ Consecutive(packet[e][c][w].payload, done[e][c])
        /\ done[e][c] + Len(packet[e][c][w].payload) <= plan.bytes[c][e]
        /\ done[e][c] + Len(packet[e][c][w].payload) <= Taken(Other(e), c) + Window
        /\ Exists(e, c) => conn[e][c].transmitting
    BY <1>3, <1>7, <2>2 DEF WriteOf
  <2>4. done[e][c] <= plan.bytes[c][e] /\ done[e][c] <= Taken(Other(e), c) + Window
    BY <2>2, <2>3 DEF WriteOf
  <2> QED BY <1>2, <1>o, <2>1, <2>3, <2>4
<1>10. Sent(e, c) = d /\ Sent(e, c)' = d + m
  <2>1. \A v \in Writers : pc[e][c][v] # "sent"
    BY <1>3, <1>7 DEF Holds
  <2>2. Sent(e, c) = d
    BY <1>9, <2>1, SentFacts DEF StreamOf
  <2>3. Sent(e, c)' = Total(done'[e][c], pc'[e][c], packet'[e][c])
    BY DEF Sent, Total
  <2>4. PICK f, g : f = pc'[e][c] /\ g = packet'[e][c]
    OBVIOUS
  <2>5. f[w] = "sent" /\ \A v \in Writers : f[v] = "sent" => v = w
    BY <1>4, <1>8, <2>4 DEF Holds
  <2>6. Total(d, f, g) = d + Len(g[w].payload)
    BY <1>3, <2>5, TotalOne
  <2> QED BY <1>4, <1>9, <2>2, <2>3, <2>4, <2>6
<1>11. WriteOf(e, c)'
  <2>1. done'[e][c] = d /\ Taken(Other(e), c)' = Taken(o, c) /\ plan' = plan /\ (Exists(e, c)' => conn'[e][c].transmitting)
    BY <1>4, <1>6, <1>9, <1>o DEF Exists
  <2>3. ASSUME NEW v \in Writers, Holds(e, c, v)' PROVE packet'[e][c][v] = p
    BY <1>4, <1>8, <2>3
  <2> QED BY <1>8, <1>9, <2>1, <2>3 DEF WriteOf
<1>12. ReadOf(e, c)'
  <2>1. ReadOf(e, c) /\ WriteOf(Other(e), c) /\ Sent(Other(e), c)' = Sent(Other(e), c)
    BY <1>6, <1>o DEF StreamOf
  <2>2. pc'[e][c]["reader"] = pc[e][c]["reader"]
    BY <1>3, <1>4, TaskFacts
  <2>3. pc'[e][c]["reader"] \notin {"creditUpdate", "gone"} => drained'[e][c] = <<>>
    BY <1>4, <2>1, <2>2 DEF ReadOf
  <2>4. conn'[e][c].state \in Live => conn[e][c].state \in Live /\ Arrived(e, c)' = Arrived(e, c)
    BY <1>4, <1>5
  <2>5. \A r, s \in Nat : Spells(wire[e], c, r, s) => Spells(wire'[e], c, r, s)
    BY <1>4
  <2> QED BY <1>5, <2>1, <2>3, <2>4, <2>5, ReadKept
<1>13. EntryOf(e, c)'
  BY <1>4, <1>5, <1>6, <1>o DEF StreamOf, EntryOf, Exists
<1>14. NewsOf(e, c)'
  <2>1. PICK x \in Nat : x = Taken(e, c)' /\ x = Taken(e, c)
    BY <1>5, StreamTypes
  <2>2. NewsOf(e, c) /\ Credible(p, x)
    BY <1>2, <1>3, <2>1 DEF StreamOf, NewsOf
  <2>3. Replying(e, c)' => (Replying(e, c) /\ pump'[e] = pump[e]) \/ Credible(pump'[e], Taken(e, c)')
    BY <1>4 DEF Replying
  <2>4. Honest(wire[Other(e)], c, Taken(e, c)') => Honest(wire'[Other(e)], c, Taken(e, c)')
    <3>1. x <= x
      OBVIOUS
    <3>2. Honest(wire[o], c, x) => Honest(Append(wire[o], p), c, x)
      BY <1>4, <2>2, <3>1, HonestQueue
    <3> QED BY <1>4, <1>o, <2>1, <3>2
  <2>5. \A u \in Tasks : packet'[e][c][u] # NoPacket => packet'[e][c][u] = packet[e][c][u] \/ Credible(packet'[e][c][u], Taken(e, c)')
    BY <1>2, <1>4
  <2> QED BY <1>5, <2>2, <2>3, <2>4, <2>5, NewsKept
<1>15. ReadOf(o, c)'
  <2>1. /\ conn'[o][c] = conn[o][c] /\ drained'[o][c] = drained[o][c] /\ pc'[o][c]["reader"] = pc[o][c]["reader"]
    BY <1>6, TaskFacts DEF SideKept
  <2>2. PICK r \in Nat : r = Arrived(o, c) /\ r = Arrived(o, c)'
    BY <1>6, StreamTypes
  <2>3. ReadOf(o, c) /\ r <= d
    BY <1>10, <1>o, <2>2 DEF StreamOf, ReadOf
  <2>4. r <= d + m
    BY <2>3
  <2>5. ASSUME conn[o][c].state \in Live PROVE Spells(wire'[o], c, r, d + m)
    <3>1. Spells(wire[o], c, r, d)
      BY <1>10, <1>o, <2>2, <2>3, <2>5 DEF ReadOf
    <3>2. IsData(p, c)
      BY <1>2 DEF IsData
    <3>3. Spells(Append(wire[o], p), c, r, d + Len(p.payload))
      BY <1>4, <1>9, <2>3, <3>1, <3>2, SpellsMore
    <3> QED BY <1>4, <1>9, <3>3
  <2> QED BY <1>10, <1>o, <2>1, <2>2, <2>3, <2>4, <2>5 DEF ReadOf
<1> QED BY <1>6, <1>11, <1>12, <1>13, <1>14, <1>15, <1>o DEF StreamOf

\* The writer accounts for what it sent.
LEMMA StreamFinishes ==
  ASSUME TypeOK, TypeOK', TaskInv, BirthInv, Short, NEW e \in Ends, NEW c \in Conns, TableOf(c), StreamOf(c), TaskKeeps(e, c),
         NEW w \in Writers, FinishWrite(e, c, w)
  PROVE  StreamOf(c)'
<1>o. PICK o \in Ends : o = Other(e) /\ e = Other(o) /\ o # e /\ (\A z \in Ends : z = e \/ z = o)
  BY EndsFacts
<1>t. w \in Tasks /\ w # "reader"
  BY TaskFacts
<1>1. FinishEffect(e, c, w)
  BY FinishFacts
<1>2. PICK y : y = pc'[e][c][w] /\ y \in {"armed", "idle"}
  BY <1>1 DEF FinishEffect
<1>3. /\ pc[e][c][w] = "sent" /\ packet'[e][c][w] = NoPacket /\ UNCHANGED <<plan, wire, pump, drained, got>>
      /\ \A u \in Tasks : u # w => pc'[e][c][u] = pc[e][c][u] /\ packet'[e][c][u] = packet[e][c][u]
      /\ done'[e][c] = done[e][c] + Len(packet[e][c][w].payload)
      /\ ~Exists(e, c) => conn'[e][c] = conn[e][c]
      /\ Exists(e, c) =>
           conn'[e][c] = [conn[e][c] EXCEPT !.transmitting = FALSE,
                           !.tx = (conn[e][c].tx + Len(packet[e][c][w].payload)) % Wrap]
  BY <1>1 DEF FinishEffect
<1>4. c \in DOMAIN plan.bytes
  BY <1>3, <1>t, BegunIsPlanned
<1>5. PICK d \in Nat, m \in Nat, s \in Nat :
        /\ d = done[e][c] /\ m = Len(packet[e][c][w].payload) /\ s = Sent(e, c) /\ s = d + m
        /\ s <= plan.bytes[c][e] /\ s < Wrap /\ s <= Taken(o, c) + Window
  <2>1. WriteOf(e, c) /\ Holds(e, c, w)
    BY <1>3 DEF StreamOf, Holds
  <2>2. Len(packet[e][c][w].payload) \in Nat
    BY <2>1 DEF WriteOf, Consecutive
  <2>3. Sent(e, c) = done[e][c] + Len(packet[e][c][w].payload) /\ Sent(e, c) <= Taken(o, c) + Window
    BY <1>3, <1>o, <2>1, SentFacts
  <2>4. Sent(e, c) \in Nat /\ Sent(e, c) < Wrap /\ Sent(e, c) <= plan.bytes[c][e] /\ done[e][c] \in Nat
    BY <1>4, Bounded, StreamTypes
  <2> QED BY <2>2, <2>3, <2>4
<1>6. \A v \in Writers : ~Holds(e, c, v)'
  <2>1. \A v \in Writers : Holds(e, c, v) => v = w
    BY <1>3 DEF StreamOf, WriteOf, Holds
  <2> QED BY <1>2, <1>3, <2>1, TaskFacts DEF Holds
<1>7. done'[e][c] = s /\ Sent(e, c)' = s
  <2>1. done'[e][c] = s
    BY <1>3, <1>5
  <2>2. \A v \in Writers : pc'[e][c][v] # "sent"
    BY <1>6 DEF Holds
  <2>3. Sent(e, c)' = Total(done'[e][c], pc'[e][c], packet'[e][c])
    BY DEF Sent, Total
  <2> QED BY <2>1, <2>2, <2>3, TotalNone
<1>8. Exists(e, c) =>
        /\ conn'[e][c].state = conn[e][c].state /\ conn'[e][c].receive = conn[e][c].receive
        /\ conn'[e][c].fwd = conn[e][c].fwd /\ conn'[e][c].peerBuf = conn[e][c].peerBuf
        /\ conn'[e][c].peerFwd = conn[e][c].peerFwd /\ conn'[e][c].tx = s
  <2> SUFFICES ASSUME Exists(e, c)
               PROVE  /\ conn'[e][c].state = conn[e][c].state /\ conn'[e][c].receive = conn[e][c].receive
                      /\ conn'[e][c].fwd = conn[e][c].fwd /\ conn'[e][c].peerBuf = conn[e][c].peerBuf
                      /\ conn'[e][c].peerFwd = conn[e][c].peerFwd /\ conn'[e][c].tx = s
    OBVIOUS
  <2>1. PICK k0 \in Connections : k0 = conn[e][c] /\ k0.tx = d
    BY <1>5 DEF TypeOK, StreamOf, EntryOf
  <2>2. PICK v : v = (k0.tx + m) % Wrap
    OBVIOUS
  <2>3. v = s
    BY <1>5, <2>1, <2>2, BelowWrap
  <2>4. PICK k : k = [k0 EXCEPT !.transmitting = FALSE, !.tx = v]
    OBVIOUS
  <2>5. conn'[e][c] = k
    BY <1>3, <1>5, <2>1, <2>2, <2>4
  <2>6. /\ k.state = k0.state /\ k.receive = k0.receive /\ k.fwd = k0.fwd /\ k.peerBuf = k0.peerBuf
        /\ k.peerFwd = k0.peerFwd /\ k.tx = v
    BY <2>4 DEF Connections
  <2> QED BY <2>1, <2>3, <2>5, <2>6
<1>9. Taken(e, c)' = Taken(e, c) /\ Arrived(e, c)' = Arrived(e, c) /\ Taken(e, c) <= Taken(e, c)' /\ Arrived(e, c)' <= Arrived(e, c)
  <2>1. conn'[e][c].receive = conn[e][c].receive
    BY <1>3, <1>8
  <2>2. Taken(e, c)' = Taken(e, c) /\ Arrived(e, c)' = Arrived(e, c)
    BY <1>3, <2>1 DEF Taken, Arrived
  <2> QED BY <2>2, StreamTypes
<1>10. /\ WriteOf(o, c)' /\ Sent(o, c)' = Sent(o, c) /\ EntryOf(o, c)' /\ NewsOf(o, c)' /\ Taken(o, c)' = Taken(o, c)
  BY <1>9, <1>o, FarSide
<1>11. WriteOf(e, c)'
  BY <1>3, <1>4, <1>5, <1>6, <1>7, <1>10, <1>o DEF WriteOf
<1>12. ReadOf(e, c)'
  <2>1. ReadOf(e, c) /\ WriteOf(Other(e), c) /\ Sent(Other(e), c)' = Sent(Other(e), c)
    BY <1>10, <1>o DEF StreamOf
  <2>2. pc'[e][c]["reader"] = pc[e][c]["reader"]
    BY <1>3, <1>t, TaskFacts
  <2>3. pc'[e][c]["reader"] \notin {"creditUpdate", "gone"} => drained'[e][c] = <<>>
    BY <1>3, <2>1, <2>2 DEF ReadOf
  <2>4. conn'[e][c].state \in Live => conn[e][c].state \in Live /\ Arrived(e, c)' = Arrived(e, c)
    BY <1>3, <1>8, <1>9
  <2>5. \A r, q \in Nat : Spells(wire[e], c, r, q) => Spells(wire'[e], c, r, q)
    BY <1>3
  <2> QED BY <1>9, <2>1, <2>3, <2>4, <2>5, ReadKept
<1>13. EntryOf(e, c)'
  <2>1. Exists(e, c)' => Exists(e, c)
    BY <1>3 DEF Exists
  <2> QED BY <1>7, <1>8, <1>9, <1>10, <1>o, <2>1 DEF StreamOf, EntryOf
<1>14. NewsOf(e, c)'
  <2>2. NewsOf(e, c)
    BY DEF StreamOf
  <2>3. Replying(e, c)' => (Replying(e, c) /\ pump'[e] = pump[e]) \/ Credible(pump'[e], Taken(e, c)')
    BY <1>3 DEF Replying
  <2>4. Honest(wire[Other(e)], c, Taken(e, c)') => Honest(wire'[Other(e)], c, Taken(e, c)')
    BY <1>3
  <2>5. \A u \in Tasks : packet'[e][c][u] # NoPacket => packet'[e][c][u] = packet[e][c][u] \/ Credible(packet'[e][c][u], Taken(e, c)')
    BY <1>3
  <2> QED BY <1>9, <2>2, <2>3, <2>4, <2>5, NewsKept
<1>15. ReadOf(o, c)'
  <2>1. Sent(e, c)' = Sent(e, c) /\ wire'[o] = wire[o]
    BY <1>3, <1>5, <1>7
  <2> QED BY <1>o, <2>1, FarRead
<1> QED BY <1>10, <1>11, <1>12, <1>13, <1>14, <1>15, <1>o DEF StreamOf

\* The reader takes n bytes out of the ring, and announces them or not.
TakesOut(e, c, n, k) ==
  /\ Readable(e, c, n) /\ conn'[e][c] = k /\ k.state = conn[e][c].state
  /\ k.receive = SubSeq(conn[e][c].receive, n + 1, Len(conn[e][c].receive))
  /\ k.fwd = (conn[e][c].fwd + n) % Wrap /\ k.tx = conn[e][c].tx
  /\ k.peerBuf = conn[e][c].peerBuf /\ k.peerFwd = conn[e][c].peerFwd
  /\ k.transmitting = conn[e][c].transmitting
  /\ Taken(e, c)' = Taken(e, c) + n /\ wire' = wire /\ done' = done
  /\ pc[e][c]["reader"] = "armed"
  /\ \A u \in Tasks : u # "reader" => pc'[e][c][u] = pc[e][c][u] /\ packet'[e][c][u] = packet[e][c][u]
  /\ packet'[e][c]["reader"] # NoPacket =>
       packet'[e][c]["reader"].buf = Window /\ packet'[e][c]["reader"].fwd = k.fwd
  /\ pc'[e][c]["reader"] \notin {"creditUpdate", "gone"} => drained'[e][c] = <<>>

LEMMA StreamReads ==
  ASSUME TypeOK, TypeOK', BirthInv, Short, NEW e \in Ends, NEW c \in Conns, TableOf(c), StreamOf(c), TaskKeeps(e, c),
         NEW n, NEW k \in Connections, TakesOut(e, c, n, k)
  PROVE  StreamOf(c)'
<1>o. PICK o \in Ends : o = Other(e) /\ e = Other(o) /\ o # e /\ (\A z \in Ends : z = e \/ z = o)
  BY EndsFacts
<1>1. PICK q \in Seq(Nat) : q = conn[e][c].receive
  BY EntryFields DEF TypeOK
<1>2. PICK h \in Nat, x \in Nat : h = Len(q) /\ x = Taken(e, c) /\ Arrived(e, c) = x + h
  BY <1>1, StreamTypes
<1>3. n \in 1 .. h /\ Exists(e, c) /\ Exists(e, c)'
  <2>1. n \in 1 .. Len(conn[e][c].receive) /\ Exists(e, c)
    BY DEF TakesOut, Readable
  <2>2. conn'[e][c].state = conn[e][c].state
    BY DEF TakesOut
  <2> QED BY <1>1, <1>2, <2>1, <2>2 DEF Exists
<1>4. Len(k.receive) = h - n
  <2>1. k.receive = SubSeq(q, n + 1, Len(q))
    BY <1>1 DEF TakesOut
  <2> QED BY <1>2, <1>3, <2>1
<1>5. Taken(e, c)' = x + n /\ Arrived(e, c)' = x + h
  <2>1. Taken(e, c)' = x + n
    BY <1>2 DEF TakesOut
  <2>2. Arrived(e, c)' = (x + n) + (h - n)
    <3>1. conn'[e][c] = k
      BY DEF TakesOut
    <3> QED BY <1>4, <2>1, <3>1, StreamTypesNext
  <2> QED BY <1>3, <2>1, <2>2
<1>6. k.fwd = x + n
  <2>1. c \in DOMAIN plan.bytes
    BY TaskFacts, BegunIsPlanned DEF TakesOut
  <2>2. PICK s \in Nat : s = Sent(o, c) /\ s < Wrap /\ x + h <= s
    BY <1>2, <1>o, <2>1, Bounded
  <2>3. conn[e][c].fwd = x
    BY <1>2, <1>3 DEF StreamOf, EntryOf
  <2>4. PICK f \in Nat : f = x + n /\ f < Wrap
    BY <1>3, <2>2, WindowAssumption
  <2>5. f % Wrap = f
    BY <2>4, BelowWrap
  <2>6. k.fwd = (conn[e][c].fwd + n) % Wrap
    BY DEF TakesOut
  <2> QED BY <2>3, <2>4, <2>5, <2>6
<1>7. Taken(e, c) <= Taken(e, c)' /\ Arrived(e, c)' = Arrived(e, c) /\ Arrived(e, c)' <= Arrived(e, c)
  BY <1>2, <1>3, <1>5
<1>8. /\ WriteOf(o, c)' /\ Sent(o, c)' = Sent(o, c) /\ EntryOf(o, c)' /\ NewsOf(o, c)' /\ Taken(o, c)' = Taken(o, c)
  BY <1>7, <1>o, FarSide
<1>9. WriteOf(e, c)' /\ Sent(e, c)' = Sent(e, c)
  <2>1. HoldsKept(e, c)
    BY <1>3, TaskFacts DEF HoldsKept, Holds, TakesOut
  <2>2. Taken(Other(e), c) <= Taken(Other(e), c)' /\ plan' = plan /\ WriteOf(e, c)
    BY <1>8, <1>o, StreamTypes DEF TaskKeeps, StreamOf
  <2> QED BY <2>1, <2>2, WriteKept
<1>10. ReadOf(e, c)'
  <2>1. ReadOf(e, c) /\ WriteOf(Other(e), c) /\ Sent(Other(e), c)' = Sent(Other(e), c)
    BY <1>8, <1>o DEF StreamOf
  <2>2. conn'[e][c].state \in Live => conn[e][c].state \in Live /\ Arrived(e, c)' = Arrived(e, c)
    BY <1>7 DEF TakesOut
  <2>3. \A r, s \in Nat : Spells(wire[e], c, r, s) => Spells(wire'[e], c, r, s)
    BY DEF TakesOut
  <2>4. pc'[e][c]["reader"] \notin {"creditUpdate", "gone"} => drained'[e][c] = <<>>
    BY DEF TakesOut
  <2> QED BY <1>7, <2>1, <2>2, <2>3, <2>4, ReadKept
<1>11. EntryOf(e, c)'
  <2>1. /\ conn'[e][c] = k /\ k.tx = conn[e][c].tx /\ done' = done
        /\ k.peerBuf = conn[e][c].peerBuf /\ k.peerFwd = conn[e][c].peerFwd
    BY DEF TakesOut
  <2>2. EntryOf(e, c)
    BY DEF StreamOf
  <2> QED BY <1>3, <1>5, <1>6, <1>8, <1>o, <2>1, <2>2 DEF EntryOf
<1>12. NewsOf(e, c)'
  <2>1. NewsOf(e, c) /\ pump' = pump
    BY DEF StreamOf, TaskKeeps
  <2>2. Replying(e, c)' => (Replying(e, c) /\ pump'[e] = pump[e]) \/ Credible(pump'[e], Taken(e, c)')
    BY <2>1 DEF Replying
  <2>3. Honest(wire[Other(e)], c, Taken(e, c)') => Honest(wire'[Other(e)], c, Taken(e, c)')
    BY DEF TakesOut
  <2>4. packet'[e][c]["reader"] # NoPacket => Credible(packet'[e][c]["reader"], Taken(e, c)')
    <3>1. x + n \in Nat
      BY <1>3
    <3>2. packet'[e][c]["reader"] # NoPacket =>
            packet'[e][c]["reader"].buf = Window /\ packet'[e][c]["reader"].fwd = k.fwd
      BY DEF TakesOut
    <3> QED BY <1>5, <1>6, <3>1, <3>2 DEF Credible
  <2>5. \A u \in Tasks : packet'[e][c][u] # NoPacket => packet'[e][c][u] = packet[e][c][u] \/ Credible(packet'[e][c][u], Taken(e, c)')
    BY <2>4 DEF TakesOut
  <2> QED BY <1>7, <2>1, <2>2, <2>3, <2>5, NewsKept
<1>13. ReadOf(o, c)'
  <2>1. wire'[o] = wire[o]
    BY DEF TakesOut
  <2> QED BY <1>9, <1>o, <2>1, FarRead
<1> QED BY <1>8, <1>9, <1>10, <1>11, <1>12, <1>13, <1>o DEF StreamOf

LEMMA ReadingFields ==
  ASSUME NEW k \in Connections, NEW n
  PROVE  /\ Reading(k, n).state = k.state /\ Reading(k, n).receive = SubSeq(k.receive, n + 1, Len(k.receive))
         /\ Reading(k, n).fwd = (k.fwd + n) % Wrap /\ Reading(k, n).tx = k.tx
         /\ Reading(k, n).peerBuf = k.peerBuf /\ Reading(k, n).peerFwd = k.peerFwd
         /\ Reading(k, n).transmitting = k.transmitting
         /\ Announced(Reading(k, n)).state = k.state
         /\ Announced(Reading(k, n)).receive = SubSeq(k.receive, n + 1, Len(k.receive))
         /\ Announced(Reading(k, n)).fwd = (k.fwd + n) % Wrap /\ Announced(Reading(k, n)).tx = k.tx
         /\ Announced(Reading(k, n)).peerBuf = k.peerBuf /\ Announced(Reading(k, n)).peerFwd = k.peerFwd
         /\ Announced(Reading(k, n)).transmitting = k.transmitting
  BY DEF Reading, Announced, Connections

LEMMA ConcatLength ==
  ASSUME NEW g \in Seq(Nat), NEW b \in Seq(Nat)
  PROVE  Len(g \o b) = Len(g) + Len(b) /\ g \o b \in Seq(Nat) /\ Len(g) \in Nat /\ Len(b) \in Nat
  OBVIOUS

LEMMA TakenLengths ==
  ASSUME NEW g \in Seq(Nat), NEW q \in Seq(Nat), NEW n \in 1 .. Len(q)
  PROVE  /\ SubSeq(q, 1, n) \in Seq(Nat) /\ Len(SubSeq(q, 1, n)) = n
         /\ Len(g \o SubSeq(q, 1, n)) = Len(g) + n
<1>1. PICK b : b = SubSeq(q, 1, n)
  OBVIOUS
<1>2. b \in Seq(Nat) /\ Len(b) = n
  BY <1>1
<1>3. Len(g \o b) = Len(g) + Len(b)
  BY <1>2, ConcatLength
<1> QED BY <1>1, <1>2, <1>3

LEMMA StreamUpdates ==
  ASSUME TypeOK, TypeOK', BirthInv, Short, NEW e \in Ends, NEW c \in Conns, TableOf(c), StreamOf(c), TaskKeeps(e, c),
         NEW n, Updates(e, c, n)
  PROVE  StreamOf(c)'
<1>k. PICK k0 \in Connections : k0 = conn[e][c]
  BY DEF TypeOK
<1>1. PICK k \in Connections : k = Announced(Reading(k0, n))
  BY <1>k, DecisionKinds
<1>2. PICK p \in Packets : p = Header("creditUpdate", c, Reading(k0, n)) /\ p.op = "creditUpdate" /\ p.buf = Window /\ p.fwd = k.fwd
  <2>1. Header("creditUpdate", c, Reading(k0, n)) \in Packets
    BY <1>k, DecisionKinds
  <2>2. Reading(k0, n).fwd = k.fwd
    BY <1>1, ReadingFields
  <2> QED BY <2>1, <2>2 DEF Header
<1>3. DecisionEffect(e, c, "reader", "armed", p, k)
  <2>1. Decision(e, c, "reader", "armed", p, k) /\ p.op \in Carried
    BY <1>1, <1>2, <1>k DEF Updates, Carried
  <2> QED BY <2>1, DecisionFacts, TaskFacts
<1>4. /\ pc[e][c]["reader"] = "armed" /\ pc'[e][c]["reader"] = "creditUpdate" /\ packet'[e][c]["reader"] = p /\ conn'[e][c] = k
      /\ \A u \in Tasks : u # "reader" => pc'[e][c][u] = pc[e][c][u] /\ packet'[e][c][u] = packet[e][c][u]
      /\ UNCHANGED <<wire, done, got>>
  BY <1>2, <1>3 DEF DecisionEffect
<1>5. Readable(e, c, n) /\ n \in 1 .. Len(k0.receive) /\ drained' = [drained EXCEPT ![e][c] = SubSeq(k0.receive, 1, n)]
  BY <1>k DEF Updates, Readable
<1>6. Taken(e, c)' = Taken(e, c) + n
  <2>1. PICK g \in Seq(Nat), q \in Seq(Nat) : g = got[e][c] /\ q = k0.receive
    BY EntryFields DEF TypeOK
  <2>2. drained[e][c] = <<>>
    BY <1>4 DEF StreamOf, ReadOf
  <2>3. drained'[e][c] = SubSeq(q, 1, n)
    BY <1>5, <2>1 DEF TypeOK
  <2>4. Len(SubSeq(q, 1, n)) = n /\ n \in Nat
    BY <1>5, <2>1, TakenLengths
  <2>e. Len(<<>>) = 0
    OBVIOUS
  <2>f. got'[e][c] = g /\ Len(drained[e][c]) = 0 /\ Len(drained'[e][c]) = n
    BY <1>4, <2>1, <2>2, <2>3, <2>4, <2>e
  <2>g. Len(g) \in Nat
    BY <2>1
  <2>5. Taken(e, c) = Len(g) + 0 /\ Taken(e, c)' = Len(g) + n /\ Len(g) \in Nat
    BY <2>1, <2>f, <2>g DEF Taken
  <2> QED BY <2>4, <2>5
<1>7. TakesOut(e, c, n, k)
  <2>1. /\ k.state = k0.state /\ k.receive = SubSeq(k0.receive, n + 1, Len(k0.receive))
        /\ k.fwd = (k0.fwd + n) % Wrap /\ k.tx = k0.tx
        /\ k.peerBuf = k0.peerBuf /\ k.peerFwd = k0.peerFwd /\ k.transmitting = k0.transmitting
    BY <1>1, ReadingFields
  <2> QED BY <1>2, <1>4, <1>5, <1>6, <1>k, <2>1 DEF TakesOut
<1> QED BY <1>7, StreamReads

LEMMA StreamHands ==
  ASSUME TypeOK, TypeOK', BirthInv, Short, NEW e \in Ends, NEW c \in Conns, TableOf(c), StreamOf(c), TaskKeeps(e, c),
         NEW n, Hands(e, c, n)
  PROVE  StreamOf(c)'
<1>k. PICK k0 \in Connections : k0 = conn[e][c]
  BY DEF TypeOK
<1>5. Readable(e, c, n) /\ n \in 1 .. Len(k0.receive)
  BY <1>k DEF Hands, Readable
<1>1. PICK k \in Connections : k = Reading(k0, n)
  BY <1>5, <1>k, DecisionTypes
<1>3. HandsEffect(e, c, n)
  BY HandsFacts
<1>4. /\ pc[e][c]["reader"] = "armed" /\ pc'[e][c]["reader"] = "idle" /\ conn'[e][c] = k
      /\ \A u \in Tasks : u # "reader" => pc'[e][c][u] = pc[e][c][u]
      /\ got'[e][c] = got[e][c] \o SubSeq(k0.receive, 1, n)
      /\ UNCHANGED <<wire, done, packet, drained>>
  BY <1>1, <1>3, <1>k DEF HandsEffect
<1>d. drained[e][c] = <<>> /\ packet[e][c]["reader"] = NoPacket
  BY <1>4, TaskFacts DEF StreamOf, ReadOf, TableOf, TaskOf, Carried
<1>6. Taken(e, c)' = Taken(e, c) + n
  <2>1. PICK g \in Seq(Nat), q \in Seq(Nat) : g = got[e][c] /\ q = k0.receive
    BY EntryFields DEF TypeOK
  <2>4. Len(g \o SubSeq(q, 1, n)) = Len(g) + n /\ n \in Nat
    BY <1>5, <2>1, TakenLengths
  <2>5. Taken(e, c) = Len(g) + 0 /\ Taken(e, c)' = (Len(g) + n) + 0 /\ Len(g) \in Nat
    BY <1>4, <1>d, <2>1, <2>4 DEF Taken
  <2> QED BY <2>4, <2>5
<1>7. TakesOut(e, c, n, k)
  <2>1. /\ k.state = k0.state /\ k.receive = SubSeq(k0.receive, n + 1, Len(k0.receive))
        /\ k.fwd = (k0.fwd + n) % Wrap /\ k.tx = k0.tx
        /\ k.peerBuf = k0.peerBuf /\ k.peerFwd = k0.peerFwd /\ k.transmitting = k0.transmitting
    BY <1>1, ReadingFields
  <2> QED BY <1>4, <1>5, <1>6, <1>d, <1>k, <2>1 DEF TakesOut
<1> QED BY <1>7, StreamReads

LEMMA StreamTask ==
  ASSUME TypeOK, TypeOK', TaskInv, BirthInv, Short, NEW e \in Ends, NEW c \in Conns, TableOf(c), StreamOf(c), TaskStep(e, c)
  PROVE  StreamOf(c)'
<1>0. TaskKeeps(e, c)
  BY TaskFrame
<1>1. ASSUME NEW t \in Tasks, NEW x, NEW y, Moves(e, c, t, x, y) PROVE StreamOf(c)'
  BY <1>0, <1>1, StreamMoves
<1>2. ASSUME NEW w \in Writers, NEW n, Writes(e, c, w, n) PROVE StreamOf(c)'
  BY <1>0, <1>2, StreamWrites
<1>3. ASSUME NEW w \in Writers, Asks(e, c, w) PROVE StreamOf(c)'
  BY <1>0, <1>3, StreamControl
<1>4. ASSUME NEW w \in Writers, FinishWrite(e, c, w) PROVE StreamOf(c)'
  BY <1>0, <1>4, StreamFinishes
<1>5. ASSUME NEW n, Updates(e, c, n) PROVE StreamOf(c)'
  BY <1>0, <1>5, StreamUpdates
<1>6. ASSUME NEW n, Hands(e, c, n) PROVE StreamOf(c)'
  BY <1>0, <1>6, StreamHands
<1>7. ASSUME NEW x, Abandons(e, c, x) PROVE StreamOf(c)'
  BY <1>0, <1>7, StreamControl
<1>8. ASSUME NEW x, Frees(e, c, x) PROVE StreamOf(c)'
  BY <1>0, <1>8, StreamFrees
<1>9. ASSUME NEW dirs, Shuts(e, c, dirs) PROVE StreamOf(c)'
  BY <1>0, <1>9, StreamControl
<1>10. ASSUME NEW t \in Tasks, Transmit(e, c, t) PROVE StreamOf(c)'
  <2>1. CASE packet[e][c][t].op = "data"
    BY <1>0, <1>10, <2>1, StreamLeaves
  <2>2. CASE packet[e][c][t].op # "data"
    BY <1>0, <1>10, <2>2, StreamSends
  <2> QED BY <2>1, <2>2
<1>11. ASSUME NEW t \in Tasks, TransmitFails(e, c, t) PROVE StreamOf(c)'
  BY <1>0, <1>11, StreamFails
<1> QED BY <1>1, <1>2, <1>3, <1>4, <1>5, <1>6, <1>7, <1>8, <1>9, <1>10, <1>11 DEF TaskStep

\* What packet p makes of the entry, as far as the bytes go: it may bring news
\* of the peer, and data for a live end is stored or ends the connection.
Absorbs(e, c, p, k, r) ==
  /\ Exists(e, c) \/ k = conn[e][c]
  /\ k.state \in Live => conn[e][c].state \in Live
  /\ k.fwd = conn[e][c].fwd /\ k.tx = conn[e][c].tx /\ k.transmitting = conn[e][c].transmitting
  /\ \/ k.peerBuf = conn[e][c].peerBuf /\ k.peerFwd = conn[e][c].peerFwd
     \/ p.op # "reset" /\ k.peerBuf = p.buf /\ k.peerFwd = p.fwd
  /\ \/ r = NoPacket \/ (r \in Packets /\ r.op = "reset")
     \/ r \in Packets /\ Exists(e, c) /\ r.buf = Window /\ r.fwd = conn[e][c].fwd
  /\ \/ p.op = "data" /\ conn[e][c].state \in Live /\ k.receive = conn[e][c].receive \o p.payload
     \/ k.receive = conn[e][c].receive /\ (k.state \in Live => p.op # "data")

\* Its own counters are kept.
Counted(old, p, k) ==
  /\ k.fwd = old.fwd /\ k.tx = old.tx /\ k.transmitting = old.transmitting
  /\ \/ k.peerBuf = old.peerBuf /\ k.peerFwd = old.peerFwd
     \/ k.peerBuf = p.buf /\ k.peerFwd = p.fwd

LEMMA AbsorbedFields ==
  ASSUME NEW old \in Connections, NEW p \in Packets
  PROVE  /\ Counted(old, p, Absorb(old, p)) /\ Absorb(old, p).receive = old.receive
         /\ Counted(old, p, Announced(Absorb(old, p))) /\ Announced(Absorb(old, p)).receive = old.receive
         /\ \A s : LET k == [Absorb(old, p) EXCEPT !.state = s] IN Counted(old, p, k) /\ k.receive = old.receive
         /\ \A d : LET k == [Absorb(old, p) EXCEPT !.peer = d] IN Counted(old, p, k) /\ k.receive = old.receive
         /\ \A d, s : LET k == [Absorb(old, p) EXCEPT !.peer = d, !.state = s] IN Counted(old, p, k) /\ k.receive = old.receive
         /\ \A b : LET k == [Absorb(old, p) EXCEPT !.receive = b] IN Counted(old, p, k) /\ k.receive = b
  BY DEF Connections, Absorb, Announced, Counted

LEMMA PacketAbsorbs ==
  ASSUME TypeOK, NEW e \in Ends, NEW c \in Conns, NEW p \in Packets, NEW k, NEW r, PacketStep(e, c, p, k, r),
         ~Admits(e, p, k, r)
  PROVE  Absorbs(e, c, p, k, r)
<1>0. p.c = c /\ Outcome(e, p, k, r)
  BY DEF PacketStep
<1>1. PICK old \in Connections : old = conn[e][c]
  BY DEF TypeOK
<1>2. /\ Absorb(old, p).state = old.state
      /\ \A s : [Absorb(old, p) EXCEPT !.state = s].state = s /\ [old EXCEPT !.state = s].state = s
      /\ \A d : [Absorb(old, p) EXCEPT !.peer = d].state = old.state
      /\ \A d, s : [Absorb(old, p) EXCEPT !.peer = d, !.state = s].state = s
      /\ Announced(Absorb(old, p)).state = old.state
  BY AbsorbedStates
<1>3. Reply("reset", c) \in Packets /\ Reply("reset", c).op = "reset"
  BY <1>1, PacketTypes DEF Ops
<1>6. /\ "established" \in Live /\ "connecting" \in Live
      /\ {"none", "reset", "refused", "closed"} \cap Live = {}
      /\ \A s \in Live : s # "none"
  BY DEF Live
<1>7. /\ Counted(old, p, Absorb(old, p)) /\ Absorb(old, p).receive = old.receive
      /\ Counted(old, p, Announced(Absorb(old, p))) /\ Announced(Absorb(old, p)).receive = old.receive
      /\ \A s : Counted(old, p, [Absorb(old, p) EXCEPT !.state = s]) /\ [Absorb(old, p) EXCEPT !.state = s].receive = old.receive
      /\ \A d : Counted(old, p, [Absorb(old, p) EXCEPT !.peer = d]) /\ [Absorb(old, p) EXCEPT !.peer = d].receive = old.receive
      /\ \A d, s : /\ Counted(old, p, [Absorb(old, p) EXCEPT !.peer = d, !.state = s])
                   /\ [Absorb(old, p) EXCEPT !.peer = d, !.state = s].receive = old.receive
      /\ \A b : /\ Counted(old, p, [Absorb(old, p) EXCEPT !.receive = b])
                /\ [Absorb(old, p) EXCEPT !.receive = b].receive = b
  BY AbsorbedFields
<1>8. \A b : [Absorb(old, p) EXCEPT !.receive = b].state = old.state
  BY AbsorbedStates
<1> DEFINE Counters == Counted(old, p, k) /\ k.receive = old.receive
<1>a. CASE Refuses(e, p, k, r)
  BY <1>a, <1>0, <1>1, <1>3 DEF Refuses, Absorbs, Counted
<1>c. CASE Ignores(e, p, k, r)
  BY <1>c, <1>0, <1>1, <1>3, <1>6 DEF Ignores, Absorbs, Exists, Counted
<1>d. CASE Establishes(e, p, k, r)
  <2>1. Counters
    BY <1>d, <1>0, <1>1, <1>7 DEF Establishes
  <2> QED BY <1>d, <2>1, <1>0, <1>1, <1>2, <1>6 DEF Establishes, Absorbs, Exists, Counted
<1>e. CASE Mistimed(e, p, k, r)
  <2>1. Counters
    BY <1>e, <1>0, <1>1, <1>7 DEF Mistimed
  <2> QED BY <1>e, <2>1, <1>0, <1>1, <1>2, <1>3, <1>6 DEF Mistimed, Absorbs, Counted
<1>f. CASE IsReset(e, p, k, r)
  <2>1. PICK s : k = [old EXCEPT !.state = s] /\ s \in {"refused", "reset"}
    BY <1>f, <1>0, <1>1 DEF IsReset
  <2>2. k.fwd = old.fwd /\ k.tx = old.tx /\ k.transmitting = old.transmitting /\ k.receive = old.receive
        /\ k.peerBuf = old.peerBuf /\ k.peerFwd = old.peerFwd /\ k.state = s
    BY <2>1 DEF Connections
  <2> QED BY <1>f, <2>1, <2>2, <1>0, <1>1, <1>6 DEF IsReset, Absorbs, Counted
<1>g. CASE HalfCloses(e, p, k, r)
  <2>1. Counters
    BY <1>g, <1>0, <1>1, <1>7 DEF HalfCloses
  <2> QED BY <1>g, <2>1, <1>0, <1>1, <1>2, <1>6 DEF HalfCloses, Absorbs, Counted
<1>h. CASE FullyCloses(e, p, k, r)
  <2>1. Counters
    <3>1. PICK d : d = Directions
      OBVIOUS
    <3>2. k = [Absorb(old, p) EXCEPT !.peer = d, !.state = "closed"]
      BY <1>h, <1>0, <1>1, <3>1 DEF FullyCloses
    <3>3. /\ Counted(old, p, [Absorb(old, p) EXCEPT !.peer = d, !.state = "closed"])
          /\ [Absorb(old, p) EXCEPT !.peer = d, !.state = "closed"].receive = old.receive
      BY <1>7
    <3> QED BY <3>2, <3>3
  <2> QED BY <1>h, <2>1, <1>0, <1>1, <1>2, <1>3, <1>6 DEF FullyCloses, Absorbs, Counted
<1>i. CASE Stores(e, p, k, r)
  <2>1. k = [Absorb(old, p) EXCEPT !.receive = old.receive \o p.payload]
    BY <1>i, <1>0, <1>1 DEF Stores
  <2>2. Counted(old, p, k) /\ k.receive = old.receive \o p.payload /\ k.state = old.state
    BY <2>1, <1>7, <1>8
  <2> QED BY <1>i, <2>2, <1>0, <1>1, <1>6 DEF Stores, Absorbs, Exists, Counted
<1>j. CASE Discards(e, p, k, r)
  <2>0. PICK s : k = [Absorb(old, p) EXCEPT !.state = s] /\ (s = IF old.state \in Live THEN "reset" ELSE old.state)
    BY <1>j, <1>0, <1>1 DEF Discards
  <2>1. Counters
    BY <2>0, <1>1, <1>7
  <2>2. k.state \notin Live
    BY <2>0, <1>2, <1>6
  <2> QED BY <1>j, <2>1, <2>2, <1>0, <1>1, <1>3, <1>6 DEF Discards, Absorbs, Counted
<1>k. CASE TakesCredit(e, p, k, r)
  <2>1. Counters
    BY <1>k, <1>0, <1>1, <1>7 DEF TakesCredit
  <2>2. k.state = old.state /\ k \in Connections
    BY <1>k, <1>0, <1>1, <1>2, OutcomeTypes DEF TakesCredit
  <2>3. Header("creditUpdate", c, k) \in Packets /\ Header("creditUpdate", c, k).buf = Window /\ Header("creditUpdate", c, k).fwd = k.fwd
    BY <2>2, PacketTypes DEF Ops
  <2> QED BY <1>k, <2>1, <2>2, <2>3, <1>0, <1>1 DEF TakesCredit, Absorbs, Counted
<1> QED BY <1>0, <1>a, <1>c, <1>d, <1>e, <1>f, <1>g, <1>h, <1>i, <1>j, <1>k DEF Outcome

\* The end that sent the packet, and the writers of the end that takes it.
LEMMA PacketSides ==
  ASSUME TypeOK, TypeOK', NEW e \in Ends, NEW o \in Ends, o = Other(e), NEW c \in Conns, StreamOf(c),
         NEW p \in Packets, NEW k, NEW r, TakesEffect(e, p, k, r), p.c = c, HoldsKept(e, c)
  PROVE  /\ WriteOf(o, c)' /\ ReadOf(o, c)' /\ EntryOf(o, c)' /\ NewsOf(o, c)'
         /\ WriteOf(e, c)' /\ Sent(o, c)' = Sent(o, c) /\ Taken(o, c)' = Taken(o, c) /\ Taken(e, c)' = Taken(e, c)
<1>o. e = Other(o) /\ o # e
  BY EndsFacts
<1>1. /\ wire'[e] = Tail(wire[e]) /\ wire'[o] = wire[o] /\ pump'[o] = pump[o] /\ conn'[o][c] = conn[o][c]
      /\ wire[e] \in Seq(Packets) /\ wire[e] # <<>>
      /\ UNCHANGED <<plan, pc, packet, done, drained, got>>
  BY <1>o DEF TakesEffect
<1>2. Taken(o, c)' = Taken(o, c) /\ Taken(e, c)' = Taken(e, c) /\ Arrived(o, c)' = Arrived(o, c)
  BY <1>1 DEF Taken, Arrived
<1>3. PICK x \in Nat : x = Taken(o, c) /\ x <= x
  BY StreamTypes
<1>4. WriteOf(e, c) /\ WriteOf(o, c) /\ ReadOf(o, c) /\ EntryOf(o, c) /\ NewsOf(o, c)
  BY DEF StreamOf
<1>5. HoldsKept(o, c)
  BY <1>1 DEF HoldsKept, Holds, Exists
<1>6. Taken(o, c) <= Taken(o, c)' /\ Taken(e, c) <= Taken(e, c)'
  BY <1>2, StreamTypes
<1>7. WriteOf(o, c)' /\ Sent(o, c)' = Sent(o, c)
  BY <1>1, <1>4, <1>5, <1>6, <1>o, WriteKept
<1>8. WriteOf(e, c)' /\ Sent(e, c)' = Sent(e, c)
  BY <1>1, <1>4, <1>6, <1>o, WriteKept
<1>9. ReadOf(o, c)'
  BY <1>1, <1>2, <1>4, <1>8, <1>o DEF ReadOf
<1>10. EntryOf(o, c)'
  BY <1>1, <1>2, <1>4, <1>o DEF EntryOf, Exists
<1>11. NewsOf(o, c)'
  <2>1. Replying(o, c)' => Replying(o, c) /\ pump'[o] = pump[o]
    BY <1>1 DEF Replying
  <2>2. Honest(wire[e], c, x) => Honest(Tail(wire[e]), c, x)
    BY <1>1, <1>3, HonestQueue
  <2>3. Honest(wire[Other(o)], c, Taken(o, c)') => Honest(wire'[Other(o)], c, Taken(o, c)')
    BY <1>1, <1>2, <1>3, <1>o, <2>2
  <2>4. \A u \in Tasks : packet'[o][c][u] # NoPacket => packet'[o][c][u] = packet[o][c][u] \/ Credible(packet'[o][c][u], Taken(o, c)')
    BY <1>1
  <2> QED BY <1>4, <1>6, <2>1, <2>3, <2>4, NewsKept
<1> QED BY <1>2, <1>7, <1>8, <1>9, <1>10, <1>11

\* The packets of the end that answers with r.
LEMMA PacketNews ==
  ASSUME TypeOK, TypeOK', NEW e \in Ends, NEW c \in Conns, StreamOf(c),
         NEW p \in Packets, NEW k, NEW r, TakesEffect(e, p, k, r), p.c = c,
         r # NoPacket => Credible(r, Taken(e, c))
  PROVE  NewsOf(e, c)'
<1>1. /\ wire'[Other(e)] = wire[Other(e)] /\ pump'[e] = r /\ UNCHANGED <<packet, drained, got>>
  BY DEF TakesEffect
<1>2. Taken(e, c)' = Taken(e, c)
  BY <1>1 DEF Taken
<1>3. Taken(e, c) <= Taken(e, c)'
  BY <1>2, StreamTypes
<1>4. Replying(e, c)' => (Replying(e, c) /\ pump'[e] = pump[e]) \/ Credible(pump'[e], Taken(e, c)')
  BY <1>1, <1>2 DEF Replying
<1>5. Honest(wire[Other(e)], c, Taken(e, c)') => Honest(wire'[Other(e)], c, Taken(e, c)')
  BY <1>1
<1>6. \A u \in Tasks : packet'[e][c][u] # NoPacket => packet'[e][c][u] = packet[e][c][u] \/ Credible(packet'[e][c][u], Taken(e, c)')
  BY <1>1
<1>7. NewsOf(e, c)
  BY DEF StreamOf
<1> QED BY <1>3, <1>4, <1>5, <1>6, <1>7, NewsKept

LEMMA RegroupSum ==
  ASSUME NEW x \in Nat, NEW h \in Nat, NEW m \in Nat
  PROVE  x + (h + m) = (x + h) + m
  OBVIOUS

LEMMA StreamAbsorbs ==
  ASSUME TypeOK, TypeOK', NEW e \in Ends, NEW c \in Conns, TableOf(c), StreamOf(c),
         NEW p \in Packets, NEW k, NEW r, TakesEffect(e, p, k, r), p.c = c, Absorbs(e, c, p, k, r)
  PROVE  StreamOf(c)'
<1>o. PICK o \in Ends : o = Other(e) /\ e = Other(o) /\ o # e /\ (\A z \in Ends : z = e \/ z = o)
  BY EndsFacts
<1>1. /\ wire'[e] = Tail(wire[e]) /\ conn'[e][c] = k /\ wire[e] \in Seq(Packets) /\ wire[e] # <<>>
      /\ p = Head(wire[e]) /\ conn[e][c] \in Connections /\ k \in Connections
      /\ UNCHANGED <<plan, pc, packet, done, drained, got>>
  BY DEF TakesEffect
<1>2. Exists(e, c)' => Exists(e, c) /\ k.transmitting = conn[e][c].transmitting
  <2>1. k.transmitting = conn[e][c].transmitting /\ (Exists(e, c) \/ k = conn[e][c])
    BY DEF Absorbs
  <2> QED BY <1>1, <2>1 DEF Exists
<1>3. HoldsKept(e, c)
  BY <1>1, <1>2 DEF HoldsKept, Holds
<1>4. /\ WriteOf(o, c)' /\ ReadOf(o, c)' /\ EntryOf(o, c)' /\ NewsOf(o, c)'
      /\ WriteOf(e, c)' /\ Sent(o, c)' = Sent(o, c) /\ Taken(o, c)' = Taken(o, c) /\ Taken(e, c)' = Taken(e, c)
  BY <1>3, <1>o, PacketSides
<1>5. PICK x \in Nat, y \in Nat, s \in Nat : x = Taken(e, c) /\ y = Taken(o, c) /\ s = Sent(o, c)
  BY StreamTypes, SentFacts DEF StreamOf
<1>6. Credible(p, y)
  <2>1. Honest(wire[e], c, y) /\ y <= y
    BY <1>5, <1>o DEF StreamOf, NewsOf
  <2> QED BY <1>1, <2>1, HonestQueue
<1>7. EntryOf(e, c)'
  <2> SUFFICES ASSUME Exists(e, c)'
               PROVE  k.fwd = x /\ k.tx = done[e][c] /\ k.peerBuf <= Window /\ k.peerFwd <= y
    BY <1>1, <1>4, <1>5, <1>o DEF EntryOf
  <2>1. /\ conn[e][c].fwd = x /\ conn[e][c].tx = done[e][c]
        /\ conn[e][c].peerBuf <= Window /\ conn[e][c].peerFwd <= y
    BY <1>2, <1>5, <1>o DEF StreamOf, EntryOf
  <2>2. k.fwd = conn[e][c].fwd /\ k.tx = conn[e][c].tx
    BY DEF Absorbs
  <2>3. CASE k.peerBuf = conn[e][c].peerBuf /\ k.peerFwd = conn[e][c].peerFwd
    BY <2>1, <2>2, <2>3
  <2>4. CASE p.op # "reset" /\ k.peerBuf = p.buf /\ k.peerFwd = p.fwd
    <3>1. p.buf = Window /\ p.fwd <= y /\ Window <= Window
      BY <1>6, <2>4, WindowAssumption DEF Credible
    <3> QED BY <2>1, <2>2, <2>4, <3>1
  <2> QED BY <2>3, <2>4 DEF Absorbs
<1>8. NewsOf(e, c)'
  <2>1. ASSUME r # NoPacket PROVE Credible(r, x)
    <3>1. CASE r.op = "reset"
      BY <3>1 DEF Credible
    <3>2. CASE Exists(e, c) /\ r.buf = Window /\ r.fwd = conn[e][c].fwd
      <4>1. r.fwd = x
        BY <1>5, <3>2 DEF StreamOf, EntryOf
      <4> QED BY <1>5, <3>2, <4>1 DEF Credible
    <3> QED BY <2>1, <3>1, <3>2 DEF Absorbs
  <2> QED BY <1>5, <2>1, PacketNews
<1>9. ReadOf(e, c)'
  <2>1. PICK n \in Nat : n = Arrived(e, c) /\ n = x + Len(conn[e][c].receive) /\ Len(conn[e][c].receive) \in Nat
    BY <1>5, StreamTypes
  <2>2. Arrived(e, c)' = x + Len(k.receive)
    BY <1>1, <1>4, <1>5 DEF Arrived
  <2>3. n <= s /\ (conn[e][c].state \in Live => Spells(wire[e], c, n, s))
    BY <1>5, <1>o, <2>1 DEF StreamOf, ReadOf
  <2>4. pc'[e][c]["reader"] \notin {"creditUpdate", "gone"} => drained'[e][c] = <<>>
    BY <1>1 DEF StreamOf, ReadOf
  <2>5. CASE p.op = "data" /\ conn[e][c].state \in Live /\ k.receive = conn[e][c].receive \o p.payload
    <3>1. IsData(p, c)
      BY <2>5 DEF IsData
    <3>2. PICK m \in Nat : m = Len(p.payload) /\ n + m <= s /\ Spells(Tail(wire[e]), c, n + m, s)
      <4>1. Len(p.payload) \in Nat
        BY PacketFields
      <4>2. Spells(wire[e], c, n, s)
        BY <2>3, <2>5
      <4>3. /\ n + Len(p.payload) <= s /\ Spells(Tail(wire[e]), c, n + Len(p.payload), s)
        BY <1>1, <3>1, <4>2, SpellsTail
      <4> QED BY <4>1, <4>3
    <3>3. Len(k.receive) = Len(conn[e][c].receive) + m
      <4>1. PICK a \in Seq(Nat), b \in Seq(Nat) : a = conn[e][c].receive /\ b = p.payload
        BY <1>1, EntryFields, PacketFields
      <4>2. Len(a \o b) = Len(a) + Len(b)
        BY ConcatLength
      <4> QED BY <2>5, <3>2, <4>1, <4>2
    <3>4. Arrived(e, c)' = n + m
      <4>1. PICK h \in Nat : h = Len(conn[e][c].receive) /\ n = x + h
        BY <2>1
      <4>2. Arrived(e, c)' = x + (h + m)
        BY <2>2, <3>3, <4>1
      <4>3. x + (h + m) = (x + h) + m
        BY RegroupSum
      <4> QED BY <4>1, <4>2, <4>3
    <3> QED BY <1>1, <1>4, <1>5, <1>o, <2>4, <3>2, <3>4 DEF ReadOf
  <2>6. CASE k.receive = conn[e][c].receive /\ (k.state \in Live => p.op # "data")
    <3>1. Arrived(e, c)' = n
      BY <2>1, <2>2, <2>6
    <3>2. ASSUME k.state \in Live PROVE Spells(Tail(wire[e]), c, n, s)
      <4>1. Spells(wire[e], c, n, s)
        BY <2>3, <3>2 DEF Absorbs
      <4>2. ~IsData(p, c)
        BY <2>6, <3>2 DEF IsData
      <4> QED BY <1>1, <4>1, <4>2, SpellsTail
    <3> QED BY <1>1, <1>4, <1>5, <1>o, <2>3, <2>4, <3>1, <3>2 DEF ReadOf
  <2> QED BY <2>5, <2>6 DEF Absorbs
<1> QED BY <1>4, <1>7, <1>8, <1>9, <1>o DEF StreamOf

\* An unborn connection has no bytes at all.
LEMMA UnbornEmpty ==
  ASSUME TypeOK, NEW c \in Conns, TableOf(c), StreamOf(c), Unborn(c), NEW e \in Ends
  PROVE  /\ got[e][c] = <<>> /\ drained[e][c] = <<>> /\ done[e][c] = 0 /\ Taken(e, c) = 0 /\ Sent(e, c) = 0
         /\ \A w \in Writers : ~Holds(e, c, w)
         /\ ~Exists("b", c) /\ ~Mentions(wire["a"], c) /\ ~Has(wire["b"], c, "data")
<1>1. /\ got[e][c] = <<>> /\ drained[e][c] = <<>> /\ done[e][c] = 0
      /\ ~Exists("b", c) /\ ~Mentions(wire["a"], c) /\ ~Has(wire["b"], c, "data")
  BY DEF TableOf, BirthOf
<1>2. \A w \in Writers : pc[e][c][w] = "idle"
  BY EndsFacts, TaskFacts DEF TableOf, BirthOf
<1>3. Taken(e, c) = 0
  <2>1. Len(<<>>) = 0
    OBVIOUS
  <2> QED BY <1>1, <2>1 DEF Taken
<1>4. Sent(e, c) = 0
  BY <1>1, <1>2, SentFacts DEF StreamOf
<1> QED BY <1>1, <1>2, <1>3, <1>4 DEF Holds

LEMMA StreamAdmits ==
  ASSUME TypeOK, TypeOK', NEW e \in Ends, NEW c \in Conns, TableOf(c), StreamOf(c),
         NEW p \in Packets, NEW k, NEW r, TakesEffect(e, p, k, r), p.c = c, Admits(e, p, k, r)
  PROVE  StreamOf(c)'
<1>e. e = "b" /\ p.op = "request"
  BY DEF Admits
<1>o. PICK o \in Ends : o = Other(e) /\ e = Other(o) /\ o # e /\ (\A z \in Ends : z = e \/ z = o)
  BY EndsFacts
<1>1. /\ wire'[e] = Tail(wire[e]) /\ conn'[e][c] = k /\ wire[e] \in Seq(Packets) /\ wire[e] # <<>>
      /\ p = Head(wire[e]) /\ k \in Connections
      /\ UNCHANGED <<plan, pc, packet, done, drained, got>>
  BY DEF TakesEffect
<1>2. /\ k.receive = <<>> /\ k.fwd = 0 /\ k.tx = 0 /\ k.peerBuf = p.buf /\ k.peerFwd = p.fwd
      /\ r = Header("response", c, k)
  <2>1. k = Absorb(Opened("established"), p) /\ r = Header("response", c, k)
    BY DEF Admits
  <2> QED BY <2>1 DEF Absorb, Opened
<1>3. Unborn(c)
  <2>1. Has(wire[e], c, "request")
    BY <1>1, <1>e, TailHas DEF Ops
  <2> QED BY <1>e, <2>1 DEF Unborn
<1>4. \A z \in Ends : Taken(z, c) = 0 /\ Sent(z, c) = 0 /\ done[z][c] = 0 /\ drained[z][c] = <<>>
  BY <1>3, UnbornEmpty
<1>5. (\A w \in Writers : ~Holds(e, c, w)) /\ ~Has(wire[e], c, "data")
  BY <1>3, <1>e, UnbornEmpty
<1>6. HoldsKept(e, c)
  BY <1>1, <1>5 DEF HoldsKept, Holds
<1>7. /\ WriteOf(o, c)' /\ ReadOf(o, c)' /\ EntryOf(o, c)' /\ NewsOf(o, c)'
      /\ WriteOf(e, c)' /\ Sent(o, c)' = 0 /\ Taken(o, c)' = 0 /\ Taken(e, c)' = 0
  BY <1>4, <1>6, <1>o, PacketSides
<1>8. Credible(p, 0)
  <2>1. Honest(wire[e], c, 0) /\ 0 <= 0 /\ 0 \in Nat
    BY <1>4, <1>o DEF StreamOf, NewsOf
  <2> QED BY <1>1, <2>1, HonestQueue
<1>9. EntryOf(e, c)'
  <2>1. p.buf = Window /\ p.fwd <= 0 /\ Window <= Window
    BY <1>8, <1>e, WindowAssumption DEF Credible
  <2> QED BY <1>1, <1>2, <1>4, <1>7, <1>o, <2>1 DEF EntryOf
<1>10. NewsOf(e, c)'
  <2>1. r.buf = Window /\ r.fwd = 0
    BY <1>2 DEF Header
  <2>2. Credible(r, 0)
    BY <2>1 DEF Credible
  <2> QED BY <1>4, <2>2, PacketNews
<1>11. ReadOf(e, c)'
  <2>1. Arrived(e, c)' = 0
    <3>1. Len(<<>>) = 0
      OBVIOUS
    <3> QED BY <1>1, <1>2, <1>7, <3>1 DEF Arrived
  <2>2. Spells(Tail(wire[e]), c, 0, 0)
    <3>1. ~Has(Tail(wire[e]), c, "data")
      BY <1>1, <1>5, TailHas DEF Ops
    <3>2. Tail(wire[e]) \in Seq(Packets) /\ 0 \in Nat
      BY <1>1, TailElements
    <3> QED BY <3>1, <3>2, SpellsNothing
  <2> QED BY <1>1, <1>4, <1>7, <1>o, <2>1, <2>2 DEF ReadOf
<1> QED BY <1>7, <1>9, <1>10, <1>11, <1>o DEF StreamOf

LEMMA StreamPacket ==
  ASSUME TypeOK, TypeOK', NEW e \in Ends, NEW c \in Conns, TableOf(c), StreamOf(c),
         NEW p \in Packets, NEW k, NEW r, PacketStep(e, c, p, k, r)
  PROVE  StreamOf(c)'
<1>1. p.c = c /\ TakesEffect(e, p, k, r)
  BY TakesFacts DEF PacketStep
<1>2. CASE Admits(e, p, k, r)
  BY <1>1, <1>2, StreamAdmits
<1>3. CASE ~Admits(e, p, k, r)
  <2>1. Absorbs(e, c, p, k, r)
    BY <1>3, PacketAbsorbs
  <2> QED BY <1>1, <2>1, StreamAbsorbs
<1> QED BY <1>2, <1>3

LEMMA StreamConnects ==
  ASSUME TypeOK, TypeOK', NEW c \in Conns, TableOf(c), StreamOf(c), Connects(c)
  PROVE  StreamOf(c)'
<1>o. "a" \in Ends /\ "b" \in Ends /\ Other("a") = "b" /\ Other("b") = "a" /\ "a" # "b" /\ \A z \in Ends : z = "a" \/ z = "b"
  BY EndsFacts
<1>1. PICK p \in Packets : p = Header("request", c, Free) /\ p.op = "request" /\ p.buf = Window /\ p.fwd = 0
  BY DecisionKinds, EndsFacts DEF Header, Free, Opened
<1>2. PICK k \in Connections : k = Opened("connecting") /\ k.receive = <<>> /\ k.fwd = 0 /\ k.tx = 0 /\ k.peerBuf = 0 /\ k.peerFwd = 0
  BY OpenedType DEF States, Opened
<1>3. DecisionEffect("a", c, "control", "idle", p, k) /\ drained' = drained
  BY <1>1, <1>2, DecisionFacts, EndsFacts, TaskFacts DEF Carried, Connects
<1>4. /\ pc["a"][c]["control"] = "idle" /\ packet'["a"][c]["control"] = p
      /\ conn'["a"][c] = k /\ conn'["b"][c] = conn["b"][c]
      /\ \A z \in Ends, u \in Tasks : z # "a" \/ u # "control" => pc'[z][c][u] = pc[z][c][u] /\ packet'[z][c][u] = packet[z][c][u]
      /\ UNCHANGED <<plan, wire, pump, done, got, drained>>
  BY <1>1, <1>3, <1>o DEF DecisionEffect
<1>5. Unborn(c)
  BY <1>4 DEF Unborn
<1>6. \A z \in Ends : Taken(z, c) = 0 /\ Sent(z, c) = 0 /\ done[z][c] = 0 /\ drained[z][c] = <<>> /\ \A w \in Writers : ~Holds(z, c, w)
  BY <1>5, UnbornEmpty
<1>7. \A z \in Ends : Taken(z, c)' = 0 /\ done'[z][c] = 0
  BY <1>4, <1>6 DEF Taken
<1>8. \A z \in Ends, w \in Writers : ~Holds(z, c, w)'
  BY <1>4, <1>6, TaskFacts DEF Holds
<1>9. \A z \in Ends : HoldsKept(z, c)
  BY <1>4, <1>6, <1>8 DEF HoldsKept, Holds
<1>10. ASSUME NEW z \in Ends PROVE WriteOf(z, c)' /\ Sent(z, c)' = 0
  <2>1. Taken(Other(z), c) <= Taken(Other(z), c)' /\ WriteOf(z, c)
    BY <1>6, <1>7, EndsFacts DEF StreamOf
  <2> QED BY <1>4, <1>6, <1>9, <2>1, WriteKept
<1>11. ASSUME NEW z \in Ends PROVE NewsOf(z, c)'
  <2>1. Taken(z, c) <= Taken(z, c)' /\ NewsOf(z, c)
    BY <1>6, <1>7 DEF StreamOf
  <2>2. Replying(z, c)' => Replying(z, c) /\ pump'[z] = pump[z]
    BY <1>4 DEF Replying
  <2>3. Credible(p, Taken(z, c)')
    BY <1>1, <1>7 DEF Credible
  <2>4. \A u \in Tasks : packet'[z][c][u] # NoPacket => packet'[z][c][u] = packet[z][c][u] \/ Credible(packet'[z][c][u], Taken(z, c)')
    BY <1>4, <2>3
  <2>5. Honest(wire[Other(z)], c, Taken(z, c)') => Honest(wire'[Other(z)], c, Taken(z, c)')
    BY <1>4
  <2> QED BY <2>1, <2>2, <2>4, <2>5, NewsKept
<1>12. EntryOf("a", c)' /\ EntryOf("b", c)'
  <2>1. EntryOf("a", c)'
    <3>1. 0 <= Window
      BY WindowAssumption
    <3> QED BY <1>2, <1>4, <1>7, <1>o, <3>1 DEF EntryOf
  <2>2. EntryOf("b", c)'
    <3>1. ~Exists("b", c)
      BY <1>5, <1>o, UnbornEmpty
    <3> QED BY <1>4, <3>1 DEF EntryOf, Exists
  <2> QED BY <2>1, <2>2
<1>13. ReadOf("a", c)' /\ ReadOf("b", c)'
  <2>1. ReadOf("a", c)'
    <3>1. Arrived("a", c)' = 0
      <4>1. Len(<<>>) = 0
        OBVIOUS
      <4> QED BY <1>2, <1>4, <1>7, <1>o, <4>1 DEF Arrived
    <3>2. Spells(wire["a"], c, 0, 0)
      <4>1. ~Has(wire["a"], c, "data")
        BY <1>5, <1>o, UnbornEmpty, HasMentions
      <4>2. wire["a"] \in Seq(Packets) /\ 0 \in Nat
        BY <1>o DEF TypeOK
      <4> QED BY <4>1, <4>2, SpellsNothing
    <3> QED BY <1>4, <1>6, <1>10, <1>o, <3>1, <3>2 DEF ReadOf
  <2>2. ReadOf("b", c)'
    <3>1. Arrived("b", c)' = Arrived("b", c) /\ pc'["b"][c]["reader"] = pc["b"][c]["reader"] /\ ReadOf("b", c)
      BY <1>4, <1>o, TaskFacts DEF Arrived, Taken, StreamOf
    <3>2. Sent("a", c)' = Sent("a", c)
      BY <1>6, <1>10, <1>o
    <3> QED BY <1>4, <1>o, <3>1, <3>2 DEF ReadOf
  <2> QED BY <2>1, <2>2
<1> QED BY <1>10, <1>11, <1>12, <1>13, <1>o DEF StreamOf

LEMMA StreamStart ==
  ASSUME Init, NEW c \in Conns
  PROVE  StreamOf(c)
<1> SUFFICES ASSUME NEW e \in Ends PROVE WriteOf(e, c) /\ ReadOf(e, c) /\ EntryOf(e, c) /\ NewsOf(e, c)
  BY DEF StreamOf
<1>1. /\ \A z \in Ends : conn[z][c] = Free /\ wire[z] = <<>> /\ pump[z] = NoPacket
      /\ \A z \in Ends, t \in Tasks : pc[z][c][t] = "idle" /\ packet[z][c][t] = NoPacket
      /\ \A z \in Ends : done[z][c] = 0 /\ drained[z][c] = <<>> /\ got[z][c] = <<>>
      /\ plan \in Plans
  BY DEF Init
<1>2. \A z \in Ends : Taken(z, c) = 0 /\ Arrived(z, c) = 0 /\ Sent(z, c) = 0
  <2>1. Len(<<>>) = 0
    OBVIOUS
  <2>2. ASSUME NEW z \in Ends PROVE Taken(z, c) = 0
    <3>1. PICK x, y : x = Len(got[z][c]) /\ y = Len(drained[z][c])
      OBVIOUS
    <3>2. x = 0 /\ y = 0
      BY <1>1, <2>1, <3>1
    <3>3. x + y = 0
      BY <3>2
    <3> QED BY <3>1, <3>3 DEF Taken
  <2>3. \A z \in Ends : Arrived(z, c) = 0
    BY <1>1, <2>2, FreeFields DEF Arrived
  <2>4. ASSUME NEW z \in Ends PROVE Sent(z, c) = 0
    <3>1. \A w \in Writers : pc[z][c][w] # "sent"
      BY <1>1, TaskFacts
    <3> QED BY <1>1, <3>1 DEF Sent
  <2> QED BY <2>2, <2>3, <2>4
<1>3. WriteOf(e, c)
  <2>1. c \in DOMAIN plan.bytes => plan.bytes[c][e] \in Nat
    BY <1>1, PlansAssumption
  <2>2. \A w \in Writers : ~Holds(e, c, w)
    BY <1>1, TaskFacts DEF Holds
  <2> QED BY <1>1, <1>2, <2>1, <2>2, EndsFacts, WindowAssumption DEF WriteOf
<1>4. ReadOf(e, c) /\ EntryOf(e, c)
  BY <1>1, <1>2, EndsFacts, FreeFields DEF ReadOf, EntryOf, Exists
<1>5. NewsOf(e, c)
  <2>1. Honest(<<>>, c, 0)
    BY DEF Honest
  <2> QED BY <1>1, <1>2, <2>1, EndsFacts DEF NewsOf, Replying
<1> QED BY <1>3, <1>4, <1>5

LEMMA StreamNext ==
  ASSUME Short, StreamInv, [Next]_vars
  PROVE  StreamInv'
<1>1. TypeOK /\ TaskInv /\ BirthInv /\ \A c \in Conns : TableOf(c) /\ StreamOf(c)
  BY DEF StreamInv, TableInv, TaskInv, BirthInv, TableOf
<1>2. Step /\ TableInv'
  BY <1>1, NextIsStep, TableNext DEF StreamInv
<1>t. TypeOK'
  BY <1>2 DEF TableInv
<1>3. ASSUME NEW c \in Conns PROVE StreamOf(c)'
  <2>1. CASE CloseListener
    BY <1>1, <1>t, <2>1, StreamListener
  <2>2. ASSUME NEW e \in Ends, TransportReset(e) PROVE StreamOf(c)'
    BY <1>1, <1>t, <2>2, StreamTransport
  <2>3. CASE Untouched(c)
    BY <1>1, <1>t, <2>3, StreamUntouched
  <2>4. CASE ConnStep(c)
    <3>1. CASE Accepts(c)
      BY <1>1, <1>t, <3>1, StreamAccepts
    <3>2. CASE Connects(c)
      BY <1>1, <1>t, <3>2, StreamConnects
    <3>3. ASSUME NEW e \in Ends, TaskStep(e, c) PROVE StreamOf(c)'
      BY <1>1, <1>t, <3>3, StreamTask
    <3>4. ASSUME NEW e \in Ends, ReplyStep(e, c) PROVE StreamOf(c)'
      BY <1>1, <1>t, <3>4, StreamReply
    <3>5. ASSUME NEW e \in Ends, NEW p \in Packets, NEW k, NEW r, PacketStep(e, c, p, k, r) PROVE StreamOf(c)'
      BY <1>1, <1>t, <3>5, StreamPacket
    <3> QED BY <2>4, <3>1, <3>2, <3>3, <3>4, <3>5 DEF ConnStep
  <2> QED BY <1>1, <1>2, <2>1, <2>2, <2>3, <2>4, Focus
<1> QED BY <1>2, <1>3 DEF StreamInv

\* A data packet for a live end finds room.
LEMMA HeadFits ==
  ASSUME TypeOK, NEW e \in Ends, NEW c \in Conns, StreamOf(c), wire[e] # <<>>,
         Head(wire[e]).op = "data", Head(wire[e]).c = c, conn[e][c].state \in Live
  PROVE  Len(Head(wire[e]).payload) <= Window - Len(conn[e][c].receive)
<1>2. wire[e] \in Seq(Packets)
  BY DEF TypeOK
<1>3. PICK p \in Packets : p = Head(wire[e])
  BY <1>2, TailElements
<1>5. PICK o \in Ends : o = Other(e) /\ e = Other(o)
  BY EndsFacts
<1>6. PICK x \in Nat, h \in Nat : x = Taken(e, c) /\ h = Len(conn[e][c].receive) /\ Arrived(e, c) = x + h
  BY StreamTypes
<1>7. PICK s \in Nat : s = Sent(o, c) /\ s <= x + Window
  BY <1>5, <1>6, SentFacts DEF StreamOf
<1>n. PICK n \in Nat : n = x + h /\ n = Arrived(e, c)
  BY <1>6
<1>8. Spells(wire[e], c, n, s)
  BY <1>5, <1>7, <1>n DEF StreamOf, ReadOf
<1>9. IsData(p, c)
  BY <1>3 DEF IsData
<1>10. PICK m \in Nat : m = Len(p.payload) /\ n + m <= s
  <2>1. n + Len(p.payload) <= s
    BY <1>2, <1>3, <1>8, <1>9, SpellsTail
  <2> QED BY <2>1, PacketFields
<1>11. m <= Window - h
  <2>1. \A v \in Nat : (x + h) + m <= s /\ s <= x + v => m <= v - h
    OBVIOUS
  <2>2. Window \in Nat
    BY WindowAssumption
  <2> QED BY <1>7, <1>n, <1>10, <2>1, <2>2
<1> QED BY <1>3, <1>6, <1>10, <1>11

\* No stream being as long as the 32-bit counters count, the credit is never
\* overspent: a data packet finds room in the receive ring of a live connection
\* (receive_space and handle_data of table.rs), whatever the order in which
\* announcements, data, the readers and the writers' accounting take effect.
THEOREM CreditIsNeverOverspent == ASSUME Short PROVE Spec => []NoOverrun
<1>1. Init => StreamInv
  BY TableStart, StreamStart DEF StreamInv
<1>2. StreamInv /\ [Next]_vars => StreamInv'
  BY StreamNext
<1>3. StreamInv => NoOverrun
  <2> SUFFICES ASSUME StreamInv, NEW e \in Ends, wire[e] # <<>>, Head(wire[e]).op = "data",
                      conn[e][Head(wire[e]).c].state \in Live
               PROVE  Len(Head(wire[e]).payload) <= Window - Len(conn[e][Head(wire[e]).c].receive)
    BY DEF NoOverrun
  <2>1. TypeOK /\ \A c \in Conns : StreamOf(c)
    BY DEF StreamInv, TableInv
  <2>2. wire[e] \in Seq(Packets)
    BY <2>1 DEF TypeOK
  <2>3. Head(wire[e]) \in Packets
    BY <2>2, TailElements
  <2>4. PICK c \in Conns : c = Head(wire[e]).c
    BY <2>3, PacketFields
  <2> QED BY <2>1, <2>4, HeadFits
<1> QED BY <1>1, <1>2, <1>3, PTL DEF Spec
=============================================================================
