------------------------ MODULE VsockStreamProofs ------------------------
(***************************************************************************)
(* Each direction of a vsock connection is a byte stream.  The invariant   *)
(* adds to those of VsockProofs the place of every byte at the reader's    *)
(* end and what has to hold before the reader is told of the end; the last *)
(* part of the argument maps every step to one of ByteStream or to none.   *)
(*                                                                         *)
(* The second half is about the tasks that wait: none of them is left      *)
(* parked once nothing is under way.                                       *)
(***************************************************************************)
EXTENDS VsockProofs

-----------------------------------------------------------------------------
(* The order of the bytes, and the end of a stream                         *)

\* The bytes of the stream are handed over in order: those the reader was
\* handed, those it drained, those in the ring.
Counts(q, r) == \A i \in 1 .. Len(q) : q[i] = r + i
PlaceOf(e, c) ==
  /\ Counts(got[e][c], 0) /\ Counts(drained[e][c], Len(got[e][c]))
  /\ Counts(conn[e][c].receive, Taken(e, c))

\* The shutdown that ends the stream from e to o is on its way.
Awaited(e, o, c) ==
  \/ pc[e][c]["control"] = "shutdown" /\ "send" \in packet[e][c]["control"].flags
  \/ HasFinal(wire[o], c)

\* End e sends nothing more.
Finished(e, c) ==
  /\ ~Unborn(c) /\ \A w \in Writers : ~Holds(e, c, w)
  /\ "send" \in conn[e][c].local \/ ~Exists(e, c)

\* Everything that was sent has arrived.
Complete(e, o, c) == ~Has(wire[o], c, "data") /\ Arrived(o, c) = Sent(e, c)

Ruined == {"reset", "refused"}

\* End o learns of the end of the stream from e, and tells its reader, only when
\* nothing more comes.  A reset connection may still become a closed one, which
\* is why it too must have all of the stream when a shutdown is on its way.
EndOf(e, o, c) ==
  /\ "send" \in conn[e][c].local => \A w \in Writers : ~Holds(e, c, w)
  /\ plan.faults = 0 /\ conn[o][c].state \in Ruined => conn[e][c].state \notin Live /\ ~Unborn(c)
  /\ plan.shuts = {} => ~Awaited(e, o, c) /\ "send" \notin conn[o][c].peer
  /\ Awaited(e, o, c) => Finished(e, c) /\ DataFirst(wire[o], c)
  /\ Awaited(e, o, c) /\ conn[o][c].state \in Ruined => Complete(e, o, c)
  /\ "send" \in conn[o][c].peer => Finished(e, c) /\ Complete(e, o, c)
  /\ conn[o][c].state = "closed" => "send" \in conn[o][c].peer
  /\ ended[o][c] => Finished(e, c) /\ Len(got[o][c]) = Sent(e, c) /\ pc[o][c]["reader"] = "eof"

ByteOf(c) ==
  /\ TableOf(c) /\ PeerOf(c) /\ StreamOf(c)
  /\ \A e \in Ends : PlaceOf(e, c) /\ EndOf(e, Other(e), c)
ByteInv == TypeOK /\ \A c \in Conns : ByteOf(c)

\* No program shuts a stream down under its own write, and none that shuts one
\* down meets a fault.
Orderly == \A p \in Plans : ~p.shutsWhileWriting /\ (p.faults = 0 \/ p.shuts = {})

\* What leaves the end of the stream from e to o as it is: on the side of the
\* sender and of the wire, and on that of the reader.
SenderQuiet(e, o, c) ==
  /\ \A w \in Writers : Holds(e, c, w)' => Holds(e, c, w)
  /\ \/ conn'[e][c] = Free \/ conn'[e][c] = conn[e][c]
     \/ /\ Exists(e, c) /\ ("send" \in conn'[e][c].local <=> "send" \in conn[e][c].local)
        /\ conn'[e][c].state \in Live => conn[e][c].state \in Live
  /\ Sent(e, c)' = Sent(e, c)
  /\ Awaited(e, o, c)' => Awaited(e, o, c)
  /\ DataFirst(wire[o], c) => DataFirst(wire'[o], c)
  /\ Has(wire'[o], c, "data") => Has(wire[o], c, "data")
  /\ Unborn(c)' => Unborn(c)

ReaderQuiet(o, c) ==
  /\ \/ conn'[o][c] = Free
     \/ /\ conn'[o][c].state \in Ruined \cup {"closed"} => conn'[o][c].state = conn[o][c].state
        /\ conn'[o][c].peer = conn[o][c].peer /\ Arrived(o, c)' = Arrived(o, c)
  /\ ended'[o][c] = ended[o][c]
  /\ ended[o][c] /\ pc[o][c]["reader"] = "eof" => got'[o][c] = got[o][c] /\ pc'[o][c]["reader"] = "eof"

LEMMA FreeEnds == Free.local = {} /\ Free.peer = {} /\ Free.state = "none" /\ Free.receive = <<>>
  BY DEF Free, Opened

LEMMA FinishedKept ==
  ASSUME NEW e, NEW o, NEW c, SenderQuiet(e, o, c), Finished(e, c)
  PROVE  Finished(e, c)'
<1>1. ~Unborn(c)' /\ \A w \in Writers : ~Holds(e, c, w)'
  BY DEF SenderQuiet, Finished
<1>2. "send" \in conn'[e][c].local \/ ~Exists(e, c)'
  <2>1. CASE conn'[e][c] = Free
    BY <2>1, FreeEnds DEF Exists
  <2>2. CASE conn'[e][c] = conn[e][c]
    BY <2>2 DEF Finished, Exists
  <2>3. CASE Exists(e, c) /\ ("send" \in conn'[e][c].local <=> "send" \in conn[e][c].local)
    BY <2>3 DEF Finished
  <2> QED BY <2>1, <2>2, <2>3 DEF SenderQuiet
<1> QED BY <1>1, <1>2 DEF Finished

\* The sender's side quiet, the reader's side has only its own news to account for.
ReaderNews(e, o, c) ==
  /\ plan.faults = 0 /\ conn'[o][c].state \in Ruined => conn'[e][c].state \notin Live /\ ~Unborn(c)'
  /\ plan.shuts = {} => "send" \notin conn'[o][c].peer
  /\ Awaited(e, o, c) /\ conn'[o][c].state \in Ruined => Complete(e, o, c)'
  /\ "send" \in conn'[o][c].peer => Finished(e, c) /\ Complete(e, o, c)'
  /\ conn'[o][c].state = "closed" => "send" \in conn'[o][c].peer
  /\ ended'[o][c] = ended[o][c]
  /\ ended[o][c] /\ pc[o][c]["reader"] = "eof" => got'[o][c] = got[o][c] /\ pc'[o][c]["reader"] = "eof"

LEMMA EndNews ==
  ASSUME plan' = plan, NEW e \in Ends, NEW o \in Ends, NEW c \in Conns, EndOf(e, o, c),
         SenderQuiet(e, o, c), ReaderNews(e, o, c)
  PROVE  EndOf(e, o, c)'
<1>1. Awaited(e, o, c)' => Awaited(e, o, c)
  BY DEF SenderQuiet
<1>2. Finished(e, c) => Finished(e, c)'
  BY FinishedKept
<1>3. "send" \in conn'[e][c].local => "send" \in conn[e][c].local
  BY FreeEnds DEF SenderQuiet
<1>9. ASSUME ended'[o][c]
      PROVE  Finished(e, c)' /\ Len(got'[o][c]) = Sent(e, c)' /\ pc'[o][c]["reader"] = "eof"
  BY <1>2, <1>9 DEF EndOf, SenderQuiet, ReaderNews
<1>a. "send" \in conn'[e][c].local => \A w \in Writers : ~Holds(e, c, w)'
  BY <1>3 DEF EndOf, SenderQuiet
<1>b. plan'.faults = 0 /\ conn'[o][c].state \in Ruined => conn'[e][c].state \notin Live /\ ~Unborn(c)'
  BY DEF ReaderNews
<1>c. plan'.shuts = {} => ~Awaited(e, o, c)' /\ "send" \notin conn'[o][c].peer
  BY <1>1 DEF EndOf, ReaderNews
<1>d. Awaited(e, o, c)' => Finished(e, c)' /\ DataFirst(wire'[o], c)
  BY <1>1, <1>2 DEF EndOf, SenderQuiet
<1>e. Awaited(e, o, c)' /\ conn'[o][c].state \in Ruined => Complete(e, o, c)'
  BY <1>1 DEF ReaderNews
<1>f. "send" \in conn'[o][c].peer => Finished(e, c)' /\ Complete(e, o, c)'
  BY <1>2 DEF ReaderNews
<1>g. conn'[o][c].state = "closed" => "send" \in conn'[o][c].peer
  BY DEF ReaderNews
<1> QED BY <1>9, <1>a, <1>b, <1>c, <1>d, <1>e, <1>f, <1>g DEF EndOf

LEMMA EndQuiet ==
  ASSUME plan' = plan, NEW e \in Ends, NEW o \in Ends, NEW c \in Conns, EndOf(e, o, c),
         SenderQuiet(e, o, c), ReaderQuiet(o, c)
  PROVE  EndOf(e, o, c)'
<1>4. conn'[e][c].state \in Live => conn[e][c].state \in Live
  BY FreeEnds DEF SenderQuiet, Live
<1>5. conn'[o][c].state \in Ruined \cup {"closed"} => conn'[o][c].state = conn[o][c].state
  BY FreeEnds DEF ReaderQuiet, Ruined
<1>6. ASSUME Complete(e, o, c), conn'[o][c].state \in Ruined \/ "send" \in conn'[o][c].peer
      PROVE  Complete(e, o, c)'
  <2>1. conn'[o][c] # Free
    BY <1>6, FreeEnds DEF Ruined
  <2> QED BY <1>6, <2>1 DEF Complete, SenderQuiet, ReaderQuiet
<1>7. "send" \in conn'[o][c].peer => "send" \in conn[o][c].peer
  BY FreeEnds DEF ReaderQuiet
<1>8. conn'[o][c].state = "closed" => conn'[o][c].peer = conn[o][c].peer
  BY FreeEnds DEF ReaderQuiet
<1>b. plan.faults = 0 /\ conn'[o][c].state \in Ruined => conn'[e][c].state \notin Live /\ ~Unborn(c)'
  BY <1>4, <1>5 DEF EndOf, SenderQuiet
<1>c. plan.shuts = {} => "send" \notin conn'[o][c].peer
  BY <1>7 DEF EndOf
<1>e. Awaited(e, o, c) /\ conn'[o][c].state \in Ruined => Complete(e, o, c)'
  BY <1>5, <1>6 DEF EndOf
<1>f. "send" \in conn'[o][c].peer => Finished(e, c) /\ Complete(e, o, c)'
  BY <1>6, <1>7 DEF EndOf
<1>g. conn'[o][c].state = "closed" => "send" \in conn'[o][c].peer
  BY <1>5, <1>8 DEF EndOf
<1>h. ReaderNews(e, o, c)
  BY <1>b, <1>c, <1>e, <1>f, <1>g DEF ReaderNews, ReaderQuiet
<1> QED BY <1>h, EndNews

\* As long as end e is not finished, nobody has heard of the end.
LEMMA EndUnheard ==
  ASSUME NEW e \in Ends, NEW o \in Ends, NEW c \in Conns, EndOf(e, o, c), ~Finished(e, c)
  PROVE  /\ ~Awaited(e, o, c) /\ "send" \notin conn[o][c].peer
         /\ conn[o][c].state # "closed" /\ ~ended[o][c]
  BY DEF EndOf

LEMMA EndStaysUnheard ==
  ASSUME plan' = plan, NEW e \in Ends, NEW o \in Ends, NEW c \in Conns, EndOf(e, o, c), ~Finished(e, c),
         "send" \in conn'[e][c].local => \A w \in Writers : ~Holds(e, c, w)',
         plan.faults = 0 /\ conn'[o][c].state \in Ruined => conn'[e][c].state \notin Live /\ ~Unborn(c)',
         Awaited(e, o, c)' => Awaited(e, o, c),
         "send" \in conn'[o][c].peer => "send" \in conn[o][c].peer,
         conn'[o][c].state = "closed" => conn[o][c].state = "closed",
         ended'[o][c] = ended[o][c]
  PROVE  EndOf(e, o, c)'
<1>1. ~Awaited(e, o, c)' /\ "send" \notin conn'[o][c].peer /\ conn'[o][c].state # "closed" /\ ~ended'[o][c]
  BY EndUnheard
<1> QED BY <1>1 DEF EndOf

-----------------------------------------------------------------------------
SentKnown(e, c) ==
  TypeOK /\ WriteOf(e, c) =>
    /\ (\A w \in Writers : pc[e][c][w] # "sent") => Sent(e, c) = done[e][c]
    /\ \A w \in Writers : pc[e][c][w] = "sent" => Sent(e, c) = done[e][c] + Len(packet[e][c][w].payload)
    /\ Sent(e, c) \in Nat

LEMMA SentAlways ==
  ASSUME NEW e \in Ends, NEW c \in Conns
  PROVE  SentKnown(e, c)
  BY SentFacts DEF SentKnown

LEMMA SentLater ==
  ASSUME NEW e \in Ends, NEW c \in Conns
  PROVE  SentKnown(e, c) /\ SentKnown(e, c)'
<1>1. SentKnown(e, c)
  BY SentAlways
<1> QED BY <1>1, PTL

LEMMA SentSame ==
  ASSUME TypeOK, TypeOK', NEW e \in Ends, NEW c \in Conns, WriteOf(e, c), WriteOf(e, c)',
         done'[e][c] = done[e][c],
         \A w \in Writers : /\ pc'[e][c][w] = "sent" <=> pc[e][c][w] = "sent"
                            /\ pc[e][c][w] = "sent" => packet'[e][c][w] = packet[e][c][w]
  PROVE  Sent(e, c)' = Sent(e, c)
<1>1. CASE \A w \in Writers : pc[e][c][w] # "sent"
  BY <1>1, SentLater DEF SentKnown
<1>2. ASSUME NEW w \in Writers, pc[e][c][w] = "sent" PROVE Sent(e, c)' = Sent(e, c)
  BY <1>2, SentLater DEF SentKnown
<1> QED BY <1>1, <1>2

-----------------------------------------------------------------------------
(* The order of the bytes                                                  *)

LEMMA CountsJoin ==
  ASSUME NEW g \in Seq(Nat), NEW b \in Seq(Nat), NEW r \in Nat, Counts(g, r), Counts(b, r + Len(g))
  PROVE  Counts(g \o b, r)
<1>1. PICK x \in Nat, y \in Nat : x = Len(g) /\ y = Len(b)
  OBVIOUS
<1>2. /\ Len(g \o b) = x + y
      /\ \A i \in 1 .. x + y : (g \o b)[i] = IF i <= x THEN g[i] ELSE b[i - x]
  BY <1>1
<1>3. ASSUME NEW i \in 1 .. x + y PROVE (g \o b)[i] = r + i
  <2>1. CASE i <= x
    <3>1. i \in 1 .. Len(g)
      BY <1>1, <2>1
    <3> QED BY <1>2, <2>1, <3>1 DEF Counts
  <2>2. CASE i > x
    <3>1. i - x \in 1 .. Len(b)
      BY <1>1, <2>2
    <3>2. b[i - x] = (r + x) + (i - x)
      BY <1>1, <3>1 DEF Counts
    <3>3. (g \o b)[i] = b[i - x]
      BY <1>2, <2>2
    <3>4. i \in Int
      OBVIOUS
    <3>5. (r + x) + (i - x) = r + i
      BY <3>4
    <3> QED BY <3>2, <3>3, <3>5
  <2>3. i \in Int /\ x \in Int
    OBVIOUS
  <2>4. i <= x \/ i > x
    BY <2>3
  <2> QED BY <2>1, <2>2, <2>4
<1> QED BY <1>2, <1>3 DEF Counts

LEMMA CountsSplit ==
  ASSUME NEW q \in Seq(Nat), NEW r \in Nat, NEW n \in 1 .. Len(q), Counts(q, r)
  PROVE  Counts(SubSeq(q, 1, n), r) /\ Counts(SubSeq(q, n + 1, Len(q)), r + n)
<1>1. PICK h \in Nat : h = Len(q) /\ n \in 1 .. h
  OBVIOUS
<1>2. Len(SubSeq(q, 1, n)) = n /\ \A i \in 1 .. n : SubSeq(q, 1, n)[i] = q[i]
  BY <1>1
<1>3. Len(SubSeq(q, n + 1, h)) = h - n /\ \A i \in 1 .. h - n : SubSeq(q, n + 1, h)[i] = q[n + i]
  BY <1>1
<1>4. ASSUME NEW i \in 1 .. n PROVE SubSeq(q, 1, n)[i] = r + i
  <2>1. i \in 1 .. Len(q)
    BY <1>1
  <2> QED BY <1>2, <2>1 DEF Counts
<1>5. ASSUME NEW i \in 1 .. h - n PROVE SubSeq(q, n + 1, h)[i] = (r + n) + i
  <2>1. n + i \in 1 .. Len(q)
    BY <1>1
  <2>2. q[n + i] = r + (n + i)
    BY <2>1 DEF Counts
  <2> QED BY <1>3, <2>2
<1> QED BY <1>1, <1>2, <1>3, <1>4, <1>5 DEF Counts

LEMMA CountsNothing == \A r : Counts(<<>>, r)
<1>1. Len(<<>>) = 0
  OBVIOUS
<1> QED BY <1>1 DEF Counts

LEMMA PlaceTypes ==
  ASSUME TypeOK, NEW e \in Ends, NEW c \in Conns
  PROVE  got[e][c] \in Seq(Nat) /\ drained[e][c] \in Seq(Nat) /\ conn[e][c].receive \in Seq(Nat)
  BY EntryFields DEF TypeOK

\* The bytes stay where they are, or those in the ring are dropped with it.
LEMMA PlaceSteady ==
  ASSUME NEW e \in Ends, NEW c \in Conns, PlaceOf(e, c),
         got'[e][c] = got[e][c], drained'[e][c] = drained[e][c],
         conn'[e][c].receive = conn[e][c].receive \/ conn'[e][c].receive = <<>>
  PROVE  PlaceOf(e, c)'
<1>1. Taken(e, c)' = Taken(e, c)
  BY DEF Taken
<1> QED BY <1>1, CountsNothing DEF PlaceOf

\* The reader takes n bytes out of the ring, and keeps them or hands them over.
LEMMA PlaceRead ==
  ASSUME TypeOK, NEW e \in Ends, NEW c \in Conns, PlaceOf(e, c), drained[e][c] = <<>>,
         NEW n \in 1 .. Len(conn[e][c].receive),
         conn'[e][c].receive = SubSeq(conn[e][c].receive, n + 1, Len(conn[e][c].receive)),
         \/ got'[e][c] = got[e][c] /\ drained'[e][c] = SubSeq(conn[e][c].receive, 1, n)
         \/ got'[e][c] = got[e][c] \o SubSeq(conn[e][c].receive, 1, n) /\ drained'[e][c] = <<>>
  PROVE  PlaceOf(e, c)'
<1>1. PICK g \in Seq(Nat), q \in Seq(Nat) : g = got[e][c] /\ q = conn[e][c].receive /\ n \in 1 .. Len(q)
  BY PlaceTypes
<1>2. PICK x \in Nat : x = Len(g) /\ Len(<<>>) = 0 /\ x + 0 = x
  BY <1>1
<1>3. Taken(e, c) = x
  BY <1>1, <1>2 DEF Taken
<1>4. Counts(g, 0) /\ Counts(q, x)
  BY <1>1, <1>3 DEF PlaceOf
<1>5. Counts(SubSeq(q, 1, n), x) /\ Counts(SubSeq(q, n + 1, Len(q)), x + n)
  BY <1>1, <1>4, CountsSplit
<1>6. PICK b \in Seq(Nat) : b = SubSeq(q, 1, n) /\ Len(b) = n /\ Len(g \o b) = x + n
  <2>1. SubSeq(q, 1, n) \in Seq(Nat) /\ Len(SubSeq(q, 1, n)) = n /\ Len(g \o SubSeq(q, 1, n)) = Len(g) + n
    BY <1>1, TakenLengths
  <2> QED BY <1>2, <2>1
<1>7. CASE got'[e][c] = g /\ drained'[e][c] = b
  <2>1. Taken(e, c)' = x + n
    BY <1>2, <1>6, <1>7 DEF Taken
  <2> QED BY <1>1, <1>2, <1>4, <1>5, <1>6, <1>7, <2>1 DEF PlaceOf
<1>8. CASE got'[e][c] = g \o b /\ drained'[e][c] = <<>>
  <2>1. PICK z \in Nat : z = x + n
    BY <1>6
  <2>2. Taken(e, c)' = z /\ z + 0 = z
    BY <1>2, <1>6, <1>8, <2>1 DEF Taken
  <2>3. Counts(g \o b, 0)
    <3>1. 0 + Len(g) = x /\ 0 \in Nat
      BY <1>2
    <3>2. Counts(b, 0 + Len(g))
      BY <1>5, <1>6, <3>1
    <3> QED BY <1>4, <3>1, <3>2, CountsJoin
  <2> QED BY <1>1, <1>5, <1>8, <2>1, <2>2, <2>3, CountsNothing DEF PlaceOf
<1> QED BY <1>1, <1>6, <1>7, <1>8

\* It hands over what it had drained.
LEMMA PlaceHands ==
  ASSUME TypeOK, NEW e \in Ends, NEW c \in Conns, PlaceOf(e, c),
         got'[e][c] = got[e][c] \o drained[e][c], drained'[e][c] = <<>>, conn'[e][c].receive = conn[e][c].receive
  PROVE  PlaceOf(e, c)'
<1>1. PICK g \in Seq(Nat), b \in Seq(Nat) : g = got[e][c] /\ b = drained[e][c]
  BY PlaceTypes
<1>e. Len(<<>>) = 0
  OBVIOUS
<1>2. PICK x \in Nat, y \in Nat : x = Len(g) /\ y = Len(b) /\ Len(g \o b) = x + y
  BY ConcatLength
<1>3. PICK z \in Nat : z = x + y /\ z + 0 = z
  OBVIOUS
<1>4. Taken(e, c) = z /\ Taken(e, c)' = z
  BY <1>1, <1>2, <1>3, <1>e DEF Taken
<1>5. Counts(g \o b, 0)
  <2>1. 0 + Len(g) = x /\ 0 \in Nat
    BY <1>2
  <2>2. Counts(b, 0 + Len(g)) /\ Counts(g, 0)
    BY <1>1, <1>2, <2>1 DEF PlaceOf
  <2> QED BY <2>1, <2>2, CountsJoin
<1> QED BY <1>1, <1>4, <1>5, CountsNothing DEF PlaceOf

\* The bytes that arrive are the next.
LEMMA PlaceStores ==
  ASSUME TypeOK, NEW e \in Ends, NEW c \in Conns, PlaceOf(e, c), NEW b \in Seq(Nat), Counts(b, Arrived(e, c)),
         got'[e][c] = got[e][c], drained'[e][c] = drained[e][c], conn'[e][c].receive = conn[e][c].receive \o b
  PROVE  PlaceOf(e, c)'
<1>1. Taken(e, c)' = Taken(e, c)
  BY DEF Taken
<1>2. PICK q \in Seq(Nat), x \in Nat : q = conn[e][c].receive /\ x = Taken(e, c) /\ Arrived(e, c) = x + Len(q)
  BY PlaceTypes, StreamTypes
<1>3. Counts(q \o b, x)
  <2>1. Counts(q, x)
    BY <1>2 DEF PlaceOf
  <2>2. Counts(b, x + Len(q))
    BY <1>2
  <2> QED BY <2>1, <2>2, CountsJoin
<1> QED BY <1>1, <1>2, <1>3 DEF PlaceOf

-----------------------------------------------------------------------------
(* The ends of the streams under a step of a task                          *)

Ordered(c) == \A e \in Ends : PlaceOf(e, c) /\ EndOf(e, Other(e), c)

\* What is known when a task of end e takes a step at connection c.
TaskContext(e, o, c) ==
  /\ TypeOK /\ TypeOK' /\ TaskInv /\ ByteOf(c) /\ StreamOf(c)' /\ TaskKeeps(e, c)
  /\ Unborn(c)' => Unborn(c)
  /\ o = Other(e) /\ e = Other(o) /\ e # o /\ plan' = plan

LEMMA ContextFacts ==
  ASSUME NEW e \in Ends, NEW o \in Ends, NEW c \in Conns, TaskContext(e, o, c)
  PROVE  /\ TypeOK /\ TypeOK' /\ WriteOf(e, c) /\ WriteOf(e, c)' /\ WriteOf(o, c) /\ WriteOf(o, c)'
         /\ SideKept(o, c) /\ wire'[e] = wire[e] /\ plan' = plan /\ (Unborn(c)' => Unborn(c))
         /\ EndOf(e, o, c) /\ EndOf(o, e, c) /\ PlaceOf(e, c) /\ PlaceOf(o, c)
<1>1. TypeOK /\ TypeOK' /\ plan' = plan /\ (Unborn(c)' => Unborn(c)) /\ o = Other(e) /\ e = Other(o) /\ e # o
  BY DEF TaskContext
<1>2. TaskKeeps(e, c) /\ ByteOf(c) /\ StreamOf(c)'
  BY DEF TaskContext
<1>3. SideKept(o, c) /\ wire'[e] = wire[e]
  BY <1>1, <1>2 DEF TaskKeeps
<1>4. WriteOf(e, c) /\ WriteOf(o, c) /\ EndOf(e, o, c) /\ EndOf(o, e, c) /\ PlaceOf(e, c) /\ PlaceOf(o, c)
  BY <1>1, <1>2 DEF ByteOf, StreamOf
<1>5. WriteOf(e, c)' /\ WriteOf(o, c)'
  BY <1>2 DEF StreamOf
<1> QED BY <1>1, <1>3, <1>4, <1>5

LEMMA FarEnd ==
  ASSUME NEW e \in Ends, NEW o \in Ends, NEW c \in Conns, TaskContext(e, o, c)
  PROVE  ReaderQuiet(o, c) /\ SenderQuiet(o, e, c) /\ PlaceOf(o, c)'
<1>1. /\ TypeOK /\ TypeOK' /\ WriteOf(o, c) /\ WriteOf(o, c)' /\ SideKept(o, c) /\ wire'[e] = wire[e]
      /\ (Unborn(c)' => Unborn(c)) /\ PlaceOf(o, c)
  BY ContextFacts
<1>2. /\ conn'[o][c] = conn[o][c] /\ got'[o][c] = got[o][c] /\ drained'[o][c] = drained[o][c]
      /\ ended'[o][c] = ended[o][c] /\ done'[o][c] = done[o][c]
      /\ \A t \in Tasks : pc'[o][c][t] = pc[o][c][t] /\ packet'[o][c][t] = packet[o][c][t]
  BY <1>1 DEF SideKept
<1>3. Sent(o, c)' = Sent(o, c)
  BY <1>1, <1>2, SentSame, TaskFacts
<1>4. ReaderQuiet(o, c)
  BY <1>2, TaskFacts DEF ReaderQuiet, Arrived, Taken
<1>5. Awaited(o, e, c)' => Awaited(o, e, c)
  BY <1>1, <1>2, TaskFacts DEF Awaited
<1>6. \A w \in Writers : Holds(o, c, w)' => Holds(o, c, w)
  BY <1>2, TaskFacts DEF Holds
<1>7. SenderQuiet(o, e, c)
  BY <1>1, <1>2, <1>3, <1>5, <1>6 DEF SenderQuiet
<1> QED BY <1>1, <1>2, <1>4, <1>7, PlaceSteady

\* What is left to show of such a step.
LEMMA TaskOrdered ==
  ASSUME NEW e \in Ends, NEW o \in Ends, NEW c \in Conns, TaskContext(e, o, c), PlaceOf(e, c)'
  PROVE  /\ EndOf(e, o, c)' /\ EndOf(o, e, c)' => Ordered(c)'
         /\ SenderQuiet(e, o, c) => EndOf(e, o, c)'
         /\ ReaderQuiet(e, c) => EndOf(o, e, c)'
         /\ SenderQuiet(e, o, c) /\ ReaderQuiet(e, c) => Ordered(c)'
<1>1. ReaderQuiet(o, c) /\ SenderQuiet(o, e, c) /\ PlaceOf(o, c)'
  BY FarEnd
<1>2. plan' = plan /\ EndOf(e, o, c) /\ EndOf(o, e, c)
  BY ContextFacts
<1>3. SenderQuiet(e, o, c) => EndOf(e, o, c)'
  BY <1>1, <1>2, EndQuiet
<1>4. ReaderQuiet(e, c) => EndOf(o, e, c)'
  BY <1>1, <1>2, EndQuiet
<1>5. ASSUME EndOf(e, o, c)', EndOf(o, e, c)' PROVE Ordered(c)'
  <2>1. o = Other(e) /\ e = Other(o) /\ \A z \in Ends : z = e \/ z = o
    BY EndsFacts DEF TaskContext
  <2> QED BY <1>1, <1>5, <2>1 DEF Ordered
<1> QED BY <1>3, <1>4, <1>5

\* Task t decides on no data and no shutdown; what it transmits is no data.
Calm(e, o, c, t) ==
  /\ pc'[e][c][t] \notin {"data", "sent", "shutdown"}
  /\ \A u \in Tasks : u # t => pc'[e][c][u] = pc[e][c][u] /\ packet'[e][c][u] = packet[e][c][u]
  /\ \/ conn'[e][c] = Free \/ conn'[e][c] = conn[e][c]
     \/ Exists(e, c) /\ conn'[e][c].local = conn[e][c].local /\ conn'[e][c].state = conn[e][c].state
  /\ Sent(e, c)' = Sent(e, c)
  /\ \/ wire'[o] = wire[o]
     \/ /\ packet[e][c][t] \in Packets /\ packet[e][c][t].c = c /\ packet[e][c][t].op # "data"
        /\ pc[e][c][t] = packet[e][c][t].op /\ (packet[e][c][t].op = "shutdown" => t = "control")
        /\ wire'[o] = Append(wire[o], packet[e][c][t])

LEMMA CalmIsQuiet ==
  ASSUME NEW e \in Ends, NEW o \in Ends, NEW c \in Conns, TaskContext(e, o, c), NEW t \in Tasks, Calm(e, o, c, t)
  PROVE  SenderQuiet(e, o, c)
<1>1. TypeOK /\ (Unborn(c)' => Unborn(c)) /\ wire[o] \in Seq(Packets)
  BY ContextFacts DEF TypeOK
<1>2. \A w \in Writers : Holds(e, c, w)' => Holds(e, c, w)
  BY TaskFacts DEF Calm, Holds
<1>3. /\ HasFinal(wire'[o], c) => Awaited(e, o, c)
      /\ DataFirst(wire[o], c) => DataFirst(wire'[o], c)
      /\ Has(wire'[o], c, "data") => Has(wire[o], c, "data")
  <2>1. CASE wire'[o] = wire[o]
    BY <2>1 DEF Awaited
  <2>2. CASE wire'[o] # wire[o]
    <3>1. PICK p \in Packets : /\ p = packet[e][c][t] /\ p.c = c /\ p.op # "data" /\ pc[e][c][t] = p.op
                               /\ p.op = "shutdown" => t = "control"
                               /\ wire'[o] = Append(wire[o], p)
      BY <2>2 DEF Calm
    <3>2. ~IsData(p, c)
      BY <3>1 DEF IsData
    <3>3. HasFinal(wire'[o], c) => HasFinal(wire[o], c) \/ Final(p, c)
      BY <1>1, <3>1, AppendFinal
    <3>4. DataFirst(wire[o], c) => DataFirst(wire'[o], c)
      BY <1>1, <3>1, <3>2, AppendFinal
    <3>5. Final(p, c) => Awaited(e, o, c)
      BY <3>1 DEF Final, Awaited
    <3>6. HasFinal(wire[o], c) => Awaited(e, o, c)
      BY DEF Awaited
    <3>7. "data" \in Ops
      BY DEF Ops
    <3>8. Has(wire'[o], c, "data") => Has(wire[o], c, "data")
      BY <1>1, <3>1, <3>7, AppendHas
    <3> QED BY <3>3, <3>4, <3>5, <3>6, <3>8
  <2> QED BY <2>1, <2>2
<1>4. Awaited(e, o, c)' => Awaited(e, o, c)
  <2>1. pc'[e][c]["control"] = "shutdown" =>
          pc[e][c]["control"] = "shutdown" /\ packet'[e][c]["control"] = packet[e][c]["control"]
    BY TaskFacts DEF Calm
  <2> QED BY <1>3, <2>1 DEF Awaited
<1> QED BY <1>1, <1>2, <1>3, <1>4 DEF SenderQuiet, Calm

\* The writers that hold a packet on the wire are the same.
LEMMA SentStill ==
  ASSUME NEW e \in Ends, NEW o \in Ends, NEW c \in Conns, TaskContext(e, o, c), NEW t \in Tasks,
         pc[e][c][t] # "sent", pc'[e][c][t] # "sent", done'[e][c] = done[e][c],
         \A u \in Tasks : u # t => pc'[e][c][u] = pc[e][c][u] /\ packet'[e][c][u] = packet[e][c][u]
  PROVE  Sent(e, c)' = Sent(e, c)
<1>1. TypeOK /\ TypeOK' /\ WriteOf(e, c) /\ WriteOf(e, c)'
  BY ContextFacts
<1>2. \A w \in Writers : /\ pc'[e][c][w] = "sent" <=> pc[e][c][w] = "sent"
                         /\ pc[e][c][w] = "sent" => packet'[e][c][w] = packet[e][c][w]
  BY TaskFacts
<1> QED BY <1>1, <1>2, SentSame

LEMMA SameEnds ==
  ASSUME NEW k \in Connections
  PROVE  /\ LET k2 == [Announced(k) EXCEPT !.asked = TRUE] IN
              k2.local = k.local /\ k2.peer = k.peer /\ k2.state = k.state /\ k2.receive = k.receive
         /\ LET k2 == [Announced(k) EXCEPT !.transmitting = TRUE] IN
              k2.local = k.local /\ k2.peer = k.peer /\ k2.state = k.state /\ k2.receive = k.receive
         /\ \A d : LET k2 == [Announced(k) EXCEPT !.local = d] IN
              k2.local = d /\ k2.peer = k.peer /\ k2.state = k.state /\ k2.receive = k.receive
         /\ \A n : LET k2 == Reading(k, n) IN k2.local = k.local /\ k2.peer = k.peer /\ k2.state = k.state
         /\ \A n : LET k2 == Announced(Reading(k, n)) IN
              k2.local = k.local /\ k2.peer = k.peer /\ k2.state = k.state
         /\ LET k2 == [k EXCEPT !.transmitting = FALSE] IN
              k2.local = k.local /\ k2.peer = k.peer /\ k2.state = k.state /\ k2.receive = k.receive
         /\ \A n : LET k2 == [k EXCEPT !.transmitting = FALSE, !.tx = n] IN
              k2.local = k.local /\ k2.peer = k.peer /\ k2.state = k.state /\ k2.receive = k.receive
  BY DEF Connections, Announced, Reading

\* The entry as the reader and the programs see it.
SameEntry(e, c) ==
  \/ conn'[e][c] = Free \/ conn'[e][c] = conn[e][c]
  \/ /\ Exists(e, c) /\ conn'[e][c].state = conn[e][c].state
     /\ conn'[e][c].local = conn[e][c].local /\ conn'[e][c].peer = conn[e][c].peer

\* A step of end e that moves no byte in its own ring.
ReaderRests(e, c) ==
  /\ conn'[e][c].receive = conn[e][c].receive \/ conn'[e][c] = Free
  /\ got'[e][c] = got[e][c] /\ drained'[e][c] = drained[e][c] /\ ended'[e][c] = ended[e][c]
  /\ pc[e][c]["reader"] = "eof" => pc'[e][c]["reader"] = "eof"

LEMMA RestIsQuiet ==
  ASSUME NEW e \in Ends, NEW c \in Conns, SameEntry(e, c), ReaderRests(e, c), PlaceOf(e, c)
  PROVE  ReaderQuiet(e, c) /\ PlaceOf(e, c)'
<1>1. conn'[e][c].receive = conn[e][c].receive \/ conn'[e][c].receive = <<>>
  BY FreeEnds DEF ReaderRests
<1>2. PlaceOf(e, c)'
  BY <1>1, PlaceSteady DEF ReaderRests
<1>3. conn'[e][c] # Free => Arrived(e, c)' = Arrived(e, c)
  BY DEF ReaderRests, Arrived, Taken
<1>4. conn'[e][c] = Free \/ (conn'[e][c].state = conn[e][c].state /\ conn'[e][c].peer = conn[e][c].peer)
  BY DEF SameEntry
<1>5. ReaderQuiet(e, c)
  BY <1>3, <1>4 DEF ReaderQuiet, ReaderRests
<1> QED BY <1>2, <1>5

\* A decision on neither data nor a shutdown, by a task that is not the reader.
LEMMA OrderedDecision ==
  ASSUME NEW e \in Ends, NEW o \in Ends, NEW c \in Conns, TaskContext(e, o, c), NEW t \in Tasks, NEW x,
         NEW p \in Packets, NEW k \in Connections, Decision(e, c, t, x, p, k), drained' = drained,
         p.op \in {"creditRequest", "reset"}, x # "sent", t # "reader",
         \/ k = Free
         \/ /\ Exists(e, c) /\ k.state = conn[e][c].state /\ k.local = conn[e][c].local
            /\ k.peer = conn[e][c].peer /\ k.receive = conn[e][c].receive
  PROVE  Ordered(c)'
<1>1. TypeOK /\ PlaceOf(e, c) /\ p.op \in Carried
  BY ContextFacts DEF Carried
<1>2. DecisionEffect(e, c, t, x, p, k)
  BY <1>1, DecisionFacts
<1>3. /\ pc[e][c][t] = x /\ pc'[e][c][t] = p.op /\ conn'[e][c] = k
      /\ \A u \in Tasks : u # t => pc'[e][c][u] = pc[e][c][u] /\ packet'[e][c][u] = packet[e][c][u]
      /\ wire' = wire /\ done' = done /\ got' = got /\ ended' = ended
  BY <1>2 DEF DecisionEffect
<1>4. Sent(e, c)' = Sent(e, c)
  BY <1>3, SentStill
<1>5. Calm(e, o, c, t)
  BY <1>3, <1>4 DEF Calm
<1>6. SameEntry(e, c) /\ ReaderRests(e, c)
  BY <1>3, TaskFacts DEF SameEntry, ReaderRests
<1>7. SenderQuiet(e, o, c) /\ ReaderQuiet(e, c) /\ PlaceOf(e, c)'
  BY <1>1, <1>5, <1>6, CalmIsQuiet, RestIsQuiet
<1> QED BY <1>7, TaskOrdered

LEMMA OrderedAsks ==
  ASSUME NEW e \in Ends, NEW o \in Ends, NEW c \in Conns, TaskContext(e, o, c), NEW w \in Writers, Asks(e, c, w)
  PROVE  Ordered(c)'
<1>1. PICK p : p = Header("creditRequest", c, conn[e][c])
  OBVIOUS
<1>2. PICK k : k = [Announced(conn[e][c]) EXCEPT !.asked = TRUE]
  OBVIOUS
<1>3. TypeOK /\ conn[e][c] \in Connections
  BY ContextFacts DEF TypeOK
<1>4. p \in Packets /\ k \in Connections /\ p.op = "creditRequest"
  BY <1>1, <1>2, <1>3, DecisionKinds DEF Header
<1>5. Decision(e, c, w, "blocked", p, k) /\ drained' = drained /\ Exists(e, c)
  BY <1>1, <1>2 DEF Asks, Exists
<1>6. /\ k.state = conn[e][c].state /\ k.local = conn[e][c].local
      /\ k.peer = conn[e][c].peer /\ k.receive = conn[e][c].receive
  BY <1>2, <1>3, SameEnds
<1> QED BY <1>4, <1>5, <1>6, OrderedDecision, TaskFacts

LEMMA OrderedAbandons ==
  ASSUME NEW e \in Ends, NEW o \in Ends, NEW c \in Conns, TaskContext(e, o, c), NEW x, Abandons(e, c, x)
  PROVE  Ordered(c)'
<1>1. PICK p : p = Header("reset", c, conn[e][c])
  OBVIOUS
<1>3. TypeOK /\ conn[e][c] \in Connections
  BY ContextFacts DEF TypeOK
<1>4. p \in Packets /\ Free \in Connections /\ p.op = "reset"
  BY <1>1, <1>3, DecisionKinds DEF Header
<1>5. Decision(e, c, "control", x, p, Free) /\ drained' = drained /\ x # "sent"
  BY <1>1 DEF Abandons
<1> QED BY <1>4, <1>5, OrderedDecision, TaskFacts

LEMMA OrderedFrees ==
  ASSUME NEW e \in Ends, NEW o \in Ends, NEW c \in Conns, TaskContext(e, o, c), NEW x, Frees(e, c, x)
  PROVE  Ordered(c)'
<1>1. TypeOK /\ PlaceOf(e, c)
  BY ContextFacts
<1>2. FreesEffect(e, c, x) /\ x # "sent"
  BY <1>1, FreesFacts DEF Frees
<1>3. /\ pc[e][c]["control"] = x /\ pc'[e][c]["control"] = "gone" /\ conn'[e][c] = Free
      /\ \A u \in Tasks : u # "control" => pc'[e][c][u] = pc[e][c][u] /\ packet'[e][c][u] = packet[e][c][u]
      /\ wire' = wire /\ done' = done /\ got' = got /\ ended' = ended /\ drained' = drained
  BY <1>2 DEF FreesEffect
<1>4. Sent(e, c)' = Sent(e, c)
  BY <1>2, <1>3, SentStill, TaskFacts
<1>5. Calm(e, o, c, "control")
  BY <1>3, <1>4 DEF Calm
<1>6. SameEntry(e, c) /\ ReaderRests(e, c)
  BY <1>3, TaskFacts DEF SameEntry, ReaderRests
<1>7. SenderQuiet(e, o, c) /\ ReaderQuiet(e, c) /\ PlaceOf(e, c)'
  BY <1>1, <1>5, <1>6, CalmIsQuiet, RestIsQuiet, TaskFacts
<1> QED BY <1>7, TaskOrdered

\* The reader is told of the end only after the last byte.
LEMMA OrderedEof ==
  ASSUME NEW e \in Ends, NEW o \in Ends, NEW c \in Conns, TaskContext(e, o, c),
         conn'[e][c] = conn[e][c], got'[e][c] = got[e][c], drained'[e][c] = drained[e][c],
         pc[e][c]["reader"] = "armed", pc'[e][c]["reader"] = "eof", AtEof(conn[e][c])
  PROVE  EndOf(o, e, c)'
<1>1. TypeOK /\ EndOf(o, e, c) /\ plan' = plan /\ wire'[e] = wire[e] /\ SideKept(o, c)
  BY ContextFacts
<1>2. SenderQuiet(o, e, c)
  BY FarEnd
<1>3. ReadOf(e, c)
  BY DEF TaskContext, ByteOf, StreamOf
<1>4. "send" \in conn[e][c].peer
  BY <1>1 DEF AtEof, EndOf
<1>5. Finished(o, c) /\ Complete(o, e, c)
  BY <1>1, <1>4 DEF EndOf
<1>6. Finished(o, c)'
  BY <1>2, <1>5, FinishedKept
<1>7. Sent(o, c)' = Sent(o, c) /\ Arrived(e, c)' = Arrived(e, c)
  BY <1>2 DEF SenderQuiet, Arrived, Taken
<1>8. Complete(o, e, c)'
  BY <1>1, <1>5, <1>7 DEF Complete
<1>9. Len(got'[e][c]) = Sent(o, c)'
  <2>1. drained[e][c] = <<>> /\ conn[e][c].receive = <<>> /\ Len(<<>>) = 0
    BY <1>3 DEF ReadOf, AtEof
  <2>2. Len(got[e][c]) \in Nat
    BY <1>1, PlaceTypes
  <2>3. Arrived(e, c) = Len(got[e][c])
    BY <2>1, <2>2 DEF Arrived, Taken
  <2> QED BY <1>5, <1>7, <2>3 DEF Complete
<1>10. Awaited(o, e, c)' => Awaited(o, e, c)
  BY <1>2 DEF SenderQuiet
<1>11. conn'[o][c] = conn[o][c]
  BY <1>1 DEF SideKept
<1>a. "send" \in conn'[o][c].local => \A w \in Writers : ~Holds(o, c, w)'
  BY <1>6 DEF Finished
<1>b. plan'.faults = 0 /\ conn'[e][c].state \in Ruined => conn'[o][c].state \notin Live /\ ~Unborn(c)'
  BY <1>1, <1>6, <1>11 DEF EndOf, Finished
<1>c. plan'.shuts = {} => ~Awaited(o, e, c)' /\ "send" \notin conn'[e][c].peer
  BY <1>1, <1>10 DEF EndOf
<1>d. Awaited(o, e, c)' => Finished(o, c)' /\ DataFirst(wire'[e], c)
  BY <1>1, <1>6, <1>10 DEF EndOf
<1>g. conn'[e][c].state = "closed" => "send" \in conn'[e][c].peer
  BY <1>4
<1> QED BY <1>6, <1>8, <1>9, <1>a, <1>b, <1>c, <1>d, <1>g DEF EndOf

LEMMA OrderedMoves ==
  ASSUME NEW e \in Ends, NEW o \in Ends, NEW c \in Conns, TaskContext(e, o, c), NEW t \in Tasks, NEW x, NEW y,
         Moves(e, c, t, x, y)
  PROVE  Ordered(c)'
<1>1. TypeOK /\ PlaceOf(e, c) /\ ended \in [Ends -> [Conns -> BOOLEAN]]
  BY ContextFacts DEF TypeOK
<1>2. MovesEffect(e, c, t, x, y)
  BY <1>1, MovesFacts
<1>3. /\ pc[e][c][t] = x /\ pc'[e][c][t] = y /\ conn' = conn
      /\ \A u \in Tasks : u # t => pc'[e][c][u] = pc[e][c][u] /\ packet'[e][c][u] = packet[e][c][u]
      /\ wire' = wire /\ done' = done /\ got' = got /\ drained' = drained
  BY <1>2 DEF MovesEffect
<1>4. x \notin Carried \cup {"sent", "gone", "eof"} /\ y \notin Carried \cup {"sent"}
  BY DEF Moves
<1>5. x \notin {"sent", "eof"} /\ y \notin {"data", "sent", "shutdown"}
  BY <1>4 DEF Carried
<1>6. Sent(e, c)' = Sent(e, c)
  BY <1>3, <1>5, SentStill
<1>7. Calm(e, o, c, t)
  BY <1>3, <1>5, <1>6 DEF Calm
<1>8. SenderQuiet(e, o, c)
  BY <1>7, CalmIsQuiet
<1>9. CASE y # "eof"
  <2>1. ended' = ended
    BY <1>9 DEF Moves
  <2>2. SameEntry(e, c) /\ ReaderRests(e, c)
    BY <1>3, <1>5, <2>1, TaskFacts DEF SameEntry, ReaderRests
  <2> QED BY <1>1, <1>8, <2>2, RestIsQuiet, TaskOrdered
<1>10. CASE y = "eof"
  <2>1. t = "reader" /\ x = "armed" /\ AtEof(conn[e][c])
    BY <1>10 DEF Moves
  <2>2. EndOf(o, e, c)'
    BY <1>3, <1>10, <2>1, OrderedEof
  <2>3. PlaceOf(e, c)'
    BY <1>1, <1>3, PlaceSteady
  <2> QED BY <1>8, <2>2, <2>3, TaskOrdered
<1> QED BY <1>9, <1>10

\* Accounting for what was sent sends nothing.
LEMMA FinishSent ==
  ASSUME NEW e \in Ends, NEW o \in Ends, NEW c \in Conns, TaskContext(e, o, c), NEW w \in Writers,
         FinishWrite(e, c, w)
  PROVE  Sent(e, c)' = Sent(e, c)
<1>1. TypeOK /\ TypeOK' /\ TaskInv /\ WriteOf(e, c) /\ WriteOf(e, c)'
  BY ContextFacts DEF TaskContext
<1>2. FinishEffect(e, c, w)
  BY <1>1, FinishFacts
<1>3. /\ pc[e][c][w] = "sent" /\ pc'[e][c][w] \in {"armed", "idle"}
      /\ \A u \in Tasks : u # w => pc'[e][c][u] = pc[e][c][u]
      /\ done'[e][c] = done[e][c] + Len(packet[e][c][w].payload)
  BY <1>2 DEF FinishEffect
<1>4. \A v \in Writers : Holds(e, c, v) => v = w
  BY <1>1, <1>3 DEF WriteOf, Holds
<1>5. \A v \in Writers : pc'[e][c][v] # "sent"
  BY <1>3, <1>4, TaskFacts DEF Holds
<1>6. Sent(e, c)' = done'[e][c]
  BY <1>1, <1>5, SentLater DEF SentKnown
<1>7. Sent(e, c) = done[e][c] + Len(packet[e][c][w].payload)
  BY <1>1, <1>3, SentLater DEF SentKnown
<1> QED BY <1>3, <1>6, <1>7

LEMMA OrderedFinish ==
  ASSUME NEW e \in Ends, NEW o \in Ends, NEW c \in Conns, TaskContext(e, o, c), NEW w \in Writers,
         FinishWrite(e, c, w)
  PROVE  Ordered(c)'
<1>1. TypeOK /\ TypeOK' /\ TaskInv /\ PlaceOf(e, c) /\ WriteOf(e, c) /\ WriteOf(e, c)' /\ conn[e][c] \in Connections
  <2>1. TypeOK /\ TypeOK' /\ TaskInv /\ PlaceOf(e, c) /\ WriteOf(e, c) /\ WriteOf(e, c)'
    BY ContextFacts DEF TaskContext
  <2> QED BY <2>1 DEF TypeOK
<1>2. FinishEffect(e, c, w) /\ w \in Tasks /\ w # "reader"
  BY <1>1, FinishFacts, TaskFacts
<1>3. /\ pc[e][c][w] = "sent" /\ pc'[e][c][w] \in {"armed", "idle"}
      /\ \A u \in Tasks : u # w => pc'[e][c][u] = pc[e][c][u] /\ packet'[e][c][u] = packet[e][c][u]
      /\ wire' = wire /\ got' = got /\ drained' = drained /\ ended' = ended
      /\ done'[e][c] = done[e][c] + Len(packet[e][c][w].payload)
  BY <1>2 DEF FinishEffect
<1>4. Sent(e, c)' = Sent(e, c)
  BY FinishSent
<1>5. \/ conn'[e][c] = conn[e][c]
      \/ /\ Exists(e, c) /\ conn'[e][c].state = conn[e][c].state /\ conn'[e][c].local = conn[e][c].local
         /\ conn'[e][c].peer = conn[e][c].peer /\ conn'[e][c].receive = conn[e][c].receive
  <2>1. CASE ~Exists(e, c)
    BY <1>2, <2>1 DEF FinishEffect
  <2>2. CASE Exists(e, c)
    <3>1. PICK m : conn'[e][c] = [conn[e][c] EXCEPT !.transmitting = FALSE, !.tx = m]
      BY <1>2, <2>2 DEF FinishEffect
    <3> QED BY <1>1, <2>2, <3>1, SameEnds
  <2> QED BY <2>1, <2>2
<1>6. Calm(e, o, c, w)
  BY <1>3, <1>4, <1>5 DEF Calm
<1>7. SameEntry(e, c) /\ ReaderRests(e, c)
  BY <1>2, <1>3, <1>5, TaskFacts DEF SameEntry, ReaderRests
<1>8. SenderQuiet(e, o, c) /\ ReaderQuiet(e, c) /\ PlaceOf(e, c)'
  BY <1>1, <1>2, <1>6, <1>7, CalmIsQuiet, RestIsQuiet
<1> QED BY <1>8, TaskOrdered

\* What the reader takes out of the ring has arrived all the same.
LEMMA ArrivedRead ==
  ASSUME TypeOK, NEW e \in Ends, NEW c \in Conns, drained[e][c] = <<>>,
         NEW n \in 1 .. Len(conn[e][c].receive),
         conn'[e][c].receive = SubSeq(conn[e][c].receive, n + 1, Len(conn[e][c].receive)),
         \/ got'[e][c] = got[e][c] /\ drained'[e][c] = SubSeq(conn[e][c].receive, 1, n)
         \/ got'[e][c] = got[e][c] \o SubSeq(conn[e][c].receive, 1, n) /\ drained'[e][c] = <<>>
  PROVE  Arrived(e, c)' = Arrived(e, c)
<1>1. PICK g \in Seq(Nat), q \in Seq(Nat) : g = got[e][c] /\ q = conn[e][c].receive /\ n \in 1 .. Len(q)
  BY PlaceTypes
<1>e. Len(<<>>) = 0
  OBVIOUS
<1>n. Len(g) \in Nat /\ Len(q) \in Nat
  OBVIOUS
<1>2. PICK x \in Nat, h \in Nat : x = Len(g) /\ h = Len(q) /\ n \in 1 .. h
  BY <1>1, <1>n
<1>3. Len(SubSeq(q, 1, n)) = n /\ Len(g \o SubSeq(q, 1, n)) = x + n /\ Len(SubSeq(q, n + 1, h)) = h - n
  BY <1>1, <1>2, TakenLengths
<1>4. Arrived(e, c) = (x + 0) + h
  BY <1>1, <1>2, <1>e DEF Arrived, Taken
<1>5. Arrived(e, c)' = (x + n) + (h - n)
  <2>1. Arrived(e, c)' = (Len(got'[e][c]) + Len(drained'[e][c])) + (h - n)
    BY <1>1, <1>2, <1>3 DEF Arrived, Taken
  <2>2. Len(got'[e][c]) + Len(drained'[e][c]) = x + n
    <3>1. CASE got'[e][c] = g /\ drained'[e][c] = SubSeq(q, 1, n)
      BY <1>2, <1>3, <3>1
    <3>2. CASE got'[e][c] = g \o SubSeq(q, 1, n) /\ drained'[e][c] = <<>>
      <4>1. PICK z \in Nat : z = x + n
        BY <1>2
      <4>2. z + 0 = z
        OBVIOUS
      <4> QED BY <1>3, <1>e, <3>2, <4>1, <4>2
    <3> QED BY <1>1, <3>1, <3>2
  <2> QED BY <2>1, <2>2
<1>6. n \in Int
  OBVIOUS
<1>7. (x + n) + (h - n) = (x + 0) + h
  BY <1>6
<1> QED BY <1>4, <1>5, <1>7

\* The reader takes n bytes.
LEMMA OrderedReads ==
  ASSUME NEW e \in Ends, NEW o \in Ends, NEW c \in Conns, TaskContext(e, o, c),
         NEW n \in 1 .. Len(conn[e][c].receive), Exists(e, c),
         conn'[e][c].state = conn[e][c].state, conn'[e][c].local = conn[e][c].local,
         conn'[e][c].peer = conn[e][c].peer,
         conn'[e][c].receive = SubSeq(conn[e][c].receive, n + 1, Len(conn[e][c].receive)),
         \/ got'[e][c] = got[e][c] /\ drained'[e][c] = SubSeq(conn[e][c].receive, 1, n)
         \/ got'[e][c] = got[e][c] \o SubSeq(conn[e][c].receive, 1, n) /\ drained'[e][c] = <<>>,
         pc[e][c]["reader"] = "armed", pc'[e][c]["reader"] \in {"idle", "creditUpdate"},
         \A u \in Tasks : u # "reader" => pc'[e][c][u] = pc[e][c][u] /\ packet'[e][c][u] = packet[e][c][u],
         wire' = wire, done' = done, ended' = ended
  PROVE  Ordered(c)'
<1>1. TypeOK /\ PlaceOf(e, c)
  BY ContextFacts
<1>2. drained[e][c] = <<>>
  BY DEF TaskContext, ByteOf, StreamOf, ReadOf
<1>3. PlaceOf(e, c)'
  BY <1>1, <1>2, PlaceRead
<1>4. Arrived(e, c)' = Arrived(e, c)
  BY <1>1, <1>2, ArrivedRead
<1>5. Sent(e, c)' = Sent(e, c)
  BY SentStill, TaskFacts
<1>6. Calm(e, o, c, "reader")
  BY <1>5 DEF Calm
<1>7. SenderQuiet(e, o, c)
  BY <1>6, CalmIsQuiet, TaskFacts
<1>8. ReaderQuiet(e, c)
  BY <1>4 DEF ReaderQuiet
<1> QED BY <1>3, <1>7, <1>8, TaskOrdered

LEMMA OrderedUpdates ==
  ASSUME NEW e \in Ends, NEW o \in Ends, NEW c \in Conns, TaskContext(e, o, c), NEW n, Updates(e, c, n)
  PROVE  Ordered(c)'
<1>1. PICK p : p = Header("creditUpdate", c, Reading(conn[e][c], n))
  OBVIOUS
<1>2. PICK k : k = Announced(Reading(conn[e][c], n))
  OBVIOUS
<1>3. TypeOK /\ conn[e][c] \in Connections /\ drained \in [Ends -> [Conns -> Seq(Nat)]]
  BY ContextFacts DEF TypeOK
<1>4. p \in Packets /\ k \in Connections /\ p.op = "creditUpdate"
  BY <1>1, <1>2, <1>3, DecisionKinds DEF Header
<1>5. Decision(e, c, "reader", "armed", p, k) /\ Exists(e, c) /\ n \in 1 .. Len(conn[e][c].receive)
  BY <1>1, <1>2 DEF Updates, Readable
<1>6. DecisionEffect(e, c, "reader", "armed", p, k)
  BY <1>3, <1>4, <1>5, DecisionFacts, TaskFacts DEF Carried
<1>7. /\ pc[e][c]["reader"] = "armed" /\ pc'[e][c]["reader"] = "creditUpdate" /\ conn'[e][c] = k
      /\ \A u \in Tasks : u # "reader" => pc'[e][c][u] = pc[e][c][u] /\ packet'[e][c][u] = packet[e][c][u]
      /\ wire' = wire /\ done' = done /\ got' = got /\ ended' = ended
  BY <1>4, <1>6 DEF DecisionEffect
<1>8. k.state = conn[e][c].state /\ k.local = conn[e][c].local /\ k.peer = conn[e][c].peer
  BY <1>2, <1>3, SameEnds
<1>9. k.receive = SubSeq(conn[e][c].receive, n + 1, Len(conn[e][c].receive))
  BY <1>2, <1>3, ReadingFields
<1>10. drained'[e][c] = SubSeq(conn[e][c].receive, 1, n)
  BY <1>3 DEF Updates
<1> QED BY <1>5, <1>7, <1>8, <1>9, <1>10, OrderedReads

LEMMA OrderedHands ==
  ASSUME NEW e \in Ends, NEW o \in Ends, NEW c \in Conns, TaskContext(e, o, c), NEW n, Hands(e, c, n)
  PROVE  Ordered(c)'
<1>1. TypeOK /\ conn[e][c] \in Connections /\ drained[e][c] = <<>>
  <2>1. TypeOK /\ pc[e][c]["reader"] = "armed" /\ ReadOf(e, c)
    BY ContextFacts DEF Hands, TaskContext, ByteOf, StreamOf
  <2> QED BY <2>1 DEF TypeOK, ReadOf
<1>2. HandsEffect(e, c, n) /\ Exists(e, c) /\ n \in 1 .. Len(conn[e][c].receive)
  BY <1>1, HandsFacts DEF Hands, Readable
<1>3. /\ pc[e][c]["reader"] = "armed" /\ pc'[e][c]["reader"] = "idle" /\ conn'[e][c] = Reading(conn[e][c], n)
      /\ \A u \in Tasks : u # "reader" => pc'[e][c][u] = pc[e][c][u] /\ packet'[e][c][u] = packet[e][c][u]
      /\ wire' = wire /\ done' = done /\ drained' = drained /\ ended' = ended
      /\ got'[e][c] = got[e][c] \o SubSeq(conn[e][c].receive, 1, n)
  BY <1>2 DEF HandsEffect
<1>4. PICK k : k = Reading(conn[e][c], n)
  OBVIOUS
<1>5. k.state = conn[e][c].state /\ k.local = conn[e][c].local /\ k.peer = conn[e][c].peer
  BY <1>1, <1>4, SameEnds
<1>6. k.receive = SubSeq(conn[e][c].receive, n + 1, Len(conn[e][c].receive))
  BY <1>1, <1>4, ReadingFields
<1> QED BY <1>1, <1>2, <1>3, <1>4, <1>5, <1>6, OrderedReads

LEMMA OrderedSends ==
  ASSUME NEW e \in Ends, NEW o \in Ends, NEW c \in Conns, TaskContext(e, o, c), NEW t \in Tasks,
         Transmit(e, c, t), packet[e][c][t].op # "data"
  PROVE  Ordered(c)'
<1>1. TypeOK /\ TaskInv /\ PlaceOf(e, c) /\ o = Other(e)
  BY ContextFacts DEF TaskContext
<1>2. TransmitEffect(e, c, t) /\ CarriesItsOwn(e, c, t)
  BY <1>1, TransmitFacts, TransmitsPacket DEF Transmit
<1>3. PICK p : p = packet[e][c][t]
  OBVIOUS
<1>4. /\ p \in Packets /\ p.c = c /\ pc[e][c][t] = p.op /\ p.op \in Carried /\ p.op # "data"
      /\ p.op = "shutdown" => t = "control"
      /\ t = "reader" => p.op = "creditUpdate"
  BY <1>2, <1>3, TaskFacts DEF CarriesItsOwn
<1>5. AfterTransmit(p.op) \notin {"data", "sent", "shutdown"} /\ p.op # "sent"
  BY <1>4 DEF Carried, AfterTransmit
<1>6. /\ pc'[e][c][t] = AfterTransmit(p.op) /\ conn' = conn /\ done' = done /\ ended' = ended
      /\ wire'[o] = Append(wire[o], p)
      /\ \A u \in Tasks : u # t => pc'[e][c][u] = pc[e][c][u] /\ packet'[e][c][u] = packet[e][c][u]
      /\ t = "reader" => got'[e][c] = got[e][c] \o drained[e][c] /\ drained'[e][c] = <<>>
      /\ t # "reader" => got'[e][c] = got[e][c] /\ drained'[e][c] = drained[e][c]
  BY <1>1, <1>2, <1>3 DEF TransmitEffect
<1>7. Sent(e, c)' = Sent(e, c)
  BY <1>4, <1>5, <1>6, SentStill
<1>8. Calm(e, o, c, t)
  BY <1>3, <1>4, <1>5, <1>6, <1>7 DEF Calm
<1>9. SenderQuiet(e, o, c)
  BY <1>8, CalmIsQuiet
<1>10. CASE t # "reader"
  <2>1. SameEntry(e, c) /\ ReaderRests(e, c)
    BY <1>6, <1>10, TaskFacts DEF SameEntry, ReaderRests
  <2> QED BY <1>1, <1>9, <2>1, RestIsQuiet, TaskOrdered
<1>11. CASE t = "reader"
  <2>1. PlaceOf(e, c)'
    BY <1>1, <1>6, <1>11, PlaceHands
  <2>2. Arrived(e, c)' = Arrived(e, c)
    <3>1. PICK g \in Seq(Nat), b \in Seq(Nat) : g = got[e][c] /\ b = drained[e][c]
      BY <1>1, PlaceTypes
    <3>2. PICK x \in Nat, y \in Nat : x = Len(g) /\ y = Len(b) /\ Len(g \o b) = x + y
      BY ConcatLength
    <3>3. Len(<<>>) = 0 /\ (x + y) + 0 = x + y
      BY <3>2
    <3>4. Taken(e, c)' = Taken(e, c)
      BY <1>6, <1>11, <3>1, <3>2, <3>3 DEF Taken
    <3> QED BY <1>6, <3>4 DEF Arrived
  <2>3. ReaderQuiet(e, c)
    BY <1>4, <1>6, <1>11, <2>2 DEF ReaderQuiet
  <2> QED BY <1>9, <2>1, <2>3, TaskOrdered
<1> QED BY <1>10, <1>11

LEMMA OrderedFails ==
  ASSUME NEW e \in Ends, NEW o \in Ends, NEW c \in Conns, TaskContext(e, o, c), NEW t \in Tasks,
         TransmitFails(e, c, t)
  PROVE  Ordered(c)'
<1>1. TypeOK /\ TaskInv /\ PlaceOf(e, c) /\ conn[e][c] \in Connections
  <2>1. TypeOK /\ TaskInv /\ PlaceOf(e, c)
    BY ContextFacts DEF TaskContext
  <2> QED BY <2>1 DEF TypeOK
<1>2. FailureEffect(e, c, t) /\ CarriesItsOwn(e, c, t)
  BY <1>1, TransmitFailsFacts, TransmitsPacket DEF TransmitFails
<1>3. /\ pc[e][c][t] \in Carried /\ pc'[e][c][t] \in {"open", "gone"}
      /\ \A u \in Tasks : u # t => pc'[e][c][u] = pc[e][c][u] /\ packet'[e][c][u] = packet[e][c][u]
      /\ wire' = wire /\ done' = done /\ got' = got /\ ended' = ended /\ drained' = drained
  BY <1>2 DEF FailureEffect, CarriesItsOwn
<1>4. pc[e][c][t] \notin {"sent", "eof"}
  BY <1>3 DEF Carried
<1>5. Sent(e, c)' = Sent(e, c)
  BY <1>3, <1>4, SentStill
<1>6. \/ conn'[e][c] = conn[e][c] \/ conn'[e][c] = Free
      \/ /\ Exists(e, c) /\ conn'[e][c].state = conn[e][c].state /\ conn'[e][c].local = conn[e][c].local
         /\ conn'[e][c].peer = conn[e][c].peer /\ conn'[e][c].receive = conn[e][c].receive
  <2>1. CASE Exists(e, c) /\ conn'[e][c] = [conn[e][c] EXCEPT !.transmitting = FALSE]
    BY <1>1, <2>1, SameEnds
  <2> QED BY <1>2, <2>1 DEF FailureEffect
<1>7. Calm(e, o, c, t)
  BY <1>3, <1>5, <1>6 DEF Calm
<1>8. SameEntry(e, c) /\ ReaderRests(e, c)
  BY <1>3, <1>4, <1>6, TaskFacts DEF SameEntry, ReaderRests
<1>9. SenderQuiet(e, o, c) /\ ReaderQuiet(e, c) /\ PlaceOf(e, c)'
  BY <1>1, <1>7, <1>8, CalmIsQuiet, RestIsQuiet
<1> QED BY <1>9, TaskOrdered

\* A writer that still sends is one nobody has heard the end of.
LEMMA OrderedWrites ==
  ASSUME NEW e \in Ends, NEW o \in Ends, NEW c \in Conns, TaskContext(e, o, c), NEW w \in Writers, NEW n,
         Writes(e, c, w, n)
  PROVE  Ordered(c)'
<1>1. PICK p : p = DataPacket(e, c, n)
  OBVIOUS
<1>2. PICK k : k = [Announced(conn[e][c]) EXCEPT !.transmitting = TRUE]
  OBVIOUS
<1>3. TypeOK /\ PlaceOf(e, c) /\ EndOf(e, o, c) /\ plan' = plan /\ SideKept(o, c)
  BY ContextFacts
<1>4. conn[e][c] \in Connections
  BY <1>3 DEF TypeOK
<1>5. p \in Packets /\ k \in Connections /\ p.op = "data"
  BY <1>1, <1>2, <1>3, DecisionKinds DEF DataPacket, Header
<1>6. Decision(e, c, w, "armed", p, k) /\ drained' = drained
  BY <1>1, <1>2 DEF Writes
<1>7. DecisionEffect(e, c, w, "armed", p, k)
  BY <1>3, <1>5, <1>6, DecisionFacts, TaskFacts DEF Carried
<1>8. /\ conn'[e][c] = k /\ wire' = wire /\ got' = got /\ ended' = ended
      /\ \A u \in Tasks : u # w => pc'[e][c][u] = pc[e][c][u] /\ packet'[e][c][u] = packet[e][c][u]
  BY <1>7 DEF DecisionEffect
<1>9. /\ k.state = conn[e][c].state /\ k.local = conn[e][c].local
      /\ k.peer = conn[e][c].peer /\ k.receive = conn[e][c].receive
  BY <1>2, <1>4, SameEnds
<1>10. conn[e][c].state = "established" /\ "send" \notin conn[e][c].local /\ Exists(e, c) /\ conn[e][c].state \in Live
  BY DEF Writes, Exists, Live
<1>11. ~Finished(e, c)
  BY <1>10 DEF Finished
<1>12. conn'[o][c] = conn[o][c]
  BY <1>3 DEF SideKept
<1>13. Awaited(e, o, c)' => Awaited(e, o, c)
  BY <1>8, TaskFacts DEF Awaited
<1>14. ~(plan.faults = 0 /\ conn'[o][c].state \in Ruined)
  BY <1>3, <1>10, <1>12 DEF EndOf
<1>15. EndOf(e, o, c)'
  BY <1>3, <1>8, <1>9, <1>10, <1>11, <1>12, <1>13, <1>14, EndStaysUnheard
<1>16. SameEntry(e, c) /\ ReaderRests(e, c)
  BY <1>6, <1>8, <1>9, <1>10, TaskFacts DEF SameEntry, ReaderRests
<1>17. ReaderQuiet(e, c) /\ PlaceOf(e, c)'
  BY <1>3, <1>16, RestIsQuiet
<1> QED BY <1>15, <1>17, TaskOrdered

LEMMA OrderedLeaves ==
  ASSUME NEW e \in Ends, NEW o \in Ends, NEW c \in Conns, TaskContext(e, o, c), NEW t \in Tasks,
         Transmit(e, c, t), packet[e][c][t].op = "data"
  PROVE  Ordered(c)'
<1>1. TypeOK /\ TaskInv /\ PlaceOf(e, c) /\ EndOf(e, o, c) /\ o = Other(e) /\ plan' = plan /\ SideKept(o, c)
      /\ (Unborn(c)' => Unborn(c))
  BY ContextFacts DEF TaskContext
<1>2. TransmitEffect(e, c, t) /\ CarriesItsOwn(e, c, t)
  BY <1>1, TransmitFacts, TransmitsPacket DEF Transmit
<1>3. PICK p : p = packet[e][c][t]
  OBVIOUS
<1>4. p \in Packets /\ p.c = c /\ pc[e][c][t] = "data" /\ p.op = "data" /\ t \in Writers
  BY <1>2, <1>3, TaskFacts DEF CarriesItsOwn
<1>5. /\ conn' = conn /\ ended' = ended /\ wire'[o] = Append(wire[o], p)
      /\ \A u \in Tasks : u # t => pc'[e][c][u] = pc[e][c][u] /\ packet'[e][c][u] = packet[e][c][u]
      /\ got'[e][c] = got[e][c] /\ drained'[e][c] = drained[e][c]
  BY <1>1, <1>2, <1>3, <1>4, TaskFacts DEF TransmitEffect
<1>6. Holds(e, c, t)
  BY <1>4 DEF Holds
<1>7. ~Finished(e, c) /\ "send" \notin conn[e][c].local
  BY <1>1, <1>4, <1>6 DEF Finished, EndOf
<1>8. Awaited(e, o, c)' => Awaited(e, o, c)
  <2>1. wire[o] \in Seq(Packets) /\ ~Final(p, c)
    BY <1>1, <1>4 DEF TypeOK, Final
  <2>2. HasFinal(wire'[o], c) => HasFinal(wire[o], c)
    BY <1>4, <1>5, <2>1, AppendFinal
  <2> QED BY <1>4, <1>5, <2>2, TaskFacts DEF Awaited
<1>9. plan.faults = 0 /\ conn'[o][c].state \in Ruined => conn'[e][c].state \notin Live /\ ~Unborn(c)'
  BY <1>1, <1>5 DEF EndOf
<1>10. EndOf(e, o, c)'
  BY <1>1, <1>5, <1>7, <1>8, <1>9, EndStaysUnheard
<1>11. SameEntry(e, c) /\ ReaderRests(e, c)
  BY <1>4, <1>5, TaskFacts DEF SameEntry, ReaderRests
<1>12. ReaderQuiet(e, c) /\ PlaceOf(e, c)'
  BY <1>1, <1>11, RestIsQuiet
<1> QED BY <1>10, <1>12, TaskOrdered

ShutEffect(e, c, dirs) ==
  /\ conn[e][c].state \in Live /\ Exists(e, c)
  /\ pc[e][c]["control"] = "open" /\ pc'[e][c]["control"] = "shutdown"
  /\ packet'[e][c]["control"].flags = conn[e][c].local \cup dirs
  /\ conn'[e][c].state = conn[e][c].state /\ conn'[e][c].local = conn[e][c].local \cup dirs
  /\ conn'[e][c].peer = conn[e][c].peer /\ conn'[e][c].receive = conn[e][c].receive
  /\ \A u \in Tasks : u # "control" => pc'[e][c][u] = pc[e][c][u] /\ packet'[e][c][u] = packet[e][c][u]
  /\ wire' = wire /\ got' = got /\ ended' = ended /\ drained' = drained /\ done' = done

LEMMA ShutsFacts ==
  ASSUME TypeOK, NEW e \in Ends, NEW c \in Conns, NEW dirs, Shuts(e, c, dirs)
  PROVE  ShutEffect(e, c, dirs)
<1>1. PICK p : p = ShutPacket(e, c, dirs)
  OBVIOUS
<1>2. PICK k : k = [Announced(conn[e][c]) EXCEPT !.local = conn[e][c].local \cup dirs]
  OBVIOUS
<1>3. conn[e][c] \in Connections /\ dirs \in SUBSET Directions
  BY DEF TypeOK, Shuts
<1>4. p \in Packets /\ k \in Connections /\ p.op = "shutdown" /\ p.flags = conn[e][c].local \cup dirs
  BY <1>1, <1>2, <1>3, ShutFacts
<1>5. Decision(e, c, "control", "open", p, k) /\ drained' = drained
  BY <1>1, <1>2 DEF Shuts
<1>6. DecisionEffect(e, c, "control", "open", p, k)
  BY <1>4, <1>5, DecisionFacts, TaskFacts DEF Carried
<1>7. /\ k.state = conn[e][c].state /\ k.local = conn[e][c].local \cup dirs
      /\ k.peer = conn[e][c].peer /\ k.receive = conn[e][c].receive
  BY <1>2, <1>3, SameEnds
<1>8. conn[e][c].state \in Live /\ Exists(e, c)
  BY DEF Shuts, Live, Exists
<1>9. /\ pc[e][c]["control"] = "open" /\ pc'[e][c]["control"] = "shutdown" /\ packet'[e][c]["control"] = p
      /\ conn'[e][c] = k
      /\ \A u \in Tasks : u # "control" => pc'[e][c][u] = pc[e][c][u] /\ packet'[e][c][u] = packet[e][c][u]
      /\ wire' = wire /\ got' = got /\ ended' = ended /\ done' = done
  BY <1>4, <1>6 DEF DecisionEffect
<1> QED BY <1>4, <1>5, <1>7, <1>8, <1>9 DEF ShutEffect

\* The end of the stream is announced: nothing more is sent from here on.
LEMMA OrderedShutSend ==
  ASSUME Orderly, NEW e \in Ends, NEW o \in Ends, NEW c \in Conns, TaskContext(e, o, c), NEW dirs,
         Shuts(e, c, dirs), ShutEffect(e, c, dirs), "send" \in conn[e][c].local \cup dirs
  PROVE  EndOf(e, o, c)'
<1>1. TypeOK /\ EndOf(e, o, c) /\ plan' = plan /\ SideKept(o, c) /\ o = Other(e) /\ (Unborn(c)' => Unborn(c))
  BY ContextFacts DEF TaskContext
<1>2. BirthOf(c) /\ PeerOf(c)
  BY DEF TaskContext, ByteOf, TableOf
<1>3. plan \in Plans /\ <<e, dirs>> \in plan.shuts
  BY <1>1 DEF TypeOK, Shuts
<1>4. ~plan.shutsWhileWriting /\ plan.faults = 0 /\ plan.shuts # {}
  BY <1>3 DEF Orderly
<1>5. \A w \in Writers : ~Holds(e, c, w)
  <2>1. CASE "send" \in conn[e][c].local
    BY <1>1, <2>1 DEF EndOf
  <2>2. CASE "send" \in dirs
    BY <1>4, <2>2 DEF Shuts, Holds
  <2> QED BY <2>1, <2>2
<1>6. ~Unborn(c)
  BY <1>2, EndsFacts, TaskFacts DEF BirthOf, ShutEffect
<1>7. \A w \in Writers : ~Holds(e, c, w)'
  BY <1>5, TaskFacts DEF ShutEffect, Holds
<1>8. Finished(e, c)'
  BY <1>1, <1>6, <1>7 DEF Finished, ShutEffect
<1>9. Sent(e, c)' = Sent(e, c)
  <2>1. pc[e][c]["control"] # "sent" /\ pc'[e][c]["control"] # "sent" /\ done'[e][c] = done[e][c]
    BY DEF ShutEffect
  <2>2. \A u \in Tasks : u # "control" => pc'[e][c][u] = pc[e][c][u] /\ packet'[e][c][u] = packet[e][c][u]
    BY DEF ShutEffect
  <2> QED BY <2>1, <2>2, SentStill, TaskFacts
<1>10. conn'[o][c] = conn[o][c] /\ got'[o][c] = got[o][c] /\ drained'[o][c] = drained[o][c]
       /\ ended'[o][c] = ended[o][c] /\ pc'[o][c]["reader"] = pc[o][c]["reader"] /\ wire' = wire
  BY <1>1, TaskFacts DEF SideKept, ShutEffect
<1>11. conn[o][c].state \notin Ruined
  BY <1>1, <1>4 DEF EndOf, ShutEffect
<1>12. DataFirst(wire[o], c)
  <2>1. CASE HasFinal(wire[o], c)
    BY <1>1, <2>1 DEF EndOf, Awaited
  <2>2. CASE ~HasFinal(wire[o], c)
    <3>1. ~Has(wire[o], c, "reset")
      BY <1>1, <1>2 DEF PeerOf, Coming, ShutEffect
    <3>2. \A i \in 1 .. Len(wire[o]) : ~Closing(wire[o][i], c)
      BY <2>2, <3>1 DEF Closing, Has, HasFinal
    <3> QED BY <3>2 DEF DataFirst
  <2> QED BY <2>1, <2>2
<1>13. Complete(e, o, c) => Complete(e, o, c)'
  BY <1>9, <1>10 DEF Complete, Arrived, Taken
<1>f. "send" \in conn'[o][c].peer => Finished(e, c)' /\ Complete(e, o, c)'
  BY <1>1, <1>8, <1>10, <1>13 DEF EndOf
<1>g. conn'[o][c].state = "closed" => "send" \in conn'[o][c].peer
  BY <1>1, <1>10 DEF EndOf
<1>h. ended'[o][c] => Finished(e, c)' /\ Len(got'[o][c]) = Sent(e, c)' /\ pc'[o][c]["reader"] = "eof"
  BY <1>1, <1>8, <1>9, <1>10 DEF EndOf
<1>i. conn'[o][c].state \notin Ruined /\ plan'.shuts # {} /\ DataFirst(wire'[o], c)
  BY <1>1, <1>4, <1>10, <1>11, <1>12
<1> QED BY <1>7, <1>8, <1>f, <1>g, <1>h, <1>i DEF EndOf

LEMMA OrderedShuts ==
  ASSUME Orderly, NEW e \in Ends, NEW o \in Ends, NEW c \in Conns, TaskContext(e, o, c), NEW dirs,
         Shuts(e, c, dirs)
  PROVE  Ordered(c)'
<1>1. TypeOK /\ PlaceOf(e, c) /\ (Unborn(c)' => Unborn(c))
  BY ContextFacts
<1>2. ShutEffect(e, c, dirs)
  BY <1>1, ShutsFacts
<1>3. /\ conn'[e][c].state = conn[e][c].state /\ conn'[e][c].peer = conn[e][c].peer
      /\ conn'[e][c].receive = conn[e][c].receive /\ conn'[e][c].local = conn[e][c].local \cup dirs
      /\ got' = got /\ drained' = drained /\ ended' = ended /\ wire' = wire /\ Exists(e, c)
      /\ pc'[e][c]["control"] = "shutdown" /\ packet'[e][c]["control"].flags = conn[e][c].local \cup dirs
      /\ \A u \in Tasks : u # "control" => pc'[e][c][u] = pc[e][c][u] /\ packet'[e][c][u] = packet[e][c][u]
  BY <1>2 DEF ShutEffect
<1>4. PlaceOf(e, c)'
  BY <1>1, <1>3, PlaceSteady
<1>5. Arrived(e, c)' = Arrived(e, c) /\ pc'[e][c]["reader"] = pc[e][c]["reader"]
  BY <1>3, TaskFacts DEF Arrived, Taken
<1>6. ReaderQuiet(e, c)
  BY <1>3, <1>5 DEF ReaderQuiet
<1>7. CASE "send" \in conn[e][c].local \cup dirs
  BY <1>2, <1>4, <1>6, <1>7, OrderedShutSend, TaskOrdered
<1>8. CASE "send" \notin conn[e][c].local \cup dirs
  <2>1. Sent(e, c)' = Sent(e, c)
    <3>1. pc[e][c]["control"] # "sent" /\ pc'[e][c]["control"] # "sent" /\ done'[e][c] = done[e][c]
      BY <1>2 DEF ShutEffect
    <3> QED BY <1>3, <3>1, SentStill, TaskFacts
  <2>2. \A w \in Writers : Holds(e, c, w)' => Holds(e, c, w)
    BY <1>3, TaskFacts DEF Holds
  <2>3. Awaited(e, o, c)' => Awaited(e, o, c)
    BY <1>3, <1>8 DEF Awaited
  <2>4. SenderQuiet(e, o, c)
    BY <1>1, <1>3, <1>8, <2>1, <2>2, <2>3 DEF SenderQuiet
  <2> QED BY <1>4, <1>6, <2>4, TaskOrdered
<1> QED BY <1>7, <1>8

LEMMA TaskInContext ==
  ASSUME TypeOK, TypeOK', TaskInv, NEW e \in Ends, NEW c \in Conns, ByteOf(c), StreamOf(c)', TaskStep(e, c)
  PROVE  TaskContext(e, Other(e), c)
<1>1. TaskKeeps(e, c) /\ \E t \in Tasks : \E x, y, q, k : Advances(e, c, t, x, y, q, k)
  BY TaskFrame, TaskAdvances
<1>2. Unborn(c)' => Unborn(c)
  BY <1>1, UnbornKept
<1>3. plan' = plan
  BY <1>1 DEF TaskKeeps
<1> QED BY <1>1, <1>2, <1>3, EndsFacts DEF TaskContext

LEMMA OrderedTask ==
  ASSUME Orderly, TypeOK, TypeOK', TaskInv, NEW e \in Ends, NEW c \in Conns, ByteOf(c), StreamOf(c)', TaskStep(e, c)
  PROVE  Ordered(c)'
<1>1. PICK o \in Ends : o = Other(e) /\ TaskContext(e, o, c)
  BY TaskInContext, EndsFacts
<1>2. ASSUME NEW t \in Tasks, NEW x, NEW y, Moves(e, c, t, x, y) PROVE Ordered(c)'
  BY <1>1, <1>2, OrderedMoves
<1>3. ASSUME NEW w \in Writers, NEW n, Writes(e, c, w, n) PROVE Ordered(c)'
  BY <1>1, <1>3, OrderedWrites
<1>4. ASSUME NEW w \in Writers, Asks(e, c, w) PROVE Ordered(c)'
  BY <1>1, <1>4, OrderedAsks
<1>5. ASSUME NEW w \in Writers, FinishWrite(e, c, w) PROVE Ordered(c)'
  BY <1>1, <1>5, OrderedFinish
<1>6. ASSUME NEW n, Updates(e, c, n) PROVE Ordered(c)'
  BY <1>1, <1>6, OrderedUpdates
<1>7. ASSUME NEW n, Hands(e, c, n) PROVE Ordered(c)'
  BY <1>1, <1>7, OrderedHands
<1>8. ASSUME NEW x, Abandons(e, c, x) PROVE Ordered(c)'
  BY <1>1, <1>8, OrderedAbandons
<1>9. ASSUME NEW x, Frees(e, c, x) PROVE Ordered(c)'
  BY <1>1, <1>9, OrderedFrees
<1>10. ASSUME NEW dirs, Shuts(e, c, dirs) PROVE Ordered(c)'
  BY <1>1, <1>10, OrderedShuts
<1>11. ASSUME NEW t \in Tasks, Transmit(e, c, t) PROVE Ordered(c)'
  <2>1. CASE packet[e][c][t].op = "data"
    BY <1>1, <1>11, <2>1, OrderedLeaves
  <2>2. CASE packet[e][c][t].op # "data"
    BY <1>1, <1>11, <2>2, OrderedSends
  <2> QED BY <2>1, <2>2
<1>12. ASSUME NEW t \in Tasks, TransmitFails(e, c, t) PROVE Ordered(c)'
  BY <1>1, <1>12, OrderedFails
<1> QED BY <1>2, <1>3, <1>4, <1>5, <1>6, <1>7, <1>8, <1>9, <1>10, <1>11, <1>12 DEF TaskStep

-----------------------------------------------------------------------------
(* The ends of the streams when a packet arrives                           *)

LEMMA AbsorbedEnds ==
  ASSUME NEW old \in Connections, NEW p \in Packets
  PROVE  /\ Absorb(old, p).local = old.local /\ Absorb(old, p).peer = old.peer /\ Absorb(old, p).receive = old.receive
         /\ Announced(Absorb(old, p)).receive = old.receive
         /\ Announced(Absorb(old, p)).local = old.local /\ Announced(Absorb(old, p)).peer = old.peer
         /\ \A s : LET k == [Absorb(old, p) EXCEPT !.state = s] IN
                     k.local = old.local /\ k.peer = old.peer /\ k.receive = old.receive
         /\ \A s : LET k == [old EXCEPT !.state = s] IN
                     k.local = old.local /\ k.peer = old.peer /\ k.receive = old.receive
         /\ \A d : LET k == [Absorb(old, p) EXCEPT !.peer = d] IN
                     k.local = old.local /\ k.peer = d /\ k.receive = old.receive
         /\ \A d, s : LET k == [Absorb(old, p) EXCEPT !.peer = d, !.state = s] IN
                     k.local = old.local /\ k.peer = d /\ k.receive = old.receive
         /\ \A b : LET k == [Absorb(old, p) EXCEPT !.receive = b] IN
                     k.local = old.local /\ k.peer = old.peer /\ k.receive = b
  BY DEF Connections, Absorb, Announced

\* What packet p makes of the entry, as far as the end of the stream goes.
Bland(old, p, k) ==
  /\ k.receive = old.receive /\ k.peer = old.peer
  /\ k.state \in Ruined \cup {"closed"} => k.state = old.state
Resets(old, p, k) ==
  /\ p.op = "reset" /\ k.receive = old.receive /\ k.peer = old.peer /\ k.state \in Ruined
Shut(old, p, k) ==
  /\ p.op = "shutdown" /\ k.receive = old.receive /\ k.peer = old.peer \cup p.flags
  /\ k.state = old.state \/ (k.state = "closed" /\ k.peer = Directions)
Fills(old, p, k) ==
  /\ p.op = "data" /\ k.state \in Live /\ old.state \in Live
  /\ k.receive = old.receive \o p.payload /\ k.peer = old.peer

Received(e, c, p, k) ==
  /\ \/ k = conn[e][c]
     \/ /\ Exists(e, c) /\ k.local = conn[e][c].local
        /\ k.state \in Live => conn[e][c].state \in Live
  /\ \/ Bland(conn[e][c], p, k)
     \/ Exists(e, c) /\ (Resets(conn[e][c], p, k) \/ Shut(conn[e][c], p, k) \/ Fills(conn[e][c], p, k))

LEMMA PacketReceived ==
  ASSUME TypeOK, NEW e \in Ends, NEW c \in Conns, NEW p \in Packets, NEW k, NEW r, PacketStep(e, c, p, k, r),
         ~Admits(e, p, k, r),
         p.op = "data" /\ conn[e][c].state \in Live => Len(p.payload) <= Window - Len(conn[e][c].receive)
  PROVE  Received(e, c, p, k)
<1>0. Outcome(e, p, k, r) /\ p.c = c
  BY DEF PacketStep
<1>1. PICK old \in Connections : old = conn[e][c]
  BY DEF TypeOK
<1>k. k \in Connections /\ old.receive \in Seq(Nat) /\ Len(old.receive) \in Nat /\ Len(p.payload) \in Nat
  BY <1>0, OutcomeTypes, <1>1, EntryFields, PacketFields
<1>2. CASE Refuses(e, p, k, r) \/ Ignores(e, p, k, r)
  <2>1. k = old
    BY <1>0, <1>1, <1>2 DEF Refuses, Ignores
  <2> QED BY <1>1, <2>1 DEF Received, Bland
<1>3. CASE Establishes(e, p, k, r)
  <2>1. old.state = "connecting" /\ k = [Absorb(old, p) EXCEPT !.state = "established"]
    BY <1>0, <1>1, <1>3 DEF Establishes
  <2>2. k.state = "established"
    BY <2>1, AbsorbedStates
  <2>3. k.local = old.local /\ k.peer = old.peer
    BY <2>1, AbsorbedEnds
  <2>4. k.receive = old.receive
    BY <2>1, AbsorbedEnds
  <2>5. Exists(e, c) /\ old.state \in Live
    BY <1>1, <2>1 DEF Exists, Live
  <2> QED BY <1>1, <2>2, <2>3, <2>4, <2>5 DEF Received, Bland, Ruined
<1>4. CASE Mistimed(e, p, k, r) \/ TakesCredit(e, p, k, r)
  <2>1. Exists(e, c) /\ (k = Absorb(old, p) \/ k = Announced(Absorb(old, p)))
    BY <1>0, <1>1, <1>4 DEF Mistimed, TakesCredit
  <2>2. k.state = old.state
    BY <2>1, AbsorbedStates
  <2>3. k.local = old.local /\ k.peer = old.peer
    BY <2>1, AbsorbedEnds
  <2>4. k.receive = old.receive
    BY <2>1, AbsorbedEnds
  <2> QED BY <1>1, <2>1, <2>2, <2>3, <2>4 DEF Received, Bland
<1>5. CASE IsReset(e, p, k, r)
  <2>1. p.op = "reset" /\ Exists(e, c) /\ \E s \in Ruined : k = [old EXCEPT !.state = s]
    BY <1>0, <1>1, <1>5 DEF IsReset, Ruined
  <2>2. PICK s \in Ruined : k = [old EXCEPT !.state = s]
    BY <2>1
  <2>3. k.state = s
    BY <2>2, AbsorbedStates
  <2>4. k.local = old.local /\ k.peer = old.peer /\ k.receive = old.receive
    BY <2>2, AbsorbedEnds
  <2> QED BY <1>1, <2>1, <2>3, <2>4 DEF Received, Resets, Ruined, Live
<1>6. CASE HalfCloses(e, p, k, r)
  <2>1. p.op = "shutdown" /\ Exists(e, c) /\ k = [Absorb(old, p) EXCEPT !.peer = old.peer \cup p.flags]
    BY <1>0, <1>1, <1>6 DEF HalfCloses
  <2>2. k.state = old.state
    BY <2>1, AbsorbedStates
  <2>3. k.local = old.local /\ k.peer = old.peer \cup p.flags
    BY <2>1, AbsorbedEnds
  <2>4. k.receive = old.receive
    BY <2>1, AbsorbedEnds
  <2> QED BY <1>1, <2>1, <2>2, <2>3, <2>4 DEF Received, Shut
<1>7. CASE FullyCloses(e, p, k, r)
  <2>1. /\ p.op = "shutdown" /\ Exists(e, c) /\ old.peer \cup p.flags = Directions
        /\ k = [Absorb(old, p) EXCEPT !.peer = Directions, !.state = "closed"]
    BY <1>0, <1>1, <1>7 DEF FullyCloses
  <2>2. k.state = "closed"
    BY <2>1, AbsorbedStates
  <2>3. k.local = old.local /\ k.peer = Directions
    BY <2>1, AbsorbedEnds
  <2>4. k.receive = old.receive
    BY <2>1, AbsorbedEnds
  <2> QED BY <1>1, <2>1, <2>2, <2>3, <2>4 DEF Received, Shut, Live
<1>8. CASE Stores(e, p, k, r)
  <2>1. /\ p.op = "data" /\ old.state \in Live
        /\ k = [Absorb(old, p) EXCEPT !.receive = old.receive \o p.payload]
    BY <1>0, <1>1, <1>8 DEF Stores
  <2>2. k.state = old.state
    BY <2>1, AbsorbedStates
  <2>3. k.local = old.local /\ k.peer = old.peer
    BY <2>1, AbsorbedEnds
  <2>4. k.receive = old.receive \o p.payload
    <3>1. PICK b : b = old.receive \o p.payload
      OBVIOUS
    <3>2. k = [Absorb(old, p) EXCEPT !.receive = b]
      BY <2>1, <3>1
    <3>3. k.receive = b
      BY <3>2 DEF Connections, Absorb
    <3> QED BY <3>1, <3>3
  <2>5. Exists(e, c)
    BY <1>1, <2>1 DEF Exists, Live
  <2> QED BY <1>1, <2>1, <2>2, <2>3, <2>4, <2>5 DEF Received, Fills
<1>9. CASE Discards(e, p, k, r)
  <2>1. old.state \notin Live
    <3>1. /\ p.op = "data"
          /\ old.state \notin Live \/ Len(p.payload) > Window - Len(old.receive)
      BY <1>0, <1>1, <1>9 DEF Discards
    <3>2. \A x, y, z \in Nat : ~(x <= y - z /\ x > y - z)
      OBVIOUS
    <3>3. Window \in Nat
      BY WindowAssumption
    <3> QED BY <1>1, <1>k, <3>1, <3>2, <3>3
  <2>2. Exists(e, c) /\ k = [Absorb(old, p) EXCEPT !.state = old.state]
    BY <1>0, <1>1, <1>9, <2>1 DEF Discards
  <2>3. k.state = old.state
    BY <2>2, AbsorbedStates
  <2>4. k.local = old.local /\ k.peer = old.peer
    BY <2>2, AbsorbedEnds
  <2>5. k.receive = old.receive
    BY <2>2, AbsorbedEnds
  <2> QED BY <1>1, <2>2, <2>3, <2>4, <2>5 DEF Received, Bland
<1> QED BY <1>0, <1>2, <1>3, <1>4, <1>5, <1>6, <1>7, <1>8, <1>9 DEF Outcome

\* What is known when end e takes packet p, which o sent.
PacketContext(e, o, c, p, k) ==
  /\ TypeOK /\ TypeOK' /\ ByteOf(c) /\ StreamOf(c)'
  /\ o = Other(e) /\ e = Other(o) /\ e # o
  /\ p = Head(wire[e]) /\ p.c = c /\ wire[e] \in Seq(Packets) /\ wire[e] # <<>>
  /\ wire'[e] = Tail(wire[e]) /\ wire'[o] = wire[o]
  /\ conn'[e][c] = k /\ k \in Connections /\ conn'[o][c] = conn[o][c]
  /\ UNCHANGED <<plan, pc, packet, done, drained, got, ended>>

LEMMA PacketInContext ==
  ASSUME TypeOK, TypeOK', NEW e \in Ends, NEW c \in Conns, ByteOf(c), StreamOf(c)', NEW p \in Packets, NEW k, NEW r,
         PacketStep(e, c, p, k, r)
  PROVE  PacketContext(e, Other(e), c, p, k)
<1>1. TakesEffect(e, p, k, r) /\ p.c = c
  BY TakesFacts DEF PacketStep
<1>2. Other(e) \in Ends /\ Other(e) # e /\ e = Other(Other(e))
  BY EndsFacts
<1>3. /\ p = Head(wire[e]) /\ wire[e] \in Seq(Packets) /\ wire[e] # <<>>
      /\ wire'[e] = Tail(wire[e]) /\ wire'[Other(e)] = wire[Other(e)]
      /\ conn'[e][c] = k /\ k \in Connections
      /\ UNCHANGED <<plan, pc, packet, done, drained, got, ended>>
  BY <1>1 DEF TakesEffect
<1>4. conn'[Other(e)][c] = conn[Other(e)][c]
  BY <1>1, <1>2 DEF TakesEffect
<1> QED BY <1>1, <1>2, <1>3, <1>4 DEF PacketContext

LEMMA PacketFacts ==
  ASSUME NEW e \in Ends, NEW o \in Ends, NEW c \in Conns, NEW p \in Packets, NEW k, PacketContext(e, o, c, p, k)
  PROVE  /\ EndOf(e, o, c) /\ EndOf(o, e, c) /\ PlaceOf(e, c) /\ PlaceOf(o, c) /\ plan' = plan
         /\ Sent(e, c)' = Sent(e, c) /\ Sent(o, c)' = Sent(o, c) /\ ~Unborn(c)'
<1>1. TypeOK /\ TypeOK' /\ ByteOf(c) /\ StreamOf(c)' /\ plan' = plan /\ o = Other(e) /\ e = Other(o)
  BY DEF PacketContext
<1>2. EndOf(e, o, c) /\ EndOf(o, e, c) /\ PlaceOf(e, c) /\ PlaceOf(o, c) /\ TableOf(c)
  BY <1>1 DEF ByteOf
<1>3. pc' = pc /\ packet' = packet /\ done' = done
  BY DEF PacketContext
<1>4. ASSUME NEW z \in Ends PROVE Sent(z, c)' = Sent(z, c)
  <2>1. WriteOf(z, c) /\ WriteOf(z, c)'
    BY <1>1 DEF ByteOf, StreamOf
  <2> QED BY <1>1, <1>3, <2>1, SentSame
<1>5. ~Unborn(c)'
  <2>1. ~Has(wire'["b"], c, "request") /\ pc["a"][c]["control"] \notin {"idle", "request"}
    BY <1>1, <1>2, PacketBorn DEF PacketContext
  <2> QED BY <1>3, <2>1 DEF Unborn
<1> QED BY <1>1, <1>2, <1>4, <1>5

\* The stream from the end that sent the packet, on the sender's side, and the
\* reader of that end.
LEMMA PacketFar ==
  ASSUME NEW e \in Ends, NEW o \in Ends, NEW c \in Conns, NEW p \in Packets, NEW k, PacketContext(e, o, c, p, k)
  PROVE  SenderQuiet(o, e, c) /\ ReaderQuiet(o, c) /\ PlaceOf(o, c)'
<1>1. /\ wire[e] \in Seq(Packets) /\ wire[e] # <<>> /\ wire'[e] = Tail(wire[e]) /\ conn'[o][c] = conn[o][c]
      /\ UNCHANGED <<plan, pc, packet, done, drained, got, ended>>
  BY DEF PacketContext
<1>2. Sent(o, c)' = Sent(o, c) /\ ~Unborn(c)' /\ PlaceOf(o, c)
  BY PacketFacts
<1>3. /\ HasFinal(wire'[e], c) => HasFinal(wire[e], c)
      /\ DataFirst(wire[e], c) => DataFirst(wire'[e], c)
  BY <1>1, TailFinal
<1>4. Has(wire'[e], c, "data") => Has(wire[e], c, "data")
  <2>1. "data" \in Ops
    BY DEF Ops
  <2> QED BY <1>1, <2>1, TailHas
<1>5. Awaited(o, e, c)' => Awaited(o, e, c)
  BY <1>1, <1>3 DEF Awaited
<1>6. SenderQuiet(o, e, c)
  BY <1>1, <1>2, <1>3, <1>4, <1>5 DEF SenderQuiet, Holds
<1>7. ReaderQuiet(o, c)
  BY <1>1 DEF ReaderQuiet, Arrived, Taken
<1>8. PlaceOf(o, c)'
  BY <1>1, <1>2, PlaceSteady
<1> QED BY <1>6, <1>7, <1>8

\* The stream from the end that takes the packet.
LEMMA PacketNear ==
  ASSUME NEW e \in Ends, NEW o \in Ends, NEW c \in Conns, NEW p \in Packets, NEW k, PacketContext(e, o, c, p, k),
         Received(e, c, p, k)
  PROVE  EndOf(e, o, c)'
<1>1. /\ wire'[o] = wire[o] /\ conn'[e][c] = k
      /\ UNCHANGED <<plan, pc, packet, done, drained, got, ended>>
  BY DEF PacketContext
<1>2. Sent(e, c)' = Sent(e, c) /\ ~Unborn(c)' /\ EndOf(e, o, c)
  BY PacketFacts
<1>3. \/ k = conn[e][c]
      \/ Exists(e, c) /\ k.local = conn[e][c].local /\ (k.state \in Live => conn[e][c].state \in Live)
  BY DEF Received
<1>4. SenderQuiet(e, o, c)
  BY <1>1, <1>2, <1>3 DEF SenderQuiet, Holds, Awaited
<1>5. ReaderQuiet(o, c)
  BY PacketFar
<1> QED BY <1>1, <1>2, <1>4, <1>5, EndQuiet

\* When the packet that ends the stream is taken, everything has arrived.
LEMMA LastPacket ==
  ASSUME NEW e \in Ends, NEW o \in Ends, NEW c \in Conns, NEW p \in Packets, NEW k, PacketContext(e, o, c, p, k),
         Awaited(o, e, c), Closing(p, c), Exists(e, c), k.receive = conn[e][c].receive
  PROVE  Complete(o, e, c)'
<1>1. /\ TypeOK /\ wire[e] \in Seq(Packets) /\ wire[e] # <<>> /\ wire'[e] = Tail(wire[e]) /\ conn'[e][c] = k
      /\ p = Head(wire[e]) /\ UNCHANGED <<drained, got>> /\ e = Other(o) /\ o = Other(e) /\ StreamOf(c)
  BY DEF PacketContext, ByteOf
<1>2. EndOf(o, e, c) /\ Sent(o, c)' = Sent(o, c)
  BY PacketFacts
<1>3. DataFirst(wire[e], c)
  BY <1>2 DEF EndOf
<1>4. ~Has(Tail(wire[e]), c, "data")
  BY <1>1, <1>3, TailFinal
<1>5. ~Has(wire[e], c, "data")
  <2>1. "data" \in Ops /\ p.op # "data"
    BY DEF Ops, Closing, Final
  <2> QED BY <1>1, <1>4, <2>1, TailHas
<1>6. Arrived(e, c)' = Arrived(e, c)
  BY <1>1 DEF Arrived, Taken
<1>7. Arrived(e, c) = Sent(o, c)
  <2>1. CASE conn[e][c].state \in Live
    <3>1. ReadOf(e, c) /\ WriteOf(o, c)
      BY <1>1 DEF StreamOf
    <3>2. PICK x \in Nat, s \in Nat : x = Arrived(e, c) /\ s = Sent(o, c)
      BY <1>1, <3>1, StreamTypes, SentFacts
    <3>3. x <= s /\ Spells(wire[e], c, x, s)
      BY <1>1, <2>1, <3>1, <3>2 DEF ReadOf
    <3>4. x = s
      BY <1>1, <1>5, <3>3, SpellsNothing
    <3> QED BY <3>2, <3>4
  <2>2. CASE conn[e][c].state \notin Live
    <3>1. conn[e][c].state \in States
      BY <1>1, EntryFields DEF TypeOK
    <3>2. conn[e][c].state \in Ruined \cup {"closed"}
      BY <2>2, <3>1 DEF States, Live, Ruined, Exists
    <3>3. Complete(o, e, c)
      BY <1>2, <3>2 DEF EndOf
    <3> QED BY <3>3 DEF Complete
  <2> QED BY <2>1, <2>2
<1> QED BY <1>1, <1>2, <1>4, <1>6, <1>7 DEF Complete

\* What was complete stays so as long as no byte is stored.
LEMMA CompleteStays ==
  ASSUME NEW e \in Ends, NEW o \in Ends, NEW c \in Conns, NEW p \in Packets, NEW k, PacketContext(e, o, c, p, k),
         k.receive = conn[e][c].receive, Complete(o, e, c)
  PROVE  Complete(o, e, c)'
<1>1. conn'[e][c] = k /\ UNCHANGED <<drained, got>>
  BY DEF PacketContext
<1>2. Arrived(e, c)' = Arrived(e, c)
  BY <1>1 DEF Arrived, Taken
<1>3. SenderQuiet(o, e, c)
  BY PacketFar
<1> QED BY <1>2, <1>3 DEF Complete, SenderQuiet

LEMMA ReceiveResets ==
  ASSUME NEW e \in Ends, NEW o \in Ends, NEW c \in Conns, NEW p \in Packets, NEW k, PacketContext(e, o, c, p, k),
         Exists(e, c), Resets(conn[e][c], p, k)
  PROVE  ReaderNews(o, e, c)
<1>1. /\ p.op = "reset" /\ k.receive = conn[e][c].receive /\ k.peer = conn[e][c].peer /\ k.state \in Ruined
  BY DEF Resets
<1>2. /\ wire[e] \in Seq(Packets) /\ wire[e] # <<>> /\ conn'[e][c] = k /\ conn'[o][c] = conn[o][c]
      /\ p = Head(wire[e]) /\ p.c = c /\ e = Other(o) /\ PeerOf(c) /\ UNCHANGED <<plan, pc, got, ended>>
  BY DEF PacketContext, ByteOf
<1>3. EndOf(o, e, c) /\ ~Unborn(c)'
  BY PacketFacts
<1>4. conn'[o][c].state \notin Live
  <2>1. Has(wire[e], c, "reset")
    <3>1. "reset" \in Ops
      BY DEF Ops
    <3> QED BY <1>1, <1>2, <3>1, TailHas
  <2> QED BY <1>2, <2>1 DEF PeerOf, Coming
<1>5. Awaited(o, e, c) => Complete(o, e, c)'
  BY <1>1, <1>2, LastPacket DEF Closing
<1>6. "send" \in k.peer => Finished(o, c) /\ Complete(o, e, c)'
  BY <1>1, <1>3, CompleteStays DEF EndOf
<1>7. plan.shuts = {} => "send" \notin k.peer
  BY <1>1, <1>3 DEF EndOf
<1>8. k.state # "closed"
  BY <1>1 DEF Ruined
<1> QED BY <1>2, <1>3, <1>4, <1>5, <1>6, <1>7, <1>8 DEF ReaderNews

LEMMA ReceiveShut ==
  ASSUME NEW e \in Ends, NEW o \in Ends, NEW c \in Conns, NEW p \in Packets, NEW k, PacketContext(e, o, c, p, k),
         Exists(e, c), Shut(conn[e][c], p, k)
  PROVE  ReaderNews(o, e, c)
<1>1. /\ p.op = "shutdown" /\ k.receive = conn[e][c].receive /\ k.peer = conn[e][c].peer \cup p.flags
      /\ k.state = conn[e][c].state \/ (k.state = "closed" /\ k.peer = Directions)
  BY DEF Shut
<1>2. /\ wire[e] \in Seq(Packets) /\ wire[e] # <<>> /\ conn'[e][c] = k /\ conn'[o][c] = conn[o][c]
      /\ p = Head(wire[e]) /\ p.c = c /\ UNCHANGED <<plan, pc, got, ended>>
  BY DEF PacketContext
<1>3. EndOf(o, e, c) /\ ~Unborn(c)'
  BY PacketFacts
<1>4. "send" \in p.flags => Final(p, c) /\ Awaited(o, e, c)
  <2>1. "send" \in p.flags => Final(p, c)
    BY <1>1, <1>2 DEF Final
  <2>2. Final(p, c) => HasFinal(wire[e], c)
    BY <1>2, TailFinal
  <2> QED BY <2>1, <2>2 DEF Awaited
<1>5. "send" \in p.flags => Finished(o, c) /\ Complete(o, e, c)'
  <2>1. "send" \in p.flags => Complete(o, e, c)'
    BY <1>1, <1>4, LastPacket DEF Closing
  <2> QED BY <1>3, <1>4, <2>1 DEF EndOf
<1>6. "send" \in conn[e][c].peer => Finished(o, c) /\ Complete(o, e, c)'
  BY <1>1, <1>3, CompleteStays DEF EndOf
<1>7. "send" \in k.peer => Finished(o, c) /\ Complete(o, e, c)'
  BY <1>1, <1>5, <1>6
<1>8. plan.shuts = {} => "send" \notin k.peer
  BY <1>1, <1>3, <1>4 DEF EndOf
<1>9. k.state \in Ruined => k.state = conn[e][c].state
  BY <1>1 DEF Ruined
<1>10. plan.faults = 0 /\ k.state \in Ruined => conn'[o][c].state \notin Live /\ ~Unborn(c)'
  BY <1>2, <1>3, <1>9 DEF EndOf
<1>11. Awaited(o, e, c) /\ k.state \in Ruined => Complete(o, e, c)'
  BY <1>1, <1>3, <1>9, CompleteStays DEF EndOf
<1>12. k.state = "closed" => "send" \in k.peer
  BY <1>1, <1>3 DEF EndOf, Directions
<1> QED BY <1>2, <1>7, <1>8, <1>10, <1>11, <1>12 DEF ReaderNews

LEMMA ReceiveFills ==
  ASSUME NEW e \in Ends, NEW o \in Ends, NEW c \in Conns, NEW p \in Packets, NEW k, PacketContext(e, o, c, p, k),
         Fills(conn[e][c], p, k)
  PROVE  ReaderNews(o, e, c) /\ PlaceOf(e, c)'
<1>1. /\ p.op = "data" /\ k.state \in Live /\ conn[e][c].state \in Live
      /\ k.receive = conn[e][c].receive \o p.payload /\ k.peer = conn[e][c].peer
  BY DEF Fills
<1>2. /\ wire[e] \in Seq(Packets) /\ wire[e] # <<>> /\ conn'[e][c] = k
      /\ p = Head(wire[e]) /\ p.c = c /\ UNCHANGED <<plan, pc, got, ended, drained>>
      /\ TypeOK /\ StreamOf(c) /\ e = Other(o) /\ o = Other(e)
  BY DEF PacketContext, ByteOf
<1>3. EndOf(o, e, c) /\ PlaceOf(e, c)
  BY PacketFacts
<1>4. Has(wire[e], c, "data")
  <2>1. "data" \in Ops
    BY DEF Ops
  <2> QED BY <1>1, <1>2, <2>1, TailHas
<1>5. "send" \notin k.peer
  BY <1>1, <1>3, <1>4 DEF EndOf, Complete
<1>6. k.state \notin Ruined /\ k.state # "closed"
  BY <1>1 DEF Live, Ruined
<1>7. ReaderNews(o, e, c)
  BY <1>2, <1>5, <1>6 DEF ReaderNews
<1>8. Counts(p.payload, Arrived(e, c)) /\ p.payload \in Seq(Nat)
  <2>1. ReadOf(e, c) /\ WriteOf(o, c)
    BY <1>2 DEF StreamOf
  <2>2. PICK x \in Nat, s \in Nat : x = Arrived(e, c) /\ s = Sent(o, c)
    BY <1>2, <2>1, StreamTypes, SentFacts
  <2>3. Spells(wire[e], c, x, s)
    BY <1>1, <1>2, <2>1, <2>2 DEF ReadOf
  <2>4. IsData(p, c)
    BY <1>1, <1>2 DEF IsData
  <2>5. Consecutive(p.payload, x)
    BY <1>2, <2>3, <2>4, SpellsTail
  <2> QED BY <2>2, <2>5 DEF Consecutive, Counts
<1>9. PlaceOf(e, c)'
  <2>1. PICK b \in Seq(Nat) : b = p.payload
    BY <1>8
  <2>2. conn'[e][c].receive = conn[e][c].receive \o b /\ Counts(b, Arrived(e, c))
    BY <1>1, <1>2, <1>8, <2>1
  <2> QED BY <1>2, <1>3, <2>2, PlaceStores
<1> QED BY <1>7, <1>9

LEMMA OrderedReceived ==
  ASSUME NEW e \in Ends, NEW o \in Ends, NEW c \in Conns, NEW p \in Packets, NEW k, PacketContext(e, o, c, p, k),
         Received(e, c, p, k)
  PROVE  Ordered(c)'
<1>1. /\ conn'[e][c] = k /\ UNCHANGED <<plan, pc, got, ended, drained>>
      /\ o = Other(e) /\ e = Other(o) /\ \A z \in Ends : z = e \/ z = o
  BY EndsFacts DEF PacketContext
<1>2. EndOf(o, e, c) /\ PlaceOf(e, c)
  BY PacketFacts
<1>3. SenderQuiet(o, e, c) /\ PlaceOf(o, c)'
  BY PacketFar
<1>4. EndOf(e, o, c)'
  BY PacketNear
<1>5. k.receive = conn[e][c].receive => PlaceOf(e, c)'
  BY <1>1, <1>2, PlaceSteady
<1>6. EndOf(o, e, c)' /\ PlaceOf(e, c)'
  <2>1. CASE Bland(conn[e][c], p, k)
    <3>1. k.receive = conn[e][c].receive /\ k.peer = conn[e][c].peer
          /\ (k.state \in Ruined \cup {"closed"} => k.state = conn[e][c].state)
      BY <2>1 DEF Bland
    <3>2. ReaderQuiet(e, c)
      BY <1>1, <3>1 DEF ReaderQuiet, Arrived, Taken
    <3> QED BY <1>1, <1>2, <1>3, <1>5, <3>1, <3>2, EndQuiet
  <2>2. CASE Exists(e, c) /\ Resets(conn[e][c], p, k)
    <3>1. ReaderNews(o, e, c) /\ k.receive = conn[e][c].receive
      BY <2>2, ReceiveResets DEF Resets
    <3> QED BY <1>1, <1>2, <1>3, <1>5, <3>1, EndNews
  <2>3. CASE Exists(e, c) /\ Shut(conn[e][c], p, k)
    <3>1. ReaderNews(o, e, c) /\ k.receive = conn[e][c].receive
      BY <2>3, ReceiveShut DEF Shut
    <3> QED BY <1>1, <1>2, <1>3, <1>5, <3>1, EndNews
  <2>4. CASE Fills(conn[e][c], p, k)
    BY <1>1, <1>2, <1>3, <2>4, ReceiveFills, EndNews
  <2> QED BY <2>1, <2>2, <2>3, <2>4 DEF Received
<1> QED BY <1>1, <1>3, <1>4, <1>6 DEF Ordered

LEMMA OrderedAdmits ==
  ASSUME NEW e \in Ends, NEW o \in Ends, NEW c \in Conns, NEW p \in Packets, NEW k, NEW r,
         PacketContext(e, o, c, p, k), Admits(e, p, k, r)
  PROVE  Ordered(c)'
<1>1. /\ conn'[e][c] = k /\ conn'[o][c] = conn[o][c] /\ UNCHANGED <<plan, pc, packet, got, ended, drained>>
      /\ o = Other(e) /\ e = Other(o) /\ \A z \in Ends : z = e \/ z = o
      /\ TypeOK /\ TableOf(c) /\ p.c = c /\ wire[e] # <<>> /\ p = Head(wire[e])
      /\ wire'[e] = Tail(wire[e]) /\ wire'[o] = wire[o]
  BY EndsFacts DEF PacketContext, ByteOf
<1>2. /\ EndOf(o, e, c) /\ EndOf(e, o, c) /\ PlaceOf(e, c)
  BY PacketFacts
<1>3. SenderQuiet(o, e, c) /\ PlaceOf(o, c)'
  BY PacketFar
<1>4. Unborn(c)
  BY <1>1, PacketBorn DEF Admits
<1>5. k.local = {} /\ k.peer = {} /\ k.state = "established" /\ k.receive = <<>>
  BY DEF Admits, Absorb, Opened
<1>6. ~Finished(e, c) /\ ~Finished(o, c)
  BY <1>4 DEF Finished
<1>7. PlaceOf(e, c)'
  BY <1>1, <1>2, <1>5, PlaceSteady
<1>8. EndOf(e, o, c)'
  <2>1. Awaited(e, o, c)' => Awaited(e, o, c)
    BY <1>1 DEF Awaited
  <2>2. ~(plan.faults = 0 /\ conn'[o][c].state \in Ruined)
    BY <1>1, <1>2, <1>4 DEF EndOf
  <2> QED BY <1>1, <1>2, <1>5, <1>6, <2>1, <2>2, EndStaysUnheard
<1>9. EndOf(o, e, c)'
  <2>1. Awaited(o, e, c)' => Awaited(o, e, c)
    BY <1>3 DEF SenderQuiet
  <2>2. k.state \notin Ruined /\ k.state # "closed"
    BY <1>5 DEF Ruined
  <2>3. "send" \in conn'[o][c].local => \A w \in Writers : ~Holds(o, c, w)'
    BY <1>1, <1>2 DEF EndOf, Holds
  <2> QED BY <1>1, <1>2, <1>5, <1>6, <2>1, <2>2, <2>3, EndStaysUnheard
<1> QED BY <1>1, <1>3, <1>7, <1>8, <1>9 DEF Ordered

LEMMA OrderedPacket ==
  ASSUME TypeOK, TypeOK', NEW e \in Ends, NEW c \in Conns, ByteOf(c), StreamOf(c)', NEW p \in Packets, NEW k, NEW r,
         PacketStep(e, c, p, k, r)
  PROVE  Ordered(c)'
<1>1. PICK o \in Ends : o = Other(e) /\ PacketContext(e, o, c, p, k)
  BY PacketInContext, EndsFacts
<1>2. CASE Admits(e, p, k, r)
  BY <1>1, <1>2, OrderedAdmits
<1>3. CASE ~Admits(e, p, k, r)
  <2>1. StreamOf(c) /\ wire[e] # <<>> /\ p = Head(wire[e]) /\ p.c = c
    BY <1>1 DEF ByteOf, PacketContext
  <2>2. p.op = "data" /\ conn[e][c].state \in Live => Len(p.payload) <= Window - Len(conn[e][c].receive)
    BY <2>1, HeadFits
  <2>3. Received(e, c, p, k)
    BY <1>3, <2>2, PacketReceived
  <2> QED BY <1>1, <2>3, OrderedReceived
<1> QED BY <1>2, <1>3

-----------------------------------------------------------------------------
(* The ends of the streams under the other steps                           *)

\* End e does nothing with the connection.
Idles(e, c) ==
  /\ conn'[e][c] = conn[e][c] /\ done'[e][c] = done[e][c] /\ got'[e][c] = got[e][c]
  /\ drained'[e][c] = drained[e][c] /\ ended'[e][c] = ended[e][c]
  /\ \A t \in Tasks : t # "control" => pc'[e][c][t] = pc[e][c][t] /\ packet'[e][c][t] = packet[e][c][t]
  /\ pc'[e][c]["control"] = "shutdown" =>
       pc[e][c]["control"] = "shutdown" /\ packet'[e][c]["control"] = packet[e][c]["control"]

\* No data and no end of a stream is put on the way to end o.
LineIdles(o, c) ==
  /\ HasFinal(wire'[o], c) => HasFinal(wire[o], c)
  /\ DataFirst(wire[o], c) => DataFirst(wire'[o], c)
  /\ Has(wire'[o], c, "data") => Has(wire[o], c, "data")

LEMMA IdleIsQuiet ==
  ASSUME TypeOK, TypeOK', NEW e \in Ends, NEW o \in Ends, NEW c \in Conns, WriteOf(e, c), WriteOf(e, c)', PlaceOf(e, c),
         Idles(e, c), LineIdles(o, c), Unborn(c)' => Unborn(c)
  PROVE  SenderQuiet(e, o, c) /\ ReaderQuiet(e, c) /\ PlaceOf(e, c)'
<1>1. /\ conn'[e][c] = conn[e][c] /\ done'[e][c] = done[e][c] /\ got'[e][c] = got[e][c]
      /\ drained'[e][c] = drained[e][c] /\ ended'[e][c] = ended[e][c]
      /\ \A t \in Tasks : t # "control" => pc'[e][c][t] = pc[e][c][t] /\ packet'[e][c][t] = packet[e][c][t]
  BY DEF Idles
<1>2. Sent(e, c)' = Sent(e, c)
  BY <1>1, SentSame, TaskFacts
<1>3. \A w \in Writers : Holds(e, c, w)' => Holds(e, c, w)
  BY <1>1, TaskFacts DEF Holds
<1>4. Awaited(e, o, c)' => Awaited(e, o, c)
  BY DEF Awaited, Idles, LineIdles
<1>5. SenderQuiet(e, o, c)
  BY <1>1, <1>2, <1>3, <1>4 DEF SenderQuiet, LineIdles
<1>6. ReaderQuiet(e, c)
  BY <1>1, TaskFacts DEF ReaderQuiet, Arrived, Taken
<1> QED BY <1>1, <1>5, <1>6, PlaceSteady

LEMMA OrderedIdle ==
  ASSUME TypeOK, TypeOK', NEW c \in Conns, ByteOf(c), StreamOf(c)', plan' = plan, Unborn(c)' => Unborn(c),
         \A e \in Ends : Idles(e, c) /\ LineIdles(e, c)
  PROVE  Ordered(c)'
<1>1. ASSUME NEW e \in Ends PROVE PlaceOf(e, c)' /\ EndOf(e, Other(e), c)'
  <2>1. PICK o \in Ends : o = Other(e)
    BY EndsFacts
  <2>2. \A z \in Ends : WriteOf(z, c) /\ WriteOf(z, c)' /\ PlaceOf(z, c)
    BY DEF ByteOf, StreamOf
  <2>3. SenderQuiet(e, o, c) /\ PlaceOf(e, c)'
    BY <2>2, IdleIsQuiet
  <2>4. ReaderQuiet(o, c)
    BY <2>2, IdleIsQuiet
  <2>5. EndOf(e, o, c)
    BY <2>1 DEF ByteOf
  <2>6. EndOf(e, o, c)'
    BY <2>3, <2>4, <2>5, EndQuiet
  <2> QED BY <2>1, <2>3, <2>6
<1> QED BY <1>1 DEF Ordered

LEMMA OrderedUntouched ==
  ASSUME TypeOK, TypeOK', NEW c \in Conns, ByteOf(c), StreamOf(c)', Untouched(c)
  PROVE  Ordered(c)'
<1>1. plan' = plan
  BY DEF Untouched, PlaceKept
<1>2. ASSUME NEW e \in Ends PROVE Idles(e, c) /\ LineIdles(e, c)
  <2>1. SideKept(e, c) /\ LineKept(e, c)
    BY DEF Untouched
  <2>2. "data" \in Ops
    BY DEF Ops
  <2> QED BY <2>1, <2>2, TaskFacts DEF Idles, LineIdles, SideKept, LineKept
<1>3. Unborn(c)' => Unborn(c)
  <2>1. SideKept("a", c) /\ LineKept("b", c)
    BY EndsFacts DEF Untouched
  <2>2. pc'["a"][c]["control"] = pc["a"][c]["control"] /\ (Has(wire'["b"], c, "request") => Has(wire["b"], c, "request"))
    BY <2>1, TaskFacts DEF SideKept, LineKept, Ops
  <2> QED BY <2>2 DEF Unborn
<1> QED BY <1>1, <1>2, <1>3, OrderedIdle

LEMMA OrderedAccepts ==
  ASSUME TypeOK, TypeOK', NEW c \in Conns, ByteOf(c), StreamOf(c)', Accepts(c)
  PROVE  Ordered(c)'
<1>1. AcceptsEffect(c)
  BY AcceptsFacts
<1>2. /\ \A z \in Ends, u \in Tasks : z # "b" \/ u # "control" => pc'[z][c][u] = pc[z][c][u]
      /\ pc'["b"][c]["control"] = "open"
      /\ UNCHANGED <<plan, conn, wire, packet, done, drained, got, ended>>
  BY <1>1 DEF AcceptsEffect
<1>3. ASSUME NEW e \in Ends PROVE Idles(e, c) /\ LineIdles(e, c)
  <2>1. \A t \in Tasks : t # "control" => pc'[e][c][t] = pc[e][c][t]
    BY <1>2
  <2>2. pc'[e][c]["control"] = "shutdown" => pc[e][c]["control"] = "shutdown"
    BY <1>2, TaskFacts
  <2> QED BY <1>2, <2>1, <2>2 DEF Idles, LineIdles
<1>4. Unborn(c)' => Unborn(c)
  BY <1>2, EndsFacts, TaskFacts DEF Unborn
<1> QED BY <1>2, <1>3, <1>4, OrderedIdle

LEMMA OrderedListener ==
  ASSUME TypeOK, TypeOK', NEW c \in Conns, ByteOf(c), StreamOf(c)', CloseListener
  PROVE  Ordered(c)'
<1>1. UNCHANGED <<plan, conn, wire, pc, packet, done, drained, got, ended>>
  BY DEF CloseListener, taskVars, resultVars
<1>2. ASSUME NEW e \in Ends PROVE Idles(e, c) /\ LineIdles(e, c)
  BY <1>1 DEF Idles, LineIdles
<1>3. Unborn(c)' => Unborn(c)
  BY <1>1 DEF Unborn
<1> QED BY <1>1, <1>2, <1>3, OrderedIdle

LEMMA OrderedReply ==
  ASSUME TypeOK, TypeOK', NEW e \in Ends, NEW c \in Conns, ByteOf(c), StreamOf(c)', ReplyStep(e, c)
  PROVE  Ordered(c)'
<1>0. ReplyEffect(e) /\ pump[e].c = c /\ TableOf(c)
  BY ReplyFacts DEF ReplyStep, ByteOf
<1>o. PICK o \in Ends : o = Other(e) /\ o # e /\ (\A z \in Ends : z = e \/ z = o)
  BY EndsFacts
<1>1. PICK p \in Packets : p = pump[e] /\ p.c = c /\ p # NoPacket
  BY <1>0, NoPacketFacts DEF ReplyEffect
<1>2. /\ wire'[e] = wire[e] /\ (wire'[o] = Append(wire[o], p) \/ wire'[o] = wire[o])
      /\ UNCHANGED <<plan, conn, pc, packet, done, drained, got, ended>> /\ wire[o] \in Seq(Packets)
  BY <1>0, <1>1, <1>o DEF ReplyEffect, TypeOK
<1>3. p.op \in {"reset", "response", "creditUpdate"}
  BY <1>0, <1>1 DEF TableOf, OrderOf, Replying
<1>4. ~IsData(p, c) /\ ~Final(p, c)
  BY <1>3 DEF IsData, Final
<1>5. \A op \in {"data", "request"} : Has(wire'[o], c, op) => Has(wire[o], c, op)
  <2>0. "data" \in Ops /\ "request" \in Ops
    BY DEF Ops
  <2>1. CASE wire'[o] = wire[o]
    BY <2>1
  <2>2. CASE wire'[o] = Append(wire[o], p)
    <3>1. \A op \in Ops : Has(wire'[o], c, op) <=> Has(wire[o], c, op) \/ (p.c = c /\ p.op = op)
      BY <1>2, <2>2, AppendHas
    <3>2. p.op # "data" /\ p.op # "request"
      BY <1>3
    <3>3. Has(wire'[o], c, "data") => Has(wire[o], c, "data")
      BY <2>0, <3>1, <3>2
    <3>4. Has(wire'[o], c, "request") => Has(wire[o], c, "request")
      BY <2>0, <3>1, <3>2
    <3> QED BY <3>3, <3>4
  <2> QED BY <1>2, <2>1, <2>2
<1>6. LineIdles(o, c)
  <2>1. CASE wire'[o] = wire[o]
    BY <2>1 DEF LineIdles
  <2>2. CASE wire'[o] = Append(wire[o], p)
    BY <1>2, <1>4, <1>5, <2>2, AppendFinal DEF LineIdles
  <2> QED BY <1>2, <2>1, <2>2
<1>7. LineIdles(e, c)
  BY <1>2 DEF LineIdles
<1>8. ASSUME NEW z \in Ends PROVE Idles(z, c)
  BY <1>2 DEF Idles
<1>9. Unborn(c)' => Unborn(c)
  <2>1. Has(wire'["b"], c, "request") => Has(wire["b"], c, "request")
    BY <1>2, <1>5, <1>o, EndsFacts
  <2> QED BY <1>2, <2>1 DEF Unborn
<1> QED BY <1>2, <1>6, <1>7, <1>8, <1>9, <1>o, OrderedIdle

LEMMA OrderedConnects ==
  ASSUME TypeOK, TypeOK', NEW c \in Conns, ByteOf(c), StreamOf(c)', Connects(c)
  PROVE  Ordered(c)'
<1>o. "a" \in Ends /\ "b" \in Ends /\ Other("a") = "b" /\ Other("b") = "a" /\ "a" # "b" /\ \A z \in Ends : z = "a" \/ z = "b"
  BY EndsFacts
<1>1. PICK p \in Packets : p = Header("request", c, Free) /\ p.op = "request"
  BY DecisionKinds, EndsFacts DEF Header
<1>2. PICK k \in Connections : /\ k = Opened("connecting") /\ k.receive = <<>> /\ k.local = {} /\ k.peer = {}
                               /\ k.state = "connecting"
  BY OpenedType DEF States, Opened
<1>3. DecisionEffect("a", c, "control", "idle", p, k) /\ drained' = drained
  BY <1>1, <1>2, DecisionFacts, EndsFacts, TaskFacts DEF Carried, Connects
<1>4. /\ pc["a"][c]["control"] = "idle" /\ pc'["a"][c]["control"] = "request"
      /\ conn'["a"][c] = k /\ conn'["b"][c] = conn["b"][c]
      /\ \A z \in Ends, u \in Tasks : z # "a" \/ u # "control" => pc'[z][c][u] = pc[z][c][u] /\ packet'[z][c][u] = packet[z][c][u]
      /\ UNCHANGED <<plan, wire, done, got, drained, ended>>
  BY <1>1, <1>3, <1>o DEF DecisionEffect
<1>5. Unborn(c)
  BY <1>4 DEF Unborn
<1>6. ~Finished("a", c) /\ ~Finished("b", c)
  BY <1>5 DEF Finished
<1>7. EndOf("a", "b", c) /\ EndOf("b", "a", c) /\ PlaceOf("a", c) /\ PlaceOf("b", c) /\ BirthOf(c)
  BY <1>o DEF ByteOf, TableOf
<1>8. PlaceOf("a", c)' /\ PlaceOf("b", c)'
  BY <1>2, <1>4, <1>7, <1>o, PlaceSteady
<1>9. EndOf("a", "b", c)'
  <2>1. conn'["b"][c].state \notin Ruined
    BY <1>4, <1>5, <1>7 DEF BirthOf, Exists, Ruined
  <2>2. Awaited("a", "b", c)' => Awaited("a", "b", c)
    BY <1>4 DEF Awaited
  <2>3. "send" \notin conn'["a"][c].local
    BY <1>2, <1>4
  <2> QED BY <1>4, <1>6, <1>7, <1>o, <2>1, <2>2, <2>3, EndStaysUnheard
<1>10. EndOf("b", "a", c)'
  <2>1. conn'["a"][c].state \notin Ruined /\ conn'["a"][c].state # "closed" /\ "send" \notin conn'["a"][c].peer
    BY <1>2, <1>4 DEF Ruined
  <2>2. Awaited("b", "a", c)' => Awaited("b", "a", c)
    BY <1>4, <1>o, TaskFacts DEF Awaited
  <2>3. "send" \in conn'["b"][c].local => \A w \in Writers : ~Holds("b", c, w)'
    BY <1>4, <1>7, <1>o, TaskFacts DEF EndOf, Holds
  <2> QED BY <1>4, <1>6, <1>7, <1>o, <2>1, <2>2, <2>3, EndStaysUnheard
<1> QED BY <1>8, <1>9, <1>10, <1>o DEF Ordered

LEMMA OrderedTransport ==
  ASSUME Orderly, TypeOK, TypeOK', NEW e \in Ends, NEW c \in Conns, ByteOf(c), StreamOf(c)', TransportReset(e)
  PROVE  Ordered(c)'
<1>0. TransportEffect(e)
  BY TransportFacts
<1>o. PICK o \in Ends : o = Other(e) /\ e = Other(o) /\ o # e /\ (\A z \in Ends : z = e \/ z = o)
  BY EndsFacts
<1>1. /\ conn'[e][c] = IF Exists(e, c) THEN [conn[e][c] EXCEPT !.state = "reset"] ELSE Free
      /\ conn'[o][c] = conn[o][c]
      /\ UNCHANGED <<plan, wire, pc, packet, done, drained, got, ended>>
  BY <1>0, <1>o DEF TransportEffect
<1>2. plan.faults # 0 /\ plan.shuts = {}
  <2>1. faults < plan.faults /\ faults \in Nat /\ plan \in Plans
    BY <1>0 DEF TransportEffect, TypeOK
  <2>2. plan.faults \in Nat
    BY <2>1, PlansAssumption
  <2>3. plan.faults # 0
    BY <2>1, <2>2
  <2> QED BY <2>1, <2>3 DEF Orderly
<1>3. /\ EndOf(e, o, c) /\ EndOf(o, e, c) /\ PlaceOf(e, c) /\ PlaceOf(o, c)
      /\ WriteOf(e, c) /\ WriteOf(e, c)' /\ WriteOf(o, c) /\ WriteOf(o, c)'
  BY <1>o DEF ByteOf, StreamOf
<1>4. \/ conn'[e][c] = Free
      \/ /\ Exists(e, c) /\ conn'[e][c].state = "reset" /\ conn'[e][c].local = conn[e][c].local
         /\ conn'[e][c].peer = conn[e][c].peer /\ conn'[e][c].receive = conn[e][c].receive
  <2>1. CASE ~Exists(e, c)
    BY <1>1, <2>1
  <2>2. CASE Exists(e, c)
    <3>1. PICK k \in Connections : k = conn[e][c]
      BY DEF TypeOK
    <3>2. conn'[e][c] = [k EXCEPT !.state = "reset"]
      BY <1>1, <2>2, <3>1
    <3> QED BY <2>2, <3>1, <3>2 DEF Connections
  <2> QED BY <2>1, <2>2
<1>5. Unborn(c)' => Unborn(c)
  BY <1>1 DEF Unborn
<1>6. LineIdles(e, c) /\ LineIdles(o, c) /\ Idles(o, c)
  BY <1>1 DEF LineIdles, Idles
<1>7. SenderQuiet(o, e, c) /\ ReaderQuiet(o, c) /\ PlaceOf(o, c)'
  BY <1>3, <1>5, <1>6, IdleIsQuiet
<1>8. SenderQuiet(e, o, c)
  <2>1. Sent(e, c)' = Sent(e, c)
    BY <1>1, <1>3, SentSame
  <2>2. Awaited(e, o, c)' => Awaited(e, o, c)
    BY <1>1 DEF Awaited
  <2>3. \/ conn'[e][c] = Free
        \/ /\ Exists(e, c) /\ ("send" \in conn'[e][c].local <=> "send" \in conn[e][c].local)
           /\ conn'[e][c].state \notin Live
    BY <1>4 DEF Live
  <2> QED BY <1>1, <1>5, <2>1, <2>2, <2>3 DEF SenderQuiet, Holds
<1>9. EndOf(e, o, c)'
  BY <1>1, <1>3, <1>7, <1>8, EndQuiet
<1>10. "send" \notin conn'[e][c].peer /\ conn'[e][c].state # "closed" /\ ~Awaited(o, e, c)
  BY <1>2, <1>3, <1>4, FreeEnds DEF EndOf
<1>11. ReaderNews(o, e, c)
  BY <1>1, <1>2, <1>10 DEF ReaderNews
<1>12. EndOf(o, e, c)'
  BY <1>1, <1>3, <1>7, <1>11, EndNews
<1>13. PlaceOf(e, c)'
  BY <1>1, <1>3, <1>4, FreeEnds, PlaceSteady
<1> QED BY <1>7, <1>9, <1>12, <1>13, <1>o DEF Ordered

-----------------------------------------------------------------------------
(* The whole of it is an invariant                                         *)

LEMMA OrderedStart ==
  ASSUME Init, NEW c \in Conns
  PROVE  Ordered(c)
<1> SUFFICES ASSUME NEW e \in Ends PROVE PlaceOf(e, c) /\ EndOf(e, Other(e), c)
  BY DEF Ordered
<1>o. PICK o \in Ends : o = Other(e)
  BY EndsFacts
<1>1. /\ \A z \in Ends : conn[z][c] = Free /\ wire[z] = <<>> /\ ~ended[z][c]
      /\ \A z \in Ends, t \in Tasks : pc[z][c][t] = "idle"
      /\ \A z \in Ends : drained[z][c] = <<>> /\ got[z][c] = <<>>
  BY DEF Init
<1>2. PlaceOf(e, c)
  BY <1>1, FreeEnds, CountsNothing DEF PlaceOf
<1>3. ~HasFinal(<<>>, c)
  BY DEF HasFinal
<1>4. ~Awaited(e, o, c)
  BY <1>1, <1>3, TaskFacts DEF Awaited
<1>5. EndOf(e, o, c)
  BY <1>1, <1>4, FreeEnds DEF EndOf, Ruined
<1> QED BY <1>2, <1>5, <1>o

LEMMA ByteParts ==
  ASSUME ByteInv
  PROVE  TypeOK /\ TaskInv /\ BirthInv /\ TableInv /\ PeerInv /\ StreamInv
<1>1. TypeOK /\ \A c \in Conns : TableOf(c) /\ PeerOf(c) /\ StreamOf(c)
  BY DEF ByteInv, ByteOf
<1>2. TableInv
  BY <1>1 DEF TableInv
<1>3. PeerInv
  BY <1>1, <1>2 DEF PeerInv
<1>4. StreamInv
  BY <1>1, <1>2 DEF StreamInv
<1>5. TaskInv /\ BirthInv
  BY <1>1 DEF TaskInv, BirthInv, TableOf
<1> QED BY <1>1, <1>2, <1>3, <1>4, <1>5

LEMMA ByteStart ==
  ASSUME Init
  PROVE  ByteInv
<1>1. TableInv
  BY TableStart
<1>2. ASSUME NEW c \in Conns PROVE ByteOf(c)
  <2>1. TableOf(c)
    BY <1>1 DEF TableInv
  <2>2. PeerOf(c)
    BY PeerStart
  <2>3. StreamOf(c) /\ Ordered(c)
    BY StreamStart, OrderedStart
  <2> QED BY <2>1, <2>2, <2>3 DEF ByteOf, Ordered
<1> QED BY <1>1, <1>2 DEF ByteInv, TableInv

LEMMA ByteNext ==
  ASSUME Short, Orderly, ByteInv, [Next]_vars
  PROVE  ByteInv'
<1>1. TypeOK /\ TaskInv /\ BirthInv /\ \A c \in Conns : ByteOf(c)
  BY ByteParts DEF ByteInv
<1>2. Step /\ TableInv' /\ PeerInv' /\ StreamInv'
  BY <1>1, ByteParts, NextIsStep, TableNext, PeerNext, StreamNext
<1>t. TypeOK' /\ \A c \in Conns : TableOf(c)' /\ PeerOf(c)' /\ StreamOf(c)'
  BY <1>2 DEF TableInv, PeerInv, StreamInv
<1>3. ASSUME NEW c \in Conns PROVE Ordered(c)'
  <2>1. CASE CloseListener
    BY <1>1, <1>t, <2>1, OrderedListener
  <2>2. ASSUME NEW e \in Ends, TransportReset(e) PROVE Ordered(c)'
    BY <1>1, <1>t, <2>2, OrderedTransport
  <2>3. CASE Untouched(c)
    BY <1>1, <1>t, <2>3, OrderedUntouched
  <2>4. CASE ConnStep(c)
    <3>1. CASE Accepts(c)
      BY <1>1, <1>t, <3>1, OrderedAccepts
    <3>2. CASE Connects(c)
      BY <1>1, <1>t, <3>2, OrderedConnects
    <3>3. ASSUME NEW e \in Ends, TaskStep(e, c) PROVE Ordered(c)'
      BY <1>1, <1>t, <3>3, OrderedTask
    <3>4. ASSUME NEW e \in Ends, ReplyStep(e, c) PROVE Ordered(c)'
      BY <1>1, <1>t, <3>4, OrderedReply
    <3>5. ASSUME NEW e \in Ends, NEW p \in Packets, NEW k, NEW r, PacketStep(e, c, p, k, r) PROVE Ordered(c)'
      BY <1>1, <1>t, <3>5, OrderedPacket
    <3> QED BY <2>4, <3>1, <3>2, <3>3, <3>4, <3>5 DEF ConnStep
  <2> QED BY <1>1, <1>2, <2>1, <2>2, <2>3, <2>4, Focus
<1>4. ASSUME NEW c \in Conns PROVE ByteOf(c)'
  BY <1>t, <1>3 DEF ByteOf, Ordered
<1> QED BY <1>t, <1>4 DEF ByteInv

-----------------------------------------------------------------------------
(* Every step is a step of a byte stream, or none                          *)

\* What end z sent, and what it was handed, stays as it is.
SideStill(z, c) ==
  Sent(z, c)' = Sent(z, c) /\ got'[z][c] = got[z][c] /\ ended'[z][c] = ended[z][c]
Steady(c) == \A z \in Ends : SideStill(z, c)

\* End e sends; its reader is handed bytes; its reader is told of the end.
SendsMore(e, o, c) ==
  /\ ~ended[o][c] /\ Sent(e, c)' > Sent(e, c)
  /\ got'[e][c] = got[e][c] /\ ended'[e][c] = ended[e][c]
HandedMore(e, c) ==
  /\ ~ended[e][c] /\ Len(got'[e][c]) > Len(got[e][c])
  /\ Sent(e, c)' = Sent(e, c) /\ ended'[e][c] = ended[e][c]
HearsEnd(e, o, c) ==
  /\ Len(got[e][c]) = Sent(o, c) /\ ended'[e][c] = TRUE
  /\ Sent(e, c)' = Sent(e, c) /\ got'[e][c] = got[e][c]
Progress(e, o, c) ==
  SideStill(e, c) \/ SendsMore(e, o, c) \/ HandedMore(e, c) \/ HearsEnd(e, o, c)

LEMMA StillTask ==
  ASSUME NEW e \in Ends, NEW o \in Ends, NEW c \in Conns, TaskContext(e, o, c), NEW t \in Tasks,
         pc[e][c][t] # "sent", pc'[e][c][t] # "sent", done'[e][c] = done[e][c], got' = got, ended' = ended,
         \A u \in Tasks : u # t => pc'[e][c][u] = pc[e][c][u] /\ packet'[e][c][u] = packet[e][c][u]
  PROVE  SideStill(e, c)
  BY SentStill DEF SideStill

LEMMA StillDecision ==
  ASSUME NEW e \in Ends, NEW o \in Ends, NEW c \in Conns, TaskContext(e, o, c), NEW t \in Tasks, NEW x, NEW p, NEW k,
         Decision(e, c, t, x, p, k), x # "sent", p.op # "sent"
  PROVE  SideStill(e, c)
<1>1. /\ pc \in [Ends -> [Conns -> [Tasks -> WriterPc \cup ReaderPc \cup ControlPc]]]
      /\ packet \in [Ends -> [Conns -> [Tasks -> Packets \cup {NoPacket}]]]
  BY ContextFacts DEF TypeOK
<1>2. /\ pc[e][c][t] = x /\ pc' = [pc EXCEPT ![e][c][t] = p.op] /\ packet' = [packet EXCEPT ![e][c][t] = p]
      /\ UNCHANGED <<done, got, ended>>
  BY DEF Decision
<1>3. pc'[e][c][t] = p.op /\ \A u \in Tasks : u # t => pc'[e][c][u] = pc[e][c][u]
  BY <1>1, <1>2
<1>4. \A u \in Tasks : u # t => packet'[e][c][u] = packet[e][c][u]
  BY <1>1, <1>2
<1> QED BY <1>2, <1>3, <1>4, StillTask

LEMMA ProgressMoves ==
  ASSUME NEW e \in Ends, NEW o \in Ends, NEW c \in Conns, TaskContext(e, o, c), Ordered(c)', NEW t \in Tasks, NEW x, NEW y,
         Moves(e, c, t, x, y)
  PROVE  Progress(e, o, c)
<1>1. TypeOK /\ ended \in [Ends -> [Conns -> BOOLEAN]]
  BY ContextFacts DEF TypeOK
<1>2. MovesEffect(e, c, t, x, y)
  BY <1>1, MovesFacts
<1>3. /\ pc[e][c][t] = x /\ pc'[e][c][t] = y
      /\ \A u \in Tasks : u # t => pc'[e][c][u] = pc[e][c][u] /\ packet'[e][c][u] = packet[e][c][u]
      /\ done' = done /\ got' = got
  BY <1>2 DEF MovesEffect
<1>4. x # "sent" /\ y # "sent"
  BY DEF Moves
<1>5. Sent(e, c)' = Sent(e, c)
  BY <1>3, <1>4, SentStill
<1>6. CASE y # "eof"
  <2>1. ended' = ended
    BY <1>6 DEF Moves
  <2> QED BY <1>3, <1>5, <2>1 DEF Progress, SideStill
<1>7. CASE y = "eof"
  <2>1. ended'[e][c] = TRUE
    BY <1>1, <1>7 DEF Moves
  <2>2. EndOf(o, e, c)'
    BY DEF TaskContext, Ordered
  <2>3. Len(got'[e][c]) = Sent(o, c)'
    BY <2>1, <2>2 DEF EndOf
  <2>4. Sent(o, c)' = Sent(o, c)
    BY FarEnd DEF SenderQuiet
  <2> QED BY <1>3, <1>5, <2>1, <2>3, <2>4 DEF Progress, HearsEnd
<1> QED BY <1>6, <1>7

LEMMA ProgressHands ==
  ASSUME NEW e \in Ends, NEW o \in Ends, NEW c \in Conns, TaskContext(e, o, c), NEW n, Hands(e, c, n)
  PROVE  Progress(e, o, c)
<1>1. TypeOK /\ conn[e][c] \in Connections /\ EndOf(o, e, c)
  <2>1. TypeOK /\ EndOf(o, e, c)
    BY ContextFacts
  <2> QED BY <2>1 DEF TypeOK
<1>2. HandsEffect(e, c, n) /\ n \in 1 .. Len(conn[e][c].receive)
  BY <1>1, HandsFacts DEF Hands, Readable
<1>3. /\ pc[e][c]["reader"] = "armed" /\ pc'[e][c]["reader"] = "idle"
      /\ \A u \in Tasks : u # "reader" => pc'[e][c][u] = pc[e][c][u] /\ packet'[e][c][u] = packet[e][c][u]
      /\ done' = done /\ ended' = ended
      /\ got'[e][c] = got[e][c] \o SubSeq(conn[e][c].receive, 1, n)
  BY <1>2 DEF HandsEffect
<1>4. Sent(e, c)' = Sent(e, c)
  BY <1>3, SentStill, TaskFacts
<1>5. ~ended[e][c]
  BY <1>1, <1>3 DEF EndOf
<1>6. Len(got'[e][c]) > Len(got[e][c])
  <2>1. PICK g \in Seq(Nat), q \in Seq(Nat) : g = got[e][c] /\ q = conn[e][c].receive /\ n \in 1 .. Len(q)
    BY <1>1, <1>2, PlaceTypes
  <2>2. Len(g \o SubSeq(q, 1, n)) = Len(g) + n
    BY <2>1, TakenLengths
  <2>3. Len(g) \in Nat /\ Len(q) \in Nat
    OBVIOUS
  <2>4. n \in Nat /\ n >= 1
    BY <2>1, <2>3
  <2> QED BY <1>3, <2>1, <2>2, <2>3, <2>4
<1> QED BY <1>3, <1>4, <1>5, <1>6 DEF Progress, HandedMore

LEMMA ProgressSends ==
  ASSUME NEW e \in Ends, NEW o \in Ends, NEW c \in Conns, TaskContext(e, o, c), NEW t \in Tasks, Transmit(e, c, t)
  PROVE  Progress(e, o, c)
<1>1. TypeOK /\ TypeOK' /\ TaskInv /\ EndOf(e, o, c) /\ EndOf(o, e, c) /\ WriteOf(e, c) /\ WriteOf(e, c)'
  BY ContextFacts DEF TaskContext
<1>2. TransmitEffect(e, c, t) /\ CarriesItsOwn(e, c, t)
  BY <1>1, TransmitFacts, TransmitsPacket DEF Transmit
<1>3. PICK p : p = packet[e][c][t]
  OBVIOUS
<1>4. /\ p \in Packets /\ pc[e][c][t] = p.op /\ p.op \in Carried
      /\ p.op = "data" => t \in Writers
      /\ t = "reader" => p.op = "creditUpdate"
  BY <1>2, <1>3, TaskFacts DEF CarriesItsOwn
<1>5. /\ pc'[e][c][t] = AfterTransmit(p.op) /\ done' = done /\ ended' = ended
      /\ \A u \in Tasks : u # t => pc'[e][c][u] = pc[e][c][u] /\ packet'[e][c][u] = packet[e][c][u]
      /\ t = "reader" => got'[e][c] = got[e][c] \o drained[e][c]
      /\ t # "reader" => got'[e][c] = got[e][c]
  BY <1>2, <1>3 DEF TransmitEffect
<1>6. CASE p.op = "data"
  <2>1. /\ t \in Writers /\ pc[e][c][t] = "data" /\ pc'[e][c][t] = "sent" /\ packet'[e][c][t] = p
    BY <1>2, <1>3, <1>4, <1>5, <1>6 DEF AfterTransmit, TransmitEffect
  <2>2. got'[e][c] = got[e][c]
    BY <1>5, <2>1, TaskFacts
  <2>3. Holds(e, c, t)
    BY <2>1 DEF Holds
  <2>4. ~ended[o][c]
    BY <1>1, <2>1, <2>3 DEF EndOf, Finished
  <2>5. \A v \in Writers : pc[e][c][v] # "sent"
    BY <1>1, <2>1, <2>3 DEF WriteOf, Holds
  <2>6. Sent(e, c) = done[e][c]
    BY <1>1, <2>5, SentLater DEF SentKnown
  <2>7. Sent(e, c)' = done'[e][c] + Len(p.payload)
    BY <1>1, <2>1, SentLater DEF SentKnown
  <2>8. done[e][c] \in Nat /\ Len(p.payload) \in Nat
    BY <1>1, <1>4, PacketFields DEF TypeOK
  <2>9. PICK x \in Nat, n \in Nat : x = Sent(e, c) /\ x + n = Sent(e, c)'
    BY <1>5, <2>6, <2>7, <2>8
  <2>10. n = 0 \/ x + n > x
    OBVIOUS
  <2> QED BY <1>5, <2>2, <2>4, <2>9, <2>10 DEF Progress, SendsMore, SideStill
<1>7. CASE p.op # "data"
  <2>1. pc[e][c][t] # "sent" /\ pc'[e][c][t] # "sent"
    BY <1>4, <1>5, <1>7 DEF Carried, AfterTransmit
  <2>2. Sent(e, c)' = Sent(e, c)
    BY <1>5, <2>1, SentStill
  <2>3. CASE t # "reader"
    BY <1>5, <2>2, <2>3 DEF Progress, SideStill
  <2>4. CASE t = "reader"
    <3>1. ~ended[e][c]
      BY <1>1, <1>4, <2>4 DEF EndOf
    <3>2. PICK g \in Seq(Nat), b \in Seq(Nat) : g = got[e][c] /\ b = drained[e][c]
      BY <1>1, PlaceTypes
    <3>3. CASE b = <<>>
      <4>1. got'[e][c] = got[e][c]
        BY <1>5, <2>4, <3>2, <3>3
      <4> QED BY <1>5, <2>2, <4>1 DEF Progress, SideStill
    <3>4. CASE b # <<>>
      <4>1. PICK x \in Nat, y \in Nat : x = Len(g) /\ y = Len(b) /\ Len(g \o b) = x + y
        BY ConcatLength
      <4>2. x + y > x
        <5>1. y # 0
          BY <3>4, <4>1
        <5> QED BY <5>1
      <4>3. Len(got'[e][c]) = x + y /\ Len(got[e][c]) = x
        BY <1>5, <2>4, <3>2, <4>1
      <4> QED BY <1>5, <2>2, <3>1, <4>2, <4>3 DEF Progress, HandedMore
    <3> QED BY <3>3, <3>4
  <2> QED BY <2>3, <2>4
<1> QED BY <1>6, <1>7

LEMMA ProgressTask ==
  ASSUME NEW e \in Ends, NEW o \in Ends, NEW c \in Conns, TaskContext(e, o, c), Ordered(c)', TaskStep(e, c)
  PROVE  Progress(e, o, c)
<1>0. TypeOK /\ TaskInv
  BY DEF TaskContext
<1>1. ASSUME NEW t \in Tasks, NEW x, NEW y, Moves(e, c, t, x, y) PROVE Progress(e, o, c)
  BY <1>1, ProgressMoves
<1>2. ASSUME NEW w \in Writers, NEW n, Writes(e, c, w, n) PROVE SideStill(e, c)
  <2>1. DataPacket(e, c, n).op = "data"
    BY DEF DataPacket, Header
  <2> QED BY <1>2, <2>1, StillDecision, TaskFacts DEF Writes
<1>3. ASSUME NEW w \in Writers, Asks(e, c, w) PROVE SideStill(e, c)
  <2>1. Header("creditRequest", c, conn[e][c]).op = "creditRequest"
    BY DEF Header
  <2> QED BY <1>3, <2>1, StillDecision, TaskFacts DEF Asks
<1>4. ASSUME NEW w \in Writers, FinishWrite(e, c, w) PROVE SideStill(e, c)
  <2>1. FinishEffect(e, c, w) /\ Sent(e, c)' = Sent(e, c)
    BY <1>0, <1>4, FinishFacts, FinishSent
  <2> QED BY <2>1 DEF FinishEffect, SideStill
<1>5. ASSUME NEW n, Updates(e, c, n) PROVE SideStill(e, c)
  <2>1. Header("creditUpdate", c, Reading(conn[e][c], n)).op = "creditUpdate"
    BY DEF Header
  <2> QED BY <1>5, <2>1, StillDecision, TaskFacts DEF Updates
<1>6. ASSUME NEW n, Hands(e, c, n) PROVE Progress(e, o, c)
  BY <1>6, ProgressHands
<1>7. ASSUME NEW x, Abandons(e, c, x) PROVE SideStill(e, c)
  <2>1. Header("reset", c, conn[e][c]).op = "reset"
    BY DEF Header
  <2> QED BY <1>7, <2>1, StillDecision, TaskFacts DEF Abandons
<1>8. ASSUME NEW x, Frees(e, c, x) PROVE SideStill(e, c)
  <2>1. FreesEffect(e, c, x) /\ x \in {"open", "armed", "parked"}
    BY <1>0, <1>8, FreesFacts DEF Frees
  <2>2. /\ pc[e][c]["control"] = x /\ pc'[e][c]["control"] = "gone" /\ done' = done /\ got' = got /\ ended' = ended
        /\ \A u \in Tasks : u # "control" => pc'[e][c][u] = pc[e][c][u] /\ packet'[e][c][u] = packet[e][c][u]
    BY <2>1 DEF FreesEffect
  <2> QED BY <2>1, <2>2, StillTask, TaskFacts
<1>9. ASSUME NEW dirs, Shuts(e, c, dirs) PROVE SideStill(e, c)
  <2>1. ShutEffect(e, c, dirs)
    BY <1>0, <1>9, ShutsFacts
  <2> QED BY <2>1, StillTask, TaskFacts DEF ShutEffect
<1>10. ASSUME NEW t \in Tasks, Transmit(e, c, t) PROVE Progress(e, o, c)
  BY <1>10, ProgressSends
<1>11. ASSUME NEW t \in Tasks, TransmitFails(e, c, t) PROVE SideStill(e, c)
  <2>1. FailureEffect(e, c, t) /\ CarriesItsOwn(e, c, t)
    BY <1>0, <1>11, TransmitFailsFacts, TransmitsPacket DEF TransmitFails
  <2>2. /\ pc[e][c][t] \in Carried /\ pc'[e][c][t] \in {"open", "gone"} /\ done' = done /\ got' = got /\ ended' = ended
        /\ \A u \in Tasks : u # t => pc'[e][c][u] = pc[e][c][u] /\ packet'[e][c][u] = packet[e][c][u]
    BY <2>1 DEF FailureEffect, CarriesItsOwn
  <2>3. pc[e][c][t] # "sent" /\ pc'[e][c][t] # "sent"
    BY <2>2 DEF Carried
  <2> QED BY <2>2, <2>3, StillTask
<1> QED BY <1>1, <1>2, <1>3, <1>4, <1>5, <1>6, <1>7, <1>8, <1>9, <1>10, <1>11 DEF TaskStep, Progress

\* The steps that are not a task's.
LEMMA SteadyLine ==
  ASSUME TypeOK, TypeOK', NEW c \in Conns, StreamOf(c), StreamOf(c)',
         \A z \in Ends : /\ done'[z][c] = done[z][c] /\ got'[z][c] = got[z][c] /\ ended'[z][c] = ended[z][c]
                         /\ \A w \in Writers : pc'[z][c][w] = pc[z][c][w] /\ packet'[z][c][w] = packet[z][c][w]
  PROVE  Steady(c)
<1>1. ASSUME NEW z \in Ends PROVE SideStill(z, c)
  <2>1. WriteOf(z, c) /\ WriteOf(z, c)'
    BY DEF StreamOf
  <2>2. Sent(z, c)' = Sent(z, c)
    BY <2>1, SentSame
  <2> QED BY <2>2 DEF SideStill
<1> QED BY <1>1 DEF Steady

LEMMA SteadyUntouched ==
  ASSUME TypeOK, TypeOK', NEW c \in Conns, StreamOf(c), StreamOf(c)', Untouched(c)
  PROVE  Steady(c)
<1>1. \A z \in Ends : SideKept(z, c)
  BY DEF Untouched
<1> QED BY <1>1, SteadyLine, TaskFacts DEF SideKept

LEMMA SteadyElsewhere ==
  ASSUME TypeOK, TypeOK', NEW c \in Conns, StreamOf(c), StreamOf(c)', NEW e \in Ends,
         \/ CloseListener \/ TransportReset(e) \/ Accepts(c) \/ Connects(c) \/ ReplyStep(e, c)
         \/ \E p \in Packets : \E k, r : PacketStep(e, c, p, k, r)
  PROVE  Steady(c)
<1>1. CASE CloseListener
  <2>1. UNCHANGED <<pc, packet, done, got, ended>>
    BY <1>1 DEF CloseListener, taskVars, resultVars
  <2> QED BY <2>1, SteadyLine
<1>2. CASE TransportReset(e)
  <2>1. TransportEffect(e)
    BY <1>2, TransportFacts
  <2>2. UNCHANGED <<pc, packet, done, got, ended>>
    BY <2>1 DEF TransportEffect
  <2> QED BY <2>2, SteadyLine
<1>3. CASE Accepts(c)
  <2>1. AcceptsEffect(c)
    BY <1>3, AcceptsFacts
  <2>2. /\ \A z \in Ends, u \in Tasks : u # "control" => pc'[z][c][u] = pc[z][c][u]
        /\ UNCHANGED <<packet, done, got, ended>>
    BY <2>1 DEF AcceptsEffect
  <2> QED BY <2>2, SteadyLine, TaskFacts
<1>4. CASE Connects(c)
  <2>1. Decision("a", c, "control", "idle", Header("request", c, Free), Opened("connecting"))
    BY <1>4 DEF Connects
  <2>2. Header("request", c, Free).op \in Carried
    BY DEF Header, Carried
  <2>3. DecisionEffect("a", c, "control", "idle", Header("request", c, Free), Opened("connecting"))
    BY <2>1, <2>2, DecisionFacts, DecisionKinds, EndsFacts, TaskFacts
  <2>4. /\ \A z \in Ends, u \in Tasks : u # "control" => pc'[z][c][u] = pc[z][c][u] /\ packet'[z][c][u] = packet[z][c][u]
        /\ UNCHANGED <<done, got, ended>>
    BY <2>3 DEF DecisionEffect
  <2> QED BY <2>4, SteadyLine, TaskFacts
<1>5. CASE ReplyStep(e, c)
  <2>1. ReplyEffect(e)
    BY <1>5, ReplyFacts DEF ReplyStep
  <2>2. UNCHANGED <<pc, packet, done, got, ended>>
    BY <2>1 DEF ReplyEffect
  <2> QED BY <2>2, SteadyLine
<1>6. ASSUME NEW p \in Packets, NEW k, NEW r, PacketStep(e, c, p, k, r) PROVE Steady(c)
  <2>1. TakesEffect(e, p, k, r)
    BY <1>6, TakesFacts DEF PacketStep
  <2>2. UNCHANGED <<pc, packet, done, got, ended>>
    BY <2>1 DEF TakesEffect
  <2> QED BY <2>2, SteadyLine
<1> QED BY <1>1, <1>2, <1>3, <1>4, <1>5, <1>6

\* One end moves on at one connection, or none does.
LEMMA StepShape ==
  ASSUME ByteInv, ByteInv', [Next]_vars
  PROVE  \/ \A c \in Conns : Steady(c)
         \/ \E e, o \in Ends, c \in Conns :
              /\ o = Other(e) /\ Progress(e, o, c) /\ SideStill(o, c)
              /\ \A d \in Conns : d # c => Steady(d)
<1>1. TypeOK /\ TaskInv /\ BirthInv /\ \A c \in Conns : ByteOf(c) /\ StreamOf(c)
  BY ByteParts DEF ByteInv, ByteOf
<1>2. TypeOK' /\ \A c \in Conns : Ordered(c)' /\ StreamOf(c)'
  BY DEF ByteInv, ByteOf, Ordered
<1>3. Step
  BY <1>1, NextIsStep
<1>4. ASSUME NEW d \in Conns, Untouched(d) PROVE Steady(d)
  BY <1>1, <1>2, <1>4, SteadyUntouched
<1>5. CASE CloseListener \/ \E e \in Ends : TransportReset(e)
  <2>1. \A c \in Conns : Steady(c)
    BY <1>1, <1>2, <1>5, SteadyElsewhere, EndsFacts
  <2> QED BY <2>1
<1>6. CASE \A d \in Conns : Untouched(d)
  BY <1>4, <1>6
<1>7. ASSUME NEW c \in Conns, ConnStep(c), \A d \in Conns : d # c => Untouched(d)
      PROVE  \/ \A d \in Conns : Steady(d)
             \/ \E e, o \in Ends :
                  /\ o = Other(e) /\ Progress(e, o, c) /\ SideStill(o, c)
                  /\ \A d \in Conns : d # c => Steady(d)
  <2>1. \A d \in Conns : d # c => Steady(d)
    BY <1>4, <1>7
  <2>2. ASSUME NEW e \in Ends, TaskStep(e, c)
        PROVE  \E o \in Ends : o = Other(e) /\ Progress(e, o, c) /\ SideStill(o, c)
    <3>1. PICK o \in Ends : o = Other(e) /\ TaskContext(e, o, c)
      BY <1>1, <1>2, <2>2, TaskInContext, EndsFacts
    <3>2. Progress(e, o, c)
      BY <1>2, <2>2, <3>1, ProgressTask
    <3>3. Sent(o, c)' = Sent(o, c) /\ SideKept(o, c)
      BY <3>1, FarEnd, ContextFacts DEF SenderQuiet
    <3>4. SideStill(o, c)
      BY <3>3 DEF SideStill, SideKept
    <3> QED BY <3>1, <3>2, <3>4
  <2>3. CASE \E e \in Ends : TaskStep(e, c)
    BY <2>1, <2>2, <2>3
  <2>4. CASE ~\E e \in Ends : TaskStep(e, c)
    <3>1. Steady(c)
      BY <1>1, <1>2, <1>7, <2>4, SteadyElsewhere, EndsFacts DEF ConnStep
    <3> QED BY <2>1, <3>1
  <2> QED BY <2>3, <2>4
<1> QED BY <1>1, <1>3, <1>5, <1>6, <1>7, Focus

-----------------------------------------------------------------------------
(* The streams                                                             *)

SentOf == [s \in Ends \X Conns |-> Sent(s[1], s[2])]
GotOf == [s \in Ends \X Conns |-> got[Other(s[1])][s[2]]]
EndedOf == [s \in Ends \X Conns |-> ended[Other(s[1])][s[2]]]

LEMMA StreamStep ==
  /\ \A s : Stream!Send(s) <=> /\ ~EndedOf[s] /\ SentOf'[s] > SentOf[s]
                               /\ SentOf' = [SentOf EXCEPT ![s] = SentOf'[s]]
                               /\ UNCHANGED <<GotOf, EndedOf>>
  /\ \A s : Stream!Deliver(s) <=> /\ ~EndedOf[s]
                                  /\ \E upto \in Len(GotOf[s]) + 1 .. SentOf[s] :
                                       GotOf' = [GotOf EXCEPT ![s] = [i \in 1 .. upto |-> i]]
                                  /\ UNCHANGED <<SentOf, EndedOf>>
  /\ \A s : Stream!End(s) <=> /\ Len(GotOf[s]) = SentOf[s] /\ EndedOf' = [EndedOf EXCEPT ![s] = TRUE]
                              /\ UNCHANGED <<SentOf, GotOf>>
  BY DEF Stream!Send, Stream!Deliver, Stream!End, SentOf, GotOf, EndedOf

\* Two families that differ at most at one stream.
AgreeBut(f, g, e, c) ==
  /\ f = [s \in Ends \X Conns |-> f[s]] /\ g = [s \in Ends \X Conns |-> g[s]]
  /\ \A z \in Ends, d \in Conns : z # e \/ d # c => g[<<z, d>>] = f[<<z, d>>]
MovesAt(f, g, e, c) == g = [f EXCEPT ![<<e, c>>] = g[<<e, c>>]] /\ (g[<<e, c>>] = f[<<e, c>>] => g = f)

LEMMA OneStream ==
  ASSUME NEW f, NEW g, NEW e \in Ends, NEW c \in Conns, AgreeBut(f, g, e, c)
  PROVE  MovesAt(f, g, e, c)
<1>0. /\ f = [s \in Ends \X Conns |-> f[s]] /\ g = [s \in Ends \X Conns |-> g[s]]
      /\ \A z \in Ends, d \in Conns : z # e \/ d # c => g[<<z, d>>] = f[<<z, d>>]
  BY DEF AgreeBut
<1>1. ASSUME NEW s \in Ends \X Conns, s # <<e, c>> PROVE g[s] = f[s]
  <2>1. PICK z \in Ends, d \in Conns : s = <<z, d>>
    OBVIOUS
  <2> QED BY <1>0, <1>1, <2>1
<1>2. <<e, c>> \in Ends \X Conns
  OBVIOUS
<1> QED BY <1>0, <1>1, <1>2 DEF MovesAt

LEMMA Entries ==
  ASSUME NEW e \in Ends, NEW o \in Ends, NEW c \in Conns, o = Other(e)
  PROVE  /\ SentOf[<<e, c>>] = Sent(e, c) /\ SentOf'[<<e, c>>] = Sent(e, c)'
         /\ GotOf[<<e, c>>] = got[o][c] /\ GotOf'[<<e, c>>] = got'[o][c]
         /\ EndedOf[<<e, c>>] = ended[o][c] /\ EndedOf'[<<e, c>>] = ended'[o][c]
  BY DEF SentOf, GotOf, EndedOf

LEMMA Families ==
  /\ SentOf = [s \in Ends \X Conns |-> SentOf[s]] /\ SentOf' = [s \in Ends \X Conns |-> SentOf'[s]]
  /\ GotOf = [s \in Ends \X Conns |-> GotOf[s]] /\ GotOf' = [s \in Ends \X Conns |-> GotOf'[s]]
  /\ EndedOf = [s \in Ends \X Conns |-> EndedOf[s]] /\ EndedOf' = [s \in Ends \X Conns |-> EndedOf'[s]]
  BY DEF SentOf, GotOf, EndedOf

\* What the reader was handed is the beginning of what was sent.
Handed(e, c) ==
  ByteInv => /\ got[e][c] = [i \in 1 .. Len(got[e][c]) |-> i]
             /\ Len(got[e][c]) \in Nat /\ Sent(Other(e), c) \in Nat /\ Len(got[e][c]) <= Sent(Other(e), c)

LEMMA HandedAlways ==
  ASSUME NEW e \in Ends, NEW c \in Conns
  PROVE  Handed(e, c)
<1> SUFFICES ASSUME ByteInv
             PROVE  /\ got[e][c] = [i \in 1 .. Len(got[e][c]) |-> i]
                    /\ Len(got[e][c]) \in Nat /\ Sent(Other(e), c) \in Nat /\ Len(got[e][c]) <= Sent(Other(e), c)
  BY DEF Handed
<1>1. TypeOK /\ PlaceOf(e, c) /\ StreamOf(c)
  BY DEF ByteInv, ByteOf
<1>2. PICK g \in Seq(Nat), b \in Seq(Nat), q \in Seq(Nat) :
        g = got[e][c] /\ b = drained[e][c] /\ q = conn[e][c].receive
  BY <1>1, PlaceTypes
<1>3. \A i \in 1 .. Len(g) : g[i] = 0 + i
  BY <1>1, <1>2 DEF PlaceOf, Counts
<1>4. g = [i \in 1 .. Len(g) |-> i]
  BY <1>3
<1>5. PICK x \in Nat, y \in Nat, h \in Nat : x = Len(g) /\ y = Len(b) /\ h = Len(q)
  OBVIOUS
<1>6. Arrived(e, c) = (x + y) + h
  BY <1>2, <1>5 DEF Arrived, Taken
<1>7. PICK o \in Ends : o = Other(e)
  BY EndsFacts
<1>8. WriteOf(o, c) /\ ReadOf(e, c)
  BY <1>1 DEF StreamOf
<1>9. PICK n \in Nat : n = Sent(o, c)
  BY <1>1, <1>8, SentAlways DEF SentKnown
<1>10. (x + y) + h <= n
  BY <1>6, <1>7, <1>8, <1>9 DEF ReadOf
<1>11. x <= n
  BY <1>10
<1> QED BY <1>2, <1>4, <1>5, <1>7, <1>9, <1>11

LEMMA HandedLater ==
  ASSUME NEW e \in Ends, NEW c \in Conns
  PROVE  Handed(e, c) /\ Handed(e, c)'
<1>1. Handed(e, c)
  BY HandedAlways
<1> QED BY <1>1, PTL

LEMMA AllSteady ==
  ASSUME \A c \in Conns : Steady(c)
  PROVE  SentOf' = SentOf /\ GotOf' = GotOf /\ EndedOf' = EndedOf
<1>1. ASSUME NEW s \in Ends \X Conns PROVE SentOf'[s] = SentOf[s] /\ GotOf'[s] = GotOf[s] /\ EndedOf'[s] = EndedOf[s]
  <2>1. PICK e \in Ends, c \in Conns : s = <<e, c>>
    OBVIOUS
  <2>2. PICK o \in Ends : o = Other(e)
    BY EndsFacts
  <2>3. SideStill(e, c) /\ SideStill(o, c)
    BY DEF Steady
  <2>4. SentOf'[<<e, c>>] = SentOf[<<e, c>>]
    BY <2>2, <2>3, Entries DEF SideStill
  <2>5. GotOf'[<<e, c>>] = GotOf[<<e, c>>] /\ EndedOf'[<<e, c>>] = EndedOf[<<e, c>>]
    BY <2>2, <2>3, Entries DEF SideStill
  <2> QED BY <2>1, <2>4, <2>5
<1> QED BY <1>1, Families

LEMMA StepsAreStreamSteps ==
  ASSUME ByteInv, ByteInv', [Next]_vars
  PROVE  Stream!Next \/ UNCHANGED <<SentOf, GotOf, EndedOf>>
<1>1. CASE \A c \in Conns : Steady(c)
  BY <1>1, AllSteady
<1>2. ASSUME NEW e \in Ends, NEW o \in Ends, NEW c \in Conns,
             o = Other(e), Progress(e, o, c), SideStill(o, c), \A d \in Conns : d # c => Steady(d)
      PROVE  Stream!Next \/ UNCHANGED <<SentOf, GotOf, EndedOf>>
  <2>1. e = Other(o) /\ e # o /\ \A z \in Ends : z = e \/ z = o
    BY <1>2, EndsFacts
  <2>2. \A z \in Ends, d \in Conns : z # e \/ d # c => SideStill(z, d)
    BY <1>2, <2>1 DEF Steady
  <2>3. \A z \in Ends, d \in Conns : z # e \/ d # c => SentOf'[<<z, d>>] = SentOf[<<z, d>>]
    BY <2>2, Entries, EndsFacts DEF SideStill
  <2>4. ASSUME NEW z \in Ends, NEW d \in Conns, z # o \/ d # c
        PROVE  GotOf'[<<z, d>>] = GotOf[<<z, d>>] /\ EndedOf'[<<z, d>>] = EndedOf[<<z, d>>]
    <3>1. PICK y \in Ends : y = Other(z)
      BY EndsFacts
    <3>2. y # e \/ d # c
      BY <1>2, <2>1, <2>4, <3>1
    <3> QED BY <2>2, <3>1, <3>2, Entries DEF SideStill
  <2>5. /\ SentOf' = [SentOf EXCEPT ![<<e, c>>] = SentOf'[<<e, c>>]]
        /\ SentOf'[<<e, c>>] = SentOf[<<e, c>>] => SentOf' = SentOf
    <3>1. PICK f, g : f = SentOf /\ g = SentOf'
      OBVIOUS
    <3>2. AgreeBut(f, g, e, c)
      BY <2>3, <3>1, Families DEF AgreeBut
    <3>3. MovesAt(f, g, e, c)
      BY <3>2, OneStream
    <3> QED BY <3>1, <3>3 DEF MovesAt
  <2>6. /\ GotOf' = [GotOf EXCEPT ![<<o, c>>] = GotOf'[<<o, c>>]]
        /\ GotOf'[<<o, c>>] = GotOf[<<o, c>>] => GotOf' = GotOf
    <3>1. PICK f, g : f = GotOf /\ g = GotOf'
      OBVIOUS
    <3>2. AgreeBut(f, g, o, c)
      BY <2>4, <3>1, Families DEF AgreeBut
    <3>3. MovesAt(f, g, o, c)
      BY <3>2, OneStream
    <3> QED BY <3>1, <3>3 DEF MovesAt
  <2>7. /\ EndedOf' = [EndedOf EXCEPT ![<<o, c>>] = EndedOf'[<<o, c>>]]
        /\ EndedOf'[<<o, c>>] = EndedOf[<<o, c>>] => EndedOf' = EndedOf
    <3>1. PICK f, g : f = EndedOf /\ g = EndedOf'
      OBVIOUS
    <3>2. AgreeBut(f, g, o, c)
      BY <2>4, <3>1, Families DEF AgreeBut
    <3>3. MovesAt(f, g, o, c)
      BY <3>2, OneStream
    <3> QED BY <3>1, <3>3 DEF MovesAt
  <2>8. /\ SentOf[<<e, c>>] = Sent(e, c) /\ SentOf'[<<e, c>>] = Sent(e, c)' /\ EndedOf[<<e, c>>] = ended[o][c]
        /\ SentOf[<<o, c>>] = Sent(o, c)
        /\ GotOf[<<o, c>>] = got[e][c] /\ GotOf'[<<o, c>>] = got'[e][c]
        /\ EndedOf[<<o, c>>] = ended[e][c] /\ EndedOf'[<<o, c>>] = ended'[e][c]
    BY <1>2, <2>1, Entries
  <2>9. <<e, c>> \in Ends \X Conns /\ <<o, c>> \in Ends \X Conns
    OBVIOUS
  <2>10. CASE SideStill(e, c)
    BY <2>5, <2>6, <2>7, <2>8, <2>10 DEF SideStill
  <2>11. CASE SendsMore(e, o, c)
    <3>1. /\ ~EndedOf[<<e, c>>] /\ SentOf'[<<e, c>>] > SentOf[<<e, c>>]
          /\ GotOf' = GotOf /\ EndedOf' = EndedOf
      BY <2>6, <2>7, <2>8, <2>11 DEF SendsMore
    <3>2. Stream!Send(<<e, c>>)
      BY <2>5, <3>1, StreamStep
    <3> QED BY <2>9, <3>2 DEF Stream!Next
  <2>12. CASE HandedMore(e, c)
    <3>1. ~EndedOf[<<o, c>>] /\ SentOf' = SentOf /\ EndedOf' = EndedOf
      BY <2>5, <2>7, <2>8, <2>12 DEF HandedMore
    <3>2. Len(got[e][c]) \in Nat
      BY HandedLater DEF Handed
    <3>3. PICK n \in Nat : n = Len(got'[e][c]) /\ got'[e][c] = [i \in 1 .. n |-> i] /\ Sent(o, c)' \in Nat /\ n <= Sent(o, c)'
      BY <1>2, HandedLater DEF Handed
    <3>4. n \in Len(GotOf[<<o, c>>]) + 1 .. SentOf[<<o, c>>]
      <4>1. PICK x \in Nat, m \in Nat : x = Len(got[e][c]) /\ m = Sent(o, c) /\ n > x /\ n <= m
        BY <1>2, <2>12, <3>2, <3>3 DEF HandedMore, SideStill
      <4>2. n \in x + 1 .. m
        BY <4>1
      <4> QED BY <2>8, <4>1, <4>2
    <3>5. GotOf' = [GotOf EXCEPT ![<<o, c>>] = [i \in 1 .. n |-> i]]
      BY <2>6, <2>8, <3>3
    <3>6. Stream!Deliver(<<o, c>>)
      BY <3>1, <3>4, <3>5, StreamStep
    <3> QED BY <2>9, <3>6 DEF Stream!Next
  <2>13. CASE HearsEnd(e, o, c)
    <3>1. Len(GotOf[<<o, c>>]) = SentOf[<<o, c>>] /\ SentOf' = SentOf /\ GotOf' = GotOf
      BY <2>5, <2>6, <2>8, <2>13 DEF HearsEnd
    <3>2. EndedOf' = [EndedOf EXCEPT ![<<o, c>>] = TRUE]
      BY <2>7, <2>8, <2>13 DEF HearsEnd
    <3>3. Stream!End(<<o, c>>)
      BY <3>1, <3>2, StreamStep
    <3> QED BY <2>9, <3>3 DEF Stream!Next
  <2> QED BY <1>2, <2>10, <2>11, <2>12, <2>13 DEF Progress
<1> QED BY <1>1, <1>2, StepShape

LEMMA StreamsStart ==
  ASSUME Init
  PROVE  Stream!Init
<1>1. ASSUME NEW s \in Ends \X Conns
      PROVE  Sent(s[1], s[2]) = 0 /\ got[Other(s[1])][s[2]] = <<>> /\ ended[Other(s[1])][s[2]] = FALSE
  <2>1. PICK e \in Ends, c \in Conns : s = <<e, c>> /\ s[1] = e /\ s[2] = c
    OBVIOUS
  <2>2. \A w \in Writers : pc[e][c][w] # "sent"
    BY TaskFacts DEF Init
  <2>3. done[e][c] = 0
    BY DEF Init
  <2>4. Sent(e, c) = 0
    BY <2>2, <2>3 DEF Sent
  <2>5. got[Other(e)][c] = <<>> /\ ended[Other(e)][c] = FALSE
    BY EndsFacts DEF Init
  <2> QED BY <2>1, <2>4, <2>5
<1> QED BY <1>1 DEF Stream!Init

\* Each direction of each connection is a byte stream, for any number of
\* connections and any plan in which no stream is as long as the 32-bit counters
\* count, no program shuts a stream down under its own write, and none that shuts
\* one down meets a fault: read of the service (vsock/mod.rs) hands over what the
\* other end's write was given, each byte once and in order, and returns no bytes
\* only after all of them, whatever the order in which packets, readers, writers,
\* shutdowns and closes take effect.
THEOREM StreamsAreByteStreams == ASSUME Short, Orderly PROVE Spec => IsByteStream
<1>1. Init => ByteInv
  BY ByteStart
<1>2. ByteInv /\ [Next]_vars => ByteInv'
  BY ByteNext
<1>3. Init => Stream!Init
  BY StreamsStart
<1>4. ByteInv /\ ByteInv' /\ [Next]_vars => [Stream!Next]_(Stream!streamVars)
  <2> SUFFICES ASSUME ByteInv, ByteInv', [Next]_vars PROVE Stream!Next \/ UNCHANGED Stream!streamVars
    OBVIOUS
  <2>1. Stream!Next \/ UNCHANGED <<SentOf, GotOf, EndedOf>>
    BY StepsAreStreamSteps
  <2> QED BY <2>1 DEF Stream!streamVars, SentOf, GotOf, EndedOf
<1> QED BY <1>1, <1>2, <1>3, <1>4, PTL DEF Spec, IsByteStream, Stream!Spec

-----------------------------------------------------------------------------
(* Who waits                                                               *)

Marks == [Ends -> [Conns -> [Tasks -> BOOLEAN]]]

\* The steps of a call other than those that begin, end or interrupt a connection.
Runs(e, c, t) ==
  \/ t \in Writers /\ StartWrite(e, c, t)
  \/ Continue(e, c, t) \/ TransmitFails(e, c, t) \/ Expire(e, c, t)

\* Nothing was taken from the wire to end e.
Grows(e) == wire'[e] = wire[e] \/ \E p \in Packets : wire'[e] = Append(wire[e], p)

\* A step is one of a task, which goes on to y and may take a new mark; or one
\* of a pump, which signals or is left with a reply; or of neither.
TaskTurn(e, c, t, y) ==
  /\ pc' = [pc EXCEPT ![e][c][t] = y]
  /\ seen' = seen \/ (seen' = [seen EXCEPT ![e][c][t] = FALSE] /\ y \in {"armed", "idle"})
  /\ pump' = pump
  /\ \A z \in Ends : Grows(z)
  /\ t \in Writers => Runs(e, c, t)
  /\ pc[e][c][t] = "request" => Transmit(e, c, t) \/ TransmitFails(e, c, t)
  /\ t = "control" /\ y = "parked" => e = "a" /\ ConnectProgress(c)
PumpTurn(e) ==
  /\ pc' = pc
  /\ \/ Signals(e)
     \/ \E r : r # NoPacket /\ pump' = [pump EXCEPT ![e] = r] /\ seen' = seen
  /\ Grows(Other(e))
NoTurn == UNCHANGED <<pc, seen, pump, wire>>

\* The turns, action by action.
LEMMA TransmitTurn ==
  ASSUME TypeOK, TaskInv, NEW e \in Ends, NEW c \in Conns, NEW t \in Tasks, Transmit(e, c, t) \/ TransmitFails(e, c, t)
  PROVE  \E y : TaskTurn(e, c, t, y)
<1>1. CarriesItsOwn(e, c, t)
  BY TransmitsPacket DEF Transmit, TransmitFails
<1>2. CASE Transmit(e, c, t)
  <2>1. PICK y : y = AfterTransmit(packet[e][c][t].op)
    OBVIOUS
  <2>2. t = "control" => y # "parked"
    BY <1>1, <2>1, TaskFacts DEF CarriesItsOwn, AfterTransmit
  <2>3. pc' = [pc EXCEPT ![e][c][t] = y] /\ seen' = seen /\ pump' = pump
    BY <1>2, <2>1 DEF Transmit, Goes
  <2>4. \A z \in Ends : Grows(z)
    <3>1. wire'[Other(e)] = Append(wire[Other(e)], packet[e][c][t]) /\ wire'[e] = wire[e]
      <4>1. TransmitEffect(e, c, t)
        BY <1>2, TransmitFacts
      <4> QED BY <4>1 DEF TransmitEffect
    <3>2. packet[e][c][t] \in Packets
      BY <1>1 DEF CarriesItsOwn
    <3>3. Grows(e) /\ Grows(Other(e))
      BY <3>1, <3>2 DEF Grows
    <3>4. \A z \in Ends : z = e \/ z = Other(e)
      BY EndsFacts
    <3> QED BY <3>3, <3>4
  <2>5. Runs(e, c, t)
    BY <1>2 DEF Runs, Continue
  <2>6. TaskTurn(e, c, t, y)
    BY <1>2, <2>2, <2>3, <2>4, <2>5 DEF TaskTurn
  <2> QED BY <2>6
<1>3. CASE TransmitFails(e, c, t)
  <2>1. PICK y : y = IF packet[e][c][t].op = "shutdown" THEN "open" ELSE "gone"
    OBVIOUS
  <2>3. pc' = [pc EXCEPT ![e][c][t] = y] /\ seen' = seen /\ pump' = pump /\ wire' = wire
    BY <1>3, <2>1 DEF TransmitFails, Goes
  <2>5. Runs(e, c, t)
    BY <1>3 DEF Runs
  <2>6. TaskTurn(e, c, t, y)
    BY <1>3, <2>1, <2>3, <2>5 DEF TaskTurn, Grows
  <2> QED BY <2>6
<1> QED BY <1>2, <1>3

LEMMA MoveTurn ==
  ASSUME TypeOK, NEW e \in Ends, NEW c \in Conns, NEW t \in Tasks
  PROVE  /\ Wake(e, c, t) => \E y : TaskTurn(e, c, t, y)
         /\ t \in Writers /\ StartWrite(e, c, t) => \E y : TaskTurn(e, c, t, y)
         /\ t = "reader" /\ StartRead(e, c) => \E y : TaskTurn(e, c, t, y)
         /\ Expire(e, c, t) => \E y : TaskTurn(e, c, t, y)
         /\ t = "control" /\ e = "a" /\ ArmConnect(c) => \E y : TaskTurn(e, c, t, y)
<1>1. Wake(e, c, t) => TaskTurn(e, c, t, "armed")
  BY DEF Wake, Arms, Goes, Grows, TaskTurn, Runs, Continue
<1>2. t \in Writers /\ StartWrite(e, c, t) => TaskTurn(e, c, t, "armed")
  BY DEF StartWrite, Arms, Goes, Grows, TaskTurn, Runs
<1>3. t = "reader" /\ StartRead(e, c) => TaskTurn(e, c, t, "armed")
  BY TaskFacts DEF StartRead, Arms, Goes, Grows, TaskTurn
<1>4. Expire(e, c, t) => TaskTurn(e, c, t, "idle")
  BY DEF Expire, Goes, Grows, TaskTurn, Runs
<1>5. t = "control" /\ e = "a" /\ ArmConnect(c) => TaskTurn(e, c, t, "armed")
  BY TaskFacts DEF ArmConnect, Arms, Goes, Grows, TaskTurn
<1> QED BY <1>1, <1>2, <1>3, <1>4, <1>5

LEMMA WriteTurn ==
  ASSUME TypeOK, NEW e \in Ends, NEW c \in Conns, NEW w \in Writers,
         BeginWrite(e, c, w) \/ CreditRequest(e, c, w) \/ FinishWrite(e, c, w)
  PROVE  \E y : TaskTurn(e, c, w, y)
<1>0. Runs(e, c, w) /\ w # "control"
  BY TaskFacts DEF Runs, Continue
<1>1. CASE BeginWrite(e, c, w)
  <2>1. seen' = seen /\ pump' = pump /\ wire' = wire
    BY <1>1 DEF BeginWrite
  <2>2. pc[e][c][w] = "armed" /\ \E y : pc' = [pc EXCEPT ![e][c][w] = y]
    BY <1>1 DEF BeginWrite, Goes, Decides
  <2> QED BY <1>0, <2>1, <2>2 DEF TaskTurn, Grows
<1>2. CASE CreditRequest(e, c, w)
  <2>1. seen' = seen /\ pump' = pump /\ wire' = wire
    BY <1>2 DEF CreditRequest
  <2>2. pc[e][c][w] = "blocked" /\ \E y : pc' = [pc EXCEPT ![e][c][w] = y]
    BY <1>2 DEF CreditRequest, Goes, Decides
  <2> QED BY <1>0, <2>1, <2>2 DEF TaskTurn, Grows
<1>3. CASE FinishWrite(e, c, w)
  <2>1. seen' = [seen EXCEPT ![e][c][w] = FALSE] /\ pump' = pump /\ wire' = wire
    BY <1>3 DEF FinishWrite
  <2>2. PICK y \in {"armed", "idle"} : pc' = [pc EXCEPT ![e][c][w] = y]
    BY <1>3 DEF FinishWrite
  <2>3. pc[e][c][w] = "sent"
    BY <1>3 DEF FinishWrite
  <2> QED BY <1>0, <2>1, <2>2, <2>3 DEF TaskTurn, Grows
<1> QED BY <1>1, <1>2, <1>3

LEMMA ReadTurn ==
  ASSUME TypeOK, NEW e \in Ends, NEW c \in Conns, Read(e, c)
  PROVE  \E y : TaskTurn(e, c, "reader", y)
<1>1. seen' = seen /\ pump' = pump /\ wire' = wire
  BY DEF Read
<1>2. pc[e][c]["reader"] = "armed" /\ \E y : pc' = [pc EXCEPT ![e][c]["reader"] = y]
  BY DEF Read, Drain, Goes, Decides
<1> QED BY <1>1, <1>2, TaskFacts DEF TaskTurn, Grows

LEMMA ControlTurn ==
  ASSUME TypeOK, NEW e \in Ends, NEW c \in Conns
  PROVE  /\ ConnectProgress(c) => \E y : TaskTurn("a", c, "control", y)
         /\ ConnectExpires(c) => \E y : TaskTurn("a", c, "control", y)
         /\ Close(e, c) => \E y : TaskTurn(e, c, "control", y)
         /\ Connect(c) => \E y : TaskTurn("a", c, "control", y)
         /\ \A dirs \in SUBSET Directions : Shutdown(e, c, dirs) => \E y : TaskTurn(e, c, "control", y)
<1>0. "control" \notin Writers
  BY TaskFacts
<1>1. ConnectProgress(c) => \E y : TaskTurn("a", c, "control", y)
  <2> SUFFICES ASSUME ConnectProgress(c) PROVE \E y : TaskTurn("a", c, "control", y)
    OBVIOUS
  <2>1. seen' = seen /\ pump' = pump /\ wire' = wire
    BY DEF ConnectProgress
  <2>2. pc["a"][c]["control"] = "armed" /\ \E y : pc' = [pc EXCEPT !["a"][c]["control"] = y]
    BY DEF ConnectProgress, Goes
  <2> QED BY <1>0, <2>1, <2>2 DEF TaskTurn, Grows
<1>2. ASSUME NEW z \in Ends, NEW here \in {"parked", "open"}, Closes(z, c, here) PROVE \E y : TaskTurn(z, c, "control", y)
  <2>1. seen' = seen /\ pump' = pump /\ wire' = wire
    BY <1>2 DEF Closes
  <2>2. pc[z][c]["control"] = here /\ \E y : y # "parked" /\ pc' = [pc EXCEPT ![z][c]["control"] = y]
    BY <1>2 DEF Closes, Goes, Decides, Header
  <2> QED BY <1>0, <2>1, <2>2 DEF TaskTurn, Grows
<1>3. Connect(c) => \E y : TaskTurn("a", c, "control", y)
  <2> SUFFICES ASSUME Connect(c) PROVE \E y : TaskTurn("a", c, "control", y)
    OBVIOUS
  <2>1. seen' = seen /\ pump' = pump /\ wire' = wire
    BY DEF Connect
  <2>2. pc["a"][c]["control"] = "idle" /\ \E y : y # "parked" /\ pc' = [pc EXCEPT !["a"][c]["control"] = y]
    BY DEF Connect, Goes, Decides, Header
  <2> QED BY <1>0, <2>1, <2>2 DEF TaskTurn, Grows
<1>4. ASSUME NEW dirs \in SUBSET Directions, Shutdown(e, c, dirs) PROVE \E y : TaskTurn(e, c, "control", y)
  <2>1. seen' = seen /\ pump' = pump /\ wire' = wire
    BY <1>4 DEF Shutdown
  <2>2. PICK p : p = [Header("shutdown", c, conn[e][c]) EXCEPT !.flags = conn[e][c].local \cup dirs]
    OBVIOUS
  <2>3. p.op = "shutdown"
    BY <2>2 DEF Header
  <2>4. pc[e][c]["control"] = "open" /\ pc' = [pc EXCEPT ![e][c]["control"] = p.op]
    BY <1>4, <2>2 DEF Shutdown, Goes, Decides
  <2> QED BY <1>0, <2>1, <2>3, <2>4 DEF TaskTurn, Grows
<1> QED BY <1>1, <1>2, <1>3, <1>4, EndsFacts DEF ConnectExpires, Close

LEMMA PumpTurns ==
  ASSUME TypeOK, NEW e \in Ends, Receive(e) \/ SendReply(e) \/ TransportReset(e)
  PROVE  PumpTurn(e)
<1>1. CASE Receive(e)
  <2>1. pc' = pc
    BY <1>1 DEF Receive
  <2>2. PICK p : p = Head(wire[e])
    OBVIOUS
  <2>3. \E r : Answers(e, r)
    <3>1. HandleRequest(e, p) => \E r : Answers(e, r)
      BY DEF HandleRequest
    <3>2. HandleUnknown(e, p) \/ HandleResponse(e, p) \/ HandleReset(e, p) => \E r : Answers(e, r)
      BY DEF HandleUnknown, HandleResponse, HandleReset
    <3>3. HandleShutdown(e, p) \/ HandleData(e, p) => \E r : Answers(e, r)
      BY DEF HandleShutdown, HandleData
    <3>4. HandleCreditUpdate(e, p) \/ HandleCreditRequest(e, p) => \E r : Answers(e, r)
      BY DEF HandleCreditUpdate, HandleCreditRequest
    <3>5. p \in Packets
      BY <1>1, <2>2, TailElements DEF Receive, TypeOK
    <3>6. p.op \in Ops
      BY <3>5, PacketFields
    <3> QED BY <1>1, <2>2, <3>1, <3>2, <3>3, <3>4, <3>6 DEF Receive, Ops
  <2>4. PICK r : Answers(e, r)
    BY <2>3
  <2>5. Grows(Other(e))
    BY <1>1, EndsFacts DEF Receive, Grows, TypeOK
  <2> QED BY <2>1, <2>4, <2>5 DEF Answers, PumpTurn
<1>2. CASE SendReply(e)
  <2>1. Grows(Other(e))
    BY <1>2, ReplyFacts DEF ReplyEffect, Grows
  <2> QED BY <1>2, <2>1 DEF SendReply, PumpTurn
<1>3. CASE TransportReset(e)
  BY <1>3 DEF TransportReset, PumpTurn, Grows
<1> QED BY <1>1, <1>2, <1>3

\* Every step is one of these.
LEMMA Turns ==
  ASSUME TypeOK, TaskInv, [Next]_vars
  PROVE  \/ NoTurn \/ \E e \in Ends : PumpTurn(e)
         \/ \E e \in Ends, c \in Conns, t \in Tasks : \E y : TaskTurn(e, c, t, y)
<1>1. CASE UNCHANGED vars
  BY <1>1 DEF vars, NoTurn
<1>2. CASE \E e \in Ends : Pump(e) \/ TransportReset(e)
  BY <1>2, PumpTurns DEF Pump
<1>3. CASE Accept
  <2>1. CASE listening /\ queued # <<>>
    <3>1. PICK c \in Conns : c = Head(queued)
      BY <2>1 DEF TypeOK
    <3>2. TaskTurn("b", c, "control", "open")
      BY <1>3, <2>1, <3>1, TaskFacts DEF Accept, Goes, Grows, TaskTurn
    <3> QED BY <3>2, EndsFacts, TaskFacts
  <2>2. CASE ~(listening /\ queued # <<>>)
    BY <1>3, <2>2 DEF Accept, NoTurn
  <2> QED BY <2>1, <2>2
<1>4. CASE AcceptWakes \/ CloseListener
  BY <1>4 DEF AcceptWakes, CloseListener, NoTurn, taskVars
<1>5. CASE \E c \in Conns : Connect(c) \/ (plan.impatient /\ ConnectExpires(c))
  BY <1>5, ControlTurn, EndsFacts, TaskFacts
<1>6. ASSUME NEW e \in Ends, NEW c \in Conns,
             \/ StartRead(e, c) \/ (plan.impatient /\ Close(e, c))
             \/ \E w \in Writers : StartWrite(e, c, w)
             \/ \E dirs \in SUBSET Directions : <<e, dirs>> \in plan.shuts /\ Shutdown(e, c, dirs)
      PROVE  \E t \in Tasks : \E y : TaskTurn(e, c, t, y)
  BY <1>6, MoveTurn, ControlTurn, TaskFacts
<1>7. ASSUME NEW e \in Ends, NEW c \in Conns, NEW t \in Tasks,
             Continue(e, c, t) \/ TransmitFails(e, c, t) \/ Expire(e, c, t)
      PROVE  \E y : TaskTurn(e, c, t, y)
  <2>1. CASE Transmit(e, c, t) \/ TransmitFails(e, c, t)
    BY <2>1, TransmitTurn
  <2>2. CASE Wake(e, c, t) \/ Expire(e, c, t)
    BY <2>2, MoveTurn
  <2>3. CASE t \in Writers /\ (BeginWrite(e, c, t) \/ CreditRequest(e, c, t) \/ FinishWrite(e, c, t))
    BY <2>3, WriteTurn
  <2>4. CASE t = "reader" /\ Read(e, c)
    BY <2>4, ReadTurn
  <2>5. CASE t = "control" /\ e = "a" /\ (ArmConnect(c) \/ ConnectProgress(c))
    BY <2>5, MoveTurn, ControlTurn
  <2> QED BY <1>7, <2>1, <2>2, <2>3, <2>4, <2>5 DEF Continue
<1> QED BY <1>1, <1>2, <1>3, <1>4, <1>5, <1>6, <1>7 DEF Next

\* The pump of end e has nothing to tell task t, and has told it nothing.
Unheard(e, c, t) == pump[e] = NoPacket /\ ~seen[e][c][t]
Asleep == {"blocked", "creditRequest", "parked"}

\* The marks are Booleans.
LEMMA MarksKept ==
  ASSUME TypeOK, TaskInv, seen \in Marks, [Next]_vars
  PROVE  seen' \in Marks
<1>1. CASE NoTurn
  BY <1>1 DEF NoTurn
<1>2. ASSUME NEW e \in Ends, PumpTurn(e) PROVE seen' \in Marks
  <2>1. CASE Signals(e)
    <3>1. \A c \in Conns, t \in Tasks : (pc[e][c][t] \in Marked) \in BOOLEAN
      OBVIOUS
    <3>2. [c \in Conns |-> [t \in Tasks |-> pc[e][c][t] \in Marked]] \in [Conns -> [Tasks -> BOOLEAN]]
      BY <3>1
    <3>3. PICK m \in [Conns -> [Tasks -> BOOLEAN]] : seen' = [seen EXCEPT ![e] = m]
      BY <2>1, <3>2 DEF Signals
    <3> QED BY <3>3 DEF Marks
  <2>2. CASE seen' = seen
    BY <2>2
  <2> QED BY <1>2, <2>1, <2>2 DEF PumpTurn
<1>3. ASSUME NEW e \in Ends, NEW c \in Conns, NEW t \in Tasks, NEW y, TaskTurn(e, c, t, y) PROVE seen' \in Marks
  <2>1. seen \in [Ends -> [Conns -> [Tasks -> BOOLEAN]]] /\ FALSE \in BOOLEAN
    BY DEF Marks
  <2>2. [seen EXCEPT ![e][c][t] = FALSE] \in [Ends -> [Conns -> [Tasks -> BOOLEAN]]]
    BY <2>1, TaskEntry
  <2> QED BY <1>3, <2>1, <2>2 DEF TaskTurn, Marks
<1> QED BY <1>1, <1>2, <1>3, Turns

\* A task that has not been signalled when a step ends had not been before, and
\* the pump of its end took nothing in the step.
LEMMA Heard ==
  ASSUME TypeOK, TaskInv, seen \in Marks, [Next]_vars, NEW e \in Ends, NEW c \in Conns, NEW t \in Tasks,
         pc'[e][c][t] \in Asleep, pump'[e] = NoPacket, ~seen'[e][c][t]
  PROVE  Unheard(e, c, t) /\ Grows(e)
<1>1. CASE NoTurn
  BY <1>1 DEF NoTurn, Unheard, Grows
<1>2. ASSUME NEW z \in Ends, PumpTurn(z) PROVE Unheard(e, c, t) /\ Grows(e)
  <2>1. pump \in [Ends -> Packets \cup {NoPacket}]
    BY DEF TypeOK
  <2>2. CASE z = e
    <3>1. ~Signals(e)
      <4> SUFFICES ASSUME Signals(e) PROVE FALSE
        OBVIOUS
      <4>1. seen'[e][c][t] = (pc[e][c][t] \in Marked)
        BY DEF Signals, Marks
      <4>2. pc[e][c][t] \in Marked
        BY <1>2 DEF PumpTurn, Marked, Asleep
      <4> QED BY <4>1, <4>2
    <3>2. PICK r : r # NoPacket /\ pump' = [pump EXCEPT ![e] = r]
      BY <1>2, <2>2, <3>1 DEF PumpTurn
    <3>3. pump'[e] = r
      BY <2>1, <3>2
    <3> QED BY <3>2, <3>3
  <2>3. CASE z # e
    <3>1. Grows(e)
      BY <1>2, <2>3, EndsFacts DEF PumpTurn
    <3>2. pump'[e] = pump[e]
      BY <1>2, <2>1, <2>3 DEF PumpTurn, Signals
    <3>3. seen'[e] = seen[e]
      BY <1>2, <2>3 DEF PumpTurn, Signals, Marks
    <3> QED BY <3>1, <3>2, <3>3 DEF Unheard
  <2> QED BY <2>2, <2>3
<1>3. ASSUME NEW z \in Ends, NEW d \in Conns, NEW u \in Tasks, NEW y, TaskTurn(z, d, u, y)
      PROVE  Unheard(e, c, t) /\ Grows(e)
  <2>1. pump' = pump /\ Grows(e)
    BY <1>3 DEF TaskTurn
  <2>2. CASE seen' = seen
    BY <2>1, <2>2 DEF Unheard
  <2>3. CASE seen' # seen
    <3>1. seen' = [seen EXCEPT ![z][d][u] = FALSE] /\ y \in {"armed", "idle"} /\ pc' = [pc EXCEPT ![z][d][u] = y]
      BY <1>3, <2>3 DEF TaskTurn
    <3>2. CASE e = z /\ c = d /\ t = u
      <4>1. pc'[z][d][u] = y
        BY <3>1 DEF TypeOK
      <4> QED BY <3>1, <3>2, <4>1 DEF Asleep
    <3>3. CASE ~(e = z /\ c = d /\ t = u)
      <4>1. seen'[e][c][t] = seen[e][c][t]
        BY <3>1, <3>3 DEF Marks
      <4> QED BY <2>1, <4>1 DEF Unheard
    <3> QED BY <3>2, <3>3
  <2> QED BY <2>2, <2>3
<1> QED BY <1>1, <1>2, <1>3, Turns

\* Only a step of its own moves a writer.
LEMMA WriterRuns ==
  ASSUME TypeOK, TaskInv, [Next]_vars, NEW e \in Ends, NEW c \in Conns, NEW w \in Writers,
         pc'[e][c][w] # pc[e][c][w]
  PROVE  Runs(e, c, w)
<1>1. CASE NoTurn
  BY <1>1 DEF NoTurn
<1>2. ASSUME NEW z \in Ends, PumpTurn(z) PROVE Runs(e, c, w)
  BY <1>2 DEF PumpTurn
<1>3. ASSUME NEW z \in Ends, NEW d \in Conns, NEW u \in Tasks, NEW y, TaskTurn(z, d, u, y)
      PROVE  Runs(e, c, w)
  <2>1. z = e /\ d = c /\ u = w
    BY <1>3, TaskFacts DEF TaskTurn, TypeOK
  <2> QED BY <1>3, <2>1 DEF TaskTurn
<1> QED BY <1>1, <1>2, <1>3, Turns

\* No two writers of a connection move in one step.
LEMMA OneWriterMoves ==
  ASSUME TypeOK, TaskInv, [Next]_vars, NEW e \in Ends, NEW c \in Conns, NEW v \in Writers, NEW w \in Writers,
         pc'[e][c][v] # pc[e][c][v], pc'[e][c][w] # pc[e][c][w]
  PROVE  v = w
<1>1. CASE NoTurn
  BY <1>1 DEF NoTurn
<1>2. ASSUME NEW z \in Ends, PumpTurn(z) PROVE FALSE
  BY <1>2 DEF PumpTurn
<1>3. ASSUME NEW z \in Ends, NEW d \in Conns, NEW u \in Tasks, NEW y, TaskTurn(z, d, u, y)
      PROVE  v = w
  BY <1>3, TaskFacts DEF TaskTurn, TypeOK
<1> QED BY <1>1, <1>2, <1>3, Turns

\* Whether a writer was crowded out is settled only when it tests the table.
LEMMA CrowdedKept ==
  ASSUME [Next]_vars, NEW e \in Ends, NEW c \in Conns, NEW w \in Writers, pc[e][c][w] # "armed"
  PROVE  <<e, c, w>> \in crowded' <=> <<e, c, w>> \in crowded
<1>1. ASSUME NEW z \in Ends, NEW d \in Conns, NEW v \in Writers, BeginWrite(z, d, v)
      PROVE  <<e, c, w>> \in crowded' <=> <<e, c, w>> \in crowded
  <2>1. pc[z][d][v] = "armed"
    BY <1>1 DEF BeginWrite, Goes, Decides
  <2>2. <<z, d, v>> # <<e, c, w>>
    BY <2>1
  <2>3. crowded' = crowded \cup {<<z, d, v>>} \/ crowded' = crowded \ {<<z, d, v>>}
    BY <1>1 DEF BeginWrite
  <2> QED BY <2>2, <2>3
<1>2. CASE UNCHANGED vars
  BY <1>2 DEF vars
<1>3. CASE \E z \in Ends : Pump(z) \/ TransportReset(z)
  BY <1>3 DEF Pump, Receive, SendReply, TransportReset
<1>4. CASE Accept \/ AcceptWakes \/ CloseListener
  BY <1>4 DEF Accept, AcceptWakes, CloseListener
<1>5. CASE \E d \in Conns : Connect(d) \/ (plan.impatient /\ ConnectExpires(d))
  BY <1>5 DEF Connect, ConnectExpires, Closes
<1>6. ASSUME NEW z \in Ends, NEW d \in Conns,
             \/ StartRead(z, d) \/ (plan.impatient /\ Close(z, d))
             \/ \E v \in Writers : StartWrite(z, d, v)
             \/ \E dirs \in SUBSET Directions : <<z, dirs>> \in plan.shuts /\ Shutdown(z, d, dirs)
      PROVE  crowded' = crowded
  BY <1>6 DEF StartRead, Close, Closes, StartWrite, Shutdown
<1>7. ASSUME NEW z \in Ends, NEW d \in Conns, NEW t \in Tasks,
             Continue(z, d, t) \/ TransmitFails(z, d, t) \/ Expire(z, d, t)
      PROVE  crowded' = crowded \/ (t \in Writers /\ BeginWrite(z, d, t))
  <2>1. CASE Transmit(z, d, t) \/ TransmitFails(z, d, t)
    BY <2>1 DEF Transmit, TransmitFails
  <2>2. CASE Wake(z, d, t) \/ Expire(z, d, t)
    BY <2>2 DEF Wake, Expire
  <2>3. CASE t \in Writers /\ (CreditRequest(z, d, t) \/ FinishWrite(z, d, t))
    BY <2>3 DEF CreditRequest, FinishWrite
  <2>4. CASE t = "reader" /\ Read(z, d)
    BY <2>4 DEF Read
  <2>5. CASE t = "control" /\ z = "a" /\ (ArmConnect(d) \/ ConnectProgress(d))
    BY <2>5 DEF ArmConnect, ConnectProgress
  <2> QED BY <1>7, <2>1, <2>2, <2>3, <2>4, <2>5 DEF Continue
<1> QED BY <1>1, <1>2, <1>3, <1>4, <1>5, <1>6, <1>7 DEF Next

\* Only connect_progress sends a connect to sleep.
LEMMA ControlParks ==
  ASSUME TypeOK, TaskInv, [Next]_vars, NEW e \in Ends, NEW c \in Conns,
         pc'[e][c]["control"] = "parked", pc[e][c]["control"] # "parked"
  PROVE  e = "a" /\ conn' = conn /\ conn[e][c].state = "connecting"
<1>1. CASE NoTurn
  BY <1>1 DEF NoTurn
<1>2. ASSUME NEW z \in Ends, PumpTurn(z) PROVE FALSE
  BY <1>2 DEF PumpTurn
<1>3. ASSUME NEW z \in Ends, NEW d \in Conns, NEW u \in Tasks, NEW y, TaskTurn(z, d, u, y)
      PROVE  e = "a" /\ conn' = conn /\ conn[e][c].state = "connecting"
  <2>1. z = e /\ d = c /\ u = "control" /\ y = "parked"
    BY <1>3, TaskFacts DEF TaskTurn, TypeOK
  <2>2. e = "a" /\ ConnectProgress(c)
    BY <1>3, <2>1 DEF TaskTurn
  <2>3. pc' = [pc EXCEPT !["a"][c]["control"] = "gone"] => pc'["a"][c]["control"] = "gone"
    BY TaskFacts, EndsFacts DEF TypeOK
  <2>4. pc' = [pc EXCEPT !["a"][c]["control"] = "open"] => pc'["a"][c]["control"] = "open"
    BY TaskFacts, EndsFacts DEF TypeOK
  <2> QED BY <2>2, <2>3, <2>4 DEF ConnectProgress, Goes, Live
<1> QED BY <1>1, <1>2, <1>3, Turns

\* How a writer goes on when no transmission fails.
StartsOver(e, c, x, y) ==
  /\ x \in {"idle", "parked"} /\ y = "armed" /\ conn' = conn /\ done' = done
  /\ x = "idle" => done[e][c] < plan.bytes[c][e]
GivesUp(x, y) ==
  x \in {"armed", "blocked", "parked"} /\ y \in {"idle", "gone"} /\ conn' = conn /\ done' = done
Blocks(e, c, w, x, y) ==
  /\ x = "armed" /\ y = "blocked" /\ conn' = conn /\ done' = done
  /\ conn[e][c].state = "established" /\ plan.bytes[c][e] - done[e][c] > 0
  /\ conn[e][c].transmitting \/ Allowed(conn[e][c], plan.bytes[c][e] - done[e][c]) = 0
  /\ conn[e][c].transmitting => <<e, c, w>> \in crowded'
Parks(e, c, x, y) ==
  /\ x = "blocked" /\ y = "parked" /\ UNCHANGED <<conn, done, wire, pump>> /\ Exists(e, c)
  /\ ~(conn[e][c].state = "established" /\ PeerFree(conn[e][c]) = 0 /\ ~conn[e][c].asked)
Requests(e, c, x, y) ==
  \/ x = "blocked" /\ y = "creditRequest" /\ done' = done
  \/ /\ x = "creditRequest" /\ y = "parked" /\ conn' = conn /\ done' = done
     /\ Has(wire'[Other(e)], c, "creditRequest")
Delivers(e, c, w, x, y) ==
  \/ /\ x = "armed" /\ y = "data" /\ done' = done
     /\ Exists(e, c) /\ ~conn[e][c].transmitting /\ conn'[e][c].transmitting
  \/ x = "data" /\ y = "sent" /\ conn' = conn /\ done' = done
  \/ x = "sent" /\ y \in {"armed", "idle"} /\ FinishWrite(e, c, w)

WriterStep(e, c, w, x, y) ==
  /\ pc[e][c][w] = x /\ pc'[e][c][w] = y
  /\ \/ StartsOver(e, c, x, y) \/ GivesUp(x, y) \/ Blocks(e, c, w, x, y)
     \/ Parks(e, c, x, y) \/ Requests(e, c, x, y) \/ Delivers(e, c, w, x, y)

\* A writer that runs takes one of these steps.
LEMMA WriterSteps ==
  ASSUME TypeOK, TaskInv, NEW e \in Ends, NEW c \in Conns, NEW w \in Writers, Runs(e, c, w), faults' = 0
  PROVE  \E x, y : WriterStep(e, c, w, x, y)
<1>0. w \in Tasks /\ w # "reader" /\ w # "control"
  BY TaskFacts
<1>g. \A y : pc' = [pc EXCEPT ![e][c][w] = y] => pc'[e][c][w] = y
  BY <1>0 DEF TypeOK
<1> USE DEF WriterStep
<1>1. CASE StartWrite(e, c, w)
  BY <1>1, <1>g DEF StartWrite, Arms, Goes, StartsOver, tableVars, resultVars
<1>2. CASE Wake(e, c, w)
  BY <1>2, <1>g DEF Wake, Arms, Goes, StartsOver, tableVars, resultVars
<1>3. CASE Expire(e, c, w)
  BY <1>3, <1>g DEF Expire, Goes, GivesUp, tableVars, resultVars
<1>4. CASE TransmitFails(e, c, w)
  BY <1>4 DEF TransmitFails, TypeOK
<1>5. CASE Transmit(e, c, w)
  <2>1. CarriesItsOwn(e, c, w) /\ TransmitEffect(e, c, w)
    BY <1>0, <1>5, TransmitsPacket, TransmitFacts DEF Transmit
  <2>2. PICK p \in Packets : p = packet[e][c][w] /\ p.c = c /\ pc[e][c][w] = p.op /\ p.op \in {"data", "creditRequest"}
    BY <2>1 DEF CarriesItsOwn
  <2>3. pc'[e][c][w] = AfterTransmit(p.op) /\ wire'[Other(e)] = Append(wire[Other(e)], p) /\ conn' = conn /\ done' = done
    BY <2>1, <2>2 DEF TransmitEffect
  <2>4. CASE p.op = "data"
    BY <2>2, <2>3, <2>4 DEF AfterTransmit, Delivers
  <2>5. CASE p.op = "creditRequest"
    <3>1. wire[Other(e)] \in Seq(Packets)
      BY EndsFacts DEF TypeOK
    <3>2. Has(wire'[Other(e)], c, "creditRequest")
      BY <2>2, <2>3, <2>5, <3>1, AppendHas DEF Ops
    <3> QED BY <2>2, <2>3, <2>5, <3>2 DEF AfterTransmit, Requests
  <2> QED BY <2>2, <2>4, <2>5
<1>6. CASE BeginWrite(e, c, w)
  <2>1. done' = done
    BY <1>6 DEF BeginWrite, resultVars
  <2>2. CASE (Goes(e, c, w, "armed", "gone") \/ Goes(e, c, w, "armed", "idle")) /\ conn' = conn
    BY <1>g, <2>1, <2>2 DEF Goes, GivesUp
  <2>3. CASE /\ Goes(e, c, w, "armed", "blocked") /\ conn' = conn /\ conn[e][c].state = "established"
             /\ plan.bytes[c][e] - done[e][c] > 0
             /\ conn[e][c].transmitting \/ Allowed(conn[e][c], plan.bytes[c][e] - done[e][c]) = 0
    <3>1. conn[e][c].transmitting => <<e, c, w>> \in crowded'
      BY <1>6 DEF BeginWrite
    <3> QED BY <1>g, <2>1, <2>3, <3>1 DEF Goes, Blocks
  <2>4. CASE /\ conn[e][c].state = "established" /\ ~conn[e][c].transmitting
             /\ Set(e, c, [Announced(conn[e][c]) EXCEPT !.transmitting = TRUE])
             /\ \E n : Decides(e, c, w, "armed", DataPacket(e, c, n))
    <3>1. PICK n : Decides(e, c, w, "armed", DataPacket(e, c, n))
      BY <2>4
    <3>2. DataPacket(e, c, n).op = "data"
      BY DEF DataPacket, Header
    <3>3. PICK k \in Connections : k = [Announced(conn[e][c]) EXCEPT !.transmitting = TRUE] /\ k.transmitting
      <4>1. conn[e][c] \in Connections
        BY DEF TypeOK
      <4>2. [Announced(conn[e][c]) EXCEPT !.transmitting = TRUE] \in Connections
        BY <4>1 DEF Announced, Connections
      <4>3. [Announced(conn[e][c]) EXCEPT !.transmitting = TRUE].transmitting
        BY <4>1 DEF Announced, Connections
      <4> QED BY <4>2, <4>3
    <3>4. conn'[e][c] = k
      <4>1. conn' = [conn EXCEPT ![e][c] = k] /\ conn \in [Ends -> [Conns -> Connections]]
        BY <2>4, <3>3 DEF Set, TypeOK
      <4> QED BY <4>1
    <3>5. Exists(e, c)
      BY <2>4 DEF Exists
    <3> QED BY <1>g, <2>1, <2>4, <3>1, <3>2, <3>3, <3>4, <3>5 DEF Decides, Goes, Delivers
  <2> QED BY <1>6, <2>2, <2>3, <2>4 DEF BeginWrite, DataPacket
<1>7. CASE CreditRequest(e, c, w)
  <2>1. done' = done /\ wire' = wire /\ pump' = pump
    BY <1>7 DEF CreditRequest, resultVars
  <2>2. CASE Decides(e, c, w, "blocked", Header("creditRequest", c, conn[e][c]))
    <3>1. Header("creditRequest", c, conn[e][c]).op = "creditRequest"
      BY DEF Header
    <3> QED BY <1>g, <2>1, <2>2, <3>1 DEF Decides, Goes, Requests
  <2>3. CASE /\ ~(conn[e][c].state = "established" /\ PeerFree(conn[e][c]) = 0 /\ ~conn[e][c].asked)
             /\ Goes(e, c, w, "blocked", IF Exists(e, c) THEN "parked" ELSE "gone") /\ conn' = conn
    BY <1>g, <2>1, <2>3 DEF Goes, Parks, GivesUp
  <2> QED BY <1>7, <2>2, <2>3 DEF CreditRequest
<1>8. CASE FinishWrite(e, c, w)
  <2>1. PICK y \in {"armed", "idle"} : pc' = [pc EXCEPT ![e][c][w] = y]
    BY <1>8 DEF FinishWrite
  <2>2. pc[e][c][w] = "sent"
    BY <1>8 DEF FinishWrite
  <2> QED BY <1>8, <1>g, <2>1, <2>2 DEF Delivers
<1> QED BY <1>0, <1>1, <1>2, <1>3, <1>4, <1>5, <1>6, <1>7, <1>8 DEF Runs, Continue

\* What a task leaves of the entry, as far as it matters to a writer's sleep.
SameSleep(k2, k) ==
  /\ k2.state = k.state /\ k2.tx = k.tx /\ k2.peerBuf = k.peerBuf /\ k2.peerFwd = k.peerFwd
  /\ k2.transmitting = k.transmitting /\ k2.asked = k.asked

\* What a task leaves of the entry and of the count of bytes: a reader and a
\* shutdown nothing of this; a close frees it; a writer begins, asks or finishes.
EntryTurn(e, c) ==
  \/ SameSleep(conn'[e][c], conn[e][c]) /\ done'[e][c] = done[e][c]
  \/ conn'[e][c] = Free /\ done'[e][c] = done[e][c] /\ pc'[e][c]["control"] \in {"reset", "gone"}
  \/ \E w \in Writers :
       \/ /\ pc[e][c][w] = "armed" /\ pc'[e][c][w] = "data"
          /\ conn[e][c].state = "established" /\ PeerFree(conn[e][c]) # 0 /\ done'[e][c] = done[e][c]
          /\ conn'[e][c] = [Announced(conn[e][c]) EXCEPT !.transmitting = TRUE]
       \/ /\ pc[e][c][w] = "blocked" /\ pc'[e][c][w] = "creditRequest"
          /\ conn[e][c].state = "established" /\ done'[e][c] = done[e][c]
          /\ conn'[e][c] = [Announced(conn[e][c]) EXCEPT !.asked = TRUE]
       \/ FinishEffect(e, c, w)

LEMMA SameSleeps ==
  ASSUME NEW k \in Connections
  PROVE  /\ SameSleep(k, k) /\ SameSleep(Announced(k), k)
         /\ \A d : SameSleep([Announced(k) EXCEPT !.local = d], k)
         /\ \A n : SameSleep(Reading(k, n), k) /\ SameSleep(Announced(Reading(k, n)), k)
BY DEF SameSleep, Announced, Reading, Connections

\* Each step of a task does one of these.
LEMMA EntryTurns ==
  ASSUME TypeOK, TaskInv, NEW e \in Ends, NEW c \in Conns, TaskStep(e, c), faults' = 0
  PROVE  EntryTurn(e, c)
<1>k. conn[e][c] \in Connections
  BY DEF TypeOK
<1>s. /\ SameSleep(conn[e][c], conn[e][c])
      /\ \A d : SameSleep([Announced(conn[e][c]) EXCEPT !.local = d], conn[e][c])
      /\ \A n : SameSleep(Reading(conn[e][c], n), conn[e][c]) /\ SameSleep(Announced(Reading(conn[e][c], n)), conn[e][c])
  BY <1>k, SameSleeps
<1>d. ASSUME NEW t \in Tasks, NEW x, NEW p \in Packets, NEW k \in Connections, Decision(e, c, t, x, p, k), p.op \in Carried
      PROVE  conn'[e][c] = k /\ done'[e][c] = done[e][c] /\ pc[e][c][t] = x /\ pc'[e][c][t] = p.op
  <2>1. DecisionEffect(e, c, t, x, p, k)
    BY <1>d, DecisionFacts
  <2> QED BY <2>1 DEF DecisionEffect
<1>1. ASSUME NEW t \in Tasks, NEW x, NEW y, Moves(e, c, t, x, y) PROVE EntryTurn(e, c)
  BY <1>1, <1>s, MovesFacts DEF MovesEffect, EntryTurn
<1>2. ASSUME NEW w \in Writers, NEW n, Writes(e, c, w, n) PROVE EntryTurn(e, c)
  <2>0. DataPacket(e, c, n).op = "data"
    BY DEF DataPacket, Header
  <2>1. DataPacket(e, c, n) \in Packets /\ [Announced(conn[e][c]) EXCEPT !.transmitting = TRUE] \in Connections
    BY <1>2, DecisionKinds
  <2>2. Decision(e, c, w, "armed", DataPacket(e, c, n), [Announced(conn[e][c]) EXCEPT !.transmitting = TRUE])
    BY <1>2 DEF Writes
  <2>3. w \in Tasks /\ DataPacket(e, c, n).op \in Carried
    BY <2>0, TaskFacts DEF Carried
  <2>4. /\ conn'[e][c] = [Announced(conn[e][c]) EXCEPT !.transmitting = TRUE] /\ done'[e][c] = done[e][c]
        /\ pc[e][c][w] = "armed" /\ pc'[e][c][w] = "data"
    BY <1>d, <2>0, <2>1, <2>2, <2>3
  <2>5. PeerFree(conn[e][c]) # 0
    <3>1. PeerFree(conn[e][c]) \in Nat
      BY <1>k, PeerFreeType
    <3> QED BY <1>2, <3>1 DEF Writes
  <2> QED BY <1>2, <2>4, <2>5 DEF EntryTurn, Writes
<1>3. ASSUME NEW w \in Writers, Asks(e, c, w) PROVE EntryTurn(e, c)
  <2>0. Header("creditRequest", c, conn[e][c]).op = "creditRequest"
    BY DEF Header
  <2>1. Header("creditRequest", c, conn[e][c]) \in Packets /\ [Announced(conn[e][c]) EXCEPT !.asked = TRUE] \in Connections
    BY <1>3, DecisionKinds
  <2>2. Decision(e, c, w, "blocked", Header("creditRequest", c, conn[e][c]), [Announced(conn[e][c]) EXCEPT !.asked = TRUE])
    BY <1>3 DEF Asks
  <2>3. w \in Tasks /\ Header("creditRequest", c, conn[e][c]).op \in Carried
    BY <2>0, TaskFacts DEF Carried
  <2>4. /\ conn'[e][c] = [Announced(conn[e][c]) EXCEPT !.asked = TRUE] /\ done'[e][c] = done[e][c]
        /\ pc[e][c][w] = "blocked" /\ pc'[e][c][w] = "creditRequest"
    BY <1>d, <2>0, <2>1, <2>2, <2>3
  <2> QED BY <1>3, <2>4 DEF EntryTurn, Asks
<1>4. ASSUME NEW w \in Writers, FinishWrite(e, c, w) PROVE EntryTurn(e, c)
  BY <1>4, FinishFacts DEF EntryTurn
<1>5. ASSUME NEW n, Updates(e, c, n) PROVE EntryTurn(e, c)
  <2>0. Header("creditUpdate", c, Reading(conn[e][c], n)).op = "creditUpdate"
    BY DEF Header
  <2>1. Header("creditUpdate", c, Reading(conn[e][c], n)) \in Packets /\ Announced(Reading(conn[e][c], n)) \in Connections
    BY <1>5, DecisionKinds
  <2>2. Decision(e, c, "reader", "armed", Header("creditUpdate", c, Reading(conn[e][c], n)),
                 Announced(Reading(conn[e][c], n)))
    BY <1>5 DEF Updates
  <2>3. "reader" \in Tasks /\ Header("creditUpdate", c, Reading(conn[e][c], n)).op \in Carried
    BY <2>0, TaskFacts DEF Carried
  <2>4. conn'[e][c] = Announced(Reading(conn[e][c], n)) /\ done'[e][c] = done[e][c]
    BY <1>d, <2>1, <2>2, <2>3
  <2> QED BY <1>s, <2>4 DEF EntryTurn
<1>6. ASSUME NEW n, Hands(e, c, n) PROVE EntryTurn(e, c)
  BY <1>6, <1>s, HandsFacts DEF HandsEffect, EntryTurn
<1>7. ASSUME NEW x, Abandons(e, c, x) PROVE EntryTurn(e, c)
  <2>0. Header("reset", c, conn[e][c]).op = "reset"
    BY DEF Header
  <2>1. Header("reset", c, conn[e][c]) \in Packets /\ Free \in Connections
    BY DecisionKinds
  <2>2. Decision(e, c, "control", x, Header("reset", c, conn[e][c]), Free)
    BY <1>7 DEF Abandons
  <2>3. "control" \in Tasks /\ Header("reset", c, conn[e][c]).op \in Carried
    BY <2>0, TaskFacts DEF Carried
  <2>4. conn'[e][c] = Free /\ done'[e][c] = done[e][c] /\ pc'[e][c]["control"] = "reset"
    BY <1>d, <2>0, <2>1, <2>2, <2>3
  <2> QED BY <2>4 DEF EntryTurn
<1>8. ASSUME NEW x, Frees(e, c, x) PROVE EntryTurn(e, c)
  BY <1>8, FreesFacts DEF FreesEffect, EntryTurn
<1>9. ASSUME NEW dirs, Shuts(e, c, dirs) PROVE EntryTurn(e, c)
  <2>0. dirs \in SUBSET Directions
    BY <1>9 DEF Shuts
  <2>1. /\ ShutPacket(e, c, dirs) \in Packets /\ ShutPacket(e, c, dirs).op = "shutdown"
        /\ [Announced(conn[e][c]) EXCEPT !.local = conn[e][c].local \cup dirs] \in Connections
    BY <2>0, ShutFacts
  <2>2. Decision(e, c, "control", "open", ShutPacket(e, c, dirs),
                 [Announced(conn[e][c]) EXCEPT !.local = conn[e][c].local \cup dirs])
    BY <1>9 DEF Shuts
  <2>3. "control" \in Tasks /\ ShutPacket(e, c, dirs).op \in Carried
    BY <2>1, TaskFacts DEF Carried
  <2>4. conn'[e][c] = [Announced(conn[e][c]) EXCEPT !.local = conn[e][c].local \cup dirs] /\ done'[e][c] = done[e][c]
    BY <1>d, <2>1, <2>2, <2>3
  <2> QED BY <1>s, <2>4 DEF EntryTurn
<1>10. ASSUME NEW t \in Tasks, Transmit(e, c, t) PROVE EntryTurn(e, c)
  BY <1>10, <1>s, TransmitFacts DEF TransmitEffect, EntryTurn
<1>11. ASSUME NEW t \in Tasks, TransmitFails(e, c, t) PROVE EntryTurn(e, c)
  BY <1>11 DEF TransmitFails, TypeOK
<1> QED BY <1>1, <1>2, <1>3, <1>4, <1>5, <1>6, <1>7, <1>8, <1>9, <1>10, <1>11 DEF TaskStep

\* A question about connection c that is put to end z, or its answer, is under way.
UnderWay(z, c, ask, answers) ==
  \/ Has(wire[z], c, ask)
  \/ Replying(z, c) /\ pump[z].op \in answers
  \/ \E op \in answers : Has(wire[Other(z)], c, op)

\* What answers a request for credit, and what answers a request to connect.
CreditAnswers == {"creditUpdate", "reset"}
Verdicts == {"response", "reset"}

\* A line that nothing was taken from keeps what is on it.
LEMMA GrowsHas ==
  ASSUME TypeOK, NEW e \in Ends, NEW c \in Conns, NEW op \in Ops, Grows(e), Has(wire[e], c, op)
  PROVE  Has(wire'[e], c, op)
<1>1. wire[e] \in Seq(Packets)
  BY DEF TypeOK
<1>2. CASE wire'[e] = wire[e]
  BY <1>2
<1>3. ASSUME NEW p \in Packets, wire'[e] = Append(wire[e], p) PROVE Has(wire'[e], c, op)
  BY <1>1, <1>3, AppendHas
<1> QED BY <1>2, <1>3 DEF Grows

LEMMA TakenIsNotGrown ==
  ASSUME TypeOK, NEW e \in Ends, wire[e] # <<>>, wire'[e] = Tail(wire[e])
  PROVE  ~Grows(e)
<1>1. wire[e] \in Seq(Packets)
  BY DEF TypeOK
<1>2. Len(wire[e]) \in Nat /\ Len(wire'[e]) = Len(wire[e]) - 1
  <2>1. Len(Tail(wire[e])) = Len(wire[e]) - 1 /\ Len(wire[e]) \in Nat
    BY <1>1, TailElements
  <2> QED BY <2>1
<1>3. ASSUME NEW p \in Packets, wire'[e] = Append(wire[e], p) PROVE FALSE
  <2>1. Len(Append(wire[e], p)) = Len(wire[e]) + 1
    BY <1>1, AppendElements
  <2>2. Len(wire'[e]) = Len(wire[e]) + 1
    BY <1>3, <2>1
  <2> QED BY <1>2, <2>2
<1>4. ASSUME wire'[e] = wire[e] PROVE FALSE
  <2>1. Len(wire'[e]) = Len(wire[e])
    BY <1>4
  <2> QED BY <1>2, <2>1
<1> QED BY <1>3, <1>4 DEF Grows

\* What a packet does to the entry and which answer it has, as far as it matters
\* to who waits.
Settles(e, c, p, k, r) ==
  /\ p.op = "creditRequest" => r \in Packets /\ r.c = c /\ r.op \in CreditAnswers
  /\ p.op = "request" => r \in Packets /\ r.c = c /\ r.op \in Verdicts
  /\ k.state = "established" /\ k.asked => k = conn[e][c] /\ p.op \notin CreditAnswers
  /\ k.state = "connecting" => conn[e][c].state = "connecting" /\ p.op \notin Verdicts
  /\ \/ p.op = "request" /\ e = "b"
     \/ k.transmitting = conn[e][c].transmitting /\ (k.state # "none" => Exists(e, c))

LEMMA AbsorbedCredit ==
  ASSUME NEW old \in Connections, NEW p \in Packets
  PROVE  /\ ~Absorb(old, p).asked /\ Absorb(old, p).transmitting = old.transmitting
         /\ \A s : /\ ~[Absorb(old, p) EXCEPT !.state = s].asked
                   /\ [Absorb(old, p) EXCEPT !.state = s].transmitting = old.transmitting
                   /\ [old EXCEPT !.state = s].transmitting = old.transmitting
         /\ \A d : /\ ~[Absorb(old, p) EXCEPT !.peer = d].asked
                   /\ [Absorb(old, p) EXCEPT !.peer = d].transmitting = old.transmitting
         /\ \A d, s : [Absorb(old, p) EXCEPT !.peer = d, !.state = s].transmitting = old.transmitting
         /\ \A b : /\ ~[Absorb(old, p) EXCEPT !.receive = b].asked
                   /\ [Absorb(old, p) EXCEPT !.receive = b].transmitting = old.transmitting
         /\ ~Announced(Absorb(old, p)).asked /\ Announced(Absorb(old, p)).transmitting = old.transmitting
BY DEF Connections, Absorb, Announced

\* Each packet settles what it is about.
LEMMA PacketSettles ==
  ASSUME TypeOK, NEW e \in Ends, NEW c \in Conns, NEW p \in Packets, NEW k, NEW r, PacketStep(e, c, p, k, r)
  PROVE  Settles(e, c, p, k, r)
<1>0. p.c = c /\ Outcome(e, p, k, r)
  BY DEF PacketStep
<1>1. PICK old \in Connections : old = conn[e][c]
  BY DEF TypeOK
<1>2. /\ Absorb(old, p).state = old.state
      /\ \A s : [Absorb(old, p) EXCEPT !.state = s].state = s /\ [old EXCEPT !.state = s].state = s
      /\ \A d : [Absorb(old, p) EXCEPT !.peer = d].state = old.state
      /\ \A d, s : [Absorb(old, p) EXCEPT !.peer = d, !.state = s].state = s
      /\ \A b : [Absorb(old, p) EXCEPT !.receive = b].state = old.state
      /\ Announced(Absorb(old, p)).state = old.state
  BY AbsorbedStates
<1>3. /\ ~Absorb(old, p).asked /\ Absorb(old, p).transmitting = old.transmitting
      /\ \A s : /\ ~[Absorb(old, p) EXCEPT !.state = s].asked
                /\ [Absorb(old, p) EXCEPT !.state = s].transmitting = old.transmitting
                /\ [old EXCEPT !.state = s].transmitting = old.transmitting
      /\ \A d : /\ ~[Absorb(old, p) EXCEPT !.peer = d].asked
                /\ [Absorb(old, p) EXCEPT !.peer = d].transmitting = old.transmitting
      /\ \A d, s : [Absorb(old, p) EXCEPT !.peer = d, !.state = s].transmitting = old.transmitting
      /\ \A b : /\ ~[Absorb(old, p) EXCEPT !.receive = b].asked
                /\ [Absorb(old, p) EXCEPT !.receive = b].transmitting = old.transmitting
      /\ ~Announced(Absorb(old, p)).asked /\ Announced(Absorb(old, p)).transmitting = old.transmitting
  BY AbsorbedCredit
<1>4. Reply("reset", c) \in Packets /\ Reply("reset", c).c = c /\ Reply("reset", c).op = "reset"
  BY <1>1, PacketTypes DEF Ops
<1>5. \A op \in {"response", "creditUpdate"}, q \in Connections :
        Header(op, c, q) \in Packets /\ Header(op, c, q).c = c /\ Header(op, c, q).op = op
  BY PacketTypes DEF Ops
<1>6. k \in Connections
  BY <1>0, OutcomeTypes
<1> USE DEF Settles, CreditAnswers, Verdicts, Exists
<1>a. CASE Refuses(e, p, k, r)
  BY <1>a, <1>0, <1>1, <1>4 DEF Refuses
<1>b. CASE Admits(e, p, k, r)
  <2>1. PICK new \in Connections : new = Opened("established") /\ ~new.transmitting /\ new.state = "established"
    BY OpenedType DEF States, Opened
  <2>2. ~k.asked /\ ~k.transmitting /\ k.state = "established"
    BY <1>b, <2>1, AbsorbedCredit, AbsorbFields DEF Admits
  <2>3. r = Header("response", c, k)
    BY <1>b, <1>0 DEF Admits
  <2> QED BY <1>b, <1>5, <1>6, <2>2, <2>3 DEF Admits
<1>c. CASE Ignores(e, p, k, r)
  BY <1>c, <1>0, <1>1, <1>4 DEF Ignores, Exists
<1>d. CASE Establishes(e, p, k, r)
  BY <1>d, <1>0, <1>1, <1>2, <1>3 DEF Establishes, Absorb, Connections, Live
<1>e. CASE Mistimed(e, p, k, r)
  BY <1>e, <1>0, <1>1, <1>2, <1>3 DEF Mistimed
<1>f. CASE IsReset(e, p, k, r)
  BY <1>f, <1>0, <1>1, <1>2, <1>3 DEF IsReset
<1>g. CASE HalfCloses(e, p, k, r)
  BY <1>g, <1>0, <1>1, <1>2, <1>3 DEF HalfCloses
<1>h. CASE FullyCloses(e, p, k, r)
  BY <1>h, <1>0, <1>1, <1>2, <1>3 DEF FullyCloses
<1>i. CASE Stores(e, p, k, r)
  BY <1>i, <1>0, <1>1, <1>2, <1>3 DEF Stores, Live
<1>j. CASE Discards(e, p, k, r)
  BY <1>j, <1>0, <1>1, <1>2, <1>3 DEF Discards
<1>k. CASE TakesCredit(e, p, k, r)
  BY <1>k, <1>0, <1>1, <1>2, <1>3, <1>5, <1>6 DEF TakesCredit
<1> QED BY <1>0, <1>a, <1>b, <1>c, <1>d, <1>e, <1>f, <1>g, <1>h, <1>i, <1>j, <1>k DEF Outcome

\* A question or its answer stays under way until the answer is taken.
LEMMA UnderWayKept ==
  ASSUME TypeOK, TaskInv, Step, faults' = 0, NEW z \in Ends, NEW c \in Conns, NEW ask, NEW answers,
         \/ ask = "creditRequest" /\ answers = CreditAnswers
         \/ ask = "request" /\ answers = Verdicts,
         UnderWay(z, c, ask, answers),
         \A p \in Packets : \A k, r : PacketStep(Other(z), c, p, k, r) => p.op \notin answers
  PROVE  UnderWay(z, c, ask, answers)'
<1>0. ask \in Ops /\ \A op \in answers : op \in Ops
  BY DEF Ops, CreditAnswers, Verdicts
<1>1. PICK o \in Ends : o = Other(z) /\ z = Other(o) /\ o # z /\ \A x \in Ends : x = z \/ x = o
  BY EndsFacts
<1>w. wire[z] \in Seq(Packets) /\ wire[o] \in Seq(Packets) /\ pump[z] \in Packets \cup {NoPacket} /\ faults \in Nat
  BY DEF TypeOK
<1>2. CASE CloseListener \/ \E e \in Ends : TransportReset(e)
  BY <1>2, <1>w DEF CloseListener, TransportReset
<1>3. CASE Untouched(c)
  <2>1. \A op \in Ops : (Has(wire'[z], c, op) <=> Has(wire[z], c, op)) /\ (Has(wire'[o], c, op) <=> Has(wire[o], c, op))
    BY <1>3 DEF Untouched, LineKept
  <2>2. Replying(z, c) => pump'[z] = pump[z]
    BY <1>3 DEF Untouched, PumpKept
  <2> QED BY <1>0, <1>1, <2>1, <2>2 DEF UnderWay, Replying
<1>g. ASSUME Grows(z), Grows(o), pump'[z] = pump[z] PROVE UnderWay(z, c, ask, answers)'
  <2>1. Has(wire[z], c, ask) => Has(wire'[z], c, ask)
    BY <1>g, <1>0, GrowsHas
  <2>2. \A op \in answers : Has(wire[o], c, op) => Has(wire'[o], c, op)
    BY <1>g, <1>0, GrowsHas
  <2> QED BY <1>g, <1>1, <2>1, <2>2 DEF UnderWay, Replying
<1>4. CASE Accepts(c) \/ Connects(c)
  <2>1. wire' = wire /\ pump' = pump
    BY <1>4 DEF Accepts, Connects, Decision
  <2> QED BY <1>g, <2>1 DEF Grows
<1>5. ASSUME NEW e \in Ends, TaskStep(e, c) PROVE UnderWay(z, c, ask, answers)'
  <2>1. TaskKeeps(e, c)
    BY <1>5, TaskFrame
  <2>2. Grows(e) /\ Grows(Other(e)) /\ pump' = pump
    BY <2>1 DEF TaskKeeps, Grows
  <2>3. Grows(z) /\ Grows(o)
    BY <1>1, <2>2
  <2> QED BY <1>g, <2>2, <2>3
<1>6. ASSUME NEW e \in Ends, ReplyStep(e, c) PROVE UnderWay(z, c, ask, answers)'
  <2>1. ReplyEffect(e) /\ pump[e].c = c
    BY <1>6, ReplyFacts DEF ReplyStep
  <2>2. /\ pump[e] \in Packets /\ wire'[Other(e)] = Append(wire[Other(e)], pump[e]) /\ wire'[e] = wire[e]
        /\ pump'[Other(e)] = pump[Other(e)]
    BY <1>w, <2>1 DEF ReplyEffect
  <2>3. CASE e = z
    <3>1. Grows(z) /\ Grows(o)
      BY <1>1, <2>2, <2>3 DEF Grows
    <3>2. PICK p \in Packets : p = pump[z] /\ p.c = c /\ wire'[o] = Append(wire[o], p)
      BY <1>1, <2>1, <2>2, <2>3
    <3>3. p.op \in answers => Has(wire'[o], c, p.op)
      BY <1>0, <1>w, <3>2, AppendHas
    <3>4. Has(wire[z], c, ask) => Has(wire'[z], c, ask)
      BY <1>0, <3>1, GrowsHas
    <3>5. \A op \in answers : Has(wire[o], c, op) => Has(wire'[o], c, op)
      BY <1>0, <3>1, GrowsHas
    <3> QED BY <1>1, <3>2, <3>3, <3>4, <3>5 DEF UnderWay, Replying
  <2>4. CASE e = o
    <3>1. Grows(z) /\ Grows(o) /\ pump'[z] = pump[z]
      BY <1>1, <2>2, <2>4 DEF Grows
    <3> QED BY <1>g, <3>1
  <2> QED BY <1>1, <2>3, <2>4
<1>7. ASSUME NEW e \in Ends, NEW p \in Packets, NEW k, NEW r, PacketStep(e, c, p, k, r)
      PROVE  UnderWay(z, c, ask, answers)'
  <2>1. TakesEffect(e, p, k, r) /\ p.c = c /\ Settles(e, c, p, k, r)
    BY <1>7, TakesFacts, PacketSettles DEF PacketStep
  <2>2. /\ wire[e] # <<>> /\ p = Head(wire[e]) /\ wire'[e] = Tail(wire[e]) /\ wire'[Other(e)] = wire[Other(e)]
        /\ pump[e] = NoPacket /\ pump'[e] = r /\ pump'[Other(e)] = pump[Other(e)]
    BY <2>1 DEF TakesEffect
  <2>3. CASE e = z
    <3>1. ~Replying(z, c) /\ wire'[o] = wire[o] /\ pump'[z] = r
      BY <1>1, <2>2, <2>3 DEF Replying
    <3>2. CASE p.op = ask
      <4>1. r \in Packets /\ r.c = c /\ r.op \in answers
        BY <2>1, <3>2 DEF Settles
      <4> QED BY <3>1, <4>1, NoPacketFacts DEF UnderWay, Replying
    <3>3. CASE p.op # ask
      <4>1. Has(wire[z], c, ask) => Has(wire'[z], c, ask)
        BY <1>0, <1>w, <2>2, <2>3, <3>3, TailHas
      <4> QED BY <1>1, <3>1, <4>1 DEF UnderWay
    <3> QED BY <3>2, <3>3
  <2>4. CASE e = o
    <3>1. wire'[z] = wire[z] /\ pump'[z] = pump[z] /\ p.op \notin answers
      BY <1>1, <1>7, <2>2, <2>4
    <3>2. \A op \in answers : Has(wire[o], c, op) => Has(wire'[o], c, op)
      BY <1>0, <1>w, <2>2, <2>4, <3>1, TailHas
    <3> QED BY <1>1, <3>1, <3>2 DEF UnderWay, Replying
  <2> QED BY <1>1, <2>3, <2>4
<1> QED BY <1>2, <1>3, <1>4, <1>5, <1>6, <1>7, Focus DEF ConnStep

\* Credit is asked for or granted, or the connection is about to be reset.
CreditComing(e, c) ==
  \/ \E w \in Writers : pc[e][c][w] = "creditRequest"
  \/ UnderWay(Other(e), c, "creditRequest", CreditAnswers)

\* The request of the connecting end, or what answers it, is under way.
VerdictComing(c) == pc["a"][c]["control"] = "request" \/ UnderWay("b", c, "request", Verdicts)

\* A question that was asked has its answer coming, so that asked, which keeps
\* the writer from asking again, is never a leftover.
PromiseOf(e, c) ==
  /\ conn[e][c].state = "established" /\ conn[e][c].asked => CreditComing(e, c)
  /\ conn[e][c].state = "connecting" => e = "a" /\ VerdictComing(c)

\* At most one writer has a packet out, and as long as the connection is there
\* it is marked busy.
WritingOf(e, c) ==
  \A w \in Writers : Holds(e, c, w) =>
    /\ Exists(e, c) => conn[e][c].transmitting
    /\ \A v \in Writers : Holds(e, c, v) => v = w

Starved(k) == k.state = "none" \/ (k.state = "established" /\ ~k.transmitting /\ PeerFree(k) = 0)

\* Whoever sleeps, or is about to, without a signal since its mark has a reason:
\* another writer's packet, no credit, credit coming, or a handshake that is not over.
SleepOf(e, c) ==
  /\ \A w \in Writers : Unheard(e, c, w) /\ <<e, c, w>> \notin crowded =>
       /\ pc[e][c][w] = "blocked" => Starved(conn[e][c])
       /\ pc[e][c][w] = "parked" => CreditComing(e, c)
  /\ Unheard(e, c, "control") /\ pc[e][c]["control"] = "parked" => conn[e][c].state = "connecting"

RestOf(e, c) == PromiseOf(e, c) /\ WritingOf(e, c) /\ SleepOf(e, c)
RestInv == TableInv /\ seen \in Marks /\ (faults = 0 => \A e \in Ends, c \in Conns : RestOf(e, c))

\* Credit stays on its way until it is taken.
LEMMA CreditKept ==
  ASSUME TypeOK, TaskInv, Step, [Next]_vars, faults' = 0, NEW e \in Ends, NEW c \in Conns, CreditComing(e, c),
         \A p \in Packets : \A k, r : PacketStep(e, c, p, k, r) => p.op \notin CreditAnswers
  PROVE  CreditComing(e, c)'
<1>1. PICK o \in Ends : o = Other(e) /\ Other(o) = e
  BY EndsFacts
<1>2. ASSUME NEW w \in Writers, pc[e][c][w] = "creditRequest" PROVE CreditComing(e, c)'
  <2>1. CASE pc'[e][c][w] = "creditRequest"
    BY <2>1 DEF CreditComing
  <2>2. CASE pc'[e][c][w] # "creditRequest"
    <3>1. Runs(e, c, w)
      BY <1>2, <2>2, WriterRuns
    <3>2. PICK x, y : WriterStep(e, c, w, x, y)
      BY <3>1, WriterSteps
    <3>3. x = "creditRequest" /\ y # "creditRequest"
      BY <1>2, <2>2, <3>2 DEF WriterStep
    <3>4. Has(wire'[Other(e)], c, "creditRequest")
      BY <3>2, <3>3 DEF WriterStep, StartsOver, GivesUp, Blocks, Parks, Requests, Delivers
    <3> QED BY <3>4 DEF CreditComing, UnderWay
  <2> QED BY <2>1, <2>2
<1>3. CASE UnderWay(Other(e), c, "creditRequest", CreditAnswers)
  <2>1. UnderWay(o, c, "creditRequest", CreditAnswers)'
    BY <1>1, <1>3, UnderWayKept
  <2> QED BY <1>1, <2>1 DEF CreditComing
<1> QED BY <1>2, <1>3 DEF CreditComing

\* The request of a connect goes to the wire.
LEMMA RequestSent ==
  ASSUME TypeOK, TaskInv, [Next]_vars, faults' = 0, NEW c \in Conns,
         pc["a"][c]["control"] = "request", pc'["a"][c]["control"] # "request"
  PROVE  Has(wire'["b"], c, "request")
<1>1. CASE NoTurn
  BY <1>1 DEF NoTurn
<1>2. ASSUME NEW z \in Ends, PumpTurn(z) PROVE FALSE
  BY <1>2 DEF PumpTurn
<1>3. ASSUME NEW z \in Ends, NEW d \in Conns, NEW u \in Tasks, NEW y, TaskTurn(z, d, u, y)
      PROVE  Has(wire'["b"], c, "request")
  <2>1. z = "a" /\ d = c /\ u = "control"
    BY <1>3, TaskFacts, EndsFacts DEF TaskTurn, TypeOK
  <2>2. ~TransmitFails("a", c, "control")
    BY DEF TransmitFails, TypeOK
  <2>3. Transmit("a", c, "control")
    BY <1>3, <2>1, <2>2 DEF TaskTurn
  <2>4. CarriesItsOwn("a", c, "control") /\ TransmitEffect("a", c, "control")
    BY <2>3, TransmitsPacket, TransmitFacts, EndsFacts, TaskFacts DEF Transmit
  <2>5. PICK p \in Packets : p = packet["a"][c]["control"] /\ p.c = c /\ p.op = "request"
    BY <2>4 DEF CarriesItsOwn
  <2>6. wire'["b"] = Append(wire["b"], p) /\ wire["b"] \in Seq(Packets)
    BY <2>4, <2>5, EndsFacts DEF TransmitEffect, TypeOK
  <2> QED BY <2>5, <2>6, AppendHas DEF Ops
<1> QED BY <1>1, <1>2, <1>3, Turns

\* The handshake stays under way until its answer is taken.
LEMMA VerdictKept ==
  ASSUME TypeOK, TaskInv, Step, [Next]_vars, faults' = 0, NEW c \in Conns, VerdictComing(c),
         \A p \in Packets : \A k, r : PacketStep("a", c, p, k, r) => p.op \notin Verdicts
  PROVE  VerdictComing(c)'
<1>1. CASE pc["a"][c]["control"] = "request"
  BY <1>1, RequestSent DEF VerdictComing, UnderWay
<1>2. CASE UnderWay("b", c, "request", Verdicts)
  BY <1>2, UnderWayKept, EndsFacts DEF VerdictComing
<1> QED BY <1>1, <1>2 DEF VerdictComing

LEMMA PlanKept ==
  ASSUME TypeOK, TaskInv, Step
  PROVE  plan' = plan
<1>1. ASSUME NEW e \in Ends, NEW c \in Conns, TaskStep(e, c) PROVE plan' = plan
  BY <1>1, TaskFrame DEF TaskKeeps
<1>2. CASE Stays \/ CloseListener \/ \E c \in Conns : Accepts(c) \/ Connects(c)
  BY <1>2 DEF Stays, CloseListener, Accepts, Connects, Decision
<1>3. CASE \E e \in Ends : SendReply(e) \/ TransportReset(e)
  BY <1>3 DEF SendReply, TransportReset
<1>4. CASE \E e \in Ends, p \in Packets : \E k, r : Takes(e, p, k, r) /\ Outcome(e, p, k, r)
  BY <1>4 DEF Takes
<1> QED BY <1>1, <1>2, <1>3, <1>4 DEF Step

\* Who may have changed the entry of connection c at end e.
LEMMA EntryCases ==
  ASSUME TypeOK, TaskInv, Step, faults' = 0, NEW e \in Ends, NEW c \in Conns
  PROVE  \/ conn'[e][c] = conn[e][c] /\ done'[e][c] = done[e][c]
         \/ \E p \in Packets : \E k, r : PacketStep(e, c, p, k, r)
         \/ e = "a" /\ Connects(c)
         \/ EntryTurn(e, c)
<1>1. CASE CloseListener \/ \E z \in Ends : TransportReset(z)
  BY <1>1 DEF CloseListener, TransportReset, TypeOK
<1>2. CASE Untouched(c)
  BY <1>2 DEF Untouched, SideKept
<1>3. CASE Accepts(c)
  BY <1>3 DEF Accepts
<1>4. CASE Connects(c)
  <2>1. PICK p, k : Decision("a", c, "control", "idle", p, k)
    BY <1>4 DEF Connects
  <2>2. e # "a" => conn'[e][c] = conn[e][c] /\ done' = done
    BY <2>1, EndsFacts DEF Decision, TypeOK
  <2> QED BY <1>4, <2>2
<1>5. ASSUME NEW z \in Ends, TaskStep(z, c)
      PROVE  EntryTurn(e, c) \/ (conn'[e][c] = conn[e][c] /\ done'[e][c] = done[e][c])
  <2>1. CASE z = e
    BY <1>5, <2>1, EntryTurns
  <2>2. CASE z # e
    BY <1>5, <2>2, TaskFrame DEF TaskKeeps, SideKept
  <2> QED BY <2>1, <2>2
<1>6. ASSUME NEW z \in Ends, ReplyStep(z, c) PROVE conn' = conn /\ done' = done
  BY <1>6, ReplyFacts DEF ReplyEffect, ReplyStep
<1>7. ASSUME NEW z \in Ends, NEW p \in Packets, NEW k, NEW r, PacketStep(z, c, p, k, r)
      PROVE  PacketStep(e, c, p, k, r) \/ (conn'[e][c] = conn[e][c] /\ done'[e][c] = done[e][c])
  <2>1. TakesEffect(z, p, k, r)
    BY <1>7, TakesFacts DEF PacketStep
  <2> QED BY <1>7, <2>1 DEF TakesEffect
<1> QED BY <1>1, <1>2, <1>3, <1>4, <1>5, <1>6, <1>7, Focus DEF ConnStep

\* What the steps below start from.
Steps == TypeOK /\ TaskInv /\ BirthInv /\ Step /\ [Next]_vars /\ faults' = 0

LEMMA PacketIsHead ==
  ASSUME NEW e \in Ends, NEW c \in Conns, NEW p \in Packets, NEW k, NEW r, PacketStep(e, c, p, k, r)
  PROVE  p = Head(wire[e])
BY DEF PacketStep, Takes

LEMMA PromiseNext ==
  ASSUME Steps, NEW e \in Ends, NEW c \in Conns, PromiseOf(e, c)
  PROVE  PromiseOf(e, c)'
<1>0. TypeOK /\ TaskInv /\ Step /\ [Next]_vars /\ faults' = 0
  BY DEF Steps
<1>k. conn[e][c] \in Connections
  BY <1>0 DEF TypeOK
<1>1. ASSUME NEW p \in Packets, NEW k, NEW r, PacketStep(e, c, p, k, r) PROVE PromiseOf(e, c)'
  <2>1. Settles(e, c, p, k, r) /\ TakesEffect(e, p, k, r) /\ p.c = c
    BY <1>0, <1>1, PacketSettles, TakesFacts DEF PacketStep
  <2>2. conn'[e][c] = k
    BY <2>1 DEF TakesEffect
  <2>3. \A q \in Packets : \A j, s : PacketStep(e, c, q, j, s) => q = p
    BY <1>1, PacketIsHead
  <2>4. ASSUME k.state = "established", k.asked PROVE CreditComing(e, c)'
    <3>1. k = conn[e][c] /\ p.op \notin CreditAnswers
      BY <2>1, <2>4 DEF Settles
    <3>2. CreditComing(e, c)
      BY <2>4, <3>1 DEF PromiseOf
    <3> QED BY <1>0, <2>3, <3>1, <3>2, CreditKept
  <2>5. ASSUME k.state = "connecting" PROVE e = "a" /\ VerdictComing(c)'
    <3>1. conn[e][c].state = "connecting" /\ p.op \notin Verdicts
      BY <2>1, <2>5 DEF Settles
    <3>2. e = "a" /\ VerdictComing(c)
      BY <3>1 DEF PromiseOf
    <3> QED BY <1>0, <2>3, <3>1, <3>2, VerdictKept
  <2> QED BY <2>2, <2>4, <2>5 DEF PromiseOf
<1>2. CASE ~\E p \in Packets : \E k, r : PacketStep(e, c, p, k, r)
  <2>1. CreditComing(e, c) => CreditComing(e, c)'
    BY <1>0, <1>2, CreditKept
  <2>2. e = "a" /\ VerdictComing(c) => VerdictComing(c)'
    BY <1>0, <1>2, VerdictKept
  <2>3. CASE SameSleep(conn'[e][c], conn[e][c])
    BY <2>1, <2>2, <2>3 DEF PromiseOf, SameSleep
  <2>4. CASE conn'[e][c] = Free
    BY <2>4, FreeType DEF PromiseOf
  <2>5. CASE e = "a" /\ Connects(c)
    <3>1. /\ Decision("a", c, "control", "idle", Header("request", c, Free), Opened("connecting"))
          /\ Header("request", c, Free) \in Packets /\ Opened("connecting") \in Connections
      BY <1>0, <2>5, DecisionKinds DEF Connects
    <3>2. Header("request", c, Free).op = "request" /\ Opened("connecting").state = "connecting"
      BY DEF Header, Opened
    <3>3. pc'["a"][c]["control"] = "request" /\ conn'["a"][c] = Opened("connecting")
      <4>1. Header("request", c, Free).op \in Carried
        BY <3>2 DEF Carried
      <4>2. DecisionEffect("a", c, "control", "idle", Header("request", c, Free), Opened("connecting"))
        BY <1>0, <3>1, <4>1, DecisionFacts, EndsFacts, TaskFacts
      <4> QED BY <3>2, <4>2 DEF DecisionEffect
    <3> QED BY <2>5, <3>2, <3>3 DEF PromiseOf, VerdictComing
  <2>7. ASSUME NEW w \in Writers, conn[e][c].state = "established",
               conn'[e][c] = [Announced(conn[e][c]) EXCEPT !.transmitting = TRUE]
        PROVE  PromiseOf(e, c)'
    <3>1. conn'[e][c].state = "established" /\ conn'[e][c].asked = conn[e][c].asked
      BY <1>k, <2>7 DEF Announced, Connections
    <3> QED BY <2>1, <2>7, <3>1 DEF PromiseOf
  <2>8. ASSUME NEW w \in Writers, conn[e][c].state = "established", pc'[e][c][w] = "creditRequest",
               conn'[e][c] = [Announced(conn[e][c]) EXCEPT !.asked = TRUE]
        PROVE  PromiseOf(e, c)'
    <3>1. conn'[e][c].state = "established"
      BY <1>k, <2>8 DEF Announced, Connections
    <3>2. CreditComing(e, c)'
      BY <2>8 DEF CreditComing
    <3> QED BY <3>1, <3>2 DEF PromiseOf
  <2>9. ASSUME NEW w \in Writers, FinishEffect(e, c, w) PROVE PromiseOf(e, c)'
    <3>1. conn'[e][c].state = conn[e][c].state /\ conn'[e][c].asked = conn[e][c].asked
      BY <1>k, <2>9 DEF FinishEffect, Connections
    <3> QED BY <2>1, <2>2, <3>1 DEF PromiseOf
  <2>10. CASE conn'[e][c] = conn[e][c]
    BY <2>1, <2>2, <2>10 DEF PromiseOf
  <2> QED BY <1>0, <1>2, <2>3, <2>4, <2>5, <2>7, <2>8, <2>9, <2>10, EntryCases DEF EntryTurn
<1> QED BY <1>1, <1>2

\* A connection that is only being opened has no writer yet.
LEMMA ConnectsFirst ==
  ASSUME TypeOK, NEW c \in Conns, BirthOf(c), Connects(c)
  PROVE  /\ pc'["a"][c]["control"] = "request"
         /\ \A w \in Writers : pc'["a"][c][w] = "idle"
<1>1. /\ Decision("a", c, "control", "idle", Header("request", c, Free), Opened("connecting"))
      /\ Header("request", c, Free) \in Packets /\ Opened("connecting") \in Connections
  BY DecisionKinds, EndsFacts DEF Connects
<1>2. Header("request", c, Free).op = "request" /\ Header("request", c, Free).op \in Carried
  BY DEF Header, Carried
<1>3. DecisionEffect("a", c, "control", "idle", Header("request", c, Free), Opened("connecting"))
  BY <1>1, <1>2, DecisionFacts, EndsFacts, TaskFacts
<1>4. pc["a"][c]["control"] = "idle" /\ pc'["a"][c]["control"] = "request"
  BY <1>2, <1>3 DEF DecisionEffect
<1>5. \A w \in Writers : pc'["a"][c][w] = pc["a"][c][w]
  BY <1>3, EndsFacts, TaskFacts DEF DecisionEffect
<1>6. \A w \in Writers : pc["a"][c][w] = "idle"
  BY <1>4, TaskFacts DEF BirthOf, Unborn
<1> QED BY <1>4, <1>5, <1>6

\* A writer that has a packet out after a step had one before, or begins in it.
LEMMA HoldsBefore ==
  ASSUME TypeOK, TaskInv, [Next]_vars, faults' = 0, NEW e \in Ends, NEW c \in Conns, NEW w \in Writers,
         Holds(e, c, w)'
  PROVE  \/ Holds(e, c, w)
         \/ /\ pc'[e][c][w] # pc[e][c][w]
            /\ Exists(e, c) /\ ~conn[e][c].transmitting /\ conn'[e][c].transmitting
<1>1. CASE pc'[e][c][w] = pc[e][c][w]
  BY <1>1 DEF Holds
<1>2. CASE pc'[e][c][w] # pc[e][c][w]
  <2>1. Runs(e, c, w)
    BY <1>2, WriterRuns
  <2>2. PICK x, y : WriterStep(e, c, w, x, y)
    BY <2>1, WriterSteps
  <2>3. Delivers(e, c, w, x, y)
    BY <2>2 DEF WriterStep, StartsOver, GivesUp, Blocks, Parks, Requests, Holds
  <2> QED BY <1>2, <2>2, <2>3 DEF WriterStep, Delivers, Holds
<1> QED BY <1>1, <1>2

\* The connection stays busy as long as the writer has its packet out.
LEMMA BusyNext ==
  ASSUME Steps, NEW e \in Ends, NEW c \in Conns, BirthOf(c), WritingOf(e, c),
         NEW w \in Writers, Holds(e, c, w), Holds(e, c, w)', Exists(e, c)'
  PROVE  conn'[e][c].transmitting
<1>0. TypeOK /\ TaskInv /\ Step /\ [Next]_vars /\ faults' = 0
  BY DEF Steps
<1>k. conn[e][c] \in Connections
  BY <1>0 DEF TypeOK
<1>1. Exists(e, c) => conn[e][c].transmitting
  BY DEF WritingOf
<1>2. ASSUME NEW p \in Packets, NEW k, NEW r, PacketStep(e, c, p, k, r) PROVE conn'[e][c].transmitting
  <2>1. Settles(e, c, p, k, r) /\ TakesEffect(e, p, k, r) /\ p.c = c
    BY <1>0, <1>2, PacketSettles, TakesFacts DEF PacketStep
  <2>2. conn'[e][c] = k
    BY <2>1 DEF TakesEffect
  <2>3. CASE p.op = "request" /\ e = "b"
    <3>1. wire["b"] \in Seq(Packets) /\ wire["b"] # <<>> /\ p = Head(wire["b"])
      BY <2>1, <2>3 DEF TakesEffect
    <3>2. 1 \in 1 .. Len(wire["b"]) /\ wire["b"][1] = p
      BY <3>1
    <3>3. Has(wire["b"], c, "request")
      BY <2>1, <2>3, <3>2 DEF Has
    <3>4. pc["b"][c][w] = "idle"
      BY <3>3, TaskFacts DEF BirthOf, Unborn
    <3> QED BY <2>3, <3>4 DEF Holds
  <2>4. CASE k.transmitting = conn[e][c].transmitting /\ (k.state # "none" => Exists(e, c))
    BY <1>1, <2>2, <2>4 DEF Exists
  <2> QED BY <2>1, <2>3, <2>4 DEF Settles
<1>3. CASE e = "a" /\ Connects(c)
  BY <1>0, <1>3, ConnectsFirst DEF Holds
<1>4. CASE EntryTurn(e, c)
  <2>1. CASE SameSleep(conn'[e][c], conn[e][c])
    BY <1>1, <2>1 DEF SameSleep, Exists
  <2>2. CASE conn'[e][c] = Free
    BY <2>2, FreeType DEF Exists
  <2>3. CASE conn'[e][c] = [Announced(conn[e][c]) EXCEPT !.transmitting = TRUE]
    BY <1>k, <2>3 DEF Announced, Connections
  <2>4. CASE conn[e][c].state = "established" /\ conn'[e][c] = [Announced(conn[e][c]) EXCEPT !.asked = TRUE]
    BY <1>k, <1>1, <2>4 DEF Announced, Connections, Exists
  <2>5. ASSUME NEW v \in Writers, FinishEffect(e, c, v) PROVE FALSE
    <3>1. v = w
      BY <2>5 DEF FinishEffect, Holds, WritingOf
    <3> QED BY <2>5, <3>1 DEF FinishEffect, Holds
  <2> QED BY <1>4, <2>1, <2>2, <2>3, <2>4, <2>5 DEF EntryTurn
<1>5. CASE conn'[e][c] = conn[e][c]
  BY <1>1, <1>5 DEF Exists
<1> QED BY <1>0, <1>2, <1>3, <1>4, <1>5, EntryCases

LEMMA WritingNext ==
  ASSUME Steps, NEW e \in Ends, NEW c \in Conns, BirthOf(c), WritingOf(e, c)
  PROVE  WritingOf(e, c)'
<1>0. TypeOK /\ TaskInv /\ Step /\ [Next]_vars /\ faults' = 0
  BY DEF Steps
<1>1. ASSUME NEW w \in Writers, Holds(e, c, w)', Exists(e, c)' PROVE conn'[e][c].transmitting
  BY <1>0, <1>1, HoldsBefore, BusyNext
<1>2. ASSUME NEW v \in Writers, NEW w \in Writers, Holds(e, c, v)', Holds(e, c, w)' PROVE v = w
  <2>1. CASE Holds(e, c, v) /\ Holds(e, c, w)
    BY <2>1 DEF WritingOf
  <2>2. CASE Exists(e, c) /\ ~conn[e][c].transmitting
    <3>1. ~Holds(e, c, v) /\ ~Holds(e, c, w)
      BY <2>2 DEF WritingOf
    <3>2. pc'[e][c][v] # pc[e][c][v] /\ pc'[e][c][w] # pc[e][c][w]
      BY <1>0, <1>2, <3>1, HoldsBefore
    <3> QED BY <1>0, <3>2, OneWriterMoves
  <2> QED BY <1>0, <1>2, <2>1, <2>2, HoldsBefore
<1> QED BY <1>1, <1>2 DEF WritingOf

LEMMA SameStarved ==
  ASSUME NEW k, NEW k2, SameSleep(k2, k), Starved(k)
  PROVE  Starved(k2)
BY DEF SameSleep, Starved, PeerFree

\* A writer that has bytes left and may send none has no credit.
LEMMA NothingAllowed ==
  ASSUME NEW k \in Connections, NEW left \in Int, left > 0, Allowed(k, left) = 0
  PROVE  PeerFree(k) = 0
<1>1. PeerFree(k) \in Nat
  BY PeerFreeType
<1> QED BY <1>1, SizesAssumption DEF Allowed, MinOf

\* A writer asleep with nothing signalled: the pump of its end was idle, so that
\* the entry is what its own tasks left of it.
LEMMA BlockedNext ==
  ASSUME Steps, NEW e \in Ends, NEW c \in Conns, NEW w \in Writers, BirthOf(c), RestOf(e, c),
         Unheard(e, c, w), <<e, c, w>> \notin crowded', Grows(e), pc'[e][c][w] = "blocked"
  PROVE  Starved(conn'[e][c])
<1>0. TypeOK /\ TaskInv /\ BirthInv /\ Step /\ [Next]_vars /\ faults' = 0
  BY DEF Steps
<1>k. conn[e][c] \in Connections /\ done[e][c] \in Nat /\ w \in Tasks
  BY <1>0, TaskFacts DEF TypeOK
<1>1. CASE pc[e][c][w] = "blocked"
  <2>1. Starved(conn[e][c])
    <3>1. <<e, c, w>> \notin crowded
      BY <1>0, <1>1, CrowdedKept
    <3> QED BY <1>1, <3>1 DEF RestOf, SleepOf
  <2>2. ASSUME NEW p \in Packets, NEW k, NEW r, PacketStep(e, c, p, k, r) PROVE FALSE
    <3>1. TakesEffect(e, p, k, r)
      BY <1>0, <2>2, TakesFacts DEF PacketStep
    <3>2. wire[e] # <<>> /\ wire'[e] = Tail(wire[e])
      BY <3>1 DEF TakesEffect
    <3> QED BY <1>0, <3>2, TakenIsNotGrown
  <2>3. ~(e = "a" /\ Connects(c))
    BY <1>0, ConnectsFirst
  <2>4. CASE EntryTurn(e, c)
    <3>1. CASE SameSleep(conn'[e][c], conn[e][c])
      BY <2>1, <3>1, SameStarved
    <3>2. CASE conn'[e][c] = Free
      BY <3>2, FreeType DEF Starved
    <3>3. ~(conn[e][c].state = "established" /\ PeerFree(conn[e][c]) # 0)
      BY <2>1 DEF Starved
    <3>4. CASE conn[e][c].state = "established" /\ conn'[e][c] = [Announced(conn[e][c]) EXCEPT !.asked = TRUE]
      <4>1. /\ conn'[e][c].state = conn[e][c].state /\ conn'[e][c].tx = conn[e][c].tx
            /\ conn'[e][c].peerBuf = conn[e][c].peerBuf /\ conn'[e][c].peerFwd = conn[e][c].peerFwd
            /\ conn'[e][c].transmitting = conn[e][c].transmitting
        BY <1>k, <3>4 DEF Announced, Connections
      <4> QED BY <2>1, <4>1 DEF Starved, PeerFree
    <3>5. ASSUME NEW v \in Writers, FinishEffect(e, c, v) PROVE Starved(conn'[e][c])
      <4>1. Exists(e, c) => conn[e][c].transmitting
        BY <3>5 DEF FinishEffect, Holds, RestOf, WritingOf
      <4>2. ~Exists(e, c)
        BY <2>1, <4>1 DEF Starved, Exists
      <4> QED BY <2>1, <3>5, <4>2 DEF FinishEffect
    <3> QED BY <2>4, <3>1, <3>2, <3>3, <3>4, <3>5 DEF EntryTurn
  <2> QED BY <1>0, <2>1, <2>2, <2>3, <2>4, EntryCases
<1>2. CASE pc[e][c][w] # "blocked"
  <2>1. Runs(e, c, w)
    BY <1>0, <1>2, WriterRuns
  <2>2. PICK x, y : WriterStep(e, c, w, x, y)
    BY <1>0, <2>1, WriterSteps
  <2>3. y = "blocked"
    BY <2>2 DEF WriterStep
  <2>4. Blocks(e, c, w, x, y)
    BY <2>2, <2>3 DEF WriterStep, StartsOver, GivesUp, Parks, Requests, Delivers
  <2>5. pc[e][c][w] = "armed" /\ conn' = conn /\ conn[e][c].state = "established"
    BY <2>2, <2>4 DEF WriterStep, Blocks
  <2>6. ~conn[e][c].transmitting
    BY <2>4 DEF Blocks
  <2>7. Allowed(conn[e][c], plan.bytes[c][e] - done[e][c]) = 0 /\ plan.bytes[c][e] - done[e][c] > 0
    BY <2>4, <2>6 DEF Blocks
  <2>8. plan.bytes[c][e] \in Nat
    BY <1>0, <1>k, <2>5, BegunIsPlanned
  <2>10. PICK left \in Int : left = plan.bytes[c][e] - done[e][c] /\ left > 0
    BY <1>k, <2>7, <2>8
  <2>11. PeerFree(conn[e][c]) = 0
    BY <1>k, <2>7, <2>10, NothingAllowed
  <2> QED BY <2>5, <2>6, <2>11 DEF Starved
<1> QED BY <1>1, <1>2

LEMMA ParkedNext ==
  ASSUME Steps, NEW e \in Ends, NEW c \in Conns, NEW w \in Writers, RestOf(e, c),
         Unheard(e, c, w), <<e, c, w>> \notin crowded', Grows(e), pc'[e][c][w] = "parked"
  PROVE  CreditComing(e, c)'
<1>0. TypeOK /\ TaskInv /\ Step /\ [Next]_vars /\ faults' = 0
  BY DEF Steps
<1>1. ASSUME NEW p \in Packets, NEW k, NEW r, PacketStep(e, c, p, k, r) PROVE FALSE
  <2>1. TakesEffect(e, p, k, r)
    BY <1>0, <1>1, TakesFacts DEF PacketStep
  <2>2. wire[e] # <<>> /\ wire'[e] = Tail(wire[e])
    BY <2>1 DEF TakesEffect
  <2> QED BY <1>0, <2>2, TakenIsNotGrown
<1>2. CreditComing(e, c) => CreditComing(e, c)'
  BY <1>0, <1>1, CreditKept
<1>3. CASE pc[e][c][w] = "parked"
  <2>1. <<e, c, w>> \notin crowded
    BY <1>0, <1>3, CrowdedKept
  <2> QED BY <1>2, <1>3, <2>1 DEF RestOf, SleepOf
<1>4. CASE pc[e][c][w] # "parked"
  <2>1. Runs(e, c, w)
    BY <1>0, <1>4, WriterRuns
  <2>2. PICK x, y : WriterStep(e, c, w, x, y)
    BY <1>0, <2>1, WriterSteps
  <2>3. y = "parked"
    BY <2>2 DEF WriterStep
  <2>4. CASE Parks(e, c, x, y)
    <3>b. pc[e][c][w] = "blocked"
      BY <2>2, <2>4 DEF WriterStep, Parks
    <3>c. <<e, c, w>> \notin crowded
      BY <1>0, <3>b, CrowdedKept
    <3>1. Starved(conn[e][c])
      BY <3>b, <3>c DEF RestOf, SleepOf
    <3>2. conn[e][c].state = "established" /\ conn[e][c].asked
      BY <2>4, <3>1 DEF Parks, Starved, Exists
    <3> QED BY <1>2, <3>2 DEF RestOf, PromiseOf
  <2>5. CASE Requests(e, c, x, y)
    <3>1. Has(wire'[Other(e)], c, "creditRequest")
      BY <2>3, <2>5 DEF Requests
    <3> QED BY <3>1 DEF CreditComing, UnderWay
  <2> QED BY <2>2, <2>3, <2>4, <2>5 DEF WriterStep, StartsOver, GivesUp, Blocks, Delivers
<1> QED BY <1>3, <1>4

LEMMA ConnectingNext ==
  ASSUME Steps, NEW e \in Ends, NEW c \in Conns, BirthOf(c), RestOf(e, c),
         Unheard(e, c, "control"), Grows(e), pc'[e][c]["control"] = "parked"
  PROVE  conn'[e][c].state = "connecting"
<1>0. TypeOK /\ TaskInv /\ Step /\ [Next]_vars /\ faults' = 0
  BY DEF Steps
<1>k. conn[e][c] \in Connections
  BY <1>0 DEF TypeOK
<1>1. CASE pc[e][c]["control"] # "parked"
  BY <1>0, <1>1, ControlParks
<1>2. CASE pc[e][c]["control"] = "parked"
  <2>1. conn[e][c].state = "connecting"
    BY <1>2 DEF RestOf, SleepOf
  <2>2. ASSUME NEW p \in Packets, NEW k, NEW r, PacketStep(e, c, p, k, r) PROVE FALSE
    <3>1. TakesEffect(e, p, k, r)
      BY <1>0, <2>2, TakesFacts DEF PacketStep
    <3>2. wire[e] # <<>> /\ wire'[e] = Tail(wire[e])
      BY <3>1 DEF TakesEffect
    <3> QED BY <1>0, <3>2, TakenIsNotGrown
  <2>3. ~(e = "a" /\ Connects(c))
    BY <1>0, ConnectsFirst
  <2>4. CASE EntryTurn(e, c)
    <3>1. \A w \in Writers : FinishEffect(e, c, w) => conn'[e][c].state = conn[e][c].state
      BY <1>k DEF FinishEffect, Connections
    <3> QED BY <2>1, <2>4, <3>1 DEF EntryTurn, SameSleep
  <2> QED BY <1>0, <2>1, <2>2, <2>3, <2>4, EntryCases
<1> QED BY <1>1, <1>2

LEMMA SleepNext ==
  ASSUME Steps, seen \in Marks, NEW e \in Ends, NEW c \in Conns, BirthOf(c), RestOf(e, c)
  PROVE  SleepOf(e, c)'
<1>0. TypeOK /\ TaskInv /\ [Next]_vars
  BY DEF Steps
<1>1. ASSUME NEW w \in Writers, Unheard(e, c, w)', <<e, c, w>> \notin crowded'
      PROVE  /\ pc'[e][c][w] = "blocked" => Starved(conn'[e][c])
             /\ pc'[e][c][w] = "parked" => CreditComing(e, c)'
  <2>1. CASE pc'[e][c][w] \in {"blocked", "parked"}
    <3>1. w \in Tasks /\ pc'[e][c][w] \in Asleep
      BY <2>1, TaskFacts DEF Asleep
    <3>2. pump'[e] = NoPacket /\ ~seen'[e][c][w]
      BY <1>1 DEF Unheard
    <3>3. Unheard(e, c, w) /\ Grows(e)
      BY <1>0, <3>1, <3>2, Heard
    <3> QED BY <1>1, <3>3, BlockedNext, ParkedNext
  <2> QED BY <2>1
<1>2. ASSUME Unheard(e, c, "control")', pc'[e][c]["control"] = "parked" PROVE conn'[e][c].state = "connecting"
  <2>1. "control" \in Tasks /\ pc'[e][c]["control"] \in Asleep /\ pump'[e] = NoPacket /\ ~seen'[e][c]["control"]
    BY <1>2, TaskFacts DEF Asleep, Unheard
  <2>2. Unheard(e, c, "control") /\ Grows(e)
    BY <1>0, <2>1, Heard
  <2> QED BY <1>2, <2>2, ConnectingNext
<1> QED BY <1>1, <1>2 DEF SleepOf

LEMMA FaultsGrow ==
  ASSUME TypeOK, TaskInv, Step, faults' = 0
  PROVE  faults = 0
<1>0. faults \in Nat
  BY DEF TypeOK
<1>1. ASSUME NEW e \in Ends, NEW c \in Conns, TaskStep(e, c) PROVE faults = 0
  BY <1>1, TaskFrame DEF TaskKeeps
<1>2. CASE Stays \/ CloseListener \/ \E c \in Conns : Accepts(c) \/ Connects(c)
  BY <1>0, <1>2 DEF Stays, CloseListener, Accepts, Connects, Decision
<1>3. CASE \E e \in Ends : SendReply(e) \/ TransportReset(e)
  BY <1>0, <1>3 DEF SendReply, TransportReset
<1>4. CASE \E e \in Ends, p \in Packets : \E k, r : Takes(e, p, k, r) /\ Outcome(e, p, k, r)
  BY <1>4 DEF Takes
<1> QED BY <1>1, <1>2, <1>3, <1>4 DEF Step

LEMMA RestStart ==
  ASSUME Init
  PROVE  RestInv
<1>1. TableInv
  BY TableStart
<1>2. seen \in Marks
  BY DEF Init, Marks
<1>3. ASSUME NEW e \in Ends, NEW c \in Conns PROVE RestOf(e, c)
  <2>1. conn[e][c] = Free /\ \A t \in Tasks : pc[e][c][t] = "idle"
    BY <1>3 DEF Init
  <2>2. Free.state = "none" /\ ~Free.transmitting
    BY DEF Free, Opened
  <2>3. PromiseOf(e, c)
    BY <2>1, <2>2 DEF PromiseOf
  <2>4. WritingOf(e, c)
    BY <2>1, TaskFacts DEF WritingOf, Holds
  <2>5. SleepOf(e, c)
    BY <2>1, TaskFacts DEF SleepOf
  <2> QED BY <2>3, <2>4, <2>5 DEF RestOf
<1> QED BY <1>1, <1>2, <1>3 DEF RestInv

LEMMA RestNext ==
  ASSUME RestInv, [Next]_vars
  PROVE  RestInv'
<1>1. TypeOK /\ TaskInv /\ BirthInv /\ seen \in Marks /\ \A c \in Conns : TableOf(c)
  BY DEF RestInv, TableInv, TaskInv, BirthInv, TableOf
<1>2. Step /\ TableInv' /\ seen' \in Marks
  BY <1>1, NextIsStep, TableNext, MarksKept DEF RestInv
<1>3. ASSUME faults' = 0, NEW e \in Ends, NEW c \in Conns PROVE RestOf(e, c)'
  <2>1. Steps
    BY <1>1, <1>2, <1>3 DEF Steps
  <2>2. faults = 0
    BY <1>1, <1>2, <1>3, FaultsGrow
  <2>3. RestOf(e, c) /\ BirthOf(c) /\ SlotOf(c)
    BY <1>1, <2>2 DEF RestInv, TableOf
  <2>4. PromiseOf(e, c)' /\ WritingOf(e, c)'
    BY <2>1, <2>3, PromiseNext, WritingNext DEF RestOf
  <2>5. SleepOf(e, c)'
    BY <1>1, <2>1, <2>3, SleepNext
  <2> QED BY <2>4, <2>5 DEF RestOf
<1> QED BY <1>2, <1>3 DEF RestInv

\* A write or a connect of the vsock service (VsockService::write and connect of
\* vsock/mod.rs) never waits in vain: as long as nothing was lost, no order of
\* arrival, credit announcement, mark and signal leaves one of them parked once
\* nothing is under way, however many write to one connection, save a writer
\* whose last test of the table found another's packet on its way out.
THEOREM NobodyIsLeftWaiting == Spec => []NobodyWaitsInVain
<1>1. Init => RestInv
  BY RestStart
<1>2. RestInv /\ [Next]_vars => RestInv'
  BY RestNext
<1>3. RestInv => NobodyWaitsInVain
  <2> SUFFICES ASSUME RestInv, Quiescent, faults = 0, NEW e \in Ends, NEW c \in Conns
               PROVE  /\ pc[e][c]["control"] # "parked"
                      /\ \A w \in Writers : <<e, c, w>> \notin crowded => pc[e][c][w] # "parked"
    BY DEF NobodyWaitsInVain, WaitsInVain
  <2>1. RestOf(e, c) /\ \A z \in Ends : wire[z] = <<>> /\ pump[z] = NoPacket
    BY DEF RestInv, Quiescent
  <2>2. \A z \in Ends : \A ask, answers : ~UnderWay(z, c, ask, answers)
    <3>1. \A op : ~Has(<<>>, c, op)
      BY EmptyHas
    <3> QED BY <2>1, <3>1, EndsFacts DEF UnderWay, Replying
  <2>3. \A t \in Tasks : pc[e][c][t] = "parked" => Unheard(e, c, t)
    BY <2>1 DEF Quiescent, Unheard
  <2>4. ~CreditComing(e, c)
    <3>1. \A w \in Writers : pc[e][c][w] # "creditRequest"
      BY TaskFacts DEF Quiescent
    <3> QED BY <2>2, <3>1, EndsFacts DEF CreditComing
  <2>5. ~VerdictComing(c)
    <3>1. pc["a"][c]["control"] # "request"
      BY TaskFacts, EndsFacts DEF Quiescent
    <3> QED BY <2>2, <3>1, EndsFacts DEF VerdictComing
  <2>6. \A w \in Writers : <<e, c, w>> \notin crowded => pc[e][c][w] # "parked"
    BY <2>1, <2>3, <2>4, TaskFacts DEF RestOf, SleepOf
  <2>7. pc[e][c]["control"] # "parked"
    BY <2>1, <2>3, <2>5, TaskFacts DEF RestOf, SleepOf, PromiseOf
  <2> QED BY <2>6, <2>7
<1> QED BY <1>1, <1>2, <1>3, PTL DEF Spec
=============================================================================
