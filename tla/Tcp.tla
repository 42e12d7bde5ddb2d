--------------------------------- MODULE Tcp ---------------------------------
(***************************************************************************)
(* The TCP socket (netstack/src/tcp.rs) and the part of the stack that     *)
(* drives it, delivers to it and lets go of it (netstack/src/stack.rs).    *)
(*                                                                         *)
(* Two machines run this code: "a" connects, "b" listens and accepts one   *)
(* connection.  Between them is a network that, within the budgets of a    *)
(* plan, loses, duplicates and reorders segments.  A method of the socket  *)
(* is an operator on its record; an entry point of the stack, which has it *)
(* to itself, is one step.                                                 *)
(*                                                                         *)
(* A byte is its place in the stream.  Sequence numbers count modulo Wrap  *)
(* and are compared as the code compares them.  The congestion window is   *)
(* taken to be open.  Both ends offer window scaling, as this code always  *)
(* does: a window is counted in units of Unit bytes once the handshake is  *)
(* done.  Timestamps and selective acknowledgement are left out.           *)
(***************************************************************************)
EXTENDS Integers, Sequences, FiniteSets, SequencesExt

CONSTANTS
  Wrap,          \* sequence numbers count modulo Wrap
  Window,        \* TCP_RECEIVE_BYTES
  Unit,          \* 2^TCP_LOCAL_WINDOW_SCALE
  MaxField,      \* the largest window a header can carry, u16::MAX
  Mss,           \* peer_max_segment_size
  UpdateBytes,   \* TCP_WINDOW_UPDATE_BYTES
  MaxOutOfOrder, \* MAX_TCP_OUT_OF_ORDER_SEGMENTS
  MaxInFlight,   \* MAX_TCP_IN_FLIGHT_SEGMENTS
  QuickAcks,     \* TCP_QUICKACK_SEGMENTS
  DelayedAcks,   \* TCP_DELAYED_ACK_SEGMENTS
  MaxAcks,       \* TCP_MAX_QUEUED_ACKS
  LossAcks,      \* duplicate acknowledgements that ask for a fast retransmit
  MaxTries,      \* TCP_MAX_RETRANSMISSIONS
  Iss,           \* Iss[e]: the initial sequence number of e
  Plans          \* what programs and network may do in one behaviour: see plan

Ends == {"a", "b"}
Other(e) == IF e = "a" THEN "b" ELSE "a"
Timers == {"rto", "persist", "delayed", "timewait"}

ASSUME SequenceAssumption == Wrap \in Nat /\ Wrap > 4 * Window /\ Iss \in [Ends -> 0 .. Wrap - 1]
ASSUME SizesAssumption ==
  {Window, Unit, MaxField, Mss, UpdateBytes, MaxOutOfOrder, MaxInFlight, MaxAcks, LossAcks, DelayedAcks} \subseteq Nat \ {0}
ASSUME LimitsAssumption == {QuickAcks, MaxTries} \subseteq Nat
ASSUME PlansAssumption ==
  \A p \in Plans :
    /\ p.bytes \in [Ends -> Nat] /\ {p.closesLast, p.drops} \subseteq SUBSET Ends
    /\ {p.write, p.read} \subseteq Nat \ {0}
    /\ {p.losses, p.copies, p.swaps, p.early} \subseteq Nat

VARIABLES
  plan,   \* bytes[e]: the bytes e's program writes, write at a time, before
          \* it closes; closesLast: the ends that read to the end first; read:
          \* what one read takes; drops: the ends that let go of the socket
          \* early; losses, copies, swaps: what the network may do; early:
          \* timeouts that fire while an answer is on its way
  sock,   \* sock[e]: the socket of e
  net,    \* net[e]: the segments on their way to e
  used,   \* what the network and the timers have used of the plan
  wrote,  \* wrote[e]: bytes e's program handed over
  got,    \* got[e]: bytes e's program read
  ended   \* ended[e]: it was told of an orderly end

vars == <<plan, sock, net, used, wrote, got, ended>>

NoFin == -1
NoProbe == [seq |-> -1, fin |-> FALSE]
MinOf(x, y) == IF x <= y THEN x ELSE y
MaxOf(x, y) == IF x >= y THEN x ELSE y
Plus(x, n) == (x + n) % Wrap
Minus(x, y) == (x - y + Wrap) % Wrap
Less(x, n) == MaxOf(x - n, 0)
SequenceLeq(x, y) == Minus(y, x) < Wrap \div 2
SequenceLt(x, y) == x # y /\ SequenceLeq(x, y)

Segment(flags, seq, ack, win, data) ==
  [flags |-> flags, seq |-> seq, ack |-> ack, win |-> win, data |-> data]
\* receive_sequence_len: a SYN is not counted
SequenceLen(p) == Len(p.data) + IF "FIN" \in p.flags THEN 1 ELSE 0

\* receive_window_size, in units
WindowSize(buffered, unit) == MinOf(Less(Window, buffered) \div unit, MaxField)

Closed == [state |-> "Closed", kind |-> "none", indexed |-> FALSE, orphan |-> FALSE, held |-> TRUE,
  una |-> 0, nxt |-> 0, rcv |-> 0, adv |-> WindowSize(0, 1), unit |-> 1, edge |-> 0, peerWin |-> MaxField,
  inq |-> <<>>, ooo |-> {}, fin |-> NoFin, outq |-> <<>>, flight |-> <<>>, inFlight |-> 0,
  synQueued |-> FALSE, finQueued |-> FALSE, acks |-> 0, dups |-> 0, fast |-> FALSE,
  persist |-> FALSE, probe |-> NoProbe, delayed |-> FALSE, unacked |-> 0, quick |-> QuickAcks, grown |-> 0]

Sending == {"Established", "CloseWait", "FinWait1", "LastAck"}
Receiving == {"Established", "FinWait1", "FinWait2"}
Synchronised == Sending \cup {"FinWait2", "Closing"}
SetClosed(s, kind) == [s EXCEPT !.state = "Closed", !.kind = kind]

----------------------------------------------------------------------------
(* Acknowledgements the socket owes, and the window they carry.            *)

RequestAck(s) == [s EXCEPT !.acks = MaxOf(@, 1), !.delayed = FALSE, !.unacked = 0, !.grown = 0]
RequestDuplicateAck(s) ==
  [s EXCEPT !.acks = MinOf(@ + 1, MaxAcks), !.delayed = FALSE, !.unacked = 0, !.grown = 0]
NoteAckEmitted(s) == [s EXCEPT !.acks = Less(@, 1), !.delayed = FALSE, !.unacked = 0]

NoteInboundPayload(s) ==
  LET noted == [s EXCEPT !.unacked = @ + 1, !.quick = Less(@, 1)]
  IN  IF s.quick # 0 \/ noted.unacked >= DelayedAcks THEN RequestAck(noted)
      ELSE [noted EXCEPT !.delayed = TRUE]

Buffered(s) == Len(s.inq) + FoldSet(LAMBDA f, n : n + Len(f.data), 0, s.ooo)

\* Mutant of RefreshAdvertisedWindow: the window follows the free space alone.
RefreshAdvertisedWindowShrinks(s) ==
  LET adv == WindowSize(Buffered(s), s.unit)
  IN  [s EXCEPT !.adv = adv, !.edge = Plus(s.rcv, adv * s.unit)]

\* The free space, or what is still open at the edge the peer was told of; both
\* are cut to whole units.
RefreshAdvertisedWindow(s) ==
  LET free == WindowSize(Buffered(s), s.unit)
      open == MinOf(Minus(s.edge, s.rcv) \div s.unit, MaxField)
      adv == IF SequenceLt(s.rcv, s.edge) THEN MaxOf(free, open) ELSE free
  IN  [s EXCEPT !.adv = adv, !.edge = Plus(s.rcv, adv * s.unit)]

SetReceiveBase(s, seq) == RefreshAdvertisedWindow([s EXCEPT !.rcv = seq, !.edge = seq])

\* The options and the window of a SYN, which is not scaled.
RecordPeerOptions(s, p) == [RefreshAdvertisedWindow([s EXCEPT !.unit = Unit]) EXCEPT !.peerWin = p.win]

ScaledPeerWindow(p) == p.win * Unit

\* Where the window that a header of s shows ends.
ShownEdge(s) == Plus(s.rcv, s.adv * s.unit)
InReceiveWindow(s, seq) == SequenceLeq(s.rcv, seq) /\ SequenceLt(seq, ShownEdge(s))

ReceiveSequenceAcceptable(s, p) ==
  LET len == SequenceLen(p)
  IN  IF len = 0 THEN IF s.adv = 0 THEN p.seq = s.rcv ELSE InReceiveWindow(s, p.seq)
      ELSE s.adv # 0 /\ (InReceiveWindow(s, p.seq) \/ InReceiveWindow(s, Plus(p.seq, len - 1)))

----------------------------------------------------------------------------
(* Receiving.                                                              *)

\* Mutant of ConsumePendingReceiveFin: a FIN ahead of a hole is taken at once.
ConsumePendingReceiveFinEarly(s) ==
  IF s.fin = NoFin THEN s
  ELSE RequestAck([s EXCEPT
         !.fin = NoFin,
         !.rcv = Plus(@, 1),
         !.state = CASE @ = "Established" -> "CloseWait" [] @ = "FinWait1" -> "Closing"
                     [] @ = "FinWait2" -> "TimeWait" [] OTHER -> @])

ConsumePendingReceiveFin(s) ==
  IF s.fin # s.rcv THEN s
  ELSE RequestAck([s EXCEPT
         !.fin = NoFin,
         !.rcv = Plus(@, 1),
         !.state = CASE @ = "Established" -> "CloseWait" [] @ = "FinWait1" -> "Closing"
                     [] @ = "FinWait2" -> "TimeWait" [] OTHER -> @])

NoteReceiveFin(s, p) ==
  LET fin == Plus(p.seq, Len(p.data))
  IN  IF SequenceLt(fin, s.rcv) THEN RequestAck(s)
      ELSE RequestAck(ConsumePendingReceiveFin([s EXCEPT !.fin = fin]))

\* The byte of the out-of-order queue with sequence number seq.
HoldsOutOfOrder(s, seq) == \E f \in s.ooo : Minus(seq, f.seq) < Len(f.data)
OutOfOrderByte(s, seq) ==
  LET f == CHOOSE f \in s.ooo : Minus(seq, f.seq) < Len(f.data) IN f.data[Minus(seq, f.seq) + 1]

\* Bytes held from receive_next on, without a hole.
ContiguousOutOfOrder(s) ==
  CHOOSE n \in 0 .. Window :
    /\ \A i \in 0 .. n - 1 : HoldsOutOfOrder(s, Plus(s.rcv, i))
    /\ ~HoldsOutOfOrder(s, Plus(s.rcv, n))

DrainContiguousOutOfOrder(s) ==
  LET n == ContiguousOutOfOrder(s)
      rcv == Plus(s.rcv, n)
  IN  [s EXCEPT !.inq = @ \o [i \in 1 .. n |-> OutOfOrderByte(s, Plus(s.rcv, i - 1))],
                !.rcv = rcv,
                !.ooo = {f \in @ : SequenceLt(rcv, Plus(f.seq, Len(f.data)))}]

\* The runs of the payload that no held segment covers, in order.
Fragments(s, seq, data) ==
  LET new == {i \in DOMAIN data : ~HoldsOutOfOrder(s, Plus(seq, i - 1))}
      run(i, j) == i .. j \subseteq new /\ i - 1 \notin new /\ j + 1 \notin new
  IN  {[seq |-> Plus(seq, r[1] - 1), data |-> SubSeq(data, r[1], r[2])] :
         r \in {q \in new \X new : q[1] <= q[2] /\ run(q[1], q[2])}}

\* insert_out_of_order_payload: the first fragments that there is room for
InsertOutOfOrder(s, seq, data) ==
  LET fragments == Fragments(s, seq, data)
      before(f) == {g \in fragments : SequenceLt(g.seq, f.seq)}
  IN  [s EXCEPT !.ooo = @ \cup {f \in fragments : Cardinality(s.ooo) + Cardinality(before(f)) < MaxOutOfOrder}]
OutOfOrderRoom(s, seq, data) ==
  Cardinality(s.ooo) + Cardinality(Fragments(s, seq, data)) <= MaxOutOfOrder

PushContiguousPayload(s, data) ==
  LET pushed == [s EXCEPT !.inq = @ \o data, !.rcv = Plus(@, Len(data))]
      drained == DrainContiguousOutOfOrder(pushed)
      refreshed == RefreshAdvertisedWindow(drained)
  IN  IF drained.rcv = pushed.rcv THEN NoteInboundPayload(refreshed) ELSE RequestAck(refreshed)

\* A payload that is old, in order once its old part is cut, or ahead of a hole.
ReceivePayload(s, seq, data) ==
  IF SequenceLeq(Plus(seq, Len(data)), s.rcv) THEN RequestDuplicateAck(s)
  ELSE IF SequenceLeq(seq, s.rcv)
       THEN PushContiguousPayload(s, SubSeq(data, Minus(s.rcv, seq) + 1, Len(data)))
       ELSE RequestDuplicateAck(RefreshAdvertisedWindow(InsertOutOfOrder(s, seq, data)))

\* receive_payload failed: the segment, its FIN included, is dropped
Refused(s, seq, data) ==
  /\ SequenceLt(s.rcv, seq)
  /\ ~OutOfOrderRoom(s, seq, data)

----------------------------------------------------------------------------
(* What an acknowledgement does to the sender.                             *)

\* Mutant of DiscardAckedSegments: a segment is done once its first byte is.
DiscardAckedSegmentsByStart(flight, ack) == SelectSeq(flight, LAMBDA f : ~SequenceLeq(f.seg.seq, ack))

DiscardAckedSegments(flight, ack) ==
  LET end(f) == Plus(f.seg.seq, f.len)
      kept == SelectSeq(flight, LAMBDA f : ~SequenceLeq(end(f), ack))
      trim == Minus(ack, kept[1].seg.seq)
  IN  IF kept = <<>> \/ ~SequenceLt(kept[1].seg.seq, ack) THEN kept
      ELSE [kept EXCEPT ![1].seg.seq = ack, ![1].len = Less(@, trim),
                        ![1].seg.data = SubSeq(@, trim + 1, Len(@))]

\* The queue without its first byte; each write is a chunk of it.
DiscardFrontByte(outq) ==
  IF Len(Head(outq)) > 1 THEN <<Tail(Head(outq))>> \o Tail(outq) ELSE Tail(outq)

\* The bytes a probe carries stay in the queue until they are acknowledged; it is
\* a panic when they are not there.
DiscardAckedPersistProbe(s, ack) ==
  IF s.probe = NoProbe \/ ~SequenceLt(s.probe.seq, ack) THEN s
  ELSE IF s.probe.fin
       THEN [s EXCEPT !.probe = NoProbe, !.finQueued = TRUE,
                      !.nxt = IF s.finQueued THEN @ ELSE Plus(@, 1)]
  ELSE IF s.outq = <<>> THEN [s EXCEPT !.kind = "Panic"]
  ELSE [s EXCEPT !.probe = NoProbe, !.nxt = Plus(@, 1), !.outq = DiscardFrontByte(@)]

HighestSentSequence(s) ==
  IF s.probe = NoProbe THEN s.nxt ELSE MaxOf(s.nxt, Plus(s.probe.seq, 1))

HasPersistPendingData(s) ==
  /\ s.state \in Sending
  /\ s.outq # <<>> \/ (s.state \in {"FinWait1", "LastAck"} /\ ~s.finQueued)

\* Mutant of ArmPersistTimer: the closed window is left to the retransmission timer.
ArmPersistTimerInFlight(s) ==
  [s EXCEPT !.persist = s.peerWin = 0 /\ HasPersistPendingData(s) /\ s.flight # <<>>]

ArmPersistTimer(s) == [s EXCEPT !.persist = s.peerWin = 0 /\ HasPersistPendingData(s)]

RefreshPersistAfterAck(s) ==
  IF s.peerWin # 0 THEN [s EXCEPT !.persist = FALSE, !.probe = NoProbe] ELSE ArmPersistTimer(s)

\* The state once the FIN is acknowledged.
FinAcknowledged(s) ==
  CASE s.state = "FinWait1" -> [s EXCEPT !.state = "FinWait2"]
    [] s.state = "Closing"  -> [s EXCEPT !.state = "TimeWait"]
    [] s.state = "LastAck"  -> SetClosed(s, "Graceful")
    [] OTHER -> s

NoteDuplicateAck(s) ==
  IF s.flight = <<>> THEN s
  ELSE [s EXCEPT !.dups = MinOf(@ + 1, LossAcks), !.fast = @ \/ s.dups + 1 >= LossAcks]

AcknowledgeSent(s, ack, eligible) ==
  IF SequenceLeq(ack, s.una)
  THEN IF ack = s.una /\ eligible THEN NoteDuplicateAck(s) ELSE s
  ELSE LET probed == s.probe # NoProbe /\ SequenceLeq(ack, Plus(s.probe.seq, 1)) /\ SequenceLeq(s.nxt, s.probe.seq)
           acked == Minus(IF probed THEN s.nxt ELSE ack, s.una)
           discarded == DiscardAckedPersistProbe(
                          [s EXCEPT !.una = ack, !.dups = 0, !.fast = FALSE, !.inFlight = Less(@, acked),
                                    !.flight = DiscardAckedSegments(@, ack)], ack)
       IN  IF discarded.kind = "Panic" THEN discarded
           ELSE RefreshPersistAfterAck(
             IF discarded.finQueued /\ SequenceLeq(discarded.nxt, ack)
             THEN FinAcknowledged(discarded) ELSE discarded)

DuplicateAckEligible(s, p) ==
  p.ack = s.una /\ p.data = <<>> /\ p.flags = {"ACK"} /\ ScaledPeerWindow(p) = s.peerWin

----------------------------------------------------------------------------
(* on_segment, by state: the socket after it, and the reset it answers.    *)

Handled(s) == [sock |-> s, out |-> <<>>]
UnacceptableAckReset(s, p) == [sock |-> s, out |-> <<Segment({"RST"}, p.ack, 0, 0, <<>>)>>]

OnSynSent(s, p) ==
  LET acceptable == SequenceLt(s.una, p.ack) /\ SequenceLeq(p.ack, s.nxt)
      joined == SetReceiveBase(RecordPeerOptions(s, p), Plus(p.seq, 1))
  IN  CASE "RST" \in p.flags ->
             Handled(IF "ACK" \in p.flags /\ acceptable THEN SetClosed(s, "Reset") ELSE s)
        [] "RST" \notin p.flags /\ "ACK" \in p.flags /\ ~acceptable -> UnacceptableAckReset(s, p)
        [] "RST" \notin p.flags /\ {"SYN", "ACK"} \subseteq p.flags /\ acceptable ->
             Handled([AcknowledgeSent(joined, p.ack, FALSE) EXCEPT !.state = "Established", !.acks = MaxOf(@, 1)])
        [] OTHER -> Handled(s)

\* What comes with the acknowledgement of the SYN-ACK is dropped.
OnSynReceived(s, p) ==
  CASE "RST" \in p.flags ->
         Handled(IF ReceiveSequenceAcceptable(s, p) THEN SetClosed(s, "Reset") ELSE s)
    [] "RST" \notin p.flags /\ "ACK" \in p.flags /\ p.ack # s.nxt -> UnacceptableAckReset(s, p)
    [] "RST" \notin p.flags /\ "ACK" \in p.flags /\ p.ack = s.nxt ->
         Handled([AcknowledgeSent([s EXCEPT !.peerWin = ScaledPeerWindow(p)], p.ack, FALSE) EXCEPT !.state = "Established"])
    [] OTHER -> Handled(s)

\* The acknowledgement and the window of a segment, unless it is an old one.
TakeAcknowledgement(s, p) ==
  IF SequenceLt(p.ack, s.una) THEN s
  ELSE AcknowledgeSent([s EXCEPT !.peerWin = ScaledPeerWindow(p)], p.ack, DuplicateAckEligible(s, p))

TakePayloadAndFin(s, p) ==
  LET takes == p.data # <<>> /\ s.state \in Receiving
      taken == IF takes THEN ReceivePayload(s, p.seq, p.data) ELSE s
  IN  IF "FIN" \in p.flags /\ ~(takes /\ Refused(s, p.seq, p.data)) THEN NoteReceiveFin(taken, p) ELSE taken

OnSynchronised(s, p) ==
  IF "RST" \in p.flags
  THEN IF ReceiveSequenceAcceptable(s, p) THEN SetClosed(s, "Reset") ELSE s
  ELSE IF "ACK" \notin p.flags THEN s
  ELSE IF SequenceLt(HighestSentSequence(s), p.ack) THEN RequestAck(s)
  ELSE IF ~ReceiveSequenceAcceptable(s, p) THEN RequestDuplicateAck(s)
  ELSE IF "SYN" \in p.flags THEN SetClosed(s, "Reset")
  ELSE TakePayloadAndFin(TakeAcknowledgement(s, p), p)

OnSegment(s, p) ==
  CASE s.state = "SynSent" -> OnSynSent(s, p)
    [] s.state = "SynReceived" -> OnSynReceived(s, p)
    [] s.state \in Synchronised -> Handled(OnSynchronised(s, p))
    [] s.state = "TimeWait" ->
         Handled(IF "FIN" \in p.flags /\ ReceiveSequenceAcceptable(s, p) THEN RequestAck(s) ELSE s)
    [] OTHER -> Handled(s)

----------------------------------------------------------------------------
(* What the socket wants on the wire.                                      *)

\* A sent segment that awaits its acknowledgement.
InFlight(s, seg, len) ==
  [s EXCEPT !.flight = Append(@, [seg |-> seg, len |-> len, tries |-> 0]), !.inFlight = @ + len]

PendingPersistProbe(s, due) ==
  IF s.peerWin # 0 \/ ~s.persist \/ ~due THEN NoProbe
  ELSE IF s.outq # <<>> THEN [seq |-> s.nxt, fin |-> FALSE]
  ELSE IF s.state \in {"FinWait1", "LastAck"} /\ ~s.finQueued THEN [seq |-> s.nxt, fin |-> TRUE]
  ELSE NoProbe

TakeDataSegment(s, available, probe) ==
  LET chunk == Head(s.outq)
      n == MinOf(Len(chunk), MinOf(available, Mss))
      data == SubSeq(chunk, 1, n)
      seg == Segment({"ACK"}, s.nxt, s.rcv, s.adv, data)
      rest == IF n = Len(chunk) THEN Tail(s.outq) ELSE <<SubSeq(chunk, n + 1, Len(chunk))>> \o Tail(s.outq)
      sent == IF probe # NoProbe THEN [s EXCEPT !.probe = probe]
              ELSE InFlight([s EXCEPT !.outq = rest, !.nxt = Plus(@, n)], seg, n)
  IN  [sock |-> NoteAckEmitted(sent), out |-> <<seg>>]

TakeFinSegment(s, probe) ==
  LET seg == Segment({"ACK", "FIN"}, s.nxt, s.rcv, s.adv, <<>>)
      sent == IF probe # NoProbe THEN [s EXCEPT !.probe = probe]
              ELSE InFlight([s EXCEPT !.finQueued = TRUE, !.nxt = Plus(@, 1), !.persist = FALSE], seg, 1)
  IN  [sock |-> NoteAckEmitted(sent), out |-> <<seg>>]

TakeTransmitSegment(s0, due) ==
  LET s == ArmPersistTimer(s0)
      probe == PendingPersistProbe(s, due)
      available == IF probe # NoProbe THEN 1 ELSE Less(s.peerWin, s.inFlight)
  IN  IF available = 0 \/ (probe = NoProbe /\ Len(s.flight) >= MaxInFlight) THEN Handled(s)
      ELSE IF s.state \in Sending /\ ~s.finQueued /\ s.outq # <<>> THEN TakeDataSegment(s, available, probe)
      ELSE IF s.state \in {"FinWait1", "LastAck"} /\ ~s.finQueued /\ s.outq = <<>>
              /\ (probe # NoProbe \/ s.peerWin # 0)
           THEN TakeFinSegment(s, probe)
      ELSE Handled(s)

\* pending_syn and pending_syn_ack, with mark_syn_queued and mark_syn_ack_queued
TakeSyn(s) ==
  LET seg == IF s.state = "SynSent" THEN Segment({"SYN"}, s.una, 0, WindowSize(Buffered(s), 1), <<>>)
             ELSE Segment({"SYN", "ACK"}, s.una, s.rcv, WindowSize(Buffered(s), 1), <<>>)
  IN  IF s.state \in {"SynSent", "SynReceived"} /\ ~s.synQueued
      THEN [sock |-> InFlight([s EXCEPT !.synQueued = TRUE], seg, 1), out |-> <<seg>>]
      ELSE Handled(s)

\* Every acknowledgement owed is a segment of its own.
TakeAcks(s) ==
  [sock |-> IF s.acks = 0 THEN s ELSE [NoteAckEmitted(s) EXCEPT !.acks = 0],
   out |-> [i \in 1 .. s.acks |-> Segment({"ACK"}, s.nxt, s.rcv, s.adv, <<>>)]]

PendingRetransmission(s, due) == s.flight # <<>> /\ (s.fast \/ due)

MarkRetransmissionQueued(s) ==
  LET retried == [s EXCEPT !.flight[1].tries = @ + 1, !.fast = FALSE, !.dups = IF s.fast THEN @ ELSE 0]
  IN  IF retried.flight[1].tries > MaxTries
      THEN [SetClosed(s, "Unresponsive") EXCEPT !.inFlight = 0, !.flight = <<>>, !.fast = FALSE]
      ELSE retried

ExpireTimers(s, due) ==
  IF s.state = "TimeWait" /\ "timewait" \in due
  THEN SetClosed([s EXCEPT !.indexed = FALSE], "Graceful")
  ELSE IF s.delayed /\ "delayed" \in due THEN RequestAck(s) ELSE s

PendingReset(s) == Segment({"RST", "ACK"}, s.nxt, s.rcv, 0, <<>>)

\* close_tcp_socket and sweep_tcp_orphans: nothing is left of the socket
Removed == [Closed EXCEPT !.held = FALSE]

SweepOrphan(s) ==
  CASE s.orphan /\ s.state = "Closed" -> Handled(Removed)
    [] s.orphan /\ s.state # "Closed" /\ Buffered(s) # 0 -> [sock |-> Removed, out |-> <<PendingReset(s)>>]
    [] OTHER -> Handled(s)

\* What follows r, with what r has sent before it.
Then(r, next) == [sock |-> next.sock, out |-> r.out \o next.out]

\* The oldest segment in flight again.
Resend(s) == [sock |-> MarkRetransmissionQueued(s), out |-> <<s.flight[1].seg>>]

\* What drive_tcp queues for a socket: acknowledgements go before the
\* retransmission, or before the data that was taken first.
AcksFirst(data) ==
  LET acks == TakeAcks(data.sock) IN [acks EXCEPT !.out = @ \o data.out]
Queued(s, due) ==
  IF PendingRetransmission(s, "rto" \in due)
  THEN LET acks == TakeAcks(s) IN Then(acks, Resend(acks.sock))
  ELSE LET syn == TakeSyn(s) IN Then(syn, AcksFirst(TakeTransmitSegment(syn.sock, "persist" \in due)))

Sweep(r) == Then(r, SweepOrphan(r.sock))

\* One pass of drive_tcp over the socket, after the timers in due ran out.
Transmitted(s, due) == IF s.state \in {"Closed", "Listen"} THEN Handled(s) ELSE Queued(s, due)
Driven(s, due) == Sweep(Transmitted(ExpireTimers(s, due), due))

----------------------------------------------------------------------------
(* The stack and its callers.                                              *)

\* open_tcp_connect at "a", open_tcp_listen at "b"
Init ==
  /\ plan \in Plans
  /\ sock = [e \in Ends |->
       IF e = "a" THEN [Closed EXCEPT !.state = "SynSent", !.indexed = TRUE, !.una = Iss[e], !.nxt = Plus(Iss[e], 1)]
       ELSE [Closed EXCEPT !.state = "Listen"]]
  /\ net = [e \in Ends |-> <<>>]
  /\ used = [losses |-> 0, copies |-> 0, swaps |-> 0, early |-> 0]
  /\ wrote = [e \in Ends |-> 0]
  /\ got = [e \in Ends |-> <<>>]
  /\ ended = [e \in Ends |-> FALSE]

Owned(e) == sock[e].held /\ ~sock[e].orphan /\ sock[e].state \notin {"Listen", "SynSent", "SynReceived"}
Becomes(e, s) == sock' = [sock EXCEPT ![e] = s]
Emits(e, out) == net' = [net EXCEPT ![Other(e)] = @ \o out]

\* tcp_send: a write that fits the transmit buffer
Send(e) ==
  LET n == MinOf(plan.write, plan.bytes[e] - wrote[e])
  IN  /\ Owned(e) /\ n > 0
      /\ sock[e].state \in {"Established", "CloseWait"}
      /\ Becomes(e, [sock[e] EXCEPT !.outq = Append(@, [i \in 1 .. n |-> wrote[e] + i])])
      /\ wrote' = [wrote EXCEPT ![e] = @ + n]
      /\ UNCHANGED <<plan, net, used, got, ended>>

CloseSend(s) ==
  [s EXCEPT !.state = CASE @ = "Established" -> "FinWait1" [] @ = "CloseWait" -> "LastAck" [] OTHER -> @]

\* tcp_shutdown_send, once everything is written
ShutdownSend(e) ==
  /\ Owned(e) /\ wrote[e] = plan.bytes[e] /\ (e \in plan.closesLast => ended[e])
  /\ sock[e].state \in {"Established", "CloseWait"}
  /\ Becomes(e, CloseSend(sock[e]))
  /\ UNCHANGED <<plan, net, used, wrote, got, ended>>

\* should_advertise_window_update: the growth since the last acknowledgement
GrownWindow(s, before) == IF s.adv > before /\ before # 0 THEN [s EXCEPT !.grown = @ + (s.adv - before) * s.unit] ELSE s
ReopensWindow(s, before) == s.adv > before /\ (before = 0 \/ s.grown >= UpdateBytes)

CompleteReceiveDrain(s, before) ==
  LET drained == DrainContiguousOutOfOrder(s)
      refreshed == GrownWindow(RefreshAdvertisedWindow(ConsumePendingReceiveFin(drained)), before)
  IN  IF drained.rcv # s.rcv \/ ReopensWindow(refreshed, before) THEN RequestAck(refreshed) ELSE refreshed

\* tcp_read: data, or how the stream ended once there is none
Read(e) ==
  LET s == ConsumePendingReceiveFin(sock[e])
      n == MinOf(plan.read, Len(s.inq))
      over == s.state \in {"CloseWait", "Closing", "LastAck", "TimeWait"} \/ s.kind = "Graceful"
  IN  /\ Owned(e)
      /\ \/ /\ n > 0
            /\ Becomes(e, CompleteReceiveDrain([s EXCEPT !.inq = SubSeq(@, n + 1, Len(@))], s.adv))
            /\ got' = [got EXCEPT ![e] = @ \o SubSeq(s.inq, 1, n)]
            /\ UNCHANGED ended
         \/ /\ n = 0 /\ ((over /\ ~ended[e]) \/ s # sock[e])
            /\ Becomes(e, s)
            /\ ended' = [ended EXCEPT ![e] = @ \/ over]
            /\ UNCHANGED got
      /\ UNCHANGED <<plan, net, used, wrote>>

\* close_tcp_socket by the action close_action names: the FIN sequence runs on
\* without an owner, or the connection is reset for what nobody will read
Drop(e) ==
  LET s == sock[e]
      resets == s.state \in {"Established", "CloseWait"} /\ Buffered(s) # 0
  IN  /\ Owned(e) /\ e \in plan.drops
      /\ \/ s.state = "Closed" /\ Becomes(e, Removed) /\ UNCHANGED net
         \/ resets /\ Becomes(e, Removed) /\ Emits(e, <<PendingReset(s)>>)
         \/ /\ s.state # "Closed" /\ ~resets
            /\ Becomes(e, [CloseSend(s) EXCEPT !.orphan = TRUE])
            /\ UNCHANGED net
      /\ UNCHANGED <<plan, used, wrote, got, ended>>

\* The child a listener opens for a SYN.
Accepted(e, p) ==
  LET child == SetReceiveBase([Closed EXCEPT !.state = "SynReceived", !.indexed = TRUE,
                                 !.una = Iss[e], !.nxt = Plus(Iss[e], 1)], Plus(p.seq, 1))
  IN  RecordPeerOptions(child, p)

TcpResetResponse(p) ==
  IF "RST" \in p.flags THEN <<>>
  ELSE IF "ACK" \in p.flags THEN <<Segment({"RST"}, p.ack, 0, 0, <<>>)>>
  ELSE <<Segment({"RST", "ACK"}, 0, Plus(p.seq, SequenceLen(p) + IF "SYN" \in p.flags THEN 1 ELSE 0), 0, <<>>)>>

\* receive_tcp: the socket the segment is for, the listener, or neither.  A
\* socket it closes is no longer found by the next one.
ReceiveTcp(e, p) ==
  LET s == sock[e]
      r == OnSegment(s, p)
  IN  IF s.indexed
      THEN [r EXCEPT !.sock.indexed = r.sock.state # "Closed"]
      ELSE IF s.state = "Listen" /\ "SYN" \in p.flags /\ "ACK" \notin p.flags
           THEN Handled(Accepted(e, p))
           ELSE [sock |-> s, out |-> TcpResetResponse(p)]

\* The i-th segment on its way to e arrives; it stays if it was duplicated.
Arrives(e, i, stays) ==
  LET r == ReceiveTcp(e, net[e][i])
  IN  /\ Becomes(e, r.sock)
      /\ net' = [net EXCEPT ![e] = IF stays THEN @ ELSE RemoveAt(@, i), ![Other(e)] = @ \o r.out]

Deliver(e) ==
  /\ net[e] # <<>>
  /\ Arrives(e, 1, FALSE)
  /\ UNCHANGED <<plan, used, wrote, got, ended>>

Uses(budget) == used[budget] < plan[budget] /\ used' = [used EXCEPT ![budget] = @ + 1]

Lose(e) ==
  /\ net[e] # <<>> /\ Uses("losses")
  /\ net' = [net EXCEPT ![e] = Tail(@)]
  /\ UNCHANGED <<plan, sock, wrote, got, ended>>

Duplicate(e) ==
  /\ net[e] # <<>> /\ Uses("copies")
  /\ Arrives(e, 1, TRUE)
  /\ UNCHANGED <<plan, wrote, got, ended>>

Overtake(e) ==
  /\ Len(net[e]) > 1 /\ Uses("swaps")
  /\ Arrives(e, 2, FALSE)
  /\ UNCHANGED <<plan, wrote, got, ended>>

Works(e, r) == r.sock # sock[e] \/ r.out # <<>>

\* Nothing is on its way and nobody has anything to send but for a timer.
Quiet == \A e \in Ends : net[e] = <<>> /\ ~Works(e, Driven(sock[e], {})) /\ ~sock[e].delayed

Armed(e) ==
  LET s == sock[e]
  IN  {t \in Timers : CASE t = "rto" -> s.flight # <<>> [] t = "persist" -> s.persist
                        [] t = "delayed" -> s.delayed [] t = "timewait" -> s.state = "TimeWait"}

\* drive_tcp.  A timeout is longer than the round trip it waits for, unless it
\* is one of the early ones; TIME-WAIT outlasts every segment.
Drive(e, due) ==
  LET r == Driven(sock[e], due)
  IN  /\ Works(e, r)
      /\ "timewait" \in due => \A f \in Ends : net[f] = <<>>
      /\ IF due \cap {"rto", "persist"} = {} \/ Quiet THEN UNCHANGED used ELSE Uses("early")
      /\ Becomes(e, r.sock)
      /\ Emits(e, r.out)
      /\ UNCHANGED <<plan, wrote, got, ended>>

Step(e) ==
  \/ Send(e) \/ ShutdownSend(e) \/ Read(e) \/ Drop(e)
  \/ Deliver(e) \/ Lose(e) \/ Duplicate(e) \/ Overtake(e)
  \/ \E due \in SUBSET Armed(e) : Drive(e, due)

\* A panic is the end.
Panicked == \E e \in Ends : sock[e].kind = "Panic"
Next == ~Panicked /\ \E e \in Ends : Step(e)

Spec == Init /\ [][Next]_vars

\* A probe is remembered only while the window it probes is closed.  The code does
\* not see to it: acknowledge_sent forgets the probe when an acknowledgement is
\* new, not when it only reopens the window.
FreshProbes == \A e \in Ends : sock[e].probe # NoProbe => sock[e].peerWin = 0
\* The behaviours up to that.
FreshSpec == Init /\ [][Next /\ FreshProbes']_vars

----------------------------------------------------------------------------
(* Properties.                                                             *)

Connection == INSTANCE ByteStream WITH
  Streams <- Ends,
  sent <- wrote,
  got <- [e \in Ends |-> got[Other(e)]],
  ended <- [e \in Ends |-> ended[Other(e)]]

\* Each direction is a byte stream over the network that loses, duplicates and
\* reorders: what is read is what was written, once and in order, and an
\* orderly end means that there is no more.
IsByteStream == Connection!Spec

\* The bytes of e that its peer has in order, or read.
Received(e) == Len(got[Other(e)]) + Len(sock[Other(e)].inq)

\* What the sender still has: the bytes in flight and those in the queue.
Kept(s) == FoldLeft(LAMBDA kept, f : kept \o f.seg.data, <<>>, s.flight) \o FlattenSeq(s.outq)

\* No byte is given up: as long as both ends are in the connection, what the
\* peer has not received is in flight or in the queue, without a gap.
NothingForgotten ==
  \A e \in Ends :
    sock[e].state \in Synchronised /\ sock[Other(e)].state \in Synchronised =>
      LET kept == Kept(sock[e])
      IN  /\ \A i \in DOMAIN kept : kept[i] = wrote[e] - Len(kept) + i
          /\ Received(e) + Len(kept) >= wrote[e]

\* How far a step moves the right edge of the window that e's headers show to the
\* left, while more can be received.
Retraction(e) ==
  LET old == ShownEdge(sock[e])
      new == ShownEdge(sock'[e])
  IN  IF sock[e].state \in Receiving /\ sock'[e].state \in Receiving /\ SequenceLt(new, old)
      THEN Minus(old, new) ELSE 0

\* "From here on the window's right edge only ever moves right", says
\* set_receive_base.  It does not: in-order data that is no multiple of the unit
\* moves it left.
EdgeNeverRetracts == [][\A e \in Ends : Retraction(e) = 0]_vars

\* But what out-of-order data takes of the free space is not taken from the
\* window: a step costs the peer less than one unit of what it was shown.
EdgeHoldsToTheUnit == [][\A e \in Ends : Retraction(e) < Unit]_vars

\* The peer's FIN was taken between a close and the FIN it was to send.
OvertakenClose(s) == s.state = "Closing" /\ ~s.finQueued

\* Nothing is left to happen but reads and the end of TIME-WAIT.
AtRest == Quiet /\ \A e \in Ends : Armed(e) \subseteq {"timewait"}

\* Nobody waits for what will not come: when nothing is on its way, every
\* reader waits and no timer but that of TIME-WAIT is armed, then two ends that
\* are still in the connection have all that was written, and every close was
\* taken note of.  The window that is closed, or whose reopening was lost, is
\* the case; the close that was overtaken is the exception.
NobodyWaitsInVain ==
  /\ \A e \in Ends : sock[e].state \in Synchronised /\ sock[e].inq = <<>> /\ ~OvertakenClose(sock[e])
  /\ AtRest
  => \A e \in Ends :
       /\ Received(e) = wrote[e]
       /\ sock[e].state \in {"FinWait2", "Closing"} => sock[Other(e)].state \notin {"Established", "FinWait1"}

\* A closed socket "runs FIN-WAIT/CLOSING/TIME-WAIT to its end" (TcpCloseAction).
\* It does not when the peer's FIN is taken first: take_transmit_segment sends
\* nothing in CLOSING, neither the queued data nor the FIN.
CloseRunsToItsEnd == AtRest => \A e \in Ends : ~OvertakenClose(sock[e])

\* "TCP transmit queue lost persist-probed bytes" is never reached.
ProbedBytesAreQueued == ~Panicked
=============================================================================
