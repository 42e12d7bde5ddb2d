-------------------------------- MODULE Vsock --------------------------------
(***************************************************************************)
(* The vsock connection table (kernel/src/vsock/table.rs) and the service  *)
(* around it (vsock/mod.rs): the handshake, the credit arithmetic, the     *)
(* shutdown, and the tasks that act on the table's decisions.              *)
(*                                                                         *)
(* Two machines run this code at the two ends of the link: "a" connects,   *)
(* "b" listens.  Every method of the table is one step, taken under its    *)
(* lock.  What it decides to send is sent in a later step of the same task *)
(* (the lock is dropped before the device is awaited), so packets reach    *)
(* the wire in another order than they were decided in.  The wire itself   *)
(* keeps order and loses nothing.                                          *)
(*                                                                         *)
(* A connection is named by the connecting end's port.  Ports are handed   *)
(* out in turn, so that no two of its connections share a name.  A byte is *)
(* its place in the stream.                                                *)
(***************************************************************************)
EXTENDS Integers, Sequences, FiniteSets

CONSTANTS
  Window,       \* VSOCK_RECEIVE_WINDOW_BYTES
  Wrap,         \* the width of the credit counters: they count modulo Wrap
  MaxPayload,   \* bytes one packet of the device carries
  Backlog,      \* the listener's backlog
  Slots,        \* MAX_VSOCK_CONNECTIONS
  Writers,      \* tasks that write to one connection
  Plans         \* what the programs and the link may do in one behaviour: see plan

Ends == {"a", "b"}
Other(e) == IF e = "a" THEN "b" ELSE "a"
Conns == UNION {DOMAIN p.bytes : p \in Plans}
Tasks == Writers \cup {"reader", "control"}
Directions == {"send", "receive"}

\* The counters are far wider than the window, as 2^32 is than 64 KiB.
ASSUME WindowAssumption == Window \in Nat \ {0} /\ Wrap \in Nat /\ Wrap >= 3 * Window
ASSUME SizesAssumption == MaxPayload \in Nat \ {0} /\ Backlog \in Nat /\ Slots \in Nat
ASSUME WritersAssumption == {"reader", "control"} \cap Writers = {}
ASSUME PlansAssumption ==
  \A p \in Plans :
    /\ \A c \in DOMAIN p.bytes : p.bytes[c] \in [Ends -> Nat]
    /\ p.writers \subseteq Writers /\ p.readers \subseteq Ends /\ p.maxRead \in Nat \ {0}
    /\ p.shuts \subseteq Ends \X SUBSET Directions
    /\ {p.shutsWhileWriting, p.impatient} \subseteq BOOLEAN
    /\ p.faults \in Nat

VARIABLES
  plan,      \* plan.bytes[c][e]: the bytes end e writes to connection c;
             \* writers: the tasks that write them; readers: the ends that
             \* read, maxRead bytes at a time;
             \* shuts: the shutdowns, by end; shutsWhileWriting: also under a
             \* write; impatient: deadlines pass and streams are dropped;
             \* faults: failed transmissions, transport resets, closed listeners
  conn,      \* conn[e][c]: the entry of the table
  listening, \* the listener of "b" is bound
  queued,    \* its connections that wait to be accepted
  wire,      \* wire[e]: the packets on their way to e
  pump,      \* pump[e]: the reply the receive task has yet to transmit
  pc,        \* pc[e][c][t]: what a task is at
  packet,    \* packet[e][c][t]: the packet it has yet to transmit
  seen,      \* seen[e][c][t]: progress was signalled after its mark
  acceptor,  \* what the accepting task is at
  acceptSeen,
  done,      \* done[e][c]: bytes the writers handed over
  drained,   \* drained[e][c]: bytes its reader copied out and has yet to return
  got,       \* got[e][c]: bytes the reader was handed
  ended,     \* ended[e][c]: the reader was told of an end of file
  faults,
  orphans,   \* history: connections that left the queue without being accepted
  crowded    \* history: the writers that last found another one's packet on its way

tableVars == <<conn, listening, queued>>
taskVars == <<pc, packet, seen, acceptor, acceptSeen>>
resultVars == <<done, drained, got, ended>>
vars == <<plan, conn, listening, queued, wire, pump, pc, packet, seen, acceptor, acceptSeen,
          done, drained, got, ended, faults, orphans, crowded>>

MinOf(x, y) == IF x <= y THEN x ELSE y
Minus(x, y) == (x - y + Wrap) % Wrap

\* VsockTable::open
Opened(state) ==
  [state |-> state, receive |-> <<>>, fwd |-> 0, announced |-> 0, peerBuf |-> 0, peerFwd |-> 0,
   tx |-> 0, local |-> {}, peer |-> {}, transmitting |-> FALSE, asked |-> FALSE]

Free == Opened("none")
Live == {"connecting", "established"}

Header(op, c, k) ==
  [op |-> op, c |-> c, flags |-> {}, payload |-> <<>>, buf |-> Window, fwd |-> k.fwd]

\* header() also notes what it announces.
Announced(k) == [k EXCEPT !.announced = k.fwd]

\* VsockPacketHeader::reply
Reply(op, c) == [op |-> op, c |-> c, flags |-> {}, payload |-> <<>>, buf |-> 0, fwd |-> 0]
NoPacket == [op |-> "none"]

PeerFree(k) ==
  LET inFlight == Minus(k.tx, k.peerFwd)
  IN  IF inFlight >= k.peerBuf THEN 0 ELSE k.peerBuf - inFlight

Absorb(k, p) == [k EXCEPT !.peerBuf = p.buf, !.peerFwd = p.fwd, !.asked = FALSE]

Init ==
  /\ plan \in Plans
  /\ conn = [e \in Ends |-> [c \in Conns |-> Free]]
  /\ listening = TRUE /\ queued = <<>>
  /\ wire = [e \in Ends |-> <<>>]
  /\ pump = [e \in Ends |-> NoPacket]
  /\ pc = [e \in Ends |-> [c \in Conns |-> [t \in Tasks |-> "idle"]]]
  /\ packet = [e \in Ends |-> [c \in Conns |-> [t \in Tasks |-> NoPacket]]]
  /\ seen = [e \in Ends |-> [c \in Conns |-> [t \in Tasks |-> FALSE]]]
  /\ acceptor = "armed" /\ acceptSeen = FALSE
  /\ done = [e \in Ends |-> [c \in Conns |-> 0]]
  /\ drained = [e \in Ends |-> [c \in Conns |-> <<>>]]
  /\ got = [e \in Ends |-> [c \in Conns |-> <<>>]]
  /\ ended = [e \in Ends |-> [c \in Conns |-> FALSE]]
  /\ faults = 0 /\ orphans = {} /\ crowded = {}

-----------------------------------------------------------------------------
(* Steps of a task                                                         *)

\* A task waits for progress from the mark it took before it tested the table.
Goes(e, c, t, here, there) == pc[e][c][t] = here /\ pc' = [pc EXCEPT ![e][c][t] = there]

\* The task decides on a packet and goes to transmit it.
Decides(e, c, t, here, p) ==
  /\ Goes(e, c, t, here, p.op)
  /\ packet' = [packet EXCEPT ![e][c][t] = p]

\* arm(): a new mark.
Arms(e, c, t, here) == Goes(e, c, t, here, "armed") /\ seen' = [seen EXCEPT ![e][c][t] = FALSE]

Set(e, c, k) == conn' = [conn EXCEPT ![e][c] = k]
Exists(e, c) == conn[e][c].state # "none"

\* What the task goes on with once its packet is out.  A reader returns what it
\* has drained.
AfterTransmit(op) ==
  CASE op = "request" -> "connecting"
    [] op = "data" -> "sent"
    [] op = "creditRequest" -> "parked"
    [] op = "creditUpdate" -> "idle"
    [] op = "shutdown" -> "open"
    [] op = "reset" -> "gone"

Transmits(e, c, t) == pc[e][c][t] = packet[e][c][t].op

Transmit(e, c, t) ==
  LET p == packet[e][c][t]
  IN /\ Transmits(e, c, t)
     /\ wire' = [wire EXCEPT ![Other(e)] = Append(@, p)]
     /\ packet' = [packet EXCEPT ![e][c][t] = IF p.op = "data" THEN @ ELSE NoPacket]
     /\ Goes(e, c, t, p.op, AfterTransmit(p.op))
     /\ IF t = "reader"
        THEN /\ got' = [got EXCEPT ![e][c] = @ \o drained[e][c]]
             /\ drained' = [drained EXCEPT ![e][c] = <<>>]
        ELSE UNCHANGED <<got, drained>>
     /\ UNCHANGED <<plan, tableVars, pump, seen, acceptor, acceptSeen, done, ended, faults, orphans, crowded>>

\* The device refuses the packet: the call returns the error, and the program
\* makes no further call of that kind.  A connect gives its slot back.
TransmitFails(e, c, t) ==
  LET p == packet[e][c][t]
  IN /\ Transmits(e, c, t) /\ faults < plan.faults
     /\ faults' = faults + 1
     /\ packet' = [packet EXCEPT ![e][c][t] = NoPacket]
     /\ Goes(e, c, t, p.op, IF p.op = "shutdown" THEN "open" ELSE "gone")
     /\ CASE p.op = "data" /\ Exists(e, c) -> Set(e, c, [conn[e][c] EXCEPT !.transmitting = FALSE])
          [] p.op = "request" -> Set(e, c, Free)
          [] OTHER -> UNCHANGED conn
     /\ UNCHANGED <<plan, listening, queued, wire, pump, seen, acceptor, acceptSeen, resultVars, orphans, crowded>>

\* The pump has signalled since the mark: the loop begins again.
Wake(e, c, t) ==
  /\ seen[e][c][t]
  /\ Arms(e, c, t, "parked")
  /\ UNCHANGED <<plan, tableVars, wire, pump, packet, acceptor, acceptSeen, resultVars, faults, orphans, crowded>>

-----------------------------------------------------------------------------
(* Writing: VsockService::write                                            *)

\* How an end divides what it has to say among its writers and their calls is
\* left open: a call may end with any of its packets.
StartWrite(e, c, w) ==
  /\ pc[e][c]["control"] = "open" /\ w \in plan.writers /\ done[e][c] < plan.bytes[c][e]
  /\ Arms(e, c, w, "idle")
  /\ UNCHANGED <<plan, tableVars, wire, pump, packet, acceptor, acceptSeen, resultVars, faults, orphans, crowded>>

Allowed(k, left) == MinOf(MinOf(PeerFree(k), MaxPayload), left)

\* Mutant of BeginWrite: another writer's packet is no obstacle.
BeginWriteAtOnce(e, c, w) ==
  LET k == conn[e][c]
      n == Allowed(k, plan.bytes[c][e] - done[e][c])
  IN /\ k.state = "established" /\ "send" \notin k.local /\ "receive" \notin k.peer /\ n > 0
     /\ Set(e, c, [Announced(k) EXCEPT !.transmitting = TRUE])
     /\ Decides(e, c, w, "armed",
          [Header("data", c, k) EXCEPT !.payload = [i \in 1 .. n |-> done[e][c] + i]])
     /\ UNCHANGED <<plan, listening, queued, wire, pump, seen, acceptor, acceptSeen, resultVars, faults, orphans, crowded>>

\* A call that finds the others have written the rest is over.
BeginWrite(e, c, w) ==
  LET k == conn[e][c]
      left == plan.bytes[c][e] - done[e][c]
      n == Allowed(k, left)
      open == k.state = "established" /\ "send" \notin k.local /\ "receive" \notin k.peer
  IN /\ \/ /\ k.state \notin Live \/ "send" \in k.local \/ "receive" \in k.peer
           /\ Goes(e, c, w, "armed", "gone")
           /\ UNCHANGED <<conn, packet>>
        \/ /\ Goes(e, c, w, "armed", "idle")
           /\ left = 0
           /\ UNCHANGED <<conn, packet>>
        \/ /\ open /\ left > 0 /\ (k.transmitting \/ n = 0)
           /\ Goes(e, c, w, "armed", "blocked")
           /\ UNCHANGED <<conn, packet>>
        \/ /\ open /\ ~k.transmitting /\ n > 0
           /\ Set(e, c, [Announced(k) EXCEPT !.transmitting = TRUE])
           /\ Decides(e, c, w, "armed",
                [Header("data", c, k) EXCEPT !.payload = [i \in 1 .. n |-> done[e][c] + i]])
     /\ crowded' = IF k.transmitting THEN crowded \cup {<<e, c, w>>} ELSE crowded \ {<<e, c, w>>}
     /\ UNCHANGED <<plan, listening, queued, wire, pump, seen, acceptor, acceptSeen, resultVars, faults, orphans>>

\* Mutant of CreditRequest: nobody asks.
CreditRequestNever(e, c, w) ==
  /\ Goes(e, c, w, "blocked", IF Exists(e, c) THEN "parked" ELSE "gone")
  /\ UNCHANGED <<plan, tableVars, wire, pump, packet, seen, acceptor, acceptSeen, resultVars, faults, orphans, crowded>>

\* Out of credit, the writer asks for it, once per request in flight.
CreditRequest(e, c, w) ==
  LET k == conn[e][c]
      asks == k.state = "established" /\ PeerFree(k) = 0 /\ ~k.asked
  IN /\ \/ /\ asks
           /\ Set(e, c, [Announced(k) EXCEPT !.asked = TRUE])
           /\ Decides(e, c, w, "blocked", Header("creditRequest", c, k))
        \/ /\ ~asks
           /\ Goes(e, c, w, "blocked", IF Exists(e, c) THEN "parked" ELSE "gone")
           /\ UNCHANGED <<conn, packet>>
     /\ UNCHANGED <<plan, listening, queued, wire, pump, seen, acceptor, acceptSeen, resultVars, faults, orphans, crowded>>

\* Mutant of FinishWrite: the credit is not spent.
FinishWriteFree(e, c, w) ==
  LET n == Len(packet[e][c][w].payload)
  IN /\ pc[e][c][w] = "sent"
     /\ conn' = IF Exists(e, c) THEN [conn EXCEPT ![e][c].transmitting = FALSE] ELSE conn
     /\ done' = [done EXCEPT ![e][c] = @ + n]
     /\ packet' = [packet EXCEPT ![e][c][w] = NoPacket]
     /\ \E next \in {"armed", "idle"} :
          /\ next = "armed" => done'[e][c] < plan.bytes[c][e]
          /\ pc' = [pc EXCEPT ![e][c][w] = next]
     /\ seen' = [seen EXCEPT ![e][c][w] = FALSE]
     /\ UNCHANGED <<plan, listening, queued, wire, pump, acceptor, acceptSeen, drained, got, ended, faults, orphans, crowded>>

\* finish_write.  Nobody is told that the connection is free again.
FinishWrite(e, c, w) ==
  LET n == Len(packet[e][c][w].payload)
  IN /\ pc[e][c][w] = "sent"
     /\ conn' = IF Exists(e, c)
                THEN [conn EXCEPT ![e][c].transmitting = FALSE, ![e][c].tx = (@ + n) % Wrap]
                ELSE conn
     /\ done' = [done EXCEPT ![e][c] = @ + n]
     /\ packet' = [packet EXCEPT ![e][c][w] = NoPacket]
     /\ \E next \in {"armed", "idle"} :
          /\ next = "armed" => done'[e][c] < plan.bytes[c][e]
          /\ pc' = [pc EXCEPT ![e][c][w] = next]
     /\ seen' = [seen EXCEPT ![e][c][w] = FALSE]
     /\ UNCHANGED <<plan, listening, queued, wire, pump, acceptor, acceptSeen, drained, got, ended, faults, orphans, crowded>>

-----------------------------------------------------------------------------
(* Reading: VsockService::read                                             *)

StartRead(e, c) ==
  /\ pc[e][c]["control"] = "open" /\ e \in plan.readers
  /\ Arms(e, c, "reader", "idle")
  /\ UNCHANGED <<plan, tableVars, wire, pump, packet, acceptor, acceptSeen, resultVars, faults, orphans, crowded>>

AtEof(k) ==
  /\ k.receive = <<>>
  /\ k.state = "closed" \/ (k.state \in Live /\ "send" \in k.peer)

\* The announcement rides along once half the window is unannounced.
Drain(e, c, n) ==
  LET k == conn[e][c]
      bytes == SubSeq(k.receive, 1, n)
      read == [k EXCEPT !.receive = SubSeq(@, n + 1, Len(@)), !.fwd = (@ + n) % Wrap]
  IN \/ /\ Minus(read.fwd, k.announced) >= Window \div 2
        /\ Set(e, c, Announced(read))
        /\ Decides(e, c, "reader", "armed", Header("creditUpdate", c, read))
        /\ drained' = [drained EXCEPT ![e][c] = bytes]
        /\ UNCHANGED got
     \/ /\ Minus(read.fwd, k.announced) < Window \div 2
        /\ Set(e, c, read)
        /\ Goes(e, c, "reader", "armed", "idle")
        /\ got' = [got EXCEPT ![e][c] = @ \o bytes]
        /\ UNCHANGED <<packet, drained>>

Read(e, c) ==
  LET k == conn[e][c]
      refused == k.state = "none" \/ "receive" \in k.local
  IN /\ \/ /\ ~refused /\ k.receive # <<>> /\ Drain(e, c, MinOf(plan.maxRead, Len(k.receive)))
           /\ UNCHANGED ended
        \/ /\ ~refused /\ AtEof(k)
           /\ Goes(e, c, "reader", "armed", "eof")
           /\ ended' = [ended EXCEPT ![e][c] = TRUE]
           /\ UNCHANGED <<conn, packet, drained, got>>
        \/ /\ refused \/ (k.receive = <<>> /\ k.state \in {"reset", "refused"})
           /\ Goes(e, c, "reader", "armed", "gone")
           /\ UNCHANGED <<conn, packet, drained, got, ended>>
        \/ /\ ~refused /\ k.receive = <<>> /\ k.state \in Live /\ ~AtEof(k)
           /\ Goes(e, c, "reader", "armed", "parked")
           /\ UNCHANGED <<conn, packet, drained, got, ended>>
     /\ UNCHANGED <<plan, listening, queued, wire, pump, seen, acceptor, acceptSeen, done, faults, orphans, crowded>>

\* A read or a write that has waited until its deadline returns.
Expire(e, c, t) ==
  /\ t # "control"
  /\ Goes(e, c, t, "parked", "idle")
  /\ UNCHANGED <<plan, tableVars, wire, pump, packet, seen, acceptor, acceptSeen, resultVars, faults, orphans, crowded>>

-----------------------------------------------------------------------------
(* Opening and closing                                                     *)

Connect(c) ==
  /\ c \in DOMAIN plan.bytes
  /\ Cardinality({d \in Conns : Exists("a", d)}) < Slots
  /\ Set("a", c, Opened("connecting"))
  /\ Decides("a", c, "control", "idle", Header("request", c, Free))
  /\ UNCHANGED <<plan, listening, queued, wire, pump, seen, acceptor, acceptSeen, resultVars, faults, orphans, crowded>>

ArmConnect(c) ==
  /\ Arms("a", c, "control", "connecting")
  /\ UNCHANGED <<plan, tableVars, wire, pump, packet, acceptor, acceptSeen, resultVars, faults, orphans, crowded>>

\* Mutant of ConnectProgress: a refused connect leaves its slot taken.
ConnectProgressKeeps(c) ==
  LET state == conn["a"][c].state
  IN /\ Goes("a", c, "control", "armed",
             IF state = "established" THEN "open" ELSE IF state \in Live THEN "parked" ELSE "gone")
     /\ UNCHANGED <<plan, tableVars, wire, pump, packet, seen, acceptor, acceptSeen, resultVars, faults, orphans, crowded>>

\* connect_progress
ConnectProgress(c) ==
  LET k == conn["a"][c]
  IN /\ \/ /\ k.state \in Live
           /\ Goes("a", c, "control", "armed", IF k.state = "established" THEN "open" ELSE "parked")
           /\ UNCHANGED conn
        \/ /\ k.state \notin Live
           /\ Goes("a", c, "control", "armed", "gone")
           /\ Set("a", c, Free)
     /\ UNCHANGED <<plan, listening, queued, wire, pump, packet, seen, acceptor, acceptSeen, resultVars, faults, orphans, crowded>>

\* Mutant of Closes: the other end is told only of a handshake given up.
ClosesQuietly(e, c, here) ==
  /\ Set(e, c, Free)
  /\ \/ /\ conn[e][c].state = "connecting"
        /\ Decides(e, c, "control", here, Header("reset", c, conn[e][c]))
     \/ /\ conn[e][c].state # "connecting"
        /\ Goes(e, c, "control", here, "gone")
        /\ UNCHANGED packet
  /\ UNCHANGED <<plan, listening, queued, wire, pump, seen, acceptor, acceptSeen, resultVars, faults, orphans, crowded>>

\* close: the slot is free at once, the reset follows if the other end may care.
Closes(e, c, here) ==
  /\ Set(e, c, Free)
  /\ \/ /\ conn[e][c].state \in Live
        /\ Decides(e, c, "control", here, Header("reset", c, conn[e][c]))
     \/ /\ conn[e][c].state \notin Live
        /\ Goes(e, c, "control", here, "gone")
        /\ UNCHANGED packet
  /\ UNCHANGED <<plan, listening, queued, wire, pump, seen, acceptor, acceptSeen, resultVars, faults, orphans, crowded>>

\* The handshake's deadline passed, or the program let go of the stream.
ConnectExpires(c) == Closes("a", c, "parked")
Close(e, c) == Closes(e, c, "open")

Shutdown(e, c, dirs) ==
  LET k == conn[e][c]
  IN /\ k.state \in Live
     /\ ~(dirs \subseteq k.local)
     /\ "send" \in dirs /\ ~plan.shutsWhileWriting => \A w \in Writers : pc[e][c][w] \in {"idle", "gone"}
     /\ Set(e, c, [Announced(k) EXCEPT !.local = @ \cup dirs])
     /\ Decides(e, c, "control", "open", [Header("shutdown", c, k) EXCEPT !.flags = k.local \cup dirs])
     /\ UNCHANGED <<plan, listening, queued, wire, pump, seen, acceptor, acceptSeen, resultVars, faults, orphans, crowded>>

Accept ==
  /\ acceptor = "armed"
  /\ \/ /\ listening /\ queued # <<>>
        /\ Goes("b", Head(queued), "control", "idle", "open")
        /\ queued' = Tail(queued)
        /\ acceptSeen' = FALSE
        /\ UNCHANGED acceptor
     \/ /\ ~listening \/ queued = <<>>
        /\ acceptor' = IF listening THEN "parked" ELSE "gone"
        /\ UNCHANGED <<pc, queued, acceptSeen>>
  /\ UNCHANGED <<plan, conn, listening, wire, pump, packet, seen, resultVars, faults, orphans, crowded>>

AcceptWakes ==
  /\ acceptor = "parked" /\ acceptSeen
  /\ acceptor' = "armed" /\ acceptSeen' = FALSE
  /\ UNCHANGED <<plan, tableVars, wire, pump, pc, packet, seen, resultVars, faults, orphans, crowded>>

\* What the listener has queued goes with it; the connections stay in the table.
CloseListener ==
  /\ listening /\ faults < plan.faults
  /\ listening' = FALSE /\ queued' = <<>>
  /\ orphans' = orphans \cup {queued[i] : i \in DOMAIN queued}
  /\ faults' = faults + 1
  /\ UNCHANGED <<plan, conn, wire, pump, taskVars, resultVars, crowded>>

-----------------------------------------------------------------------------
(* The receive pump: VsockService::run_forever                             *)

\* Where a task is between its mark and the wait on it.
Marked == {"armed", "blocked", "creditRequest", "parked"}

\* The pump tells everyone that something has arrived.
Signals(e) ==
  /\ pump' = [pump EXCEPT ![e] = NoPacket]
  /\ seen' = [seen EXCEPT ![e] = [c \in Conns |-> [t \in Tasks |-> pc[e][c][t] \in Marked]]]
  /\ acceptSeen' = IF e = "b" THEN acceptor # "gone" ELSE acceptSeen

\* The reply is transmitted before it does.
Answers(e, reply) ==
  \/ reply = NoPacket /\ Signals(e)
  \/ reply # NoPacket /\ pump' = [pump EXCEPT ![e] = reply] /\ UNCHANGED <<seen, acceptSeen>>

HandleRequest(e, p) ==
  LET refused == \/ e # "b" \/ ~listening \/ Len(queued) >= Backlog \/ Exists(e, p.c)
                 \/ Cardinality({d \in Conns : Exists(e, d)}) >= Slots
      k == Absorb(Opened("established"), p)
  IN \/ /\ refused
        /\ Answers(e, Reply("reset", p.c))
        /\ UNCHANGED <<conn, queued>>
     \/ /\ ~refused
        /\ Set(e, p.c, k)
        /\ queued' = Append(queued, p.c)
        /\ Answers(e, Header("response", p.c, k))

\* A packet for a connection the table does not have is answered by a reset,
\* unless it asks for nothing.
HandleUnknown(e, p) ==
  /\ Answers(e, IF p.op \in {"reset", "creditUpdate"} THEN NoPacket ELSE Reply("reset", p.c))
  /\ UNCHANGED <<conn, queued>>

HandleResponse(e, p) ==
  LET k == Absorb(conn[e][p.c], p)
  IN /\ Set(e, p.c, IF k.state = "connecting" THEN [k EXCEPT !.state = "established"] ELSE k)
     /\ Answers(e, IF k.state = "connecting" THEN NoPacket ELSE Reply("reset", p.c))
     /\ UNCHANGED queued

HandleReset(e, p) ==
  /\ conn' = [conn EXCEPT ![e][p.c].state = IF @ = "connecting" THEN "refused" ELSE "reset"]
  /\ Answers(e, NoPacket)
  /\ UNCHANGED queued

HandleShutdown(e, p) ==
  LET k == Absorb(conn[e][p.c], p)
      closed == k.peer \cup p.flags = Directions
  IN /\ Set(e, p.c, [k EXCEPT !.peer = @ \cup p.flags, !.state = IF closed THEN "closed" ELSE @])
     /\ Answers(e, IF closed THEN Reply("reset", p.c) ELSE NoPacket)
     /\ UNCHANGED queued

HandleData(e, p) ==
  LET k == Absorb(conn[e][p.c], p)
      overrun == Len(p.payload) > Window - Len(k.receive)
  IN /\ \/ /\ k.state \in Live /\ ~overrun
           /\ Set(e, p.c, [k EXCEPT !.receive = @ \o p.payload])
           /\ Answers(e, NoPacket)
        \/ /\ k.state \notin Live \/ overrun
           /\ Set(e, p.c, IF k.state \in Live THEN [k EXCEPT !.state = "reset"] ELSE k)
           /\ Answers(e, Reply("reset", p.c))
     /\ UNCHANGED queued

HandleCreditUpdate(e, p) ==
  /\ Set(e, p.c, Absorb(conn[e][p.c], p))
  /\ Answers(e, NoPacket)
  /\ UNCHANGED queued

HandleCreditRequest(e, p) ==
  LET k == Announced(Absorb(conn[e][p.c], p))
  IN /\ Set(e, p.c, k)
     /\ Answers(e, Header("creditUpdate", p.c, k))
     /\ UNCHANGED queued

Receive(e) ==
  LET p == Head(wire[e])
  IN /\ pump[e] = NoPacket /\ wire[e] # <<>>
     /\ wire' = [wire EXCEPT ![e] = Tail(@)]
     /\ CASE p.op = "request" -> HandleRequest(e, p)
          [] p.op # "request" /\ ~Exists(e, p.c) -> HandleUnknown(e, p)
          [] p.op = "response" /\ Exists(e, p.c) -> HandleResponse(e, p)
          [] p.op = "reset" /\ Exists(e, p.c) -> HandleReset(e, p)
          [] p.op = "shutdown" /\ Exists(e, p.c) -> HandleShutdown(e, p)
          [] p.op = "data" /\ Exists(e, p.c) -> HandleData(e, p)
          [] p.op = "creditUpdate" /\ Exists(e, p.c) -> HandleCreditUpdate(e, p)
          [] p.op = "creditRequest" /\ Exists(e, p.c) -> HandleCreditRequest(e, p)
     /\ UNCHANGED <<plan, listening, pc, packet, acceptor, resultVars, faults, orphans, crowded>>

TransportReset(e) ==
  /\ pump[e] = NoPacket /\ faults < plan.faults
  /\ faults' = faults + 1
  /\ conn' = [conn EXCEPT ![e] = [c \in Conns |-> IF Exists(e, c) THEN [@[c] EXCEPT !.state = "reset"] ELSE Free]]
  /\ queued' = IF e = "b" THEN <<>> ELSE queued
  /\ orphans' = IF e = "b" THEN orphans \cup {queued[i] : i \in DOMAIN queued} ELSE orphans
  /\ Signals(e)
  /\ UNCHANGED <<plan, listening, wire, pc, packet, acceptor, resultVars, crowded>>

\* A reply that cannot be transmitted is dropped with a warning.
SendReply(e) ==
  /\ pump[e] # NoPacket
  /\ Signals(e)
  /\ \/ /\ wire' = [wire EXCEPT ![Other(e)] = Append(@, pump[e])]
        /\ UNCHANGED faults
     \/ /\ faults < plan.faults /\ faults' = faults + 1
        /\ UNCHANGED wire
  /\ UNCHANGED <<plan, tableVars, pc, packet, acceptor, resultVars, orphans, crowded>>

-----------------------------------------------------------------------------
Pump(e) == Receive(e) \/ SendReply(e)

\* What a call goes on with by itself once it was made.
Continue(e, c, t) ==
  \/ Transmit(e, c, t) \/ Wake(e, c, t)
  \/ t \in Writers /\ (BeginWrite(e, c, t) \/ CreditRequest(e, c, t) \/ FinishWrite(e, c, t))
  \/ t = "reader" /\ Read(e, c)
  \/ t = "control" /\ e = "a" /\ (ArmConnect(c) \/ ConnectProgress(c))

Next ==
  \/ \E e \in Ends : Pump(e) \/ TransportReset(e)
  \/ Accept \/ AcceptWakes \/ CloseListener
  \/ \E c \in Conns : Connect(c) \/ (plan.impatient /\ ConnectExpires(c))
  \/ \E e \in Ends, c \in Conns :
       \/ StartRead(e, c) \/ (plan.impatient /\ Close(e, c))
       \/ \E w \in Writers : StartWrite(e, c, w)
       \/ \E dirs \in SUBSET Directions : <<e, dirs>> \in plan.shuts /\ Shutdown(e, c, dirs)
       \/ \E t \in Tasks : Continue(e, c, t) \/ TransmitFails(e, c, t) \/ (plan.impatient /\ Expire(e, c, t))

Spec == Init /\ [][Next]_vars

-----------------------------------------------------------------------------
\* The credit each end grants is never overspent: whatever the order in which
\* announcements, data and the writer's own accounting take effect, a data
\* packet finds room in the receive ring ("the peer can never send more than
\* fits").
NoOverrun ==
  \A e \in Ends :
    wire[e] # <<>> /\ Head(wire[e]).op = "data" =>
      LET p == Head(wire[e]) IN
      conn[e][p.c].state \in Live => Len(p.payload) <= Window - Len(conn[e][p.c].receive)

\* The bytes handed to the device in each direction of each connection.
Sent(e, c) ==
  done[e][c] + IF \E w \in Writers : pc[e][c][w] = "sent"
               THEN Len(packet[e][c][CHOOSE w \in Writers : pc[e][c][w] = "sent"].payload)
               ELSE 0

Stream == INSTANCE ByteStream WITH
  Streams <- Ends \X Conns,
  sent <- [s \in Ends \X Conns |-> Sent(s[1], s[2])],
  got <- [s \in Ends \X Conns |-> got[Other(s[1])][s[2]]],
  ended <- [s \in Ends \X Conns |-> ended[Other(s[1])][s[2]]]

\* Each direction of each connection is a byte stream: what the reader is
\* handed is what was sent, in order, and an end of file comes after all of it.
IsByteStream == Stream!Spec

\* What tells end e that connection c is gone at the other end.
Notice(e, c) ==
  LET told(p) == p # NoPacket /\ p.op = "reset" /\ p.c = c
  IN  \/ \E i \in DOMAIN wire[e] : told(wire[e][i])
      \/ told(pump[Other(e)])
      \/ told(packet[Other(e)][c]["control"])

\* An end that takes the connection to be up is right, or will be told: the
\* other end has it too, or the reset is on its way.  (A reset transport or a
\* failed transmission can swallow that reset.)
UpHasPeer ==
  faults = 0 =>
    \A e \in Ends, c \in Conns :
      conn[e][c].state = "established" => conn[Other(e)][c].state \in Live \/ Notice(e, c)

\* Every slot of the table has an owner that will give it back, a call or a
\* place in the accept queue, except those a closed listener or a reset
\* transport left behind.
SlotsOwned ==
  \A e \in Ends, c \in Conns :
    Exists(e, c) =>
      \/ pc[e][c]["control"] \notin {"idle", "gone"}
      \/ e = "b" /\ (c \in orphans \/ \E i \in DOMAIN queued : queued[i] = c)

\* Nothing is under way: no packet on the wire or yet to be sent, every task
\* that was begun is done or waits without having been signalled, and every
\* program that reads or accepts is waiting for more.
Quiescent ==
  /\ \A e \in Ends : wire[e] = <<>> /\ pump[e] = NoPacket
  /\ acceptor = "gone" \/ (acceptor = "parked" /\ ~acceptSeen)
  /\ \A e \in Ends, c \in Conns, t \in Tasks :
       /\ pc[e][c][t] \in {"idle", "open", "eof", "gone", "parked"}
       /\ pc[e][c][t] = "parked" => ~seen[e][c][t]
       /\ t = "reader" /\ e \in plan.readers /\ pc[e][c]["control"] = "open" => pc[e][c][t] # "idle"

\* Writer w of connection c at end e sleeps though it could send, or though its
\* peer would soon read.
WaitsInVain(e, c, w) ==
  pc[e][c][w] = "parked" /\ (Other(e) \in plan.readers \/ PeerFree(conn[e][c]) > 0)

\* A write or a connect never waits in vain: when it is parked and nothing is
\* under way, then the other program has stopped reading.  No order of arrival,
\* announcement and wake-up leaves a writer asleep that has credit, or asleep
\* without it at a peer whose buffer is empty.  (What the writer of a shared
\* connection that found it busy may come to is NoWriterIsLeftBehind's.)
NobodyWaitsInVain ==
  Quiescent /\ faults = 0 =>
    \A e \in Ends, c \in Conns :
      /\ pc[e][c]["control"] # "parked"
      /\ \A w \in Writers : <<e, c, w>> \notin crowded => ~WaitsInVain(e, c, w)

\* The same of every writer that has bytes left, those that wait for another
\* writer of their connection too: "progress on a vsock link is always the
\* arrival of a packet" (vsock/mod.rs), so that the signal the pump gives after
\* each packet would be enough.  It is not: finish_write makes progress too, and
\* tells nobody.
NoWriterIsLeftBehind ==
  Quiescent /\ faults = 0 =>
    \A e \in Ends, c \in Conns, w \in Writers :
      WaitsInVain(e, c, w) => done[e][c] = plan.bytes[c][e]

\* An end of file is the end: a reader that was told of it "has seen everything
\* that will ever arrive" (at_eof).  A shutdown decided on while a write still
\* has its packet to transmit can overtake it.
EofIsTheEnd == \A e \in Ends, c \in Conns : ended[e][c] => conn[e][c].receive = <<>>

\* A connection that outlives its listener belongs "to whoever accepted" it
\* (close_listener): every slot of the table is somebody's to give back.  Nobody
\* accepted the ones that were still queued.
EverySlotIsSomeones ==
  \A e \in Ends, c \in Conns :
    Exists(e, c) =>
      \/ pc[e][c]["control"] \notin {"idle", "gone"}
      \/ e = "b" /\ \E i \in DOMAIN queued : queued[i] = c
=============================================================================
