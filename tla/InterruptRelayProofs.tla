------------------------ MODULE InterruptRelayProofs ------------------------
(***************************************************************************)
(* For any number of sources, drivers and mappings, and whatever calls the *)
(* drivers make in whatever order: a device has one holder at a time; and  *)
(* where no unmask and no quiesce falls on a running handler, an armed     *)
(* source is open or on its way to the driver, a returned device is        *)
(* silent, and forward has room for every event, as long as none is        *)
(* acknowledged unread.                                                    *)
(***************************************************************************)
EXTENDS InterruptRelay, FiniteSetTheorems, SequenceTheorems, TLAPS

LEMMA SourcesFinite == IsFiniteSet(Sources) /\ Cardinality(Sources) = NumSources
<1>1. NumSources \in Nat
  BY NumSourcesAssumption
<1>2. 1 \in Int /\ NumSources \in Int /\ 1 <= NumSources
  BY NumSourcesAssumption
<1>3. IsFiniteSet(1 .. NumSources)
  BY <1>2, FS_Interval
<1>4. Cardinality(1 .. NumSources) = NumSources - 1 + 1
  BY <1>2, FS_Interval
<1> QED BY <1>1, <1>3, <1>4 DEF Sources

-----------------------------------------------------------------------------
(* Types                                                                   *)

LEMMA TypeStart == Init => TypeOK
<1> SUFFICES ASSUME Init PROVE TypeOK
  OBVIOUS
<1>1. /\ line \in [Sources -> BOOLEAN] /\ claimed \in BOOLEAN
      /\ full \in BOOLEAN /\ overtaken \in BOOLEAN /\ crossed \in BOOLEAN /\ hasty \in BOOLEAN
  BY DEF Init
<1>2. /\ deliveries \in [Sources -> 0 .. MaxDeliveries] /\ claims \in 0 .. MaxClaims
      /\ cur \in Sources /\ permits \in Nat
  BY NumSourcesAssumption, BoundsAssumption DEF Init, Sources
<1>3. /\ through \subseteq Sources /\ masked \subseteq Sources /\ outstanding \subseteq Sources
      /\ pending \in Seq(Sources)
  BY DEF Init
<1>4. /\ hpc \in [Sources -> {"idle", "flag", "hold", "swap", "push", "notify"}]
      /\ stage \in [Sources -> {"rest", "armed", "event"}]
      /\ dpc \in [Drivers -> {"out", "run", "unmask", "mask", "pop", "wait", "q_flag", "q_hold",
                              "q_clear", "q_drain", "unmap", "return"}]
  BY DEF Init
<1>5. reach \in [Drivers -> SUBSET Mappings]
  BY DEF Init
<1> QED BY <1>1, <1>2, <1>3, <1>4, <1>5 DEF TypeOK

LEMMA TypeStep == TypeOK /\ [Next]_vars => TypeOK'
<1> SUFFICES ASSUME TypeOK, [Next]_vars PROVE TypeOK'
  OBVIOUS
<1> USE DEF TypeOK, deviceVars, relayVars, handlerVars, driverVars, leaseVars, history, Handler, Task
<1>1. ASSUME NEW s \in Sources, RaiseLine(s) PROVE TypeOK'
  BY <1>1 DEF RaiseLine
<1>2. ASSUME NEW s \in Sources, Deliver(s) PROVE TypeOK'
  BY <1>2, BoundsAssumption DEF Deliver
<1>3. ASSUME NEW s \in Sources, FlagMasked(s) PROVE TypeOK'
  BY <1>3 DEF FlagMasked
<1>4. ASSUME NEW s \in Sources, HoldOff(s) PROVE TypeOK'
  BY <1>4 DEF HoldOff
<1>5. ASSUME NEW s \in Sources, SwapOutstanding(s) PROVE TypeOK'
  BY <1>5 DEF SwapOutstanding
<1>6. ASSUME NEW s \in Sources, Push(s) PROVE TypeOK'
  <2>1. /\ hpc' \in [Sources -> {"idle", "flag", "hold", "swap", "push", "notify"}]
        /\ UNCHANGED <<deviceVars, masked, outstanding, permits, deliveries, driverVars, leaseVars, history>>
    BY <1>6 DEF Push
  <2>2. pending' \in Seq(Sources)
    <3>1. pending' = pending \/ pending' = Append(pending, s)
      BY <1>6 DEF Push
    <3>2. pending \in Seq(Sources) /\ Append(pending, s) \in Seq(Sources)
      OBVIOUS
    <3> QED BY <3>1, <3>2
  <2>3. full' \in BOOLEAN
    BY <1>6 DEF Push
  <2> QED BY <2>1, <2>2, <2>3
<1>7. ASSUME NEW s \in Sources, NotifyReady(s) PROVE TypeOK'
  BY <1>7 DEF NotifyReady
<1>8. ASSUME NEW d \in Drivers, Claim(d) PROVE TypeOK'
  BY <1>8, BoundsAssumption DEF Claim
<1>9. ASSUME NEW d \in Drivers, NEW what \in Mappings, Map(d, what) PROVE TypeOK'
  BY <1>9 DEF Map
<1>10. ASSUME NEW d \in Drivers, NEW s \in Sources, Service(d, s) PROVE TypeOK'
  BY <1>10 DEF Service
<1>11. ASSUME NEW d \in Drivers, NEW s \in Sources, Ack(d, s) PROVE TypeOK'
  BY <1>11 DEF Ack, Acked
<1>12. ASSUME NEW d \in Drivers, NEW s \in Sources, Unmask(d, s) PROVE TypeOK'
  BY <1>12 DEF Unmask
<1>13. ASSUME NEW d \in Drivers, NEW s \in Sources, Mask(d, s) PROVE TypeOK'
  BY <1>13 DEF Mask
<1>14. ASSUME NEW d \in Drivers, LetThrough(d) \/ HoldOffByDriver(d) PROVE TypeOK'
  BY <1>14 DEF LetThrough, HoldOffByDriver
<1>15. ASSUME NEW d \in Drivers, PollEvent(d) \/ ClaimPermit(d) \/ Resume(d) \/ Drop(d) PROVE TypeOK'
  <2>1. 1 \in Sources
    BY NumSourcesAssumption DEF Sources
  <2>2. CASE PollEvent(d) \/ Resume(d)
    BY <2>2 DEF PollEvent, Resume
  <2>3. CASE ClaimPermit(d)
    BY <2>3 DEF ClaimPermit
  <2>4. CASE Drop(d)
    BY <2>1, <2>4 DEF Drop
  <2> QED BY <1>15, <2>2, <2>3, <2>4
<1>16. ASSUME NEW d \in Drivers, Pop(d) PROVE TypeOK'
  <2>1. CASE pending # << >>
    <3>1. Head(pending) \in Sources /\ Tail(pending) \in Seq(Sources)
      BY <2>1
    <3> QED BY <1>16, <2>1, <3>1 DEF Pop
  <2>2. CASE pending = << >>
    BY <1>16, <2>2 DEF Pop
  <2> QED BY <2>1, <2>2
<1>17. ASSUME NEW d \in Drivers, QuiesceFlag(d) \/ QuiesceHold(d) PROVE TypeOK'
  BY <1>17 DEF QuiesceFlag, QuiesceHold
<1>18. ASSUME NEW d \in Drivers, QuiesceClear(d) PROVE TypeOK'
  <2>1. cur' \in Sources
    BY <1>18, NumSourcesAssumption DEF QuiesceClear, Sources
  <2> QED BY <1>18, <2>1 DEF QuiesceClear
<1>19. ASSUME NEW d \in Drivers, QuiesceDrain(d) PROVE TypeOK'
  BY <1>19 DEF QuiesceDrain
<1>20. ASSUME NEW d \in Drivers, Unmap(d) PROVE TypeOK'
  BY <1>20 DEF Unmap
<1>21. ASSUME NEW d \in Drivers, ReturnDevice(d) PROVE TypeOK'
  BY <1>21 DEF ReturnDevice
<1>22. CASE UNCHANGED vars
  BY <1>22 DEF vars
<1> QED
  BY <1>1, <1>2, <1>3, <1>4, <1>5, <1>6, <1>7, <1>8, <1>9, <1>10, <1>11, <1>12, <1>13, <1>14,
     <1>15, <1>16, <1>17, <1>18, <1>19, <1>20, <1>21, <1>22 DEF Next, HandlerStep, Call, Continue

-----------------------------------------------------------------------------
(* The holder.                                                             *)

\* Claimed means held by exactly one driver, and only by that one mapped.
HolderInv ==
  /\ \A d, e \in Drivers : dpc[d] # "out" /\ dpc[e] # "out" => d = e
  /\ claimed <=> \E d \in Drivers : dpc[d] # "out"
  /\ \A d \in Drivers : dpc[d] \in {"out", "return"} => reach[d] = {}

LEMMA HolderStart == Init => HolderInv
  BY DEF Init, HolderInv

LEMMA HolderStep == TypeOK /\ HolderInv /\ [Next]_vars => HolderInv'
<1> SUFFICES ASSUME TypeOK, HolderInv, [Next]_vars PROVE HolderInv'
  OBVIOUS
<1> USE DEF deviceVars, relayVars, handlerVars, driverVars, leaseVars, Task
<1>1. ASSUME NEW d \in Drivers, NEW there, dpc[d] # "out", there \notin {"out", "return"},
             dpc' = [dpc EXCEPT ![d] = there], UNCHANGED claimed,
             \A e \in Drivers \ {d} : reach'[e] = reach[e]
      PROVE  HolderInv'
  <2>1. /\ dpc'[d] = there /\ there # "out"
        /\ \A e \in Drivers \ {d} : dpc'[e] = dpc[e]
    BY <1>1 DEF TypeOK
  <2> QED BY <1>1, <2>1 DEF HolderInv
<1>2. ASSUME UNCHANGED <<dpc, claimed, reach>> PROVE HolderInv'
  BY <1>2 DEF HolderInv
<1>3. ASSUME NEW s \in Sources, RaiseLine(s) \/ Deliver(s) \/ HandlerStep(s) PROVE HolderInv'
  BY <1>2, <1>3
     DEF RaiseLine, Deliver, HandlerStep, FlagMasked, HoldOff, SwapOutstanding, Push, NotifyReady
<1>4. ASSUME NEW d \in Drivers, Claim(d) PROVE HolderInv'
  <2>1. \A e \in Drivers : dpc[e] = "out"
    BY <1>4 DEF Claim, HolderInv
  <2>2. claimed' /\ dpc'[d] = "run" /\ UNCHANGED reach /\ \A e \in Drivers \ {d} : dpc'[e] = "out"
    BY <1>4, <2>1 DEF Claim, TypeOK
  <2>3. \A e \in Drivers : reach[e] = {}
    BY <2>1 DEF HolderInv
  <2> QED BY <2>2, <2>3 DEF HolderInv
<1>5. ASSUME NEW d \in Drivers, NEW what \in Mappings, Map(d, what) PROVE HolderInv'
  <2>1. \A e \in Drivers \ {d} : reach'[e] = reach[e]
    BY <1>5 DEF Map, TypeOK
  <2>2. dpc[d] # "out" /\ dpc' = [dpc EXCEPT ![d] = "run"] /\ UNCHANGED claimed
    BY <1>5 DEF Map
  <2> QED BY <1>1, <2>1, <2>2
<1>6. ASSUME NEW d \in Drivers, NEW s \in Sources,
             Service(d, s) \/ Ack(d, s) \/ Unmask(d, s) \/ Mask(d, s)
      PROVE  HolderInv'
  <2>1. /\ dpc[d] # "out" /\ UNCHANGED <<claimed, reach>>
        /\ \E there \in {"run", "unmask", "mask"} : dpc' = [dpc EXCEPT ![d] = there]
    BY <1>6 DEF Service, Ack, Acked, Unmask, Mask
  <2> QED BY <1>1, <2>1
<1>7. ASSUME NEW d \in Drivers,
             \/ PollEvent(d) \/ ClaimPermit(d) \/ Resume(d) \/ Drop(d) \/ LetThrough(d)
             \/ HoldOffByDriver(d) \/ Pop(d) \/ QuiesceFlag(d) \/ QuiesceHold(d)
             \/ QuiesceClear(d) \/ QuiesceDrain(d)
      PROVE  HolderInv'
  <2>1. /\ dpc[d] # "out" /\ UNCHANGED <<claimed, reach>>
        /\ \E there \in {"run", "pop", "wait", "q_flag", "q_hold", "q_clear", "q_drain", "unmap"} :
             dpc' = [dpc EXCEPT ![d] = there]
    BY <1>7 DEF PollEvent, ClaimPermit, Resume, Drop, LetThrough, HoldOffByDriver, Pop,
                QuiesceFlag, QuiesceHold, QuiesceClear, QuiesceDrain
  <2> QED BY <1>1, <2>1
<1>8. ASSUME NEW d \in Drivers, Unmap(d) PROVE HolderInv'
  <2>1. dpc[d] = "unmap" /\ UNCHANGED claimed
    BY <1>8 DEF Unmap
  <2>2. CASE reach[d] = {}
    <3>1. UNCHANGED reach /\ dpc' = [dpc EXCEPT ![d] = "return"]
      BY <1>8, <2>2 DEF Unmap
    <3>2. dpc'[d] = "return" /\ \A e \in Drivers \ {d} : dpc'[e] = dpc[e]
      BY <3>1 DEF TypeOK
    <3> QED BY <2>1, <2>2, <3>1, <3>2 DEF HolderInv
  <2>3. CASE reach[d] # {} /\ UNCHANGED dpc
    <3>1. \A e \in Drivers \ {d} : reach'[e] = reach[e]
      BY <1>8, <2>3 DEF Unmap, TypeOK
    <3> QED BY <2>1, <2>3, <3>1 DEF HolderInv
  <2> QED BY <1>8, <2>2, <2>3 DEF Unmap
<1>9. ASSUME NEW d \in Drivers, ReturnDevice(d) PROVE HolderInv'
  <2>1. /\ dpc[d] = "return" /\ ~claimed' /\ UNCHANGED reach
        /\ dpc'[d] = "out" /\ \A e \in Drivers \ {d} : dpc'[e] = dpc[e]
    BY <1>9 DEF ReturnDevice, TypeOK
  <2>2. \A e \in Drivers \ {d} : dpc[e] = "out"
    BY <2>1 DEF HolderInv
  <2> QED BY <2>1, <2>2 DEF HolderInv
<1>10. CASE UNCHANGED vars
  BY <1>2, <1>10 DEF vars
<1> QED
  BY <1>3, <1>4, <1>5, <1>6, <1>7, <1>8, <1>9, <1>10 DEF Next, Call, Continue

-----------------------------------------------------------------------------
(* The sources.                                                            *)

\* What the holder is doing.
Sweeping == \E d \in Drivers : dpc[d] \in {"q_flag", "q_hold", "q_clear"}
Holding == \E d \in Drivers : dpc[d] = "q_hold"
Clearing == \E d \in Drivers : dpc[d] = "q_clear"
Draining == \E d \in Drivers : dpc[d] = "q_drain"
Leaving == \E d \in Drivers : dpc[d] \in {"unmap", "return"}
Opening == \E d \in Drivers : dpc[d] = "unmask"
Masking == \E d \in Drivers : dpc[d] = "mask"
Calm == claimed /\ ~Sweeping /\ ~Draining /\ ~Leaving

\* What it means for a source: quiesced, its flag set and its controller call
\* to come, about to be cleared, about to be let through.
Cleared(s) == ~claimed \/ (Sweeping /\ s < cur) \/ Draining \/ Leaving
Shutting(s) == s = cur /\ (Masking \/ Holding)
AtClear(s) == s = cur /\ Clearing
Unmasking(s) == s = cur /\ Opening

\* The flag and the controller agree on a source unless one of the two calls
\* that make them agree is under way, and a quiesced source is shut.
GateInv(s) ==
  /\ Cleared(s) => s \in masked /\ s \notin through /\ hpc[s] = "idle" /\ s \notin outstanding
  /\ Shutting(s) \/ AtClear(s) \/ hpc[s] = "hold" => s \in masked
  /\ s \in masked /\ s \in through => hpc[s] = "hold" \/ Shutting(s)
  /\ s \notin masked => s \in through \/ Unmasking(s)
  /\ Unmasking(s) => s \notin masked /\ s \notin through /\ hpc[s] \notin {"flag", "hold"}

\* An outstanding source has an event the driver will read or has in hand, and
\* one the driver waits on is masked only with an event on its way.
StageInv(s) ==
  Calm => /\ s \in outstanding => Waiting(s) \/ stage[s] = "event"
          /\ stage[s] = "armed" /\ s \in masked => hpc[s] \in {"hold", "swap"} \/ Waiting(s)

\* A source whose event waits is outstanding, so no second one is queued.
EventInv(s) ==
  /\ Waiting(s) => s \in outstanding \/ Cleared(s)
  /\ hpc[s] = "push" => ~InQueue(s)

SourceInv(s) == GateInv(s) /\ StageInv(s) /\ (~hasty => EventInv(s))

NoDuplicates == \A i, j \in 1 .. Len(pending) : pending[i] = pending[j] => i = j

QueueInv ==
  /\ ~hasty => ~full /\ NoDuplicates
  /\ ~claimed \/ Leaving => pending = << >>

RelayInv == ~overtaken /\ ~crossed => QueueInv /\ \A s \in Sources : SourceInv(s)

\* The queue after a push and after a pop.
LEMMA Pushed ==
  ASSUME TypeOK, NEW s \in Sources, pending' = Append(pending, s)
  PROVE  /\ \A t \in Sources : InQueue(t)' <=> InQueue(t) \/ t = s
         /\ ~InQueue(s) /\ NoDuplicates =>
              NoDuplicates'
<1>1. Len(pending) \in Nat /\ Len(pending') = Len(pending) + 1
  BY DEF TypeOK
<1>2. /\ \A i \in 1 .. Len(pending) : pending'[i] = pending[i]
      /\ pending'[Len(pending) + 1] = s
  BY DEF TypeOK
<1>3. 1 .. Len(pending') = (1 .. Len(pending)) \cup {Len(pending) + 1}
  BY <1>1
<1>4. \A t \in Sources : InQueue(t)' <=> InQueue(t) \/ t = s
  BY <1>2, <1>3 DEF InQueue
<1>5. ASSUME ~InQueue(s), NoDuplicates
      PROVE  NoDuplicates'
  BY <1>2, <1>3, <1>5 DEF InQueue, NoDuplicates
<1> QED BY <1>4, <1>5

LEMMA Popped ==
  ASSUME TypeOK, pending # << >>, pending' = Tail(pending)
  PROVE  /\ Head(pending) \in Sources /\ InQueue(Head(pending))
         /\ \A t \in Sources : InQueue(t)' => InQueue(t)
         /\ \A t \in Sources : InQueue(t) => InQueue(t)' \/ t = Head(pending)
         /\ NoDuplicates =>
              /\ NoDuplicates'
              /\ \A t \in Sources : InQueue(t)' => t # Head(pending)
<1>1. /\ Len(pending) \in Nat \ {0} /\ Len(pending') = Len(pending) - 1
      /\ Head(pending) = pending[1] /\ pending[1] \in Sources
  BY DEF TypeOK
<1>2. \A i \in 1 .. Len(pending) - 1 : pending'[i] = pending[i + 1]
  BY DEF TypeOK
<1>3. \A i \in 1 .. Len(pending) - 1 : i + 1 \in 1 .. Len(pending) /\ i + 1 # 1
  BY <1>1
<1>4. InQueue(Head(pending))
  BY <1>1 DEF InQueue
<1>5. \A t \in Sources : InQueue(t)' => InQueue(t)
  BY <1>1, <1>2, <1>3 DEF InQueue
<1>6. ASSUME NEW t \in Sources, InQueue(t), t # Head(pending) PROVE InQueue(t)'
  <2>1. PICK i \in 1 .. Len(pending) : pending[i] = t
    BY <1>6 DEF InQueue
  <2>2. i - 1 \in 1 .. Len(pending) - 1 /\ (i - 1) + 1 = i
    BY <1>1, <1>6, <2>1
  <2>3. pending'[i - 1] = t
    BY <1>2, <2>1, <2>2
  <2> QED BY <1>1, <2>2, <2>3 DEF InQueue
<1>7. ASSUME NoDuplicates
      PROVE  /\ NoDuplicates'
             /\ \A t \in Sources : InQueue(t)' => t # Head(pending)
  <2>1. ASSUME NEW i \in 1 .. Len(pending) - 1, NEW j \in 1 .. Len(pending) - 1,
               pending'[i] = pending'[j]
        PROVE  i = j
    <3>1. i + 1 = j + 1
      BY <1>2, <1>3, <1>7, <2>1 DEF NoDuplicates
    <3> QED BY <3>1
  <2>2. ASSUME NEW i \in 1 .. Len(pending) - 1 PROVE pending'[i] # Head(pending)
    <3>1. 1 \in 1 .. Len(pending)
      BY <1>1
    <3> QED BY <1>1, <1>2, <1>3, <1>7, <3>1 DEF NoDuplicates
  <2> QED BY <1>1, <2>1, <2>2 DEF InQueue, NoDuplicates
<1> QED BY <1>1, <1>4, <1>5, <1>6, <1>7

\* A source that has yet to be pushed finds room: the queue holds each of the
\* other sources at most once.
LEMMA RoomForOne ==
  ASSUME TypeOK, NoDuplicates, NEW s \in Sources, ~InQueue(s)
  PROVE  Len(pending) < NumSources
<1> DEFINE Others == Sources \ {s}
           n == Len(pending)
           f == [i \in 1 .. n |-> pending[i]]
<1>1. n \in Nat /\ \A i \in 1 .. n : pending[i] \in Others
  BY DEF TypeOK, InQueue
<1>2. f \in Injection(1 .. n, Others)
  BY <1>1 DEF Injection, IsInjective, NoDuplicates
<1>3. IsFiniteSet(Others) /\ Cardinality(Others) = NumSources - 1
  BY SourcesFinite, FS_RemoveElement
<1>4. Cardinality(1 .. n) <= Cardinality(Others)
  BY <1>2, <1>3, FS_Injection
<1>5. Cardinality(1 .. n) = n
  <2>1. 1 \in Int /\ n \in Int
    BY <1>1
  <2>2. Cardinality(1 .. n) = IF 1 > n THEN 0 ELSE n - 1 + 1
    BY <2>1, FS_Interval
  <2> QED BY <1>1, <2>2
<1> QED BY <1>1, <1>3, <1>4, <1>5, NumSourcesAssumption

-----------------------------------------------------------------------------
(* How the steps move a source.                                            *)

\* A step that does not concern a source.
Aside(t) ==
  /\ Cleared(t)' <=> Cleared(t)
  /\ Shutting(t)' <=> Shutting(t)
  /\ AtClear(t)' <=> AtClear(t)
  /\ Unmasking(t)' <=> Unmasking(t)
  /\ Calm' => Calm
  /\ stage'[t] = stage[t] /\ hpc'[t] = hpc[t]
  /\ t \in masked' <=> t \in masked
  /\ t \in through' <=> t \in through
  /\ t \in outstanding' <=> t \in outstanding
  /\ InQueue(t)' <=> InQueue(t)
  /\ hasty => hasty'

LEMMA AsideKeeps ==
  ASSUME NEW t, SourceInv(t), Aside(t)
  PROVE  SourceInv(t)'
<1>1. GateInv(t)'
  BY DEF Aside, SourceInv, GateInv
<1>2. Waiting(t)' <=> Waiting(t)
  BY DEF Aside, Waiting
<1>3. StageInv(t)'
  BY <1>2 DEF Aside, SourceInv, StageInv
<1>4. ~hasty' => EventInv(t)'
  BY <1>2 DEF Aside, SourceInv, EventInv
<1> QED BY <1>1, <1>3, <1>4 DEF SourceInv

\* The holder is alone, so its place is what the predicates above say.
LEMMA HolderMoves ==
  ASSUME TypeOK, HolderInv, NEW d \in Drivers, NEW there,
         dpc[d] # "out" \/ ~claimed, dpc' = [dpc EXCEPT ![d] = there]
  PROVE  /\ Sweeping <=> dpc[d] \in {"q_flag", "q_hold", "q_clear"}
         /\ Sweeping' <=> there \in {"q_flag", "q_hold", "q_clear"}
         /\ Holding <=> dpc[d] = "q_hold"
         /\ Holding' <=> there = "q_hold"
         /\ Clearing <=> dpc[d] = "q_clear"
         /\ Clearing' <=> there = "q_clear"
         /\ Draining <=> dpc[d] = "q_drain"
         /\ Draining' <=> there = "q_drain"
         /\ Leaving <=> dpc[d] \in {"unmap", "return"}
         /\ Leaving' <=> there \in {"unmap", "return"}
         /\ Opening <=> dpc[d] = "unmask"
         /\ Opening' <=> there = "unmask"
         /\ Masking <=> dpc[d] = "mask"
         /\ Masking' <=> there = "mask"
         /\ dpc[d] # "out" => claimed
<1>1. \A e \in Drivers \ {d} : dpc[e] = "out"
  BY DEF HolderInv
<1>2. dpc'[d] = there /\ \A e \in Drivers \ {d} : dpc'[e] = "out"
  BY <1>1 DEF TypeOK
<1>3. /\ Sweeping <=> dpc[d] \in {"q_flag", "q_hold", "q_clear"}
      /\ Sweeping' <=> there \in {"q_flag", "q_hold", "q_clear"}
  BY <1>1, <1>2 DEF Sweeping
<1>4. (Holding <=> dpc[d] = "q_hold") /\ (Holding' <=> there = "q_hold")
  BY <1>1, <1>2 DEF Holding
<1>5. (Clearing <=> dpc[d] = "q_clear") /\ (Clearing' <=> there = "q_clear")
  BY <1>1, <1>2 DEF Clearing
<1>6. (Draining <=> dpc[d] = "q_drain") /\ (Draining' <=> there = "q_drain")
  BY <1>1, <1>2 DEF Draining
<1>7. (Leaving <=> dpc[d] \in {"unmap", "return"}) /\ (Leaving' <=> there \in {"unmap", "return"})
  BY <1>1, <1>2 DEF Leaving
<1>8. (Opening <=> dpc[d] = "unmask") /\ (Opening' <=> there = "unmask")
  BY <1>1, <1>2 DEF Opening
<1>9. (Masking <=> dpc[d] = "mask") /\ (Masking' <=> there = "mask")
  BY <1>1, <1>2 DEF Masking
<1>10. dpc[d] # "out" => claimed
  BY DEF HolderInv
<1> QED BY <1>3, <1>4, <1>5, <1>6, <1>7, <1>8, <1>9, <1>10

-----------------------------------------------------------------------------
(* A handler's steps.                                                      *)

LEMMA HandlerKeeps ==
  ASSUME TypeOK, QueueInv, \A t \in Sources : SourceInv(t), ~full, NEW s \in Sources,
         RaiseLine(s) \/ Deliver(s) \/ HandlerStep(s)
  PROVE  QueueInv' /\ \A t \in Sources : SourceInv(t)'
<1> USE DEF deviceVars, relayVars, handlerVars, driverVars, leaseVars, history, Handler
<1>1. UNCHANGED <<claimed, dpc, cur, stage, hasty>>
  BY DEF RaiseLine, Deliver, HandlerStep, FlagMasked, HoldOff, SwapOutstanding, Push, NotifyReady
<1>2. /\ UNCHANGED <<Sweeping, Holding, Clearing, Draining, Leaving, Opening, Masking, Calm>>
      /\ \A t : /\ Cleared(t)' <=> Cleared(t)
                /\ Shutting(t)' <=> Shutting(t)
                /\ AtClear(t)' <=> AtClear(t)
                /\ Unmasking(t)' <=> Unmasking(t)
  BY <1>1 DEF Sweeping, Holding, Clearing, Draining, Leaving, Opening, Masking, Calm,
              Cleared, Shutting, AtClear, Unmasking
<1>3. ASSUME NEW t \in Sources \ {s} PROVE SourceInv(t)'
  <2>1. /\ hpc'[t] = hpc[t]
        /\ t \in masked' <=> t \in masked
        /\ t \in through' <=> t \in through
        /\ t \in outstanding' <=> t \in outstanding
    BY DEF RaiseLine, Deliver, HandlerStep, FlagMasked, HoldOff, SwapOutstanding, Push, NotifyReady,
           TypeOK
  <2>2. pending' = pending \/ pending' = Append(pending, s)
    BY DEF RaiseLine, Deliver, HandlerStep, FlagMasked, HoldOff, SwapOutstanding, Push, NotifyReady
  <2>3. InQueue(t)' <=> InQueue(t)
    BY <2>2, Pushed DEF InQueue
  <2>4. Aside(t)
    BY <1>1, <1>2, <2>1, <2>3 DEF Aside
  <2> QED BY <2>4, AsideKeeps
<1>4. GateInv(s) /\ StageInv(s) /\ (~hasty => EventInv(s))
  BY DEF SourceInv
<1>5. pending' = pending /\ full' = full => QueueInv' /\ (InQueue(s)' <=> InQueue(s))
  BY <1>1, <1>2 DEF QueueInv, NoDuplicates, InQueue
<1>6. CASE RaiseLine(s)
  <2>1. UNCHANGED <<hpc, masked, through, outstanding, pending, full>>
    BY <1>6 DEF RaiseLine
  <2>2. Aside(s)
    BY <1>1, <1>2, <1>5, <2>1 DEF Aside
  <2> QED BY <1>3, <1>5, <2>1, <2>2, AsideKeeps
<1>7. CASE Deliver(s)
  <2>1. /\ UNCHANGED <<masked, through, outstanding, pending, full>>
        /\ hpc[s] = "idle" /\ hpc'[s] = "flag" /\ s \in through
    BY <1>7 DEF Deliver, TypeOK
  <2>2. Waiting(s)' <=> Waiting(s)
    BY <1>5, <2>1 DEF Waiting
  <2>3. GateInv(s)'
    BY <1>2, <1>4, <2>1 DEF GateInv
  <2>4. StageInv(s)'
    BY <1>1, <1>2, <1>4, <2>1, <2>2 DEF StageInv
  <2>5. ~hasty => EventInv(s)'
    BY <1>2, <1>4, <1>5, <2>1, <2>2 DEF EventInv
  <2> QED BY <1>1, <1>3, <1>5, <2>1, <2>3, <2>4, <2>5 DEF SourceInv
<1>8. CASE FlagMasked(s)
  <2>1. /\ UNCHANGED <<through, outstanding, pending, full>>
        /\ hpc[s] = "flag" /\ hpc'[s] = (IF s \in masked THEN "swap" ELSE "hold") /\ s \in masked'
    BY <1>8 DEF FlagMasked, TypeOK
  <2>2. Waiting(s)' <=> Waiting(s)
    BY <1>5, <2>1 DEF Waiting
  <2>3. GateInv(s)'
    BY <1>2, <1>4, <2>1 DEF GateInv
  <2>4. StageInv(s)'
    BY <1>1, <1>2, <1>4, <2>1, <2>2 DEF StageInv
  <2>5. ~hasty => EventInv(s)'
    BY <1>2, <1>4, <1>5, <2>1, <2>2 DEF EventInv
  <2> QED BY <1>1, <1>3, <1>5, <2>1, <2>3, <2>4, <2>5 DEF SourceInv
<1>9. CASE HoldOff(s)
  <2>1. /\ UNCHANGED <<masked, outstanding, pending, full>>
        /\ hpc[s] = "hold" /\ hpc'[s] = "swap" /\ s \notin through'
    BY <1>9 DEF HoldOff, TypeOK
  <2>2. Waiting(s)' <=> Waiting(s)
    BY <1>5, <2>1 DEF Waiting
  <2>3. GateInv(s)'
    BY <1>2, <1>4, <2>1 DEF GateInv
  <2>4. StageInv(s)'
    BY <1>1, <1>2, <1>4, <2>1, <2>2 DEF StageInv
  <2>5. ~hasty => EventInv(s)'
    BY <1>2, <1>4, <1>5, <2>1, <2>2 DEF EventInv
  <2> QED BY <1>1, <1>3, <1>5, <2>1, <2>3, <2>4, <2>5 DEF SourceInv
<1>10. CASE SwapOutstanding(s)
  <2>1. /\ UNCHANGED <<masked, through, pending, full>> /\ s \in outstanding'
        /\ hpc[s] = "swap" /\ hpc'[s] = IF s \in outstanding THEN "idle" ELSE "push"
    BY <1>10 DEF SwapOutstanding, TypeOK
  <2>2. Waiting(s)' <=> Waiting(s) \/ s \notin outstanding
    BY <1>5, <2>1 DEF Waiting
  <2>3. GateInv(s)'
    BY <1>2, <1>4, <2>1 DEF GateInv
  <2>4. StageInv(s)'
    BY <1>1, <1>2, <1>4, <2>1, <2>2 DEF StageInv
  <2>5. ASSUME ~hasty PROVE EventInv(s)'
    <3>1. ~Cleared(s)
      BY <1>4, <2>1 DEF GateInv
    <3>2. s \notin outstanding => ~InQueue(s)
      BY <1>4, <2>5, <3>1 DEF EventInv, Waiting
    <3> QED BY <1>5, <2>1, <3>2 DEF EventInv
  <2> QED BY <1>1, <1>3, <1>5, <2>1, <2>3, <2>4, <2>5 DEF SourceInv
<1>11. CASE Push(s)
  <2>1. hpc[s] = "push" /\ UNCHANGED <<masked, through, outstanding>>
    BY <1>11 DEF Push
  <2>2. ~Cleared(s)
    BY <1>4, <2>1 DEF GateInv
  <2>3. ASSUME ~hasty PROVE Len(pending) # NumSources /\ ~InQueue(s) /\ s \in outstanding
    <3>1. s \in outstanding /\ ~InQueue(s)
      BY <1>4, <2>1, <2>2, <2>3 DEF EventInv, Waiting
    <3>2. NoDuplicates
      BY <2>3 DEF QueueInv
    <3>3. Len(pending) < NumSources
      BY <3>1, <3>2, RoomForOne
    <3> QED BY <3>1, <3>3, NumSourcesAssumption DEF TypeOK
  <2>4. CASE Len(pending) = NumSources
    <3>1. hasty /\ hasty' /\ UNCHANGED pending /\ hpc' = hpc
      BY <1>1, <1>11, <2>3, <2>4 DEF Push, TypeOK
    <3>2. InQueue(s)' <=> InQueue(s)
      BY <3>1 DEF InQueue
    <3>3. Aside(s)
      BY <1>1, <1>2, <2>1, <3>1, <3>2 DEF Aside
    <3>4. QueueInv'
      BY <1>1, <1>2, <3>1 DEF QueueInv
    <3> QED BY <1>3, <3>3, <3>4, AsideKeeps
  <2>5. CASE Len(pending) # NumSources
    <3>1. UNCHANGED full /\ pending' = Append(pending, s) /\ hpc'[s] = "notify"
      BY <1>11, <2>5 DEF Push, TypeOK
    <3>2. InQueue(s)' /\ Waiting(s) /\ Waiting(s)'
      BY <2>1, <3>1, Pushed DEF Waiting
    <3>3. ~hasty => NoDuplicates'
      BY <2>3, <3>1, Pushed DEF QueueInv
    <3>4. QueueInv'
      BY <1>1, <1>2, <2>2, <3>1, <3>3 DEF QueueInv, Cleared
    <3>5. GateInv(s)'
      BY <1>2, <1>4, <2>1, <2>2, <3>1 DEF GateInv
    <3>6. StageInv(s)'
      BY <1>1, <1>2, <1>4, <2>1, <3>1, <3>2 DEF StageInv
    <3>7. ~hasty => EventInv(s)'
      BY <2>1, <2>3, <3>1 DEF EventInv
    <3> QED BY <1>1, <1>3, <3>4, <3>5, <3>6, <3>7 DEF SourceInv
  <2> QED BY <2>4, <2>5
<1>12. CASE NotifyReady(s)
  <2>1. /\ UNCHANGED <<masked, through, outstanding, pending, full>>
        /\ hpc[s] = "notify" /\ hpc'[s] = "idle"
    BY <1>12 DEF NotifyReady, TypeOK
  <2>2. Waiting(s)' <=> Waiting(s)
    BY <1>5, <2>1 DEF Waiting
  <2>3. GateInv(s)'
    BY <1>2, <1>4, <2>1 DEF GateInv
  <2>4. StageInv(s)'
    BY <1>1, <1>2, <1>4, <2>1, <2>2 DEF StageInv
  <2>5. ~hasty => EventInv(s)'
    BY <1>2, <1>4, <1>5, <2>1, <2>2 DEF EventInv
  <2> QED BY <1>1, <1>3, <1>5, <2>1, <2>3, <2>4, <2>5 DEF SourceInv
<1> QED BY <1>6, <1>7, <1>8, <1>9, <1>10, <1>11, <1>12 DEF HandlerStep

-----------------------------------------------------------------------------
(* The driver's steps, while it drives.                                    *)

LEMMA StaysCalm ==
  ASSUME TypeOK, HolderInv, NEW d \in Drivers, NEW there \in {"run", "unmask", "mask", "pop", "wait"},
         dpc[d] \in {"run", "unmask", "mask", "pop", "wait"}, dpc' = [dpc EXCEPT ![d] = there],
         UNCHANGED claimed
  PROVE  /\ Calm /\ Calm' /\ \A t : ~Cleared(t) /\ ~Cleared(t)' /\ ~AtClear(t) /\ ~AtClear(t)'
         /\ Opening <=> dpc[d] = "unmask"
         /\ Opening' <=> there = "unmask"
         /\ Masking <=> dpc[d] = "mask"
         /\ Masking' <=> there = "mask"
         /\ ~Holding /\ ~Holding'
<1>1. /\ claimed /\ claimed' /\ ~Sweeping /\ ~Sweeping' /\ ~Draining /\ ~Draining'
      /\ ~Leaving /\ ~Leaving' /\ ~Holding /\ ~Holding' /\ ~Clearing /\ ~Clearing'
  BY HolderMoves
<1>2. /\ (Opening <=> dpc[d] = "unmask") /\ (Opening' <=> there = "unmask")
      /\ (Masking <=> dpc[d] = "mask") /\ (Masking' <=> there = "mask")
  BY HolderMoves
<1> QED BY <1>1, <1>2 DEF Calm, Cleared, AtClear

LEMMA DriverKeeps ==
  ASSUME TypeOK, HolderInv, QueueInv, \A t \in Sources : SourceInv(t), NEW d \in Drivers,
         \/ Call(d) \/ PollEvent(d) \/ ClaimPermit(d) \/ Resume(d)
         \/ LetThrough(d) \/ HoldOffByDriver(d) \/ Pop(d),
         ~crossed'
  PROVE  QueueInv' /\ \A t \in Sources : SourceInv(t)'
<1> USE DEF deviceVars, relayVars, handlerVars, driverVars, leaseVars, history, Task
<1>1. ASSUME NEW there \in {"run", "unmask", "mask", "pop", "wait"}, UNCHANGED <<claimed, pending, full>>,
             dpc[d] \in {"run", "unmask", "mask", "pop", "wait"}, dpc' = [dpc EXCEPT ![d] = there],
             hasty => hasty'
      PROVE  QueueInv' /\ \A t : InQueue(t)' <=> InQueue(t)
  <2>1. Calm'
    BY <1>1, StaysCalm
  <2> QED BY <1>1, <2>1 DEF QueueInv, NoDuplicates, InQueue, Calm
<1>2. ASSUME NEW there \in {"run", "pop", "wait"}, dpc[d] \in {"run", "pop", "wait"},
             dpc' = [dpc EXCEPT ![d] = there], UNCHANGED <<claimed, hpc, through>>,
             NEW t \in Sources, stage'[t] = stage[t], t \in masked' <=> t \in masked,
             t \in outstanding' <=> t \in outstanding, InQueue(t)' <=> InQueue(t), hasty => hasty'
      PROVE  SourceInv(t)'
  <2>1. /\ Calm /\ ~Cleared(t) /\ ~Cleared(t)' /\ ~AtClear(t) /\ ~AtClear(t)'
        /\ ~Opening /\ ~Opening' /\ ~Masking /\ ~Masking' /\ ~Holding /\ ~Holding'
    BY <1>2, StaysCalm
  <2>2. Aside(t)
    BY <1>2, <2>1 DEF Aside, Shutting, Unmasking
  <2> QED BY <2>2, AsideKeeps
<1>3. CASE \/ PollEvent(d) \/ ClaimPermit(d) \/ Resume(d) \/ (\E what \in Mappings : Map(d, what))
           \/ \E s \in Sources : Service(d, s)
  <2>1. UNCHANGED <<claimed, stage, hpc, masked, through, outstanding, pending, full, hasty>>
    BY <1>3 DEF PollEvent, ClaimPermit, Resume, Map, Service
  <2>2. /\ dpc[d] \in {"run", "pop", "wait"}
        /\ \E there \in {"run", "pop", "wait"} : dpc' = [dpc EXCEPT ![d] = there]
    BY <1>3 DEF PollEvent, ClaimPermit, Resume, Map, Service
  <2>3. QueueInv' /\ \A t : InQueue(t)' <=> InQueue(t)
    BY <1>1, <2>1, <2>2
  <2> QED BY <1>2, <2>1, <2>2, <2>3
<1>4. ASSUME NEW s \in Sources, Ack(d, s) PROVE QueueInv' /\ \A t \in Sources : SourceInv(t)'
  <2>1. /\ UNCHANGED <<claimed, hpc, masked, through, pending, full>>
        /\ dpc[d] = "run" /\ dpc' = [dpc EXCEPT ![d] = "run"]
        /\ outstanding' = outstanding \ {s}
        /\ hasty => hasty'
        /\ ~hasty' => ~Waiting(s)
    BY <1>4 DEF Ack, Acked
  <2>2. /\ \A t \in Sources \ {s} : stage'[t] = stage[t]
        /\ stage'[s] = "armed" => stage[s] = "armed"
    BY <1>4 DEF Ack, Acked, TypeOK
  <2>3. QueueInv' /\ \A t : InQueue(t)' <=> InQueue(t)
    BY <1>1, <2>1
  <2>4. \A t \in Sources \ {s} : SourceInv(t)'
    BY <1>2, <2>1, <2>2, <2>3
  <2>5. /\ Calm /\ ~Cleared(s)' /\ ~AtClear(s)'
        /\ ~Opening /\ ~Opening' /\ ~Masking /\ ~Masking' /\ ~Holding /\ ~Holding'
    BY <2>1, StaysCalm
  <2>6. Waiting(s)' <=> Waiting(s)
    BY <2>1, <2>3 DEF Waiting
  <2>7. GateInv(s) /\ StageInv(s) /\ ~Shutting(s) /\ ~Unmasking(s) /\ ~Shutting(s)' /\ ~Unmasking(s)'
    BY <2>5 DEF SourceInv, Shutting, Unmasking
  <2>8. GateInv(s)'
    BY <2>1, <2>5, <2>7 DEF GateInv
  <2>9. StageInv(s)'
    BY <2>1, <2>2, <2>5, <2>6, <2>7 DEF StageInv
  <2>10. ~hasty' => EventInv(s)'
    BY <2>1, <2>6 DEF EventInv, Waiting
  <2> QED BY <2>3, <2>4, <2>8, <2>9, <2>10 DEF SourceInv
<1>5. ASSUME NEW s \in Sources, Unmask(d, s) PROVE QueueInv' /\ \A t \in Sources : SourceInv(t)'
  <2> DEFINE there == IF s \in masked THEN "unmask" ELSE "run"
  <2>1. /\ UNCHANGED <<claimed, hpc, through, outstanding, pending, full, hasty>>
        /\ dpc[d] = "run" /\ cur' = s
        /\ dpc' = [dpc EXCEPT ![d] = there]
        /\ masked' = masked \ {s}
        /\ s \in masked => hpc[s] \notin {"flag", "hold"}
    BY <1>5 DEF Unmask
  <2>2. /\ \A t \in Sources \ {s} : stage'[t] = stage[t]
        /\ stage'[s] = "event" <=> stage[s] = "event"
    BY <1>5 DEF Unmask, TypeOK
  <2>3. there \in {"run", "unmask"}
    OBVIOUS
  <2>4. /\ Calm /\ Calm' /\ \A t : ~Cleared(t) /\ ~Cleared(t)' /\ ~AtClear(t) /\ ~AtClear(t)'
        /\ ~Opening /\ (Opening' <=> there = "unmask")
        /\ ~Masking /\ ~Masking' /\ ~Holding /\ ~Holding'
    <3> HIDE DEF there
    <3> QED BY <2>1, <2>3, StaysCalm
  <2>5. Opening' <=> s \in masked
    BY <2>4
  <2>6. QueueInv' /\ \A t : InQueue(t)' <=> InQueue(t)
    <3> HIDE DEF there
    <3> QED BY <1>1, <2>1, <2>3
  <2>7. ASSUME NEW t \in Sources \ {s} PROVE SourceInv(t)'
    <3>1. Aside(t)
      BY <2>1, <2>2, <2>4, <2>6 DEF Aside, Shutting, Unmasking
    <3> QED BY <3>1, AsideKeeps
  <2>8. Waiting(s)' <=> Waiting(s)
    BY <2>1, <2>6 DEF Waiting
  <2>9. /\ GateInv(s) /\ StageInv(s) /\ ~Shutting(s) /\ ~Unmasking(s)
        /\ ~Shutting(s)' /\ (Unmasking(s)' <=> s \in masked)
    BY <2>1, <2>4, <2>5 DEF SourceInv, Shutting, Unmasking
  <2>10. GateInv(s)'
    BY <2>1, <2>4, <2>9 DEF GateInv
  <2>11. StageInv(s)'
    BY <2>1, <2>2, <2>4, <2>8, <2>9 DEF StageInv
  <2>12. ~hasty' => EventInv(s)'
    BY <2>1, <2>4, <2>6, <2>8 DEF SourceInv, EventInv
  <2> QED BY <2>6, <2>7, <2>10, <2>11, <2>12 DEF SourceInv
<1>6. ASSUME NEW s \in Sources, Mask(d, s) PROVE QueueInv' /\ \A t \in Sources : SourceInv(t)'
  <2> DEFINE there == IF s \in masked THEN "run" ELSE "mask"
  <2>1. /\ UNCHANGED <<claimed, hpc, through, outstanding, pending, full, hasty>>
        /\ dpc[d] = "run" /\ cur' = s
        /\ dpc' = [dpc EXCEPT ![d] = there]
        /\ masked' = masked \cup {s}
    BY <1>6 DEF Mask
  <2>2. /\ \A t \in Sources \ {s} : stage'[t] = stage[t]
        /\ stage'[s] # "armed"
        /\ stage'[s] = "event" <=> stage[s] = "event"
    BY <1>6 DEF Mask, TypeOK
  <2>3. there \in {"run", "mask"}
    OBVIOUS
  <2>4. /\ Calm /\ Calm' /\ \A t : ~Cleared(t) /\ ~Cleared(t)' /\ ~AtClear(t) /\ ~AtClear(t)'
        /\ ~Masking /\ (Masking' <=> there = "mask")
        /\ ~Opening /\ ~Opening' /\ ~Holding /\ ~Holding'
    <3> HIDE DEF there
    <3> QED BY <2>1, <2>3, StaysCalm
  <2>5. Masking' <=> s \notin masked
    BY <2>4
  <2>6. QueueInv' /\ \A t : InQueue(t)' <=> InQueue(t)
    <3> HIDE DEF there
    <3> QED BY <1>1, <2>1, <2>3
  <2>7. ASSUME NEW t \in Sources \ {s} PROVE SourceInv(t)'
    <3>1. Aside(t)
      BY <2>1, <2>2, <2>4, <2>6 DEF Aside, Shutting, Unmasking
    <3> QED BY <3>1, AsideKeeps
  <2>8. Waiting(s)' <=> Waiting(s)
    BY <2>1, <2>6 DEF Waiting
  <2>9. /\ GateInv(s) /\ StageInv(s) /\ ~Shutting(s) /\ ~Unmasking(s)
        /\ ~Unmasking(s)' /\ (Shutting(s)' <=> s \notin masked)
    BY <2>1, <2>4, <2>5 DEF SourceInv, Shutting, Unmasking
  <2>10. GateInv(s)'
    BY <2>1, <2>4, <2>9 DEF GateInv
  <2>11. StageInv(s)'
    BY <2>1, <2>2, <2>4, <2>8, <2>9 DEF StageInv
  <2>12. ~hasty' => EventInv(s)'
    BY <2>1, <2>4, <2>6, <2>8 DEF SourceInv, EventInv
  <2> QED BY <2>6, <2>7, <2>10, <2>11, <2>12 DEF SourceInv
<1>7. CASE LetThrough(d) \/ HoldOffByDriver(d)
  <2>1. /\ UNCHANGED <<claimed, hpc, masked, outstanding, pending, full, cur, stage, hasty>>
        /\ dpc' = [dpc EXCEPT ![d] = "run"]
        /\ \/ dpc[d] = "unmask" /\ through' = through \cup {cur}
           \/ dpc[d] = "mask" /\ through' = through \ {cur}
    BY <1>7 DEF LetThrough, HoldOffByDriver
  <2>2. /\ Calm /\ Calm' /\ \A t : ~Cleared(t) /\ ~Cleared(t)' /\ ~AtClear(t) /\ ~AtClear(t)'
        /\ ~Opening' /\ ~Masking' /\ ~Holding /\ ~Holding'
        /\ (Opening <=> dpc[d] = "unmask") /\ (Masking <=> dpc[d] = "mask")
    BY <2>1, StaysCalm
  <2>3. QueueInv' /\ \A t : InQueue(t)' <=> InQueue(t)
    BY <1>1, <2>1
  <2>4. ASSUME NEW t \in Sources PROVE SourceInv(t)'
    <3>1. CASE t # cur
      <4>1. Aside(t)
        BY <2>1, <2>2, <2>3, <3>1 DEF Aside, Shutting, Unmasking
      <4> QED BY <4>1, AsideKeeps
    <3>2. CASE t = cur
      <4>1. Waiting(t)' <=> Waiting(t)
        BY <2>1, <2>3 DEF Waiting
      <4>2. /\ ~Shutting(t)' /\ ~Unmasking(t)'
            /\ (Shutting(t) <=> Masking) /\ (Unmasking(t) <=> Opening)
            /\ t \in through' <=> dpc[d] = "unmask"
        BY <2>1, <2>2, <3>2 DEF Shutting, Unmasking
      <4>3. GateInv(t)'
        BY <2>1, <2>2, <4>2 DEF SourceInv, GateInv
      <4>4. StageInv(t)'
        BY <2>1, <2>2, <4>1 DEF SourceInv, StageInv
      <4>5. ~hasty' => EventInv(t)'
        BY <2>1, <2>2, <2>3, <4>1 DEF SourceInv, EventInv
      <4> QED BY <4>3, <4>4, <4>5 DEF SourceInv
    <3> QED BY <3>1, <3>2
  <2> QED BY <2>3, <2>4
<1>8. CASE Pop(d)
  <2>1. CASE pending = << >>
    <3>1. /\ UNCHANGED <<claimed, stage, hpc, masked, through, outstanding, pending, full, hasty>>
          /\ dpc[d] = "pop" /\ dpc' = [dpc EXCEPT ![d] = "wait"]
      BY <1>8, <2>1 DEF Pop
    <3>2. QueueInv' /\ \A t : InQueue(t)' <=> InQueue(t)
      BY <1>1, <3>1
    <3> QED BY <1>2, <3>1, <3>2
  <2>2. CASE pending # << >>
    <3>0. PICK h \in Sources : h = Head(pending)
      BY <2>2 DEF TypeOK
    <3>1. /\ UNCHANGED <<claimed, hpc, masked, through, outstanding, full, hasty>>
          /\ dpc[d] = "pop" /\ dpc' = [dpc EXCEPT ![d] = "run"]
          /\ pending' = Tail(pending) /\ stage' = [stage EXCEPT ![h] = "event"]
      BY <1>8, <2>2, <3>0 DEF Pop
    <3>2. /\ InQueue(h)
          /\ \A t \in Sources \ {h} : InQueue(t)' <=> InQueue(t)
          /\ InQueue(h)' => InQueue(h)
          /\ NoDuplicates => NoDuplicates' /\ ~InQueue(h)'
      BY <2>2, <3>0, <3>1, Popped
    <3>3. /\ Calm /\ Calm' /\ ~Cleared(h) /\ ~Cleared(h)' /\ ~AtClear(h)'
          /\ ~Opening /\ ~Opening' /\ ~Masking /\ ~Masking' /\ ~Holding /\ ~Holding'
      BY <3>1, StaysCalm
    <3>4. QueueInv'
      BY <3>1, <3>2, <3>3 DEF QueueInv, Calm
    <3>5. stage'[h] = "event" /\ \A t \in Sources \ {h} : stage'[t] = stage[t]
      BY <3>1 DEF TypeOK
    <3>6. ASSUME NEW t \in Sources \ {h} PROVE SourceInv(t)'
      BY <1>2, <3>1, <3>2, <3>5
    <3>7. ~Shutting(h) /\ ~Unmasking(h) /\ ~Shutting(h)' /\ ~Unmasking(h)'
      BY <3>3 DEF Shutting, Unmasking
    <3>8. GateInv(h)'
      BY <3>1, <3>3, <3>7 DEF SourceInv, GateInv
    <3>9. StageInv(h)'
      BY <3>5 DEF StageInv
    <3>10. ~hasty' => EventInv(h)'
      BY <3>1, <3>2, <3>3 DEF SourceInv, EventInv, Waiting
    <3> QED BY <3>4, <3>6, <3>8, <3>9, <3>10 DEF SourceInv
  <2> QED BY <2>1, <2>2
<1> QED BY <1>3, <1>4, <1>5, <1>6, <1>7, <1>8 DEF Call

-----------------------------------------------------------------------------
(* The claim and the drop.                                                 *)

LEMMA ClaimKeeps ==
  ASSUME TypeOK, HolderInv, QueueInv, \A t \in Sources : SourceInv(t), NEW d \in Drivers, Claim(d)
  PROVE  QueueInv' /\ \A t \in Sources : SourceInv(t)'
<1> USE DEF deviceVars, relayVars, handlerVars, history, Task
<1>1. /\ UNCHANGED <<hpc, masked, through, outstanding, pending, full, hasty, cur>>
      /\ ~claimed /\ claimed' /\ dpc' = [dpc EXCEPT ![d] = "run"]
      /\ \A t \in Sources : stage'[t] = "rest"
  BY DEF Claim
<1>2. ~Sweeping' /\ ~Holding' /\ ~Clearing' /\ ~Draining' /\ ~Leaving' /\ ~Masking' /\ ~Opening'
  <2>1. PICK there : there = "run"
    OBVIOUS
  <2>2. dpc' = [dpc EXCEPT ![d] = there]
    BY <1>1, <2>1
  <2> QED BY <1>1, <2>1, <2>2, HolderMoves
<1>3. pending = << >> /\ QueueInv' /\ \A t : ~InQueue(t) /\ ~InQueue(t)'
  BY <1>1, <1>2 DEF QueueInv, NoDuplicates, InQueue
<1>4. ASSUME NEW t \in Sources PROVE SourceInv(t)'
  <2>1. t \in masked /\ t \notin through /\ hpc[t] = "idle" /\ t \notin outstanding
    BY <1>1 DEF SourceInv, GateInv, Cleared
  <2>2. GateInv(t)'
    BY <1>1, <1>2, <2>1 DEF GateInv, Cleared, Shutting, AtClear, Unmasking
  <2>3. StageInv(t)'
    BY <1>1, <2>1 DEF StageInv
  <2>4. EventInv(t)'
    BY <1>1, <1>3, <2>1 DEF EventInv, Waiting
  <2> QED BY <2>2, <2>3, <2>4 DEF SourceInv
<1> QED BY <1>3, <1>4

LEMMA DropKeeps ==
  ASSUME TypeOK, HolderInv, QueueInv, \A t \in Sources : SourceInv(t), NEW d \in Drivers,
         \/ Drop(d) \/ QuiesceFlag(d) \/ QuiesceHold(d) \/ QuiesceClear(d) \/ QuiesceDrain(d)
         \/ Unmap(d) \/ ReturnDevice(d),
         ~overtaken'
  PROVE  QueueInv' /\ \A t \in Sources : SourceInv(t)'
<1> USE DEF deviceVars, relayVars, handlerVars, driverVars, leaseVars, history, Task
<1>1. UNCHANGED <<hpc, stage, full, hasty>>
  BY DEF Drop, QuiesceFlag, QuiesceHold, QuiesceClear, QuiesceDrain, Unmap, ReturnDevice
<1>2. cur \in Sources /\ cur \in Nat /\ Sources \subseteq Nat
  BY NumSourcesAssumption DEF TypeOK, Sources
<1>3. ASSUME UNCHANGED pending, (claimed' /\ ~Leaving') \/ ~claimed \/ Leaving
      PROVE  QueueInv' /\ \A t : (InQueue(t)' <=> InQueue(t)) /\ (Waiting(t)' <=> Waiting(t))
  BY <1>1, <1>3 DEF QueueInv, NoDuplicates, InQueue, Waiting
<1>4. CASE Drop(d)
  <2>1. /\ UNCHANGED <<claimed, masked, through, outstanding, pending>> /\ cur' = 1
        /\ dpc[d] \in {"run", "wait"} /\ dpc' = [dpc EXCEPT ![d] = "q_flag"]
    BY <1>4 DEF Drop
  <2>2. /\ claimed /\ ~Sweeping /\ ~Holding /\ ~Clearing /\ ~Draining /\ ~Leaving /\ ~Opening /\ ~Masking
        /\ Sweeping' /\ ~Holding' /\ ~Clearing' /\ ~Draining' /\ ~Leaving' /\ ~Opening' /\ ~Masking'
    <3>1. PICK there : there = "q_flag"
      OBVIOUS
    <3>2. dpc[d] # "out" /\ dpc' = [dpc EXCEPT ![d] = there]
      BY <2>1, <3>1
    <3>3. /\ claimed /\ ~Sweeping /\ ~Holding /\ ~Clearing /\ ~Draining /\ ~Leaving /\ ~Opening /\ ~Masking
          /\ Sweeping' <=> there \in {"q_flag", "q_hold", "q_clear"}
          /\ Holding' <=> there = "q_hold"
          /\ Clearing' <=> there = "q_clear"
          /\ Draining' <=> there = "q_drain"
          /\ Leaving' <=> there \in {"unmap", "return"}
          /\ Opening' <=> there = "unmask"
          /\ Masking' <=> there = "mask"
      BY <2>1, <3>2, HolderMoves
    <3> QED BY <3>1, <3>3
  <2>3. QueueInv' /\ \A t : (InQueue(t)' <=> InQueue(t)) /\ (Waiting(t)' <=> Waiting(t))
    BY <1>3, <2>1, <2>2
  <2>4. ASSUME NEW t \in Sources PROVE SourceInv(t)'
    <3>1. ~(t < cur') /\ ~Calm'
      BY <2>1, <2>2 DEF Sources, Calm
    <3>2. Aside(t)
      BY <1>1, <2>1, <2>2, <2>3, <3>1 DEF Aside, Cleared, Shutting, AtClear, Unmasking
    <3> QED BY <3>2, AsideKeeps
  <2> QED BY <2>3, <2>4
<1>5. CASE QuiesceFlag(d)
  <2>1. /\ UNCHANGED <<claimed, through, outstanding, pending, cur>>
        /\ dpc[d] = "q_flag" /\ masked' = masked \cup {cur}
        /\ dpc' = [dpc EXCEPT ![d] = IF cur \in masked THEN "q_clear" ELSE "q_hold"]
    BY <1>5 DEF QuiesceFlag
  <2>2. /\ claimed /\ Sweeping /\ ~Holding /\ ~Clearing /\ ~Draining /\ ~Leaving /\ ~Opening /\ ~Masking
        /\ Sweeping' /\ (Holding' <=> cur \notin masked) /\ (Clearing' <=> cur \in masked)
        /\ ~Draining' /\ ~Leaving' /\ ~Opening' /\ ~Masking'
    BY <2>1, HolderMoves
  <2>3. QueueInv' /\ \A t : (InQueue(t)' <=> InQueue(t)) /\ (Waiting(t)' <=> Waiting(t))
    BY <1>3, <2>1, <2>2
  <2>4. ~Calm'
    BY <2>2 DEF Calm
  <2>5. ASSUME NEW t \in Sources, t # cur PROVE SourceInv(t)'
    <3>1. Aside(t)
      BY <1>1, <2>1, <2>2, <2>3, <2>4, <2>5 DEF Aside, Cleared, Shutting, AtClear, Unmasking
    <3> QED BY <3>1, AsideKeeps
  <2>6. ASSUME NEW t \in Sources, t = cur PROVE SourceInv(t)'
    <3>1. /\ ~Cleared(t) /\ ~Shutting(t) /\ ~AtClear(t) /\ ~Unmasking(t)
          /\ ~Cleared(t)' /\ ~Unmasking(t)' /\ (Shutting(t)' <=> t \notin masked)
      BY <1>2, <2>1, <2>2, <2>6 DEF Cleared, Shutting, AtClear, Unmasking
    <3>2. GateInv(t)'
      BY <1>1, <2>1, <2>6, <3>1 DEF SourceInv, GateInv
    <3>3. ~hasty => EventInv(t)'
      BY <1>1, <2>1, <2>3, <3>1 DEF SourceInv, EventInv
    <3> QED BY <1>1, <2>4, <3>2, <3>3 DEF SourceInv, StageInv
  <2> QED BY <2>3, <2>5, <2>6
<1>6. CASE QuiesceHold(d)
  <2>1. /\ UNCHANGED <<claimed, masked, outstanding, pending, cur>>
        /\ dpc[d] = "q_hold" /\ through' = through \ {cur}
        /\ dpc' = [dpc EXCEPT ![d] = "q_clear"]
    BY <1>6 DEF QuiesceHold
  <2>2. /\ claimed /\ Sweeping /\ Holding /\ ~Clearing /\ ~Draining /\ ~Leaving /\ ~Opening /\ ~Masking
        /\ Sweeping' /\ ~Holding' /\ Clearing'
        /\ ~Draining' /\ ~Leaving' /\ ~Opening' /\ ~Masking'
    BY <2>1, HolderMoves
  <2>3. QueueInv' /\ \A t : (InQueue(t)' <=> InQueue(t)) /\ (Waiting(t)' <=> Waiting(t))
    BY <1>3, <2>1, <2>2
  <2>4. ~Calm'
    BY <2>2 DEF Calm
  <2>5. ASSUME NEW t \in Sources, t # cur PROVE SourceInv(t)'
    <3>1. Aside(t)
      BY <1>1, <2>1, <2>2, <2>3, <2>4, <2>5 DEF Aside, Cleared, Shutting, AtClear, Unmasking
    <3> QED BY <3>1, AsideKeeps
  <2>6. ASSUME NEW t \in Sources, t = cur PROVE SourceInv(t)'
    <3>1. /\ ~Cleared(t) /\ Shutting(t) /\ ~Cleared(t)' /\ ~Unmasking(t)' /\ ~Shutting(t)'
      BY <1>2, <2>1, <2>2, <2>6 DEF Cleared, Shutting, Unmasking
    <3>2. GateInv(t)'
      BY <1>1, <2>1, <2>6, <3>1 DEF SourceInv, GateInv
    <3>3. ~hasty => EventInv(t)'
      BY <1>1, <2>1, <2>3, <3>1 DEF SourceInv, EventInv
    <3> QED BY <1>1, <2>4, <3>2, <3>3 DEF SourceInv, StageInv
  <2> QED BY <2>3, <2>5, <2>6
<1>7. CASE QuiesceClear(d)
  <2>1. /\ UNCHANGED <<claimed, masked, through, pending>>
        /\ dpc[d] = "q_clear" /\ outstanding' = outstanding \ {cur} /\ hpc[cur] = "idle"
        /\ cur' = IF cur = NumSources THEN cur ELSE cur + 1
        /\ dpc' = [dpc EXCEPT ![d] = IF cur = NumSources THEN "q_drain" ELSE "q_flag"]
    BY <1>7 DEF QuiesceClear
  <2>2. /\ claimed /\ Sweeping /\ ~Holding /\ Clearing /\ ~Draining /\ ~Leaving /\ ~Opening /\ ~Masking
        /\ (Sweeping' <=> cur # NumSources) /\ ~Holding' /\ ~Clearing'
        /\ (Draining' <=> cur = NumSources) /\ ~Leaving' /\ ~Opening' /\ ~Masking'
    <3>1. PICK there \in {"q_drain", "q_flag"} : /\ dpc' = [dpc EXCEPT ![d] = there]
                                                 /\ there = "q_drain" <=> cur = NumSources
      BY <2>1
    <3>2. there = "q_flag" <=> cur # NumSources
      BY <3>1
    <3> QED BY <2>1, <3>1, <3>2, HolderMoves
  <2>3. QueueInv' /\ \A t : (InQueue(t)' <=> InQueue(t)) /\ (Waiting(t)' <=> Waiting(t))
    BY <1>3, <2>1, <2>2
  <2>4. ~Calm'
    BY <2>2 DEF Calm
  <2>5. ASSUME NEW t \in Sources, t # cur PROVE SourceInv(t)'
    <3>1. t \in Nat /\ t <= NumSources /\ NumSources \in Nat
      BY NumSourcesAssumption DEF Sources
    <3>2. Cleared(t)' <=> Cleared(t)
      BY <1>2, <2>1, <2>2, <2>5, <3>1 DEF Cleared
    <3>3. Aside(t)
      BY <1>1, <2>1, <2>2, <2>3, <2>4, <2>5, <3>2 DEF Aside, Shutting, AtClear, Unmasking
    <3> QED BY <3>3, AsideKeeps
  <2>6. ASSUME NEW t \in Sources, t = cur PROVE SourceInv(t)'
    <3>1. /\ AtClear(t) /\ ~Shutting(t) /\ Cleared(t)' /\ ~Shutting(t)' /\ ~AtClear(t)' /\ ~Unmasking(t)'
      BY <1>2, <2>1, <2>2, <2>6 DEF Cleared, Shutting, AtClear, Unmasking
    <3>2. t \in masked /\ t \notin through
      BY <2>1, <2>6, <3>1 DEF SourceInv, GateInv
    <3>3. GateInv(t)'
      BY <1>1, <2>1, <2>6, <3>1, <3>2 DEF GateInv
    <3>4. EventInv(t)'
      BY <1>1, <2>1, <2>6, <3>1 DEF EventInv
    <3> QED BY <2>4, <3>3, <3>4 DEF SourceInv, StageInv
  <2> QED BY <2>3, <2>5, <2>6
<1>8. CASE QuiesceDrain(d)
  <2>1. /\ UNCHANGED <<claimed, masked, through, outstanding, cur>> /\ dpc[d] = "q_drain"
        /\ pending' = IF pending = << >> THEN pending ELSE Tail(pending)
        /\ dpc' = [dpc EXCEPT ![d] = IF pending = << >> THEN "unmap" ELSE "q_drain"]
    BY <1>8 DEF QuiesceDrain
  <2>2. /\ claimed /\ Draining /\ ~Holding' /\ ~Clearing'
        /\ (Leaving' <=> pending = << >>) /\ (Draining' \/ Leaving') /\ ~Opening' /\ ~Masking'
    BY <2>1, HolderMoves
  <2>3. NoDuplicates => NoDuplicates'
    <3>1. CASE pending = << >>
      BY <2>1, <3>1 DEF NoDuplicates
    <3>2. CASE pending # << >>
      BY <2>1, <3>2, Popped
    <3> QED BY <3>1, <3>2
  <2>4. QueueInv'
    BY <1>1, <2>1, <2>2, <2>3 DEF QueueInv
  <2>5. ASSUME NEW t \in Sources PROVE SourceInv(t)'
    <3>1. Cleared(t) /\ Cleared(t)' /\ ~Shutting(t)' /\ ~AtClear(t)' /\ ~Unmasking(t)' /\ ~Calm'
      BY <2>2 DEF Cleared, Shutting, AtClear, Unmasking, Calm
    <3>2. GateInv(t)' /\ hpc'[t] = "idle"
      BY <1>1, <2>1, <3>1 DEF SourceInv, GateInv
    <3> QED BY <3>1, <3>2 DEF SourceInv, StageInv, EventInv
  <2> QED BY <2>4, <2>5
<1>9. CASE Unmap(d) \/ ReturnDevice(d)
  <2>1. /\ UNCHANGED <<masked, through, outstanding, pending, cur>> /\ dpc[d] \in {"unmap", "return"}
        /\ \/ claimed' = claimed /\ \E there \in {"unmap", "return"} : dpc' = [dpc EXCEPT ![d] = there]
           \/ claimed' = FALSE /\ dpc' = [dpc EXCEPT ![d] = "out"]
    BY <1>9 DEF Unmap, ReturnDevice, TypeOK
  <2>2. /\ Leaving /\ ~Holding' /\ ~Clearing' /\ ~Opening' /\ ~Masking' /\ (Leaving' \/ ~claimed')
    BY <2>1, HolderMoves
  <2>3. QueueInv'
    BY <1>3, <2>1, <2>2
  <2>4. ASSUME NEW t \in Sources PROVE SourceInv(t)'
    <3>1. Cleared(t) /\ Cleared(t)' /\ ~Shutting(t)' /\ ~AtClear(t)' /\ ~Unmasking(t)' /\ ~Calm'
      BY <2>2 DEF Cleared, Shutting, AtClear, Unmasking, Calm
    <3>2. GateInv(t)' /\ hpc'[t] = "idle"
      BY <1>1, <2>1, <3>1 DEF SourceInv, GateInv
    <3> QED BY <3>1, <3>2 DEF SourceInv, StageInv, EventInv
  <2> QED BY <2>3, <2>4
<1> QED BY <1>4, <1>5, <1>6, <1>7, <1>8, <1>9

-----------------------------------------------------------------------------
LEMMA RelayStart == Init => RelayInv
<1> SUFFICES ASSUME Init PROVE RelayInv
  OBVIOUS
<1>1. /\ ~claimed /\ ~full /\ pending = << >> /\ \A d \in Drivers : dpc[d] = "out"
      /\ masked = Sources /\ through = {} /\ outstanding = {}
      /\ \A s \in Sources : hpc[s] = "idle"
  BY DEF Init
<1>2. ~Masking /\ ~Holding /\ ~Clearing /\ ~Opening
  BY <1>1 DEF Masking, Holding, Clearing, Opening
<1>3. QueueInv
  BY <1>1 DEF QueueInv, NoDuplicates
<1>4. ASSUME NEW t \in Sources PROVE SourceInv(t)
  <2>1. Cleared(t) /\ ~Shutting(t) /\ ~AtClear(t) /\ ~Unmasking(t) /\ ~Calm
    BY <1>1, <1>2 DEF Cleared, Shutting, AtClear, Unmasking, Calm
  <2>2. GateInv(t)
    BY <1>1, <2>1 DEF GateInv
  <2> QED BY <1>1, <2>1, <2>2 DEF SourceInv, StageInv, EventInv
<1> QED BY <1>3, <1>4 DEF RelayInv

LEMMA RelayStep == TypeOK /\ HolderInv /\ RelayInv /\ [Next]_vars => RelayInv'
<1> SUFFICES ASSUME TypeOK, HolderInv, RelayInv, [Next]_vars, ~overtaken', ~crossed'
             PROVE  QueueInv' /\ \A s \in Sources : SourceInv(s)'
  BY DEF RelayInv
<1>1. CASE Next
  <2>1. ~overtaken /\ ~crossed
    <3>1. UNCHANGED history => ~overtaken /\ ~crossed
      BY DEF history
    <3>2. ASSUME NEW s \in Sources, RaiseLine(s) \/ Deliver(s) \/ HandlerStep(s) PROVE UNCHANGED history
      BY <3>2 DEF RaiseLine, Deliver, HandlerStep, FlagMasked, HoldOff, SwapOutstanding, Push, NotifyReady
    <3>3. ASSUME NEW d \in Drivers,
                 \/ Claim(d) \/ PollEvent(d) \/ ClaimPermit(d) \/ Resume(d) \/ Drop(d) \/ LetThrough(d)
                 \/ HoldOffByDriver(d) \/ Pop(d) \/ QuiesceFlag(d) \/ QuiesceHold(d) \/ QuiesceDrain(d)
                 \/ Unmap(d) \/ ReturnDevice(d)
          PROVE  UNCHANGED history
      BY <3>3 DEF Claim, PollEvent, ClaimPermit, Resume, Drop, LetThrough, HoldOffByDriver, Pop,
                  QuiesceFlag, QuiesceHold, QuiesceDrain, Unmap, ReturnDevice
    <3>4. ASSUME NEW d \in Drivers, Call(d) \/ QuiesceClear(d) PROVE ~overtaken /\ ~crossed
      <4>1. CASE QuiesceClear(d)
        BY <4>1 DEF QuiesceClear
      <4>2. ASSUME NEW s \in Sources, Ack(d, s) \/ Unmask(d, s) PROVE ~overtaken /\ ~crossed
        <5>1. CASE Ack(d, s)
          BY <5>1 DEF Ack
        <5>2. CASE Unmask(d, s)
          BY <5>2 DEF Unmask
        <5> QED BY <4>2, <5>1, <5>2
      <4>3. ASSUME NEW s \in Sources, Service(d, s) \/ Mask(d, s) PROVE UNCHANGED history
        BY <4>3 DEF Service, Mask
      <4>4. ASSUME NEW what \in Mappings, Map(d, what) PROVE UNCHANGED history
        BY <4>4 DEF Map
      <4> QED BY <3>1, <3>4, <4>1, <4>2, <4>3, <4>4 DEF Call
    <3> QED BY <1>1, <3>1, <3>2, <3>3, <3>4 DEF Next, Continue
  <2>2. QueueInv /\ (\A s \in Sources : SourceInv(s)) /\ ~full
    BY <1>1, <2>1 DEF RelayInv, Next
  <2> QED BY <1>1, <2>2, HandlerKeeps, DriverKeeps, ClaimKeeps, DropKeeps DEF Next, Continue
<1>2. CASE UNCHANGED vars
  <2>1. UNCHANGED <<claimed, dpc, cur, stage, hpc, masked, through, outstanding, pending, full,
                    overtaken, crossed, hasty>>
    BY <1>2 DEF vars
  <2>2. QueueInv /\ \A s \in Sources : SourceInv(s)
    BY <2>1 DEF RelayInv
  <2> QED
    BY <2>1, <2>2 DEF QueueInv, NoDuplicates, SourceInv, GateInv, StageInv, EventInv, Waiting,
                      InQueue, Cleared, Shutting, AtClear, Unmasking, Calm, Sweeping, Holding,
                      Clearing, Draining, Leaving, Opening, Masking
<1> QED BY <1>1, <1>2

LEMMA HolderInvariance == Spec => [](TypeOK /\ HolderInv)
  BY TypeStart, TypeStep, HolderStart, HolderStep, PTL DEF Spec

LEMMA RelayInvariance == Spec => [](TypeOK /\ HolderInv /\ RelayInv)
  BY RelayStart, RelayStep, HolderInvariance, PTL DEF Spec

LEMMA HolderGivesReach == TypeOK /\ HolderInv => OnlyHolderReaches
<1> SUFFICES ASSUME TypeOK, HolderInv PROVE OnlyHolderReaches
  OBVIOUS
<1> DEFINE Held == {d \in Drivers : dpc[d] # "out"}
<1>1. Cardinality(Held) <= 1
  <2>1. CASE Held = {}
    <3>1. Cardinality(Held) = 0
      BY <2>1, FS_EmptySet, Zenon
    <3> QED BY <3>1
  <2>2. CASE Held # {}
    <3>1. PICK d : d \in Held
      BY <2>2
    <3>2. Held = {d}
      BY <3>1 DEF HolderInv
    <3>3. Cardinality({d}) = 1
      BY FS_Singleton
    <3>4. Cardinality(Held) = 1
      BY <3>2, <3>3, Zenon
    <3> QED BY <3>4
  <2> QED BY <2>1, <2>2
<1>2. \A d \in Drivers : reach[d] # {} => dpc[d] # "out" /\ claimed
  BY DEF HolderInv
<1> QED BY <1>1, <1>2 DEF OnlyHolderReaches

\* DeviceGrantRegistry::claim and GrantLease::drop: whatever the drivers, the
\* handlers and the masks do, at most one driver holds the device at any step
\* and nobody else has any of it mapped.
THEOREM HoldersReachAlone == Spec => []OnlyHolderReaches
  BY HolderInvariance, HolderGivesReach, PTL

\* forward has room for its event, for any number of sources and whatever the
\* drivers call and when, while every event is acknowledged after it was read and
\* no unmask or quiesce falls on a running handler: a source is then queued at
\* most once, and only while it is outstanding.
THEOREM RoomIsKept == Spec => []RoomForEvents
<1>1. RelayInv => RoomForEvents
  BY DEF RelayInv, QueueInv, RoomForEvents
<1> QED BY <1>1, RelayInvariance, PTL

LEMMA InvGivesOpen == TypeOK /\ HolderInv /\ RelayInv => ArmedSourceIsOpen
<1> SUFFICES ASSUME TypeOK, HolderInv, RelayInv, NEW s \in Sources, Armed(s), ~overtaken, ~crossed
             PROVE  s \in through
  BY DEF ArmedSourceIsOpen
<1>1. PICK d \in Drivers : dpc[d] = "wait"
  BY DEF Armed
<1>2. claimed /\ \A e \in Drivers \ {d} : dpc[e] = "out"
  BY <1>1 DEF HolderInv
<1>3. Calm /\ ~Opening
  BY <1>1, <1>2 DEF Calm, Sweeping, Draining, Leaving, Opening
<1>4. GateInv(s) /\ StageInv(s)
  BY DEF RelayInv, SourceInv
<1>5. hpc[s] = "idle" /\ ~Waiting(s) /\ stage[s] = "armed"
  BY DEF Armed, Waiting, InQueue
<1>6. s \notin masked
  BY <1>3, <1>4, <1>5 DEF StageInv
<1> QED BY <1>3, <1>4, <1>6 DEF GateInv, Unmasking

\* InterruptRelay::unmask against forward, for any number of sources and any
\* order of acknowledges, masks and unmasks: a driver that has armed a source and
\* waits has it open at the controller, or an event of it on the way, unless one
\* of its unmasks fell between a handler's flag and its controller call.
THEOREM ArmedSourcesAreOpen == Spec => []ArmedSourceIsOpen
  BY InvGivesOpen, RelayInvariance, PTL

\* The flags alone: what quiesce has passed stays masked until the next claim.
FlagInv ==
  /\ ~claimed \/ Draining \/ Leaving => masked = Sources
  /\ Sweeping => \A s \in Sources : s < cur => s \in masked
  /\ Holding \/ Clearing => cur \in masked

LEMMA FlagStart == Init => FlagInv
  BY DEF Init, FlagInv, Sweeping, Holding, Clearing

LEMMA FlagStep == TypeOK /\ HolderInv /\ FlagInv /\ [Next]_vars => FlagInv'
<1> SUFFICES ASSUME TypeOK, HolderInv, FlagInv, [Next]_vars PROVE FlagInv'
  OBVIOUS
<1> USE DEF deviceVars, relayVars, handlerVars, driverVars, leaseVars, history, Task
<1>1. ASSUME UNCHANGED <<claimed, dpc, cur>>, masked \subseteq masked', masked' \subseteq Sources
      PROVE  FlagInv'
  BY <1>1 DEF FlagInv, Sweeping, Holding, Clearing, Draining, Leaving
<1>2. ASSUME NEW s \in Sources, RaiseLine(s) \/ Deliver(s) \/ HandlerStep(s) PROVE FlagInv'
  <2>1. UNCHANGED <<claimed, dpc, cur>> /\ masked \subseteq masked' /\ masked' \subseteq Sources
    BY <1>2 DEF RaiseLine, Deliver, HandlerStep, FlagMasked, HoldOff, SwapOutstanding, Push,
                NotifyReady, TypeOK
  <2> QED BY <1>1, <2>1
<1>3. ASSUME NEW d \in Drivers, NEW there \in {"run", "unmask", "mask", "pop", "wait"},
             dpc[d] \in {"run", "unmask", "mask", "pop", "wait"} \/ Claim(d),
             dpc' = [dpc EXCEPT ![d] = there], claimed'
      PROVE  FlagInv'
  <2>1. dpc[d] # "out" \/ ~claimed
    BY <1>3 DEF Claim
  <2>2. ~Sweeping' /\ ~Holding' /\ ~Clearing' /\ ~Draining' /\ ~Leaving'
    BY <1>3, <2>1, HolderMoves
  <2> QED BY <1>3, <2>2 DEF FlagInv
<1>4. ASSUME NEW d \in Drivers, Claim(d) PROVE FlagInv'
  BY <1>3, <1>4 DEF Claim
<1>5. ASSUME NEW d \in Drivers,
             \/ Call(d) \/ PollEvent(d) \/ ClaimPermit(d) \/ Resume(d)
             \/ LetThrough(d) \/ HoldOffByDriver(d) \/ Pop(d)
      PROVE  FlagInv'
  <2>1. /\ dpc[d] \in {"run", "unmask", "mask", "pop", "wait"} /\ UNCHANGED claimed
        /\ \E there \in {"run", "unmask", "mask", "pop", "wait"} : dpc' = [dpc EXCEPT ![d] = there]
    BY <1>5 DEF Call, Map, Service, Ack, Unmask, Mask, PollEvent, ClaimPermit, Resume,
                LetThrough, HoldOffByDriver, Pop
  <2>2. claimed
    BY <2>1 DEF HolderInv
  <2> QED BY <1>3, <2>1, <2>2
<1>6. ASSUME NEW d \in Drivers, Drop(d) PROVE FlagInv'
  <2>1. PICK there : there = "q_flag"
    OBVIOUS
  <2>2. /\ dpc[d] # "out" /\ dpc' = [dpc EXCEPT ![d] = there] /\ cur' = 1 /\ UNCHANGED claimed
    BY <1>6, <2>1 DEF Drop
  <2>3. claimed' /\ ~Holding' /\ ~Clearing' /\ ~Draining' /\ ~Leaving'
    <3>1. /\ claimed
          /\ Holding' <=> there = "q_hold"
          /\ Clearing' <=> there = "q_clear"
          /\ Draining' <=> there = "q_drain"
          /\ Leaving' <=> there \in {"unmap", "return"}
      BY <2>2, HolderMoves
    <3> QED BY <2>1, <2>2, <3>1
  <2>4. \A s \in Sources : ~(s < cur')
    BY <2>2 DEF Sources
  <2> QED BY <2>3, <2>4 DEF FlagInv
<1>7. ASSUME NEW d \in Drivers, QuiesceFlag(d) PROVE FlagInv'
  <2>1. /\ UNCHANGED <<claimed, cur>> /\ dpc[d] = "q_flag" /\ masked' = masked \cup {cur}
        /\ \E there \in {"q_clear", "q_hold"} : dpc' = [dpc EXCEPT ![d] = there]
    BY <1>7 DEF QuiesceFlag
  <2>2. claimed /\ Sweeping /\ ~Draining' /\ ~Leaving'
    BY <2>1, HolderMoves
  <2> QED BY <2>1, <2>2 DEF FlagInv
<1>8. ASSUME NEW d \in Drivers, QuiesceHold(d) PROVE FlagInv'
  <2>1. /\ UNCHANGED <<claimed, cur, masked>> /\ dpc[d] = "q_hold"
        /\ dpc' = [dpc EXCEPT ![d] = "q_clear"]
    BY <1>8 DEF QuiesceHold
  <2>2. claimed /\ Sweeping /\ Holding /\ ~Draining' /\ ~Leaving'
    BY <2>1, HolderMoves
  <2> QED BY <2>1, <2>2 DEF FlagInv
<1>9. ASSUME NEW d \in Drivers, QuiesceClear(d) PROVE FlagInv'
  <2>1. /\ UNCHANGED <<claimed, masked>> /\ dpc[d] = "q_clear"
        /\ cur' = IF cur = NumSources THEN cur ELSE cur + 1
    BY <1>9 DEF QuiesceClear
  <2>2. PICK there \in {"q_drain", "q_flag"} : /\ dpc' = [dpc EXCEPT ![d] = there]
                                               /\ there = "q_drain" => cur = NumSources
    BY <1>9 DEF QuiesceClear
  <2>3. claimed /\ Sweeping /\ Clearing /\ ~Holding' /\ ~Clearing' /\ ~Leaving' /\ (Draining' => cur = NumSources)
    BY <2>1, <2>2, HolderMoves
  <2>4. cur \in masked /\ \A s \in Sources : s < cur => s \in masked
    BY <2>3 DEF FlagInv
  <2>5. cur \in Nat /\ NumSources \in Nat /\ \A s \in Sources : s \in Nat /\ s <= NumSources
    BY NumSourcesAssumption DEF TypeOK, Sources
  <2>6. \A s \in Sources : s <= cur => s \in masked
    BY <2>4, <2>5
  <2>7. \A s \in Sources : s < cur' => s <= cur
    BY <2>1, <2>5
  <2>8. cur = NumSources => masked = Sources
    BY <2>5, <2>6 DEF TypeOK
  <2> QED BY <2>1, <2>3, <2>6, <2>7, <2>8 DEF FlagInv
<1>10. ASSUME NEW d \in Drivers, QuiesceDrain(d) \/ Unmap(d) \/ ReturnDevice(d) PROVE FlagInv'
  <2>1. /\ UNCHANGED masked /\ dpc[d] \in {"q_drain", "unmap", "return"}
        /\ \E there \in {"q_drain", "unmap", "return", "out"} : dpc' = [dpc EXCEPT ![d] = there]
    BY <1>10 DEF QuiesceDrain, Unmap, ReturnDevice, TypeOK
  <2>2. (Draining \/ Leaving) /\ ~Sweeping' /\ ~Holding' /\ ~Clearing'
    BY <2>1, HolderMoves
  <2> QED BY <2>1, <2>2 DEF FlagInv
<1>11. CASE UNCHANGED vars
  <2>1. UNCHANGED <<claimed, dpc, cur, masked>>
    BY <1>11 DEF vars
  <2> QED BY <1>1, <2>1 DEF TypeOK
<1> QED
  BY <1>2, <1>4, <1>5, <1>6, <1>7, <1>8, <1>9, <1>10, <1>11 DEF Next, Continue

LEMMA FlagInvariance == Spec => []FlagInv
  BY FlagStart, FlagStep, HolderInvariance, PTL DEF Spec

\* quiesce and the return of the claim, whatever the driver called: a device
\* nobody holds has every source masked and is mapped for nobody, and its sources
\* are held off unless an unmask or a quiesce fell on a running handler.
THEOREM DeviceIsTakenBack == Spec => []TakenBack
<1>1. TypeOK /\ RelayInv => (~claimed /\ ~overtaken /\ ~crossed => through = {})
  <2> SUFFICES ASSUME TypeOK, RelayInv, ~claimed, ~overtaken, ~crossed PROVE through = {}
    OBVIOUS
  <2>1. \A s \in Sources : s \notin through
    BY DEF RelayInv, SourceInv, GateInv, Cleared
  <2> QED BY <2>1 DEF TypeOK
<1>2. TypeOK /\ HolderInv /\ RelayInv /\ FlagInv => TakenBack
  BY <1>1, HolderGivesReach DEF TakenBack, FlagInv
<1> QED BY <1>2, RelayInvariance, FlagInvariance, PTL
=============================================================================
