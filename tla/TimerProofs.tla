---------------------------- MODULE TimerProofs ----------------------------
(***************************************************************************)
(* For any sleeps, deadlines and registering processors: a live deadline   *)
(* is never uncovered, a sleep neither fires early nor is forgotten, and   *)
(* only the timer's interrupt moves the comparator later.  For any levels, *)
(* slots, quantum and entries: the wheel hands out what is due, and no     *)
(* more.  For any futures and slots: the pool the sleeps live in keeps a   *)
(* handle from ever reaching another sleep's state.                        *)
(***************************************************************************)
EXTENDS Timer, TimingWheel, SleepPool, NaturalsInduction, WellFoundedInduction, TLAPS

-----------------------------------------------------------------------------
(* The inductive invariant.                                                *)

Passing == {"drain", "expire", "store", "check", "wake"}
InPark == {"isDue", "armLoad", "armPark", "halt", "halted"}

\* A pass takes out what was due at its start; Parked is published exactly
\* from PublishParked to the way back; an entry belongs to a started sleep.
PassInv ==
  /\ passTime <= now
  /\ \A s \in ready : Deadline[s] <= passTime
  /\ pc \notin Passing => ready = {}
  /\ idle = "Parked" <=> pc \in InPark
  /\ \A s \in inbox \cup wheel \cup ready : sleep[s] # "new"

\* Between the store and the test of the inbox, the store covers the wheel.
StoreInv == pc = "check" => \A s \in Live(wheel) : published <= Deadline[s]

\* A lowering the park has not loaded is announced: its writer will look at
\* the idle state, which reads Parked, or has set the latch the park takes.
Announced == latch \/ \E a \in Actors : reg[a] \in {"peek", "latch"}

ArmInv ==
  /\ pc = "armPark" => arg <= published \/ Announced
  /\ pc = "halt" => armed <= published \/ published <= now \/ Announced
  /\ pc = "halted" => armed <= published \/ published <= now \/ WakeComing

TimerInv == NotForgotten /\ PassInv /\ PublishedCovers /\ StoreInv /\ ArmInv

USE DEF loopVars, wakeVars, regVars

-----------------------------------------------------------------------------
(* Minima.                                                                 *)

LEMMA MinPair == \A a, b \in Int : Min({a, b}) = IF a <= b THEN a ELSE b
<1> SUFFICES ASSUME NEW a \in Int, NEW b \in Int
             PROVE  Min({a, b}) = IF a <= b THEN a ELSE b
  OBVIOUS
<1>1. \E x \in {a, b} : \A y \in {a, b} : x <= y
  OBVIOUS
<1>2. Min({a, b}) \in {a, b} /\ \A y \in {a, b} : Min({a, b}) <= y
  BY <1>1 DEF Min
<1> QED BY <1>2

\* A set of numbers has a least one.
LEMMA LeastOf ==
  ASSUME NEW T \in SUBSET Nat, T # {}
  PROVE  \E x \in T : \A y \in T : x <= y
<1> DEFINE R == {ss \in Nat \X Nat : ss[1] < ss[2]}
<1>1. IsWellFoundedOn(R, Nat)
  BY NatLessThanWellFounded, Zenon DEF OpToRel
<1> HIDE DEF R
<1>2. PICK x \in T : \A y \in T : ~(<<y, x>> \in R)
  BY <1>1, WFMin
<1>3. ASSUME NEW y \in T PROVE x <= y
  <2>1. x \in Nat /\ y \in Nat
    OBVIOUS
  <2>2. y < x => <<y, x>> \in R
    BY <2>1 DEF R
  <2> QED BY <1>2, <2>1, <2>2
<1> QED BY <1>3

LEMMA MinOfNaturals ==
  ASSUME NEW T \in SUBSET Nat, T # {}
  PROVE  Min(T) \in T /\ \A y \in T : Min(T) <= y
  BY LeastOf DEF Min

LEMMA Constants ==
  /\ MaxTime \in Nat /\ SchedulerTick \in Nat /\ IdleInterval \in Nat /\ Inf \in Nat
  /\ Inf = MaxTime + IdleInterval + 1 /\ SchedulerTick <= IdleInterval
  /\ \A s \in Sleeps : Deadline[s] \in 1 .. MaxTime
  /\ Owner \in Actors /\ (CHOOSE s \in Sleeps : TRUE) \in Sleeps
  BY IntervalAssumption, DeadlineAssumption, SleepsAssumption DEF Inf, Actors

\* next_live_deadline is a deadline or u64::MAX, and no later than any of its entries.
LEMMA EarliestIs ==
  ASSUME NEW S \in SUBSET Sleeps
  PROVE  Earliest(S) \in 0 .. Inf /\ \A s \in S : Earliest(S) <= Deadline[s]
<1> DEFINE T == {Deadline[s] : s \in S} \cup {Inf}
<1>1. T \in SUBSET (0 .. Inf) /\ T \in SUBSET Nat /\ T # {}
  BY Constants
<1>2. Min(T) \in T /\ \A y \in T : Min(T) <= y
  BY <1>1, MinOfNaturals
<1>3. \A s \in S : Deadline[s] \in T
  OBVIOUS
<1>4. Earliest(S) = Min(T)
  BY DEF Earliest
<1> QED BY <1>1, <1>2, <1>3, <1>4

-----------------------------------------------------------------------------
(* Types.                                                                  *)

LEMMA InitTimer == Init => TypeOK /\ TimerInv
<1> SUFFICES ASSUME Init PROVE TypeOK /\ TimerInv
  OBVIOUS
<1>1. TypeOK
  <2>1. /\ 0 \in 0 .. MaxTime /\ Inf \in 0 .. Inf /\ SchedulerTick \in 0 .. Inf - 1
    BY Constants
  <2>2. regSleep \in [Actors -> Sleeps]
    BY Constants DEF Init
  <2> QED BY <2>1, <2>2 DEF Init, TypeOK
<1>2. TimerInv
  BY Constants DEF Init, TimerInv, NotForgotten, PassInv, PublishedCovers, StoreInv, ArmInv,
                   Passing, InPark, Live
<1> QED BY <1>1, <1>2

LEMMA NextType == TypeOK /\ [Next]_vars => TypeOK'
<1> SUFFICES ASSUME TypeOK, [Next]_vars PROVE TypeOK'
  OBVIOUS
<1> USE Constants
<1>1. ASSUME NEW a \in Actors, RegisterStep(a) PROVE TypeOK'
  <2>1. Deadline[regSleep[a]] \in 1 .. MaxTime
    BY DEF TypeOK
  <2>2. CASE LowerPublished(a)
    BY <2>1, <2>2, MinPair DEF LowerPublished, TypeOK
  <2>3. CASE a = Owner /\ OwnerArms
    BY <2>1, <2>3, MinPair DEF OwnerArms, TypeOK
  <2>4. CASE PeekOwner(a) \/ WakeOwner(a)
    BY <2>4 DEF PeekOwner, WakeOwner, TypeOK
  <2> QED BY <1>1, <2>2, <2>3, <2>4 DEF RegisterStep
<1>2. ASSUME NEW a \in Actors, NEW s \in Sleeps,
             Enqueue(a, s) \/ Cancel(a, s) \/ PollDue(a, s)
      PROVE  TypeOK'
  BY <1>2 DEF Enqueue, Cancel, PollDue, TypeOK
<1>3. CASE DrainInbox \/ DrainExpired
  BY <1>3 DEF DrainInbox, DrainExpired, TypeOK, Live
<1>4. CASE StorePublished
  <2>1. published' \in 0 .. Inf
    BY <1>4, EarliestIs DEF StorePublished, TypeOK, Live
  <2> QED BY <1>4, <2>1 DEF StorePublished, TypeOK
<1>5. CASE CheckInbox
  BY <1>5 DEF CheckInbox, TypeOK
<1>6. CASE FireReady
  BY <1>6 DEF FireReady, TypeOK
<1>7. CASE ArmAfterFire \/ StartTasks \/ ArmForPark
  <2>1. armed' \in 0 .. Inf - 1
    BY <1>7, MinPair DEF ArmAfterFire, StartTasks, ArmForPark, TypeOK
  <2> QED BY <1>7, <2>1 DEF ArmAfterFire, StartTasks, ArmForPark, TypeOK
<1>8. CASE NextPass \/ PublishParked \/ TestDue \/ LoadPublished
  BY <1>8 DEF NextPass, PublishParked, TestDue, LoadPublished, BackToLoop, TypeOK
<1>12. CASE Park
  BY <1>12 DEF Park, BackToLoop, TypeOK
<1>9. CASE TakeIpi \/ OtherWake
  BY <1>9 DEF TakeIpi, OtherWake, Unhalt, BackToLoop, TypeOK
<1>13. CASE Tick
  BY <1>13 DEF Tick, TypeOK
<1>10. CASE TimerInterrupt
  <2>1. armed' \in 0 .. Inf - 1
    BY <1>10, MinPair DEF TimerInterrupt, TypeOK
  <2> QED BY <1>10, <2>1 DEF TimerInterrupt, Unhalt, BackToLoop, TypeOK
<1>11. CASE UNCHANGED vars
  BY <1>11 DEF vars, TypeOK
<1> QED
  BY <1>1, <1>2, <1>3, <1>4, <1>5, <1>6, <1>7, <1>8, <1>9, <1>10, <1>11, <1>12, <1>13
     DEF Next, LoopStep

-----------------------------------------------------------------------------
(* Passes, and what they take out.                                         *)

LEMMA NextPassInv == TypeOK /\ PassInv /\ [Next]_vars => PassInv'
<1> SUFFICES ASSUME TypeOK, PassInv, [Next]_vars PROVE PassInv'
  OBVIOUS
<1> USE Constants DEF Passing, InPark
<1>1. ASSUME NEW a \in Actors, RegisterStep(a) PROVE PassInv'
  BY <1>1 DEF RegisterStep, LowerPublished, OwnerArms, PeekOwner, WakeOwner, PassInv
<1>2. ASSUME NEW a \in Actors, NEW s \in Sleeps,
             Enqueue(a, s) \/ Cancel(a, s) \/ PollDue(a, s)
      PROVE  PassInv'
  BY <1>2 DEF Enqueue, Cancel, PollDue, TypeOK, PassInv
<1>3. CASE DrainInbox
  BY <1>3 DEF DrainInbox, TypeOK, PassInv
<1>4. CASE DrainExpired
  BY <1>4 DEF DrainExpired, TypeOK, PassInv, Live
<1>5. CASE StorePublished \/ CheckInbox \/ ArmAfterFire \/ StartTasks \/ ArmForPark
  BY <1>5 DEF StorePublished, CheckInbox, ArmAfterFire, StartTasks, ArmForPark, PassInv
<1>6. CASE FireReady
  BY <1>6 DEF FireReady, TypeOK, PassInv
<1>7. CASE NextPass \/ PublishParked \/ TestDue \/ LoadPublished
  BY <1>7 DEF NextPass, PublishParked, TestDue, LoadPublished, BackToLoop, TypeOK, PassInv
<1>8. CASE Park
  BY <1>8 DEF Park, BackToLoop, TypeOK, PassInv
<1>9. CASE TakeIpi \/ OtherWake \/ TimerInterrupt
  BY <1>9 DEF TakeIpi, OtherWake, TimerInterrupt, Unhalt, BackToLoop, TypeOK, PassInv
<1>10. CASE Tick
  BY <1>10 DEF Tick, TypeOK, PassInv
<1>11. CASE UNCHANGED vars
  BY <1>11 DEF vars, PassInv
<1> QED
  BY <1>1, <1>2, <1>3, <1>4, <1>5, <1>6, <1>7, <1>8, <1>9, <1>10, <1>11 DEF Next, LoopStep

LEMMA NextNotForgotten == TypeOK /\ PassInv /\ NotForgotten /\ [Next]_vars => NotForgotten'
<1> SUFFICES ASSUME TypeOK, PassInv, NotForgotten, [Next]_vars PROVE NotForgotten'
  OBVIOUS
<1> USE Constants
<1>1. ASSUME NEW a \in Actors, RegisterStep(a) PROVE NotForgotten'
  BY <1>1 DEF RegisterStep, LowerPublished, OwnerArms, PeekOwner, WakeOwner, NotForgotten
<1>2. ASSUME NEW a \in Actors, NEW s \in Sleeps,
             Enqueue(a, s) \/ Cancel(a, s) \/ PollDue(a, s)
      PROVE  NotForgotten'
  BY <1>2 DEF Enqueue, Cancel, PollDue, TypeOK, NotForgotten
<1>3. CASE DrainInbox
  BY <1>3 DEF DrainInbox, TypeOK, NotForgotten
<1>4. CASE DrainExpired
  BY <1>4 DEF DrainExpired, TypeOK, NotForgotten, Live
<1>5. CASE FireReady
  <2>1. \A s \in Live(ready) : Deadline[s] <= now
    BY DEF PassInv, TypeOK, Live
  <2> QED BY <1>5, <2>1 DEF FireReady, TypeOK, NotForgotten, Live
<1>6. CASE StorePublished \/ CheckInbox \/ ArmAfterFire \/ StartTasks \/ ArmForPark
           \/ NextPass \/ PublishParked \/ TestDue \/ LoadPublished \/ Park
           \/ TakeIpi \/ OtherWake \/ TimerInterrupt
  <2>1. UNCHANGED <<sleep, inbox, wheel, ready, now>>
    BY <1>6 DEF StorePublished, CheckInbox, ArmAfterFire, StartTasks, ArmForPark, NextPass,
           PublishParked, TestDue, LoadPublished, Park, TakeIpi, OtherWake, TimerInterrupt
  <2> QED BY <2>1 DEF NotForgotten
<1>7. CASE Tick
  BY <1>7 DEF Tick, TypeOK, NotForgotten
<1>8. CASE UNCHANGED vars
  BY <1>8 DEF vars, NotForgotten
<1> QED
  BY <1>1, <1>2, <1>3, <1>4, <1>5, <1>6, <1>7, <1>8 DEF Next, LoopStep

-----------------------------------------------------------------------------
(* The published deadline covers every registered one.                     *)

LEMMA NextCovers ==
  TypeOK /\ PassInv /\ PublishedCovers /\ StoreInv /\ [Next]_vars
    => PublishedCovers' /\ StoreInv'
<1> SUFFICES ASSUME TypeOK, PassInv, PublishedCovers, StoreInv, [Next]_vars
             PROVE  PublishedCovers' /\ StoreInv'
  OBVIOUS
<1> USE Constants
<1>1. ASSUME NEW a \in Actors, LowerPublished(a) PROVE PublishedCovers' /\ StoreInv'
  <2> DEFINE d == Deadline[regSleep[a]]
  <2>1. d \in 1 .. MaxTime /\ published \in 0 .. Inf
    BY DEF TypeOK
  <2>2. published' <= published /\ published' <= d /\ published' \in 0 .. Inf
    BY <1>1, <2>1, MinPair DEF LowerPublished
  <2>3. /\ UNCHANGED <<pc, inbox, wheel, sleep, regSleep>>
        /\ \A b \in Actors \ {a} : reg'[b] = reg[b]
    BY <1>1 DEF LowerPublished, TypeOK
  <2>4. \A s \in Lowered' : s \in Lowered \/ s = regSleep[a]
    BY <2>3 DEF Lowered
  <2>5. \A s \in Sleeps : published <= Deadline[s] => published' <= Deadline[s]
    BY <2>1, <2>2
  <2>6. PublishedCovers'
    BY <2>2, <2>3, <2>4, <2>5 DEF PublishedCovers, Live, TypeOK
  <2>7. StoreInv'
    BY <2>3, <2>5 DEF StoreInv, Live, TypeOK
  <2> QED BY <2>6, <2>7
<1>2. ASSUME NEW a \in Actors, (a = Owner /\ OwnerArms) \/ PeekOwner(a) \/ WakeOwner(a)
      PROVE  PublishedCovers' /\ StoreInv'
  <2>1. /\ UNCHANGED <<pc, inbox, wheel, sleep, published, regSleep>>
        /\ \A b \in Actors : reg[b] = "lower" => reg'[b] = "lower"
    BY <1>2 DEF OwnerArms, PeekOwner, WakeOwner, TypeOK
  <2>2. Lowered' \subseteq Lowered
    BY <2>1 DEF Lowered
  <2> QED BY <2>1, <2>2 DEF PublishedCovers, StoreInv, Live
<1>3. ASSUME NEW a \in Actors, NEW s \in Sleeps, Enqueue(a, s)
      PROVE  PublishedCovers' /\ StoreInv'
  <2>1. /\ UNCHANGED <<pc, wheel, published>> /\ inbox' = inbox \cup {s}
        /\ sleep' = [sleep EXCEPT ![s] = "pending"] /\ sleep[s] = "new"
        /\ reg[a] = "none" /\ reg'[a] = "lower" /\ regSleep'[a] = s
        /\ \A b \in Actors \ {a} : reg'[b] = reg[b] /\ regSleep'[b] = regSleep[b]
    BY <1>3 DEF Enqueue, TypeOK
  <2>2. Lowered' \subseteq Lowered \ {s}
    BY <2>1 DEF Lowered
  <2>3. s \notin wheel
    BY <2>1 DEF PassInv
  <2> QED BY <2>1, <2>2, <2>3 DEF PublishedCovers, StoreInv, Live, TypeOK
<1>4. ASSUME NEW a \in Actors, NEW s \in Sleeps, Cancel(a, s) \/ PollDue(a, s)
      PROVE  PublishedCovers' /\ StoreInv'
  <2>1. /\ UNCHANGED <<pc, inbox, wheel, published, reg, regSleep>>
        /\ \A t \in Sleeps : sleep'[t] = "pending" => sleep[t] = "pending"
    BY <1>4 DEF Cancel, PollDue, TypeOK
  <2> QED BY <2>1 DEF PublishedCovers, StoreInv, Live, Lowered, TypeOK
<1>5. CASE DrainInbox \/ DrainExpired
  BY <1>5 DEF DrainInbox, DrainExpired, PublishedCovers, StoreInv
<1>6. CASE StorePublished
  <2>1. PICK stale \in SUBSET (wheel \ Live(wheel)) :
          published' = Earliest(Live(wheel) \cup stale)
    BY <1>6 DEF StorePublished
  <2>2. Live(wheel) \cup stale \in SUBSET Sleeps
    BY DEF TypeOK, Live
  <2>3. \A s \in Live(wheel) : published' <= Deadline[s]
    BY <2>1, <2>2, EarliestIs
  <2> QED BY <1>6, <2>3 DEF StorePublished, PublishedCovers, StoreInv, Live
<1>7. CASE CheckInbox
  BY <1>7 DEF CheckInbox, PublishedCovers, StoreInv, Live, Lowered
<1>8. CASE FireReady
  <2>1. /\ UNCHANGED <<inbox, wheel, published, reg, regSleep>> /\ pc = "wake" /\ pc' = "arm"
        /\ \A t \in Sleeps : sleep'[t] = "pending" => sleep[t] = "pending"
    BY <1>8 DEF FireReady, TypeOK
  <2> QED BY <2>1 DEF PublishedCovers, StoreInv, Live, Lowered, TypeOK
<1>9. CASE ArmAfterFire \/ StartTasks \/ ArmForPark \/ NextPass \/ PublishParked \/ TestDue
           \/ LoadPublished \/ Park \/ TakeIpi \/ OtherWake \/ TimerInterrupt \/ Tick
  <2>1. UNCHANGED <<sleep, inbox, wheel, published, reg, regSleep>>
    BY <1>9 DEF ArmAfterFire, StartTasks, ArmForPark, NextPass, PublishParked, TestDue,
         LoadPublished, Park, TakeIpi, OtherWake, TimerInterrupt, Tick
  <2>2. \/ pc' = pc \/ pc' = "drain"
        \/ pc \notin {"drain", "expire", "store", "check"} /\ pc' # "check"
    <3>1. CASE ArmAfterFire \/ StartTasks \/ ArmForPark \/ NextPass \/ PublishParked
               \/ TestDue \/ LoadPublished \/ Tick
      BY <3>1 DEF ArmAfterFire, StartTasks, ArmForPark, NextPass, PublishParked, TestDue,
           LoadPublished, Tick, BackToLoop
    <3>2. CASE Park \/ TakeIpi \/ OtherWake \/ TimerInterrupt
      BY <3>2 DEF Park, TakeIpi, OtherWake, TimerInterrupt, Unhalt, BackToLoop
    <3> QED BY <1>9, <3>1, <3>2
  <2> QED BY <2>1, <2>2 DEF PublishedCovers, StoreInv, Live, Lowered
<1>10. CASE UNCHANGED vars
  BY <1>10 DEF vars, PublishedCovers, StoreInv, Live, Lowered
<1> QED
  BY <1>1, <1>2, <1>3, <1>4, <1>5, <1>6, <1>7, <1>8, <1>9, <1>10
     DEF Next, LoopStep, RegisterStep

-----------------------------------------------------------------------------
(* The comparator covers the published deadline before the owner halts.    *)

LEMMA NextArm ==
  TypeOK /\ PassInv /\ ArmInv /\ [Next]_vars => ArmInv'
<1> SUFFICES ASSUME TypeOK, PassInv, ArmInv, [Next]_vars PROVE ArmInv'
  OBVIOUS
<1> USE Constants
<1>1. ASSUME NEW a \in Actors, LowerPublished(a) PROVE ArmInv'
  <2>1. /\ UNCHANGED <<pc, armed, arg, now, latch, ipi>>
        /\ \A b \in Actors : reg[b] \in {"peek", "latch", "ipi"} => reg'[b] = reg[b]
    BY <1>1 DEF LowerPublished, TypeOK
  <2>2. published' = published \/ reg'[a] = "peek" \/ pc = "tasks"
    BY <1>1, MinPair DEF LowerPublished, MayRun, TypeOK
  <2> QED BY <2>1, <2>2 DEF ArmInv, Announced, WakeComing
<1>2. ASSUME OwnerArms PROVE ArmInv'
  BY <1>2 DEF OwnerArms, MayRun, ArmInv
<1>3. ASSUME NEW a \in Actors, PeekOwner(a) PROVE ArmInv'
  <2>1. /\ UNCHANGED <<pc, armed, arg, now, latch, ipi, published>>
        /\ \A b \in Actors : reg[b] \in {"latch", "ipi"} => reg'[b] = reg[b]
    BY <1>3 DEF PeekOwner, TypeOK
  <2>2. pc \in {"armPark", "halt", "halted"}
          => \A b \in Actors : reg[b] = "peek" => reg'[b] \in {"peek", "latch"}
    BY <1>3 DEF PeekOwner, TypeOK, PassInv, InPark
  <2> QED BY <2>1, <2>2 DEF ArmInv, Announced, WakeComing
<1>4. ASSUME NEW a \in Actors, WakeOwner(a) PROVE ArmInv'
  <2>1. CASE reg[a] = "latch"
    <3>1. /\ UNCHANGED <<pc, armed, arg, now, ipi, published>> /\ latch' = TRUE
          /\ reg'[a] = "ipi" /\ \A b \in Actors \ {a} : reg'[b] = reg[b]
      BY <1>4, <2>1 DEF WakeOwner, TypeOK
    <3> QED BY <3>1 DEF ArmInv, Announced, WakeComing
  <2>2. CASE reg[a] = "ipi"
    <3>1. /\ UNCHANGED <<pc, armed, arg, now, latch, published>> /\ ipi' = TRUE
          /\ \A b \in Actors \ {a} : reg'[b] = reg[b]
      BY <1>4, <2>2 DEF WakeOwner, TypeOK
    <3> QED BY <2>2, <3>1 DEF ArmInv, Announced, WakeComing
  <2> QED BY <1>4, <2>1, <2>2 DEF WakeOwner
<1>5. ASSUME NEW a \in Actors, NEW s \in Sleeps,
             Enqueue(a, s) \/ Cancel(a, s) \/ PollDue(a, s)
      PROVE  ArmInv'
  <2>1. /\ UNCHANGED <<pc, armed, arg, now, latch, ipi, published>>
        /\ \A b \in Actors : reg[b] # "none" => reg'[b] = reg[b]
    BY <1>5 DEF Enqueue, Cancel, PollDue, TypeOK
  <2> QED BY <2>1 DEF ArmInv, Announced, WakeComing
<1>6. CASE DrainInbox \/ DrainExpired \/ StorePublished \/ CheckInbox \/ FireReady
           \/ ArmAfterFire \/ StartTasks \/ NextPass \/ PublishParked \/ TestDue
  BY <1>6 DEF DrainInbox, DrainExpired, StorePublished, CheckInbox, FireReady, ArmAfterFire,
       StartTasks, NextPass, PublishParked, TestDue, BackToLoop, ArmInv
<1>7. CASE LoadPublished
  BY <1>7 DEF LoadPublished, ArmInv, TypeOK
<1>8. CASE ArmForPark
  <2>1. armed' <= arg /\ armed' \in Int
    BY <1>8, MinPair DEF ArmForPark, TypeOK
  <2> QED BY <1>8, <2>1 DEF ArmForPark, ArmInv, Announced, TypeOK
<1>9. CASE Park
  BY <1>9 DEF Park, BackToLoop, ArmInv, Announced, WakeComing
<1>10. CASE TakeIpi \/ OtherWake
  <2>1. /\ UNCHANGED <<armed, arg, now, latch, published, reg>>
        /\ pc' # "halted" /\ (pc' = pc \/ pc' = "drain")
    BY <1>10 DEF TakeIpi, OtherWake, Unhalt, BackToLoop
  <2> QED BY <2>1 DEF ArmInv, Announced
<1>11. CASE TimerInterrupt
  <2>1. armed' <= published \/ published <= now
    BY <1>11, MinPair DEF TimerInterrupt, TypeOK
  <2>2. /\ UNCHANGED <<arg, now, latch, published, reg>>
        /\ pc' # "halted" /\ (pc' = pc \/ pc' = "drain")
    BY <1>11 DEF TimerInterrupt, Unhalt, BackToLoop
  <2> QED BY <2>1, <2>2 DEF ArmInv, Announced
<1>12. CASE Tick
  <2>1. /\ UNCHANGED <<pc, armed, arg, latch, ipi, published, reg>>
        /\ published <= now => published <= now'
    BY <1>12 DEF Tick, TypeOK
  <2> QED BY <2>1 DEF ArmInv, Announced, WakeComing
<1>13. CASE UNCHANGED vars
  BY <1>13 DEF vars, ArmInv, Announced, WakeComing
<1> QED
  BY <1>1, <1>2, <1>3, <1>4, <1>5, <1>6, <1>7, <1>8, <1>9, <1>10, <1>11, <1>12, <1>13
     DEF Next, LoopStep, RegisterStep

-----------------------------------------------------------------------------
LEMMA TimerInvariance == Spec => [](TypeOK /\ TimerInv)
<1>1. TypeOK /\ TimerInv /\ [Next]_vars => TypeOK' /\ TimerInv'
  BY NextType, NextPassInv, NextNotForgotten, NextCovers, NextArm DEF TimerInv
<1> QED BY <1>1, InitTimer, PTL DEF Spec

\* The types of the timer's state, for any sleeps, processors and intervals.
THEOREM TimerTypeCorrect == Spec => []TypeOK
  BY TimerInvariance, PTL

\* publish_deadline, fire_expired's republication and arm_published_deadline
\* never leave a live sleep uncovered: outside the pass the published deadline
\* is no later than any registered one, and a halted owner has it armed or a
\* wake under way.  For any sleeps and any registering processors.
THEOREM DeadlinesAreCovered == Spec => []DeadlinesCovered
<1>1. TypeOK /\ TimerInv => DeadlinesCovered
  BY Constants DEF TypeOK, TimerInv, ArmInv, DeadlinesCovered, ArmedBeforeHalt
<1> QED BY <1>1, TimerInvariance, PTL

\* A sleep fires no earlier than its deadline, and a live one is always in the
\* inbox, in the wheel or in the hands of fire_expired.
THEOREM SleepsAreNotForgotten == Spec => []NotForgotten
  BY TimerInvariance, PTL DEF TimerInv

\* arm_earlier only moves the comparator earlier: a step that moves it later
\* is the timer's own interrupt, taken once the armed deadline has come.
THEOREM ArmedOnlyMovesEarlier == Spec => OnlyInterruptMovesLater
<1>1. ASSUME TypeOK, Next PROVE armed' <= armed \/ now >= armed
  <2> USE Constants
  <2>1. \A x \in Int : Min({armed, x}) <= armed
    BY <1>1, MinPair DEF TypeOK
  <2>2. ASSUME NEW a \in Actors, RegisterStep(a) PROVE armed' <= armed
    <3>1. CASE a = Owner /\ OwnerArms
      <4>1. Deadline[regSleep[Owner]] \in Int
        BY <1>1 DEF TypeOK
      <4> QED BY <2>1, <3>1, <4>1 DEF OwnerArms
    <3>2. CASE LowerPublished(a) \/ PeekOwner(a) \/ WakeOwner(a)
      BY <1>1, <3>2 DEF LowerPublished, PeekOwner, WakeOwner, TypeOK
    <3> QED BY <2>2, <3>1, <3>2 DEF RegisterStep
  <2>3. ASSUME NEW a \in Actors, NEW s \in Sleeps,
               Enqueue(a, s) \/ Cancel(a, s) \/ PollDue(a, s)
        PROVE  armed' <= armed
    BY <1>1, <2>3 DEF Enqueue, Cancel, PollDue, TypeOK
  <2>4. CASE ArmAfterFire \/ StartTasks \/ ArmForPark
    BY <1>1, <2>1, <2>4 DEF ArmAfterFire, StartTasks, ArmForPark, TypeOK
  <2>5. CASE TimerInterrupt
    BY <2>5 DEF TimerInterrupt
  <2>6. CASE DrainInbox \/ DrainExpired \/ StorePublished \/ CheckInbox \/ FireReady
             \/ NextPass \/ PublishParked \/ TestDue \/ LoadPublished \/ Park
             \/ TakeIpi \/ OtherWake \/ Tick
    <3>1. armed' = armed
      BY <2>6 DEF DrainInbox, DrainExpired, StorePublished, CheckInbox, FireReady, NextPass,
           PublishParked, TestDue, LoadPublished, Park, TakeIpi, OtherWake, Tick
    <3> QED BY <1>1, <3>1 DEF TypeOK
  <2> QED BY <1>1, <2>2, <2>3, <2>4, <2>5, <2>6 DEF Next, LoopStep
<1>2. TypeOK /\ TypeOK' /\ [Next]_vars => [armed' > armed => now >= armed]_vars
  BY <1>1, Constants DEF TypeOK
<1> QED BY <1>2, TimerTypeCorrect, PTL DEF Spec, OnlyInterruptMovesLater

-----------------------------------------------------------------------------
(* The wheel: division first, then where an entry is, then WheelInv, the   *)
(* inductive invariant, and a lemma per action.                            *)

\* Division with remainder.
LEMMA DivMod ==
  ASSUME NEW x \in Nat, NEW w \in Nat \ {0}
  PROVE  \E q \in Nat, r \in 0 .. w - 1 : x = w * q + r /\ x % w = r
<1> DEFINE T == {r \in Nat : \E q \in Nat : x = w * q + r}
<1>1. x = w * 0 + x /\ x \in T
  OBVIOUS
<1>2. PICK r \in T : \A y \in T : r <= y
  BY <1>1, LeastOf
<1>3. PICK q \in Nat : r \in Nat /\ x = w * q + r
  OBVIOUS
<1>4. r < w
  <2> SUFFICES ASSUME r >= w PROVE FALSE
    OBVIOUS
  <2>1. w * (q + 1) = w * q + w
    OBVIOUS
  <2>2. x = w * (q + 1) + (r - w) /\ r - w \in Nat /\ q + 1 \in Nat
    BY <1>3, <2>1
  <2>3. r - w \in T
    BY <2>2
  <2> HIDE DEF T
  <2> QED BY <1>2, <1>3, <2>3
<1>5. x % w = r /\ r \in 0 .. w - 1
  BY <1>3, <1>4
<1> HIDE DEF T
<1> QED BY <1>3, <1>5

\* Induction, for a set of numbers.
LEMMA Induct ==
  ASSUME NEW T \in SUBSET Nat, 0 \in T, \A n \in T : n + 1 \in T
  PROVE  T = Nat
<1> SUFFICES ASSUME Nat \ T # {} PROVE FALSE
  OBVIOUS
<1>1. PICK x \in Nat \ T : \A y \in Nat \ T : x <= y
  BY LeastOf
<1>2. x - 1 \in Nat /\ x - 1 \in T
  <2>1. x # 0
    OBVIOUS
  <2>2. x - 1 \in Nat /\ ~(x <= x - 1)
    BY <2>1
  <2> QED BY <1>1, <2>2
<1>3. (x - 1) + 1 \in T
  BY <1>2
<1> QED BY <1>2, <1>3

\* A function defined by recursion over 0 .. Q exists.
Recurs(f, Q, a, G) == f = [n \in 0 .. Q |-> IF n = 0 THEN a ELSE G[f[n - 1]]]

\* Such a function exists, whatever the step G is.
LEMMA Recursion ==
  ASSUME NEW S, NEW a \in S, NEW G \in [S -> S], NEW Q \in Nat
  PROVE  \E f \in [0 .. Q -> S] : Recurs(f, Q, a, G)
<1> DEFINE T == {n \in Nat : \E f \in [0 .. n -> S] : Recurs(f, n, a, G)}
<1>1. 0 \in T
  <2> DEFINE f == [n \in 0 .. 0 |-> a]
  <2>1. f \in [0 .. 0 -> S] /\ Recurs(f, 0, a, G)
    BY DEF Recurs
  <2> HIDE DEF f
  <2> QED BY <2>1
<1>2. ASSUME NEW n \in T PROVE n + 1 \in T
  <2>1. PICK g \in [0 .. n -> S] : Recurs(g, n, a, G)
    OBVIOUS
  <2> DEFINE f == [m \in 0 .. n + 1 |-> IF m <= n THEN g[m] ELSE G[g[n]]]
  <2>2. n \in Nat /\ n \in 0 .. n /\ g[n] \in S /\ G[g[n]] \in S
    OBVIOUS
  <2>3. f \in [0 .. n + 1 -> S]
    BY <2>2
  <2>4. ASSUME NEW m \in 0 .. n + 1 PROVE f[m] = IF m = 0 THEN a ELSE G[f[m - 1]]
    <3>1. CASE m = n + 1
      BY <2>2, <3>1
    <3>2. CASE m = 0
      BY <2>1, <2>2, <3>2 DEF Recurs
    <3>3. CASE m # n + 1 /\ m # 0
      <4>1. m \in 0 .. n /\ m - 1 \in 0 .. n + 1 /\ m - 1 <= n /\ m <= n
        BY <2>2, <3>3
      <4>2. g[m] = G[g[m - 1]]
        BY <2>1, <3>3, <4>1 DEF Recurs
      <4>3. f[m] = g[m] /\ f[m - 1] = g[m - 1]
        BY <4>1
      <4> QED BY <3>3, <4>2, <4>3
    <3> QED BY <3>1, <3>2, <3>3
  <2>5. Recurs(f, n + 1, a, G)
    <3>1. f = [m \in 0 .. n + 1 |-> f[m]]
      OBVIOUS
    <3> HIDE DEF f
    <3> QED BY <2>4, <3>1 DEF Recurs
  <2> HIDE DEF f
  <2> QED BY <2>2, <2>3, <2>5
<1>3. T = Nat
  <2> HIDE DEF T
  <2>1. T \in SUBSET Nat
    BY DEF T
  <2> QED BY <1>1, <1>2, <2>1, Induct
<1> QED BY <1>3

\* Quotient and remainder are unique.
LEMMA Quotient ==
  ASSUME NEW o \in Nat, NEW w \in Nat \ {0}, NEW q \in Nat, NEW r \in 0 .. w - 1, o = w * q + r
  PROVE  o % w = r /\ o \div w = q
  OBVIOUS

\* Each level's buckets are RingSlots times as wide as those below.
LEMMA SpansAre ==
  /\ Spans \in [0 .. Levels -> Nat \ {0}] /\ Spans[0] = 1
  /\ \A l \in 0 .. Levels : l # 0 => l - 1 \in 0 .. Levels /\ Spans[l] = RingSlots * Spans[l - 1]
<1> DEFINE S == Nat \ {0}
           G == [x \in S |-> RingSlots * x]
           P(f) == f = [l \in 0 .. Levels |-> IF l = 0 THEN 1 ELSE RingSlots * f[l - 1]]
<1>1. Levels \in Nat /\ 0 \in 0 .. Levels /\ 1 \in S /\ RingSlots \in S
  BY WheelAssumption
<1>0. \A x, y \in S : x * y \in S
  <2>1. ASSUME NEW x \in S, NEW y \in S PROVE x * y \in S
    <3>1. PICK k \in Nat : y = k + 1
      <4>1. y - 1 \in Nat /\ y = (y - 1) + 1
        OBVIOUS
      <4> QED BY <4>1
    <3>2. x * y = x * k + x /\ x * k \in Nat
      BY <3>1
    <3> QED BY <3>2
  <2> QED BY <2>1
<1>2. G \in [S -> S]
  BY <1>0, <1>1
<1>3. PICK f \in [0 .. Levels -> S] : Recurs(f, Levels, 1, G)
  <2> HIDE DEF S, G
  <2> QED BY <1>1, <1>2, Recursion
<1>4. P(f)
  <2>1. \A n \in 0 .. Levels : n # 0 => n - 1 \in 0 .. Levels /\ f[n - 1] \in S
    BY <1>1
  <2>2. \A n \in 0 .. Levels : f[n] = IF n = 0 THEN 1 ELSE RingSlots * f[n - 1]
    BY <1>3, <2>1 DEF Recurs
  <2>3. f = [l \in 0 .. Levels |-> f[l]]
    BY <1>1
  <2> QED BY <1>1, <2>2, <2>3
<1>5. P(CHOOSE g : P(g))
  <2> HIDE DEF P
  <2> QED BY <1>4
<1>6. P(Spans)
  <2>1. Spans = CHOOSE g : P(g)
    BY DEF Spans
  <2> HIDE DEF P
  <2> QED BY <1>5, <2>1
<1> DEFINE T == {n \in Nat : n \in 0 .. Levels => Spans[n] \in S}
<1>7. T = Nat
  <2>1. 0 \in T
    BY <1>1, <1>6
  <2>2. ASSUME NEW n \in T PROVE n + 1 \in T
    <3>1. n \in Nat /\ (n + 1 \in 0 .. Levels => n \in 0 .. Levels /\ Spans[n + 1] = RingSlots * Spans[n])
      BY <1>1, <1>6
    <3>2. n \in 0 .. Levels => Spans[n] \in S
      OBVIOUS
    <3>3. n + 1 \in 0 .. Levels => Spans[n + 1] \in S
      BY <1>0, <1>1, <3>1, <3>2
    <3> QED BY <3>1, <3>3
  <2> HIDE DEF T
  <2>3. T \in SUBSET Nat
    BY DEF T
  <2> QED BY <2>1, <2>2, <2>3, Induct
<1>8. \A l \in 0 .. Levels : Spans[l] \in S
  <2>1. 0 .. Levels \subseteq Nat
    BY <1>1
  <2> QED BY <1>7, <2>1
<1>9. Spans \in [0 .. Levels -> S]
  <2>1. Spans = [l \in 0 .. Levels |-> Spans[l]]
    BY <1>6
  <2> HIDE DEF S
  <2> QED BY <1>8, <2>1
<1>10. Spans[0] = 1
  BY <1>1, <1>6
<1>11. \A l \in 0 .. Levels : l # 0 => l - 1 \in 0 .. Levels /\ Spans[l] = RingSlots * Spans[l - 1]
  BY <1>1, <1>6
<1> QED BY <1>9, <1>10, <1>11

LEMMA SpanIs ==
  ASSUME NEW l \in LevelSet
  PROVE  /\ Span(l) \in Nat \ {0} /\ Span(l + 1) \in Nat \ {0} /\ Span(l + 1) = RingSlots * Span(l)
         /\ l \in Nat /\ l + 1 \in 1 .. Levels /\ (l = 0 => Span(l) = 1)
<1>1. l \in 0 .. Levels /\ l + 1 \in 0 .. Levels /\ l + 1 # 0 /\ (l + 1) - 1 = l /\ l \in Nat
  BY WheelAssumption DEF LevelSet
<1> QED BY <1>1, SpansAre DEF Span

-----------------------------------------------------------------------------
(* Whole turns                                                             *)

LEMMA Turns ==
  ASSUME NEW x \in Nat, NEW w \in Nat \ {0}
  PROVE  \E a \in Nat, r \in 0 .. w - 1 : x = w * a + r /\ x % w = r /\ x \div w = a
<1>1. PICK a \in Nat, r \in 0 .. w - 1 : x = w * a + r
  BY DivMod
<1> QED BY <1>1, Quotient

LEMMA MoreTurns ==
  ASSUME NEW w \in Nat, NEW a \in Nat, NEW b \in Nat, a <= b
  PROVE  w * a <= w * b /\ w * a \in Nat /\ w * b \in Nat
<1>1. PICK d \in Nat : b = a + d
  <2>1. b - a \in Nat /\ b = a + (b - a)
    OBVIOUS
  <2> QED BY <2>1
<1>2. w * b = w * a + w * d /\ w * a \in Nat /\ w * d \in Nat
  BY <1>1
<1> QED BY <1>2

\* A tick later the turn is the same, or has just begun.
LEMMA NextTick ==
  ASSUME NEW x \in Nat, NEW w \in Nat \ {0}
  PROVE  \/ (x + 1) \div w = x \div w
         \/ (x + 1) \div w = (x \div w) + 1 /\ (x + 1) % w = 0
<1>1. PICK a \in Nat, r \in 0 .. w - 1 : x = w * a + r /\ x \div w = a
  BY Turns
<1>2. CASE r + 1 \in 0 .. w - 1
  <2>1. x + 1 = w * a + (r + 1) /\ x + 1 \in Nat
    BY <1>1
  <2>2. (x + 1) \div w = a
    BY <1>2, <2>1, Quotient
  <2> QED BY <1>1, <2>2
<1>3. CASE r + 1 = w
  <2>0. w * (a + 1) = w * a + w
    OBVIOUS
  <2>1. x + 1 = w * (a + 1) + 0 /\ x + 1 \in Nat /\ a + 1 \in Nat /\ 0 \in 0 .. w - 1
    BY <1>1, <1>3, <2>0
  <2>2. (x + 1) \div w = a + 1 /\ (x + 1) % w = 0
    BY <2>1, Quotient
  <2> QED BY <1>1, <2>2
<1> QED BY <1>2, <1>3

LEMMA LaterTurn ==
  ASSUME NEW x \in Nat, NEW t \in Nat, NEW w \in Nat \ {0}
  PROVE  /\ t - x >= w => t \div w > x \div w
         /\ t \div w > x \div w => t > x
         /\ t \div w \in Nat /\ x \div w \in Nat
<1>1. PICK a \in Nat, r \in 0 .. w - 1 : x = w * a + r /\ x \div w = a
  BY Turns
<1>2. PICK b \in Nat, s \in 0 .. w - 1 : t = w * b + s /\ t \div w = b
  BY Turns
<1>3. ASSUME b <= a PROVE t - x < w
  <2>1. w * b <= w * a /\ w * a \in Nat /\ w * b \in Nat
    BY <1>3, MoreTurns
  <2> QED BY <1>1, <1>2, <2>1
<1>4. ASSUME a + 1 <= b PROVE t > x
  <2>0. w * (a + 1) = w * a + w
    OBVIOUS
  <2>1. w * (a + 1) <= w * b /\ w * (a + 1) \in Nat /\ w * b \in Nat /\ w * a \in Nat
    BY <1>4, MoreTurns
  <2> QED BY <1>1, <1>2, <2>0, <2>1
<1> QED BY <1>1, <1>2, <1>3, <1>4

\* Seen from the start of a turn.
LEMMA FromTheStart ==
  ASSUME NEW x \in Nat, NEW t \in Nat, NEW w \in Nat \ {0}, x % w = 0
  PROVE  t \div w = x \div w => x <= t /\ t - x < w
<1>1. PICK a \in Nat, r \in 0 .. w - 1 : x = w * a + r /\ x % w = r /\ x \div w = a
  BY Turns
<1>2. PICK b \in Nat, s \in 0 .. w - 1 : t = w * b + s /\ t \div w = b
  BY Turns
<1>3. ASSUME a = b PROVE x <= t /\ t - x < w
  <2>1. w * a = w * b /\ w * a \in Nat
    BY <1>3
  <2> QED BY <1>1, <1>2, <2>1
<1> QED BY <1>1, <1>2, <1>3

LEMMA FewerTurns ==
  ASSUME NEW x \in Nat, NEW t \in Nat, NEW w \in Nat \ {0}, NEW n \in Nat \ {0}, x <= t, t - x < n * w
  PROVE  /\ t \div w <= x \div w + n
         /\ x % w = 0 => t \div w < x \div w + n
         /\ x \div w <= t \div w
<1>1. PICK a \in Nat, r \in 0 .. w - 1 : x = w * a + r /\ x % w = r /\ x \div w = a
  BY Turns
<1>2. PICK b \in Nat, s \in 0 .. w - 1 : t = w * b + s /\ t \div w = b
  BY Turns
<1>3. ASSUME a + n <= b, b = a + n => x % w = 0 PROVE FALSE
  <2>0. w * (a + n) = w * a + n * w /\ w * (a + n + 1) = w * a + n * w + w /\ w * a \in Nat /\ n * w \in Nat
    OBVIOUS
  <2>1. w * (a + n) <= w * b /\ w * b \in Nat
    BY <1>3, MoreTurns
  <2>2. CASE b = a + n
    BY <1>1, <1>2, <1>3, <2>0, <2>1, <2>2
  <2>3. CASE a + n + 1 <= b
    <3>1. w * (a + n + 1) <= w * b
      BY <2>3, MoreTurns
    <3> QED BY <1>1, <1>2, <2>0, <3>1
  <2> QED BY <1>3, <2>2, <2>3
<1>4. ASSUME b + 1 <= a PROVE FALSE
  <2>0. w * (b + 1) = w * b + w
    OBVIOUS
  <2>1. w * (b + 1) <= w * a /\ w * a \in Nat /\ w * b \in Nat
    BY <1>4, MoreTurns
  <2> QED BY <1>1, <1>2, <2>0, <2>1
<1> QED BY <1>1, <1>2, <1>3, <1>4

LEMMA SameSlot ==
  ASSUME NEW a \in Nat, NEW b \in Nat, NEW n \in Nat \ {0}, a <= b, b < a + n, a % n = b % n
  PROVE  a = b
<1>1. PICK p \in Nat, u \in 0 .. n - 1 : a = n * p + u /\ a % n = u
  BY Turns
<1>2. PICK q \in Nat, v \in 0 .. n - 1 : b = n * q + v /\ b % n = v
  BY Turns
<1>3. u = v
  BY <1>1, <1>2
<1>4. ASSUME p + 1 <= q PROVE FALSE
  <2>0. n * (p + 1) = n * p + n
    OBVIOUS
  <2>1. n * (p + 1) <= n * q /\ n * q \in Nat /\ n * p \in Nat
    BY <1>4, MoreTurns
  <2> QED BY <1>1, <1>2, <1>3, <2>0, <2>1
<1>5. ASSUME q + 1 <= p PROVE FALSE
  <2>0. n * (q + 1) = n * q + n
    OBVIOUS
  <2>1. n * (q + 1) <= n * p /\ n * q \in Nat /\ n * p \in Nat
    BY <1>5, MoreTurns
  <2> QED BY <1>1, <1>2, <1>3, <2>0, <2>1
<1>6. p = q
  BY <1>4, <1>5
<1> QED BY <1>1, <1>2, <1>3, <1>6

-----------------------------------------------------------------------------
(* Where an entry is                                                       *)

\* An entry of tick t, at tick cur, in bucket s of level l.
Home(t, l, s, cur) == cur <= t /\ t - cur < Span(l + 1) /\ s = WheelSlot(t, l)
Ahead(t, l, cur) == t \div Span(l) > cur \div Span(l)
Due(t, l, cur) == t \div Span(l) = cur \div Span(l) /\ cur % Span(l) = 0

\* A tick passes: a bucket that was ahead still is, or has just been reached.
LEMMA HomeTick ==
  ASSUME NEW t \in Nat, NEW cur \in Nat, NEW l \in LevelSet, NEW s, Home(t, l, s, cur), Ahead(t, l, cur)
  PROVE  Home(t, l, s, cur + 1) /\ (Ahead(t, l, cur + 1) \/ Due(t, l, cur + 1))
<1>1. PICK w, a, b, c : w = Span(l) /\ a = cur \div w /\ b = t \div w /\ c = (cur + 1) \div w
  OBVIOUS
<1>2. w \in Nat \ {0} /\ Span(l + 1) \in Nat
  BY <1>1, SpanIs
<1>3. a \in Nat /\ b \in Nat /\ c \in Nat /\ cur + 1 \in Nat
  BY <1>1, <1>2, LaterTurn
<1>4. b > a /\ t > cur
  BY <1>1, <1>2, LaterTurn DEF Ahead
<1>5. c = a \/ (c = a + 1 /\ (cur + 1) % w = 0)
  BY <1>1, <1>2, NextTick
<1>6. b > c \/ (b = c /\ (cur + 1) % w = 0)
  BY <1>3, <1>4, <1>5
<1>7. cur + 1 <= t /\ t - (cur + 1) < Span(l + 1)
  BY <1>2, <1>4 DEF Home
<1> QED BY <1>1, <1>6, <1>7 DEF Home, Ahead, Due

\* The bucket a level has reached holds what is due for the levels below.
LEMMA HomeReached ==
  ASSUME NEW t \in Nat, NEW cur \in Nat, NEW l \in LevelSet, Home(t, l, WheelSlot(cur, l), cur), cur % Span(l) = 0
  PROVE  Due(t, l, cur) /\ t - cur < Span(l)
<1>1. PICK w, a, b, n : w = Span(l) /\ a = cur \div w /\ b = t \div w /\ n = RingSlots
  OBVIOUS
<1>2. w \in Nat \ {0} /\ n \in Nat \ {0} /\ Span(l + 1) = n * w
  BY <1>1, SpanIs, WheelAssumption
<1>3. a \in Nat /\ b \in Nat
  BY <1>1, <1>2, LaterTurn
<1>4. cur <= t /\ t - cur < n * w /\ b % n = a % n
  BY <1>1, <1>2 DEF Home, WheelSlot
<1>5. a <= b /\ b < a + n
  BY <1>1, <1>2, <1>4, FewerTurns
<1>6. a = b
  BY <1>2, <1>3, <1>4, <1>5, SameSlot
<1>7. t - cur < w
  BY <1>1, <1>2, <1>6, FromTheStart
<1> QED BY <1>1, <1>6, <1>7 DEF Due

LEMMA DueSlot ==
  ASSUME NEW t, NEW cur, NEW l, NEW s, Home(t, l, s, cur), Due(t, l, cur)
  PROVE  s = WheelSlot(cur, l)
  BY DEF Home, Due, WheelSlot

\* At level 0 a bucket is a tick wide.
LEMMA AtTheBottom ==
  ASSUME NEW t \in Nat, NEW cur \in Nat
  PROVE  /\ 0 \in LevelSet /\ cur % Span(0) = 0
         /\ Ahead(t, 0, cur) <=> t > cur
         /\ Due(t, 0, cur) <=> t = cur
<1>1. 0 \in LevelSet
  BY WheelAssumption DEF LevelSet
<1>2. Span(0) = 1
  BY <1>1, SpanIs
<1>3. t \div 1 = t /\ cur \div 1 = cur /\ cur % 1 = 0
  OBVIOUS
<1> QED BY <1>1, <1>2, <1>3 DEF Ahead, Due

\* What insert chooses, for an entry less than Span(k) ahead.
LEMMA HomeChosen ==
  ASSUME NEW t \in Nat, NEW cur \in Nat, NEW k \in 1 .. Levels, cur <= t, t - cur < Span(k)
  PROVE  \E l \in LevelSet :
           /\ l = WheelLevel(t - cur) /\ l < k
           /\ Home(t, l, WheelSlot(t, l), cur)
           /\ l # 0 => Ahead(t, l, cur)
           /\ l = 0 => Ahead(t, l, cur) \/ Due(t, l, cur)
<1> DEFINE delay == t - cur
           A == {l \in LevelSet : delay < Span(l + 1)}
           m == WheelLevel(delay)
<1>1. Levels \in Nat \ {0} /\ LevelSet = 0 .. Levels - 1
  BY WheelAssumption DEF LevelSet
<1>2. k - 1 \in LevelSet /\ (k - 1) + 1 = k /\ Levels - 1 \in LevelSet /\ LevelSet \subseteq Nat
  BY <1>1
<1>3. k - 1 \in A
  BY <1>2
<1>4. m = Min(A \cup {Levels - 1})
  BY DEF WheelLevel
<1>5. A \cup {Levels - 1} \in SUBSET Nat /\ A \cup {Levels - 1} # {}
  BY <1>2
<1>6. m \in A \cup {Levels - 1} /\ \A y \in A \cup {Levels - 1} : m <= y
  <2> HIDE DEF A, m
  <2> QED BY <1>4, <1>5, MinOfNaturals
<1>7. m \in LevelSet /\ m \in Nat /\ m <= k - 1 /\ \A y \in A : m <= y
  <2> HIDE DEF m
  <2> QED BY <1>2, <1>3, <1>6
<1>8. m \in A
  <2> HIDE DEF m
  <2>1. CASE m = Levels - 1
    <3>1. m = k - 1
      BY <1>1, <1>7, <2>1
    <3> QED BY <1>3, <3>1
  <2> QED BY <1>6, <2>1
<1>9. m \in LevelSet /\ delay < Span(m + 1)
  BY <1>8
<1> HIDE DEF m
<1>10. m < k
  BY <1>7
<1>11. Home(t, m, WheelSlot(t, m), cur)
  BY <1>9 DEF Home
<1>12. ASSUME m # 0 PROVE Ahead(t, m, cur)
  <2>1. m - 1 \in LevelSet /\ (m - 1) + 1 = m /\ ~ (m <= m - 1)
    BY <1>1, <1>7, <1>12
  <2>2. ~ (delay < Span(m))
    BY <1>7, <2>1
  <2>3. Span(m) \in Nat \ {0}
    BY <1>9, SpanIs
  <2>4. t - cur >= Span(m)
    BY <2>2, <2>3
  <2> QED BY <2>3, <2>4, LaterTurn DEF Ahead
<1>13. ASSUME m = 0 PROVE Ahead(t, m, cur) \/ Due(t, m, cur)
  BY <1>13, AtTheBottom
<1> QED BY <1>9, <1>10, <1>11, <1>12, <1>13 DEF m

-----------------------------------------------------------------------------
(* The clock's ticks and the wheel's                                       *)

Began(k, x) == Quantum * k <= x

LEMMA Floor ==
  ASSUME NEW x \in Nat
  PROVE  /\ TickFloor(x) \in Nat /\ Began(TickFloor(x), x)
         /\ \A k \in Nat : Began(k, x) => k <= TickFloor(x)
<1>1. PICK a \in Nat, r \in 0 .. Quantum - 1 : x = Quantum * a + r /\ x \div Quantum = a
  BY WheelAssumption, Turns
<1>2. ASSUME NEW k \in Nat, a + 1 <= k PROVE ~ Began(k, x)
  <2>0. Quantum * (a + 1) = Quantum * a + Quantum /\ Quantum \in Nat
    BY WheelAssumption
  <2>1. Quantum * (a + 1) <= Quantum * k /\ Quantum * k \in Nat /\ Quantum * a \in Nat
    BY <1>2, <2>0, MoreTurns
  <2> QED BY <1>1, <2>0, <2>1 DEF Began
<1>3. Began(a, x)
  BY <1>1, WheelAssumption DEF Began
<1> QED BY <1>1, <1>2, <1>3 DEF TickFloor

LEMMA Ceil ==
  ASSUME NEW d \in Nat
  PROVE  TickCeil(d) \in Nat /\ \A k \in Nat : TickCeil(d) <= k <=> d <= Quantum * k
<1>0. Quantum \in Nat \ {0} /\ d + Quantum - 1 \in Nat
  BY WheelAssumption
<1>1. PICK a \in Nat, r \in 0 .. Quantum - 1 : d + Quantum - 1 = Quantum * a + r /\ (d + Quantum - 1) \div Quantum = a
  BY <1>0, Turns
<1>2. ASSUME NEW k \in Nat, a <= k PROVE d <= Quantum * k
  <2>1. Quantum * a <= Quantum * k /\ Quantum * k \in Nat /\ Quantum * a \in Nat
    BY <1>0, <1>2, MoreTurns
  <2> QED BY <1>0, <1>1, <2>1
<1>3. ASSUME NEW k \in Nat, k + 1 <= a PROVE ~ (d <= Quantum * k)
  <2>0. Quantum * (k + 1) = Quantum * k + Quantum
    BY <1>0
  <2>1. Quantum * (k + 1) <= Quantum * a /\ Quantum * k \in Nat /\ Quantum * a \in Nat
    BY <1>0, <1>3, MoreTurns
  <2> QED BY <1>0, <1>1, <2>0, <2>1
<1>4. TickCeil(d) = a
  BY <1>1 DEF TickCeil
<1> QED BY <1>1, <1>2, <1>3, <1>4

\* What is later than the clock is after every tick that has begun.
LEMMA LaterTick ==
  ASSUME NEW d \in Nat, NEW x \in Nat, NEW k \in Nat, Began(k, x)
  PROVE  /\ d > x => TickCeil(d) > k
         /\ TickCeil(d) <= k => d <= x
<1>1. TickCeil(d) \in Nat /\ (TickCeil(d) <= k <=> d <= Quantum * k) /\ Quantum * k \in Nat /\ Quantum * k <= x
  BY Ceil, WheelAssumption DEF Began
<1> QED BY <1>1

-----------------------------------------------------------------------------
(* The invariant of the wheel                                              *)

\* The ticks of a pass have begun, and between passes it has got to its end.
TickInv ==
  /\ Began(current, clock) /\ Began(target, clock)
  /\ phase \in {"idle", "last", "next", "fire"} => current = target

\* An entry that is in no bucket.
EntryOf(e) ==
  /\ entry[e] = "inbox" => /\ phase \in {"idle", "inbox"}
                           /\ DeadlineTick(e) > current /\ DeadlineTick(e) - current <= MaxDelay
  /\ entry[e] = "popped" => /\ phase = "cascade" /\ lv > 0
                            /\ e \notin dead => current <= DeadlineTick(e) /\ DeadlineTick(e) - current < Span(lv)
  /\ entry[e] \in {"ready", "fired"} => deadline[e] <= clock

\* A live entry that is in a bucket: its bucket is ahead, or this tick has
\* reached it and will yet empty it.
Reaching(l, ph, v) == (ph = "cascade" /\ l <= v) \/ (ph = "slot" /\ l = 0)
Settled(t, l, s, cur, ph, v) ==
  Home(t, l, s, cur) /\ (Ahead(t, l, cur) \/ (Due(t, l, cur) /\ Reaching(l, ph, v)))
HomeOf(e) == Settled(DeadlineTick(e), level[e], slot[e], current, phase, lv)

\* The cache is never later than a live entry.
CacheOf(e) == cache # None /\ cache <= deadline[e]
CacheInv ==
  /\ cache # None => cacheTick = TickCeil(cache)
  /\ phase \in {"fire", "idle"} /\ cache # None => cacheTick > current

WheelInv ==
  /\ WheelTypeOK /\ TickInv /\ CacheInv
  /\ \A e \in Entries : EntryOf(e)
  /\ \A e \in LiveInWheel : HomeOf(e) /\ CacheOf(e)

USE DEF bucketVars

LEMMA MaxPair == \A a, b \in Int : Max({a, b}) = IF a >= b THEN a ELSE b
<1> SUFFICES ASSUME NEW a \in Int, NEW b \in Int PROVE Max({a, b}) = IF a >= b THEN a ELSE b
  OBVIOUS
<1>1. \E x \in {a, b} : \A y \in {a, b} : x >= y
  OBVIOUS
<1>2. Max({a, b}) \in {a, b} /\ \A y \in {a, b} : Max({a, b}) >= y
  BY <1>1 DEF Max
<1> QED BY <1>2

LEMMA WheelTypes ==
  ASSUME WheelTypeOK
  PROVE  /\ clock \in Nat /\ current \in Nat /\ target \in Nat /\ lv \in LevelSet /\ lv \in Nat
         /\ \A e \in Entries : deadline[e] \in Nat /\ DeadlineTick(e) \in Nat
         /\ \A e \in InWheel : e \in Entries /\ level[e] \in LevelSet /\ level[e] \in Nat
         /\ None = -1
<1>1. clock \in Nat
  BY MaxPair, WheelAssumption DEF WheelTypeOK
<1>2. LevelSet \subseteq Nat
  BY DEF LevelSet
<1>3. \A e \in Entries : deadline[e] \in Nat
  BY WheelAssumption DEF WheelTypeOK
<1>4. \A e \in Entries : DeadlineTick(e) \in Nat
  BY <1>3, Ceil DEF DeadlineTick
<1> QED BY <1>1, <1>2, <1>3, <1>4 DEF WheelTypeOK, InWheel, None

\* Nothing is put in a bucket, and the tick stays.
LEMMA HomesKept ==
  ASSUME WheelInv, UNCHANGED <<current, cache>>,
         \A e \in Entries : entry'[e] = "wheel" => /\ entry[e] = "wheel" /\ deadline'[e] = deadline[e]
                                                   /\ level'[e] = level[e] /\ slot'[e] = slot[e],
         dead \subseteq dead',
         \A e \in LiveInWheel : Due(DeadlineTick(e), level[e], current) /\ Reaching(level[e], phase, lv)
                                  /\ entry'[e] = "wheel" => Reaching(level[e], phase', lv')
  PROVE  \A e \in LiveInWheel' : HomeOf(e)' /\ CacheOf(e)'
<1>1. ASSUME NEW e \in LiveInWheel' PROVE HomeOf(e)' /\ CacheOf(e)'
  <2>1. e \in Entries /\ entry'[e] = "wheel" /\ e \in LiveInWheel
    BY <1>1 DEF LiveInWheel, InWheel
  <2>2. HomeOf(e) /\ CacheOf(e)
    BY <2>1 DEF WheelInv
  <2>3. DeadlineTick(e)' = DeadlineTick(e) /\ level'[e] = level[e] /\ slot'[e] = slot[e] /\ deadline'[e] = deadline[e]
    BY <2>1 DEF DeadlineTick
  <2>4. CacheOf(e)'
    BY <2>2, <2>3 DEF CacheOf
  <2>5. PICK t, l, s : t = DeadlineTick(e) /\ l = level[e] /\ s = slot[e]
    OBVIOUS
  <2>6. Settled(t, l, s, current, phase, lv)
    BY <2>2, <2>5 DEF HomeOf
  <2>7. Due(t, l, current) /\ Reaching(l, phase, lv) => Reaching(l, phase', lv')
    BY <2>1, <2>5
  <2>8. Settled(t, l, s, current, phase', lv')
    BY <2>6, <2>7 DEF Settled
  <2>9. HomeOf(e)'
    BY <2>3, <2>5, <2>8 DEF HomeOf
  <2> QED BY <2>4, <2>9
<1> QED BY <1>1

\* What Insert does with a live entry that is less than Span(k) ahead.
LEMMA InsertIs ==
  ASSUME WheelInv, NEW e \in Entries, e \notin dead, entry[e] # "wheel", Insert(e),
         NEW k \in 1 .. Levels, current <= DeadlineTick(e), DeadlineTick(e) - current < Span(k),
         DeadlineTick(e) > current \/ phase = "cascade", UNCHANGED <<deadline, dead, current, phase, lv>>
  PROVE  /\ \A f \in LiveInWheel' : HomeOf(f)' /\ CacheOf(f)'
         /\ cache' # None /\ cacheTick' = TickCeil(cache')
         /\ entry' = [entry EXCEPT ![e] = "wheel"]
         /\ \E l \in LevelSet : level' = [level EXCEPT ![e] = l] /\ \E s \in 0 .. RingSlots - 1 : slot' = [slot EXCEPT ![e] = s]
         /\ cache' \in Nat /\ cacheTick' \in Nat
<1>0. WheelTypeOK /\ CacheInv /\ lv \in Nat /\ current \in Nat /\ deadline[e] \in Nat /\ DeadlineTick(e) \in Nat /\ None = -1
  BY WheelTypes DEF WheelInv
<1>1. PICK t : t = DeadlineTick(e)
  OBVIOUS
<1>2. t \in Nat /\ current <= t /\ Max({t, current}) = t
  BY <1>0, <1>1, MaxPair
<1>3. PICK l \in LevelSet :
        /\ l = WheelLevel(t - current) /\ l < k
        /\ Home(t, l, WheelSlot(t, l), current)
        /\ l # 0 => Ahead(t, l, current)
        /\ l = 0 => Ahead(t, l, current) \/ Due(t, l, current)
  BY <1>0, <1>1, <1>2, HomeChosen
<1>4. Observe(e) /\ Place(e)
  BY DEF Insert
<1>5. /\ entry' = [entry EXCEPT ![e] = "wheel"] /\ level' = [level EXCEPT ![e] = l]
      /\ slot' = [slot EXCEPT ![e] = WheelSlot(t, l)]
  BY <1>1, <1>2, <1>3, <1>4 DEF Place
<1>6. WheelSlot(t, l) \in 0 .. RingSlots - 1
  <2>1. Span(l) \in Nat \ {0} /\ RingSlots \in Nat \ {0}
    BY SpanIs, WheelAssumption
  <2>2. t \div Span(l) \in Nat
    BY <1>2, <2>1, LaterTurn
  <2> QED BY <2>1, <2>2 DEF WheelSlot
<1>7. /\ cache' # None /\ cacheTick' = TickCeil(cache') /\ cache' <= deadline[e] /\ cache' \in Nat /\ cacheTick' \in Nat
      /\ cache # None => cache' <= cache
  <2>1. CASE cache = None \/ deadline[e] < cache
    <3>1. cache' = deadline[e] /\ cacheTick' = DeadlineTick(e)
      BY <1>4, <2>1 DEF Observe
    <3> QED BY <1>0, <2>1, <3>1 DEF DeadlineTick, WheelTypeOK
  <2>2. CASE ~ (cache = None \/ deadline[e] < cache)
    <3>1. cache' = cache /\ cacheTick' = cacheTick
      BY <1>4, <2>2 DEF Observe
    <3>2. cache \in Nat /\ cacheTick = TickCeil(cache)
      BY <1>0, <2>2 DEF WheelTypeOK, CacheInv
    <3>3. TickCeil(cache) \in Nat
      BY <3>2, Ceil
    <3> QED BY <1>0, <2>2, <3>1, <3>2, <3>3
  <2> QED BY <2>1, <2>2
<1>8. Settled(t, l, WheelSlot(t, l), current, phase, lv)
  <2>1. CASE l # 0
    BY <1>3, <2>1 DEF Settled
  <2>2. CASE l = 0
    <3>1. CASE Ahead(t, l, current)
      BY <1>3, <3>1 DEF Settled
    <3>2. CASE ~ Ahead(t, l, current)
      <4>1. ~ (t > current)
        BY <1>0, <1>2, <2>2, <3>2, AtTheBottom
      <4>2. phase = "cascade"
        BY <1>1, <4>1
      <4>3. Reaching(l, phase, lv)
        BY <1>0, <2>2, <4>2 DEF Reaching
      <4> QED BY <1>3, <2>2, <3>2, <4>3 DEF Settled
    <3> QED BY <3>1, <3>2
  <2> QED BY <2>1, <2>2
<1>9. ASSUME NEW f \in LiveInWheel' PROVE HomeOf(f)' /\ CacheOf(f)'
  <2>1. CASE f = e
    <3>1. level'[e] = l /\ slot'[e] = WheelSlot(t, l) /\ DeadlineTick(e)' = t
      BY <1>0, <1>1, <1>5 DEF WheelTypeOK, DeadlineTick
    <3>2. HomeOf(e)'
      BY <1>8, <3>1 DEF HomeOf
    <3>3. CacheOf(e)'
      BY <1>7 DEF CacheOf
    <3> QED BY <2>1, <3>2, <3>3
  <2>2. CASE f # e
    <3>1. f \in Entries /\ f \in LiveInWheel /\ level'[f] = level[f] /\ slot'[f] = slot[f]
      BY <1>0, <1>5, <1>9, <2>2 DEF LiveInWheel, InWheel, WheelTypeOK
    <3>2. HomeOf(f) /\ CacheOf(f)
      BY <3>1 DEF WheelInv
    <3>3. DeadlineTick(f)' = DeadlineTick(f)
      BY DEF DeadlineTick
    <3>4. HomeOf(f)'
      BY <3>1, <3>2, <3>3 DEF HomeOf
    <3>5. deadline[f] \in Nat /\ cache \in Nat
      BY <1>0, <3>1, <3>2, WheelTypes DEF CacheOf, WheelTypeOK
    <3>6. CacheOf(f)'
      BY <1>0, <1>7, <3>2, <3>5 DEF CacheOf
    <3> QED BY <3>4, <3>6
  <2> QED BY <2>1, <2>2
<1> QED BY <1>5, <1>6, <1>7, <1>9

\* An entry leaves its bucket, or its place in no bucket.
LEMMA DiscardIs ==
  ASSUME WheelTypeOK, NEW e \in Entries, NEW how \in {"popped", "ready", "gone"}, Discard(e, how)
  PROVE  /\ entry' \in [Entries -> {"new", "inbox", "wheel", "popped", "ready", "fired", "gone"}]
         /\ level' \in [Entries -> LevelSet \cup {None}] /\ slot' \in [Entries -> (0 .. RingSlots - 1) \cup {None}]
         /\ \A f \in Entries : (entry'[f] = "wheel") <=> (level'[f] # None)
         /\ entry'[e] = how
         /\ \A f \in Entries : f # e => entry'[f] = entry[f] /\ level'[f] = level[f] /\ slot'[f] = slot[f]
  BY DEF Discard, WheelTypeOK

LEMMA WheelRegisters ==
  ASSUME WheelInv, NEW e \in Entries, NEW d \in 1 .. MaxNow, Register(e, d)
  PROVE  WheelInv'
<1>0. WheelTypeOK /\ TickInv /\ CacheInv /\ clock \in Nat /\ current \in Nat /\ d \in Nat
  BY WheelTypes, WheelAssumption DEF WheelInv
<1>1. /\ phase = "idle" /\ entry[e] = "new" /\ d > clock /\ TickCeil(d) - current <= MaxDelay
      /\ deadline' = [deadline EXCEPT ![e] = d] /\ entry' = [entry EXCEPT ![e] = "inbox"]
      /\ UNCHANGED <<clock, dead, level, slot, current, cache, cacheTick, dirty, target, lv, phase>>
  BY DEF Register
<1>2. WheelTypeOK'
  BY <1>0, <1>1, WheelAssumption DEF WheelTypeOK
<1>3. TickInv' /\ CacheInv'
  BY <1>0, <1>1 DEF TickInv, CacheInv
<1>4. DeadlineTick(e)' = TickCeil(d) /\ \A f \in Entries : f # e => deadline'[f] = deadline[f] /\ DeadlineTick(f)' = DeadlineTick(f)
  BY <1>0, <1>1 DEF WheelTypeOK, DeadlineTick
<1>5. ASSUME NEW f \in Entries PROVE EntryOf(f)'
  <2>1. CASE f = e
    <3>1. TickCeil(d) > current
      BY <1>0, <1>1, LaterTick DEF TickInv
    <3>2. entry'[e] = "inbox"
      BY <1>0, <1>1 DEF WheelTypeOK
    <3> QED BY <1>1, <1>4, <2>1, <3>1, <3>2 DEF EntryOf
  <2>2. CASE f # e
    <3>1. EntryOf(f) /\ entry'[f] = entry[f]
      BY <1>0, <1>1, <2>2 DEF WheelInv, WheelTypeOK
    <3> QED BY <1>1, <1>4, <2>2, <3>1 DEF EntryOf
  <2> QED BY <2>1, <2>2
<1>6. \A f \in LiveInWheel' : HomeOf(f)' /\ CacheOf(f)'
  <2>1. \A f \in Entries : entry'[f] = "wheel" => f # e /\ entry[f] = "wheel"
    BY <1>0, <1>1 DEF WheelTypeOK
  <2> QED BY <1>1, <1>4, <2>1, HomesKept
<1> QED BY <1>2, <1>3, <1>5, <1>6 DEF WheelInv

LEMMA DropStep ==
  ASSUME WheelInv, NEW e \in Entries, Drop(e)
  PROVE  WheelInv'
<1>1. WheelTypeOK' /\ TickInv' /\ CacheInv'
  BY DEF Drop, WheelInv, WheelTypeOK, TickInv, CacheInv
<1>2. \A f \in Entries : EntryOf(f)'
  BY DEF Drop, WheelInv, EntryOf, DeadlineTick
<1>3. \A f \in LiveInWheel' : HomeOf(f)' /\ CacheOf(f)'
  BY HomesKept DEF Drop
<1> QED BY <1>1, <1>2, <1>3 DEF WheelInv

LEMMA BeganLater ==
  ASSUME NEW k \in Nat, NEW j \in Nat, j <= k, NEW x \in Nat, NEW y \in Nat, x <= y, Began(k, x)
  PROVE  Began(j, y)
<1>1. Quantum * j <= Quantum * k /\ Quantum * k \in Nat /\ Quantum * j \in Nat
  BY MoreTurns, WheelAssumption
<1> QED BY <1>1 DEF Began

LEMMA ElapseStep ==
  ASSUME WheelInv, NEW t \in 1 .. MaxNow, Elapse(t)
  PROVE  WheelInv'
<1>0. /\ WheelTypeOK /\ TickInv /\ CacheInv /\ clock \in Nat /\ current \in Nat /\ target \in Nat /\ t \in Nat
      /\ phase = "idle" /\ t > clock /\ clock' = t
  BY WheelTypes, WheelAssumption DEF WheelInv, Elapse
<1>1. WheelTypeOK'
  <2>1. t \in 0 .. Max({MaxNow, MaxStart})
    BY MaxPair, WheelAssumption
  <2> QED BY <1>0, <2>1 DEF Elapse, WheelTypeOK
<1>2. TickInv'
  BY <1>0, BeganLater DEF Elapse, TickInv
<1>3. CacheInv'
  BY <1>0 DEF Elapse, CacheInv
<1>4. \A f \in Entries : EntryOf(f)'
  <2>1. ASSUME NEW f \in Entries PROVE EntryOf(f)'
    <3>1. EntryOf(f) /\ deadline[f] \in Nat
      BY WheelTypes DEF WheelInv
    <3> QED BY <1>0, <3>1 DEF Elapse, EntryOf, DeadlineTick
  <2> QED BY <2>1
<1>5. \A f \in LiveInWheel' : HomeOf(f)' /\ CacheOf(f)'
  BY HomesKept DEF Elapse
<1> QED BY <1>1, <1>2, <1>3, <1>4, <1>5 DEF WheelInv

LEMMA StartStep ==
  ASSUME WheelInv, StartPass
  PROVE  WheelInv'
<1>0. WheelTypeOK /\ TickInv /\ CacheInv /\ clock \in Nat /\ current \in Nat
  BY WheelTypes DEF WheelInv
<1>1. target' \in Nat /\ current <= target' /\ Began(target', clock)
  BY <1>0, Floor DEF StartPass, TickInv
<1>2. WheelTypeOK'
  BY <1>0, <1>1 DEF StartPass, WheelTypeOK
<1>3. TickInv' /\ CacheInv'
  BY <1>0, <1>1 DEF StartPass, TickInv, CacheInv
<1>4. \A f \in Entries : EntryOf(f)'
  BY DEF StartPass, WheelInv, EntryOf, DeadlineTick
<1>5. \A f \in LiveInWheel' : HomeOf(f)' /\ CacheOf(f)'
  <2>1. \A l : ~ Reaching(l, phase, lv)
    BY DEF StartPass, Reaching
  <2> QED BY <2>1, HomesKept DEF StartPass
<1> QED BY <1>2, <1>3, <1>4, <1>5 DEF WheelInv

\* A dead entry is passed over.
LEMMA GoneStep ==
  ASSUME WheelInv, NEW e \in Entries, Discard(e, "gone"),
         phase \notin {"idle", "fire"}, dirty' \in BOOLEAN,
         UNCHANGED <<clock, deadline, dead, current, target, lv, phase, cache, cacheTick>>
  PROVE  WheelInv'
<1>0. WheelTypeOK /\ TickInv /\ CacheInv
  BY DEF WheelInv
<1>1. /\ entry' \in [Entries -> {"new", "inbox", "wheel", "popped", "ready", "fired", "gone"}]
      /\ level' \in [Entries -> LevelSet \cup {None}] /\ slot' \in [Entries -> (0 .. RingSlots - 1) \cup {None}]
      /\ \A f \in Entries : (entry'[f] = "wheel") <=> (level'[f] # None)
      /\ entry'[e] = "gone"
      /\ \A f \in Entries : f # e => entry'[f] = entry[f] /\ level'[f] = level[f] /\ slot'[f] = slot[f]
  BY <1>0, DiscardIs
<1>2. WheelTypeOK'
  BY <1>0, <1>1 DEF WheelTypeOK
<1>3. TickInv' /\ CacheInv'
  BY <1>0 DEF TickInv, CacheInv
<1>4. ASSUME NEW f \in Entries PROVE EntryOf(f)'
  <2>1. EntryOf(f) /\ DeadlineTick(f)' = DeadlineTick(f) /\ (entry'[f] = entry[f] \/ entry'[f] = "gone")
    BY <1>1 DEF WheelInv, DeadlineTick
  <2> QED BY <2>1 DEF EntryOf
<1>5. \A f \in LiveInWheel' : HomeOf(f)' /\ CacheOf(f)'
  BY <1>1, HomesKept
<1> QED BY <1>2, <1>3, <1>4, <1>5 DEF WheelInv

\* A live entry is put in its bucket.
LEMMA PutStep ==
  ASSUME WheelInv, NEW e \in Entries, e \notin dead, entry[e] # "wheel", Insert(e),
         NEW k \in 1 .. Levels, current <= DeadlineTick(e), DeadlineTick(e) - current < Span(k),
         DeadlineTick(e) > current \/ phase = "cascade", phase \notin {"idle", "fire"},
         UNCHANGED <<clock, deadline, dead, current, target, lv, phase, dirty>>
  PROVE  WheelInv'
<1>0. WheelTypeOK /\ TickInv /\ CacheInv /\ None = -1
  BY WheelTypes DEF WheelInv
<1>1. /\ \A f \in LiveInWheel' : HomeOf(f)' /\ CacheOf(f)'
      /\ cache' # None /\ cacheTick' = TickCeil(cache') /\ cache' \in Nat /\ cacheTick' \in Nat
      /\ entry' = [entry EXCEPT ![e] = "wheel"]
      /\ \E l \in LevelSet : level' = [level EXCEPT ![e] = l] /\ \E s \in 0 .. RingSlots - 1 : slot' = [slot EXCEPT ![e] = s]
  BY InsertIs
<1>2. PICK l \in LevelSet, s \in 0 .. RingSlots - 1 : level' = [level EXCEPT ![e] = l] /\ slot' = [slot EXCEPT ![e] = s]
  BY <1>1
<1>3. l # None
  BY <1>0 DEF LevelSet
<1>4. WheelTypeOK'
  BY <1>0, <1>1, <1>2, <1>3 DEF WheelTypeOK
<1>5. TickInv' /\ CacheInv'
  BY <1>0, <1>1 DEF TickInv, CacheInv
<1>6. ASSUME NEW f \in Entries PROVE EntryOf(f)'
  <2>1. EntryOf(f) /\ DeadlineTick(f)' = DeadlineTick(f) /\ (entry'[f] = entry[f] \/ entry'[f] = "wheel")
    BY <1>0, <1>1 DEF WheelInv, DeadlineTick, WheelTypeOK
  <2> QED BY <2>1 DEF EntryOf
<1> QED BY <1>1, <1>4, <1>5, <1>6 DEF WheelInv

\* Only the place in the pass changes, and no bucket that was reached is left.
LEMMA TurnStep ==
  ASSUME WheelInv, UNCHANGED <<clock, deadline, dead, current, target, bucketVars>>,
         lv' \in LevelSet, phase' \in {"advance", "cascade", "slot", "last", "next"}, phase \notin {"idle", "fire"},
         phase' \in {"last", "next"} => current = target,
         \A e \in Entries : entry[e] \notin {"inbox", "popped"},
         \A e \in LiveInWheel : Due(DeadlineTick(e), level[e], current) /\ Reaching(level[e], phase, lv)
                                  => Reaching(level[e], phase', lv')
  PROVE  WheelInv'
<1>0. WheelTypeOK /\ TickInv /\ CacheInv
  BY DEF WheelInv
<1>1. WheelTypeOK' /\ TickInv' /\ CacheInv'
  BY <1>0 DEF WheelTypeOK, TickInv, CacheInv
<1>2. \A f \in Entries : EntryOf(f)'
  BY DEF WheelInv, EntryOf
<1>3. \A f \in LiveInWheel' : HomeOf(f)' /\ CacheOf(f)'
  BY HomesKept
<1> QED BY <1>1, <1>2, <1>3 DEF WheelInv

LEMMA EmptyInboxStep ==
  ASSUME MaxDelay < Span(Levels), WheelInv, EmptyInbox
  PROVE  WheelInv'
<1>0. WheelTypeOK /\ TickInv /\ current \in Nat /\ lv \in LevelSet /\ phase = "inbox"
  BY WheelTypes DEF WheelInv, EmptyInbox
<1>1. ASSUME NEW e \in Entries, entry[e] = "inbox", Insert(e), UNCHANGED <<dirty, phase>> PROVE WheelInv'
  <2>1. EntryOf(e) /\ DeadlineTick(e) \in Nat
    BY WheelTypes DEF WheelInv
  <2>2. CASE e \in dead
    <3>1. Discard(e, "gone") /\ UNCHANGED <<cache, cacheTick>>
      BY <1>1, <2>2 DEF Insert
    <3>2. dirty' \in BOOLEAN
      BY <1>0, <1>1 DEF WheelTypeOK
    <3> QED BY <1>0, <1>1, <3>1, <3>2, GoneStep DEF EmptyInbox
  <2>3. CASE e \notin dead
    <3>1. DeadlineTick(e) > current /\ DeadlineTick(e) - current <= MaxDelay
      BY <1>1, <2>1 DEF EntryOf
    <3>2. Levels \in 1 .. Levels /\ MaxDelay \in Nat /\ Levels - 1 \in LevelSet /\ (Levels - 1) + 1 = Levels
      BY WheelAssumption DEF LevelSet
    <3>3. Span(Levels) \in Nat
      BY <3>2, SpanIs
    <3>4. current <= DeadlineTick(e) /\ DeadlineTick(e) - current < Span(Levels)
      BY <1>0, <2>1, <3>1, <3>2, <3>3
    <3> QED BY <1>0, <1>1, <2>3, <3>1, <3>2, <3>4, PutStep DEF EmptyInbox
  <2> QED BY <2>2, <2>3
<1>2. CASE (\A e \in Entries : entry[e] # "inbox") /\ phase' = "advance" /\ UNCHANGED bucketVars
  <2>1. \A e \in Entries : entry[e] \notin {"inbox", "popped"}
    BY <1>0, <1>2 DEF WheelInv, EntryOf
  <2>2. \A l : ~ Reaching(l, phase, lv)
    BY <1>0 DEF Reaching
  <2>3. UNCHANGED <<clock, deadline, dead, current, target, lv>>
    BY DEF EmptyInbox
  <2> QED BY <1>0, <1>2, <2>1, <2>2, <2>3, TurnStep
<1> QED BY <1>1, <1>2 DEF EmptyInbox

LEMMA AdvanceStep ==
  ASSUME WheelInv, Advance
  PROVE  WheelInv'
<1>0. /\ WheelTypeOK /\ TickInv /\ CacheInv /\ current \in Nat /\ target \in Nat /\ clock \in Nat /\ lv \in LevelSet
      /\ phase = "advance" /\ Levels - 1 \in LevelSet
  BY WheelTypes, WheelAssumption DEF WheelInv, Advance, LevelSet
<1>1. \A e \in Entries : entry[e] \notin {"inbox", "popped"}
  BY <1>0 DEF WheelInv, EntryOf
<1>2. \A l : ~ Reaching(l, phase, lv)
  BY <1>0 DEF Reaching
<1>3. CASE current = target /\ phase' = "last" /\ UNCHANGED <<current, lv>>
  <2>1. UNCHANGED <<clock, deadline, dead, target, bucketVars>>
    BY DEF Advance
  <2> QED BY <1>0, <1>1, <1>2, <1>3, <2>1, TurnStep
<1>4. CASE current < target /\ current' = current + 1 /\ lv' = Levels - 1 /\ phase' = "cascade"
  <2>1. UNCHANGED <<clock, deadline, dead, target, bucketVars>>
    BY DEF Advance
  <2>2. WheelTypeOK'
    BY <1>0, <1>4, <2>1 DEF WheelTypeOK
  <2>3. TickInv'
    <3>1. Began(current + 1, clock)
      BY <1>0, <1>4, BeganLater DEF TickInv
    <3> QED BY <1>0, <1>4, <2>1, <3>1 DEF TickInv
  <2>4. CacheInv'
    BY <1>0, <1>4, <2>1 DEF CacheInv
  <2>5. \A f \in Entries : EntryOf(f)'
    BY <1>1, <1>4, <2>1 DEF WheelInv, EntryOf
  <2>6. ASSUME NEW f \in LiveInWheel' PROVE HomeOf(f)' /\ CacheOf(f)'
    <3>1. f \in LiveInWheel /\ f \in InWheel /\ f \in Entries
      BY <2>1, <2>6 DEF LiveInWheel, InWheel
    <3>2. HomeOf(f) /\ CacheOf(f) /\ DeadlineTick(f) \in Nat /\ level[f] \in LevelSet /\ level[f] \in Nat
      BY <3>1, WheelTypes DEF WheelInv
    <3>3. PICK t, l, s : t = DeadlineTick(f) /\ l = level[f] /\ s = slot[f]
      OBVIOUS
    <3>4. Home(t, l, s, current) /\ Ahead(t, l, current)
      BY <1>2, <3>2, <3>3 DEF HomeOf, Settled
    <3>5. Home(t, l, s, current + 1) /\ (Ahead(t, l, current + 1) \/ Due(t, l, current + 1))
      BY <1>0, <3>2, <3>3, <3>4, HomeTick
    <3>6. Reaching(l, "cascade", Levels - 1)
      BY <3>2, <3>3, WheelAssumption DEF Reaching, LevelSet
    <3>7. Settled(t, l, s, current + 1, "cascade", Levels - 1)
      BY <3>5, <3>6 DEF Settled
    <3>8. DeadlineTick(f)' = t /\ level'[f] = l /\ slot'[f] = s
      BY <2>1, <3>3 DEF DeadlineTick
    <3> QED BY <1>4, <2>1, <3>2, <3>7, <3>8 DEF HomeOf, CacheOf
  <2> QED BY <2>2, <2>3, <2>4, <2>5, <2>6 DEF WheelInv
<1> QED BY <1>3, <1>4 DEF Advance

LEMMA CascadeStep ==
  ASSUME WheelInv, Cascade
  PROVE  WheelInv'
<1>0. /\ WheelTypeOK /\ TickInv /\ CacheInv /\ current \in Nat /\ lv \in LevelSet /\ lv \in Nat /\ phase = "cascade"
      /\ UNCHANGED <<clock, deadline, dead, current, target>>
  BY WheelTypes DEF WheelInv, Cascade
<1>1. ASSUME NEW e \in Entries, entry[e] = "popped", Insert(e), UNCHANGED <<dirty, lv, phase>> PROVE WheelInv'
  <2>1. EntryOf(e)
    BY DEF WheelInv
  <2>2. CASE e \in dead
    <3>1. Discard(e, "gone") /\ UNCHANGED <<cache, cacheTick>>
      BY <1>1, <2>2 DEF Insert
    <3>2. dirty' \in BOOLEAN
      BY <1>0, <1>1 DEF WheelTypeOK
    <3> QED BY <1>0, <1>1, <3>1, <3>2, GoneStep
  <2>3. CASE e \notin dead
    <3>1. lv > 0 /\ current <= DeadlineTick(e) /\ DeadlineTick(e) - current < Span(lv)
      BY <1>1, <2>1, <2>3 DEF EntryOf
    <3>2. lv \in 1 .. Levels
      BY <1>0, <3>1, WheelAssumption DEF LevelSet
    <3> QED BY <1>0, <1>1, <2>3, <3>1, <3>2, PutStep
  <2> QED BY <2>2, <2>3
<1>2. ASSUME lv > 0, CascadesAt(lv), \A e \in Entries : entry[e] # "popped",
             NEW e \in Bucket(lv, WheelSlot(current, lv)), Discard(e, "popped"), dirty' = TRUE,
             UNCHANGED <<cache, cacheTick, lv, phase>>
      PROVE  WheelInv'
  <2>1. e \in Entries /\ entry[e] = "wheel" /\ level[e] = lv /\ slot[e] = WheelSlot(current, lv)
    BY <1>2 DEF Bucket
  <2>2. /\ entry' \in [Entries -> {"new", "inbox", "wheel", "popped", "ready", "fired", "gone"}]
        /\ level' \in [Entries -> LevelSet \cup {None}] /\ slot' \in [Entries -> (0 .. RingSlots - 1) \cup {None}]
        /\ \A f \in Entries : (entry'[f] = "wheel") <=> (level'[f] # None)
        /\ entry'[e] = "popped"
        /\ \A f \in Entries : f # e => entry'[f] = entry[f] /\ level'[f] = level[f] /\ slot'[f] = slot[f]
    BY <1>0, <1>2, <2>1, DiscardIs
  <2>3. WheelTypeOK'
    BY <1>0, <1>2, <2>2 DEF WheelTypeOK
  <2>4. TickInv' /\ CacheInv'
    BY <1>0, <1>2 DEF TickInv, CacheInv
  <2>5. ASSUME e \notin dead PROVE current <= DeadlineTick(e) /\ DeadlineTick(e) - current < Span(lv)
    <3>1. e \in LiveInWheel /\ DeadlineTick(e) \in Nat
      BY <2>1, <2>5, WheelTypes DEF LiveInWheel, InWheel, WheelInv
    <3>2. Home(DeadlineTick(e), lv, WheelSlot(current, lv), current)
      BY <2>1, <3>1 DEF WheelInv, HomeOf, Settled
    <3>3. current % Span(lv) = 0
      BY <1>2 DEF CascadesAt
    <3> QED BY <1>0, <3>1, <3>2, <3>3, HomeReached DEF Home
  <2>6. ASSUME NEW f \in Entries PROVE EntryOf(f)'
    <3>1. DeadlineTick(f)' = DeadlineTick(f) /\ EntryOf(f)
      BY <1>0 DEF DeadlineTick, WheelInv
    <3>2. CASE f = e
      BY <1>0, <1>2, <2>2, <2>5, <3>1, <3>2 DEF EntryOf
    <3>3. CASE f # e
      BY <1>0, <1>2, <2>2, <3>1, <3>3 DEF EntryOf
    <3> QED BY <3>2, <3>3
  <2>7. \A f \in LiveInWheel' : HomeOf(f)' /\ CacheOf(f)'
    <3>1. \A f \in Entries : entry'[f] = "wheel" => /\ entry[f] = "wheel" /\ deadline'[f] = deadline[f]
                                                    /\ level'[f] = level[f] /\ slot'[f] = slot[f]
      BY <1>0, <2>2
    <3> QED BY <1>0, <1>2, <3>1, HomesKept
  <2> QED BY <2>3, <2>4, <2>6, <2>7 DEF WheelInv
<1>3. ASSUME lv > 0, \A e \in Entries : entry[e] # "popped", CascadesAt(lv) => Bucket(lv, WheelSlot(current, lv)) = {},
             lv' = lv - 1, UNCHANGED <<bucketVars, phase>>
      PROVE  WheelInv'
  <2>1. \A e \in Entries : entry[e] \notin {"inbox", "popped"}
    BY <1>0, <1>3 DEF WheelInv, EntryOf
  <2>2. lv' \in LevelSet
    BY <1>0, <1>3, WheelAssumption DEF LevelSet
  <2>3. ASSUME NEW e \in LiveInWheel, Due(DeadlineTick(e), level[e], current), Reaching(level[e], phase, lv)
        PROVE  Reaching(level[e], phase', lv')
    <3>1. e \in Entries /\ entry[e] = "wheel" /\ level[e] \in Nat
      BY <2>3, WheelTypes DEF LiveInWheel, InWheel, WheelInv
    <3>2. Home(DeadlineTick(e), level[e], slot[e], current)
      BY <2>3 DEF WheelInv, HomeOf, Settled
    <3>3. level[e] # lv
      <4>1. ASSUME level[e] = lv PROVE FALSE
        <5>1. CascadesAt(lv)
          BY <2>3, <4>1 DEF Due, CascadesAt
        <5>2. slot[e] = WheelSlot(current, lv)
          BY <2>3, <3>2, <4>1, DueSlot
        <5>3. e \in Bucket(lv, WheelSlot(current, lv))
          BY <3>1, <4>1, <5>2 DEF Bucket
        <5> QED BY <1>3, <5>1, <5>3
      <4> QED BY <4>1
    <3> QED BY <1>0, <1>3, <2>3, <3>1, <3>3 DEF Reaching
  <2> QED BY <1>0, <1>3, <2>1, <2>2, <2>3, TurnStep
<1>4. ASSUME lv = 0, \A e \in Entries : entry[e] # "popped", phase' = "slot", UNCHANGED <<bucketVars, lv>> PROVE WheelInv'
  <2>1. \A e \in Entries : entry[e] \notin {"inbox", "popped"}
    BY <1>0, <1>4 DEF WheelInv, EntryOf
  <2>2. \A e \in LiveInWheel : level[e] \in Nat
    BY WheelTypes DEF LiveInWheel, WheelInv
  <2>3. \A l \in Nat : Reaching(l, phase, lv) => Reaching(l, phase', lv')
    BY <1>0, <1>4 DEF Reaching
  <2> QED BY <1>0, <1>4, <2>1, <2>2, <2>3, TurnStep
<1> QED BY <1>1, <1>2, <1>3, <1>4 DEF Cascade

\* When nothing is being reached, every live entry's tick is still to come.
LEMMA StillToCome ==
  ASSUME WheelInv, phase \notin {"cascade", "slot"}, NEW e \in LiveInWheel
  PROVE  /\ Home(DeadlineTick(e), level[e], slot[e], current) /\ Ahead(DeadlineTick(e), level[e], current)
         /\ DeadlineTick(e) > current
<1>1. current \in Nat /\ DeadlineTick(e) \in Nat /\ level[e] \in LevelSet
  BY WheelTypes DEF WheelInv, LiveInWheel, InWheel
<1>2. Home(DeadlineTick(e), level[e], slot[e], current) /\ Ahead(DeadlineTick(e), level[e], current)
  BY DEF WheelInv, HomeOf, Settled, Reaching
<1>3. PICK t, w : t = DeadlineTick(e) /\ w = Span(level[e])
  OBVIOUS
<1>4. t \in Nat /\ w \in Nat \ {0} /\ t \div w > current \div w
  BY <1>1, <1>2, <1>3, SpanIs DEF Ahead
<1> QED BY <1>1, <1>2, <1>3, <1>4, LaterTurn

LEMMA DrainSlotStep ==
  ASSUME WheelInv, DrainSlot
  PROVE  WheelInv'
<1>0. /\ WheelTypeOK /\ TickInv /\ CacheInv /\ current \in Nat /\ clock \in Nat /\ lv \in LevelSet
      /\ phase \in {"slot", "last"} /\ UNCHANGED <<clock, deadline, dead, current, target, lv>>
  BY WheelTypes DEF WheelInv, DrainSlot
<1>1. ASSUME NEW e \in Bucket(0, WheelSlot(current, 0)), PopDue(e), UNCHANGED phase PROVE WheelInv'
  <2>1. e \in Entries /\ entry[e] = "wheel" /\ level[e] = 0 /\ slot[e] = WheelSlot(current, 0) /\ dirty' = TRUE
    BY <1>1 DEF Bucket, PopDue
  <2>2. CASE e \in dead
    <3>1. Discard(e, "gone") /\ UNCHANGED <<cache, cacheTick>>
      BY <1>1, <2>2 DEF PopDue
    <3> QED BY <1>0, <1>1, <2>1, <3>1, GoneStep
  <2>3. CASE e \notin dead
    <3>1. e \in LiveInWheel /\ DeadlineTick(e) \in Nat /\ deadline[e] \in Nat
      BY <2>1, <2>3, WheelTypes DEF LiveInWheel, InWheel, WheelInv
    <3>2. Home(DeadlineTick(e), 0, WheelSlot(current, 0), current)
      BY <2>1, <3>1 DEF WheelInv, HomeOf, Settled
    <3>3. DeadlineTick(e) = current
      <4>1. PICK t : t = DeadlineTick(e)
        OBVIOUS
      <4>2. 0 \in LevelSet /\ current % Span(0) = 0 /\ (Due(t, 0, current) <=> t = current)
        BY <1>0, <3>1, <4>1, AtTheBottom
      <4>3. Due(t, 0, current)
        BY <1>0, <3>1, <3>2, <4>1, <4>2, HomeReached
      <4> QED BY <4>1, <4>2, <4>3
    <3>4. Discard(e, "ready") /\ UNCHANGED <<cache, cacheTick>>
      BY <1>0, <1>1, <2>3, <3>3 DEF PopDue
    <3>5. deadline[e] <= clock
      BY <1>0, <3>1, <3>3, LaterTick DEF DeadlineTick, TickInv
    <3>6. /\ entry' \in [Entries -> {"new", "inbox", "wheel", "popped", "ready", "fired", "gone"}]
          /\ level' \in [Entries -> LevelSet \cup {None}] /\ slot' \in [Entries -> (0 .. RingSlots - 1) \cup {None}]
          /\ \A f \in Entries : (entry'[f] = "wheel") <=> (level'[f] # None)
          /\ entry'[e] = "ready"
          /\ \A f \in Entries : f # e => entry'[f] = entry[f] /\ level'[f] = level[f] /\ slot'[f] = slot[f]
      BY <1>0, <2>1, <3>4, DiscardIs
    <3>7. WheelTypeOK'
      BY <1>0, <1>1, <2>1, <3>4, <3>6 DEF WheelTypeOK
    <3>8. TickInv' /\ CacheInv'
      BY <1>0, <1>1, <3>4 DEF TickInv, CacheInv
    <3>9. ASSUME NEW f \in Entries PROVE EntryOf(f)'
      <4>1. DeadlineTick(f)' = DeadlineTick(f) /\ EntryOf(f)
        BY <1>0 DEF DeadlineTick, WheelInv
      <4>2. CASE f = e
        BY <1>0, <3>5, <3>6, <4>2 DEF EntryOf
      <4>3. CASE f # e
        BY <1>0, <1>1, <3>6, <4>1, <4>3 DEF EntryOf
      <4> QED BY <4>2, <4>3
    <3>10. \A f \in LiveInWheel' : HomeOf(f)' /\ CacheOf(f)'
      <4>1. \A f \in Entries : entry'[f] = "wheel" => /\ entry[f] = "wheel" /\ deadline'[f] = deadline[f]
                                                      /\ level'[f] = level[f] /\ slot'[f] = slot[f]
        BY <1>0, <3>6
      <4> QED BY <1>0, <1>1, <3>4, <4>1, HomesKept
    <3> QED BY <3>7, <3>8, <3>9, <3>10 DEF WheelInv
  <2> QED BY <2>2, <2>3
<1>2. ASSUME Bucket(0, WheelSlot(current, 0)) = {}, phase' = IF phase = "slot" THEN "advance" ELSE "next",
             UNCHANGED bucketVars
      PROVE  WheelInv'
  <2>1. \A e \in Entries : entry[e] \notin {"inbox", "popped"}
    BY <1>0 DEF WheelInv, EntryOf
  <2>2. phase' \in {"advance", "next"} /\ (phase' = "next" => current = target)
    BY <1>0, <1>2 DEF TickInv
  <2>3. ASSUME NEW e \in LiveInWheel, Due(DeadlineTick(e), level[e], current), Reaching(level[e], phase, lv)
        PROVE  FALSE
    <3>1. e \in Entries /\ entry[e] = "wheel" /\ level[e] = 0
      BY <1>0, <2>3 DEF LiveInWheel, InWheel, Reaching
    <3>2. Home(DeadlineTick(e), level[e], slot[e], current)
      BY <2>3 DEF WheelInv, HomeOf, Settled
    <3>3. slot[e] = WheelSlot(current, 0)
      BY <2>3, <3>1, <3>2, DueSlot
    <3> QED BY <1>2, <3>1, <3>3 DEF Bucket
  <2> QED BY <1>0, <1>2, <2>1, <2>2, <2>3, TurnStep
<1> QED BY <1>1, <1>2 DEF DrainSlot

LEMMA NextLiveDeadlineStep ==
  ASSUME WheelInv, NextLiveDeadline
  PROVE  WheelInv'
<1>0. /\ WheelTypeOK /\ TickInv /\ CacheInv /\ current \in Nat /\ None = -1
      /\ phase = "next" /\ phase' = "fire"
      /\ UNCHANGED <<clock, deadline, dead, current, target, lv, entry, level, slot>>
  BY WheelTypes DEF WheelInv, NextLiveDeadline
<1>1. \A e \in LiveInWheel : DeadlineTick(e) > current /\ e \in Entries /\ deadline[e] \in Nat /\ DeadlineTick(e) \in Nat
  BY <1>0, StillToCome, WheelTypes DEF LiveInWheel, InWheel
<1>2. /\ cache' \in Nat \cup {None} /\ cacheTick' \in Nat \cup {None} /\ dirty' \in BOOLEAN
      /\ cache' # None => cacheTick' = TickCeil(cache') /\ cacheTick' > current
      /\ \A e \in LiveInWheel : cache' # None /\ cache' <= deadline[e]
  <2>1. CASE ~ (dirty \/ (cache # None /\ cacheTick <= current))
    <3>1. UNCHANGED <<cache, cacheTick, dirty>>
      BY <2>1 DEF NextLiveDeadline
    <3>2. cache # None => cacheTick = TickCeil(cache) /\ TickCeil(cache) \in Nat
      BY <1>0, Ceil DEF CacheInv, WheelTypeOK
    <3>3. \A e \in LiveInWheel : cache # None /\ cache <= deadline[e]
      BY DEF WheelInv, CacheOf
    <3> QED BY <1>0, <2>1, <3>1, <3>2, <3>3 DEF WheelTypeOK
  <2>2. CASE dirty \/ (cache # None /\ cacheTick <= current)
    <3>0. dirty' = FALSE
      BY <2>2 DEF NextLiveDeadline
    <3>1. CASE LiveInWheel = {}
      <4>1. cache' = None /\ cacheTick' = None
        BY <2>2, <3>1 DEF NextLiveDeadline
      <4> QED BY <3>0, <3>1, <4>1
    <3>2. CASE LiveInWheel # {}
      <4>1. PICK e \in LiveInWheel : /\ \A f \in LiveInWheel : deadline[e] <= deadline[f]
                                     /\ cache' = deadline[e] /\ cacheTick' = DeadlineTick(e)
        BY <2>2, <3>2 DEF NextLiveDeadline
      <4>2. cacheTick' = TickCeil(cache') /\ cacheTick' > current /\ cache' \in Nat /\ cacheTick' \in Nat /\ cache' # None
        BY <1>0, <1>1, <4>1 DEF DeadlineTick
      <4> QED BY <3>0, <4>1, <4>2
    <3> QED BY <3>1, <3>2
  <2> QED BY <2>1, <2>2
<1>3. WheelTypeOK' /\ TickInv' /\ CacheInv'
  BY <1>0, <1>2 DEF WheelTypeOK, TickInv, CacheInv
<1>4. \A f \in Entries : EntryOf(f)'
  BY <1>0 DEF WheelInv, EntryOf, DeadlineTick
<1>5. ASSUME NEW f \in LiveInWheel' PROVE HomeOf(f)' /\ CacheOf(f)'
  <2>1. f \in LiveInWheel
    BY <1>0, <1>5 DEF LiveInWheel, InWheel
  <2>2. Home(DeadlineTick(f), level[f], slot[f], current) /\ Ahead(DeadlineTick(f), level[f], current)
    BY <1>0, <2>1, StillToCome
  <2>3. PICK t, l, s : t = DeadlineTick(f) /\ l = level[f] /\ s = slot[f]
    OBVIOUS
  <2>4. Settled(t, l, s, current, phase', lv')
    BY <2>2, <2>3 DEF Settled
  <2>5. DeadlineTick(f)' = t /\ level'[f] = l /\ slot'[f] = s
    BY <1>0, <2>3 DEF DeadlineTick
  <2> QED BY <1>0, <1>2, <2>1, <2>4, <2>5 DEF HomeOf, CacheOf
<1> QED BY <1>3, <1>4, <1>5 DEF WheelInv

LEMMA WheelFires ==
  ASSUME WheelInv, Fire
  PROVE  WheelInv'
<1>0. /\ WheelTypeOK /\ TickInv /\ CacheInv /\ phase = "fire" /\ phase' = "idle"
      /\ UNCHANGED <<clock, deadline, dead, current, target, lv, level, slot, cache, cacheTick, dirty>>
  BY DEF WheelInv, Fire
<1>1. /\ entry' \in [Entries -> {"new", "inbox", "wheel", "popped", "ready", "fired", "gone"}]
      /\ \A e \in Entries : entry[e] # "ready" => entry'[e] = entry[e]
      /\ \A e \in Entries : entry[e] = "ready" => entry'[e] \in {"gone", "fired"}
  BY <1>0 DEF Fire, WheelTypeOK
<1>2. WheelTypeOK'
  BY <1>0, <1>1 DEF WheelTypeOK
<1>3. TickInv' /\ CacheInv'
  BY <1>0 DEF TickInv, CacheInv
<1>4. ASSUME NEW f \in Entries PROVE EntryOf(f)'
  <2>1. DeadlineTick(f)' = DeadlineTick(f) /\ EntryOf(f)
    BY <1>0 DEF DeadlineTick, WheelInv
  <2>2. CASE entry[f] = "ready"
    <3>1. entry'[f] \in {"gone", "fired"} /\ deadline[f] <= clock
      BY <1>1, <2>1, <2>2 DEF EntryOf
    <3> QED BY <1>0, <3>1 DEF EntryOf
  <2>3. CASE entry[f] # "ready"
    BY <1>0, <1>1, <2>1, <2>3 DEF EntryOf
  <2> QED BY <2>2, <2>3
<1>5. \A f \in LiveInWheel' : HomeOf(f)' /\ CacheOf(f)'
  <2>1. \A f \in Entries : entry'[f] = "wheel" => entry[f] = "wheel"
    BY <1>1
  <2>2. \A l : ~ Reaching(l, phase, lv)
    BY <1>0 DEF Reaching
  <2> QED BY <1>0, <2>1, <2>2, HomesKept
<1> QED BY <1>2, <1>3, <1>4, <1>5 DEF WheelInv

LEMMA WheelBegins == WheelInit => WheelInv
<1> SUFFICES ASSUME WheelInit PROVE WheelInv
  OBVIOUS
<1>1. clock \in Nat /\ clock \in 0 .. Max({MaxNow, MaxStart})
  BY MaxPair, WheelAssumption DEF WheelInit
<1>2. current \in Nat /\ target = current /\ Began(current, clock)
  BY <1>1, Floor DEF WheelInit
<1>3. 0 \in LevelSet
  BY WheelAssumption DEF LevelSet
<1>4. WheelTypeOK
  <2>1. deadline \in [Entries -> 0 .. MaxNow]
    BY WheelAssumption DEF WheelInit
  <2>2. level \in [Entries -> LevelSet \cup {None}] /\ slot \in [Entries -> (0 .. RingSlots - 1) \cup {None}]
    BY DEF WheelInit
  <2>3. entry \in [Entries -> {"new", "inbox", "wheel", "popped", "ready", "fired", "gone"}]
    BY DEF WheelInit
  <2>4. \A e \in Entries : (entry[e] = "wheel") <=> (level[e] # None)
    BY DEF WheelInit
  <2>5. /\ cache \in Nat \cup {None} /\ cacheTick \in Nat \cup {None} /\ dirty \in BOOLEAN
        /\ dead \subseteq Entries /\ lv \in LevelSet
        /\ phase \in {"idle", "inbox", "advance", "cascade", "slot", "last", "next", "fire"}
    BY <1>3 DEF WheelInit
  <2>6. current <= target
    BY <1>2
  <2> QED BY <1>1, <1>2, <1>3, <2>1, <2>2, <2>3, <2>4, <2>5, <2>6 DEF WheelTypeOK
<1>5. TickInv /\ CacheInv
  BY <1>2 DEF WheelInit, TickInv, CacheInv
<1>6. \A e \in Entries : EntryOf(e)
  BY DEF WheelInit, EntryOf
<1>7. LiveInWheel = {}
  BY DEF WheelInit, LiveInWheel, InWheel
<1> QED BY <1>4, <1>5, <1>6, <1>7 DEF WheelInv

LEMMA WheelSteps ==
  ASSUME MaxDelay < Span(Levels), WheelInv, [WheelNext]_wheelVars
  PROVE  WheelInv'
<1>1. CASE UNCHANGED wheelVars
  <2>1. /\ UNCHANGED <<clock, deadline, dead, current, target, lv, phase>>
        /\ UNCHANGED <<entry, level, slot, cache, cacheTick, dirty>>
    BY <1>1 DEF wheelVars
  <2>2. WheelTypeOK' /\ TickInv' /\ CacheInv'
    BY <2>1 DEF WheelInv, WheelTypeOK, TickInv, CacheInv
  <2>3. \A e \in Entries : EntryOf(e)'
    BY <2>1 DEF WheelInv, EntryOf, DeadlineTick
  <2>4. \A e \in LiveInWheel' : HomeOf(e)' /\ CacheOf(e)'
    BY <2>1, HomesKept
  <2> QED BY <2>2, <2>3, <2>4 DEF WheelInv
<1>2. ASSUME NEW e \in Entries, Drop(e) PROVE WheelInv'
  BY <1>2, DropStep
<1>3. ASSUME NEW e \in Entries, NEW d \in 1 .. MaxNow, Register(e, d) PROVE WheelInv'
  BY <1>3, WheelRegisters
<1>4. ASSUME NEW t \in 1 .. MaxNow, Elapse(t) PROVE WheelInv'
  BY <1>4, ElapseStep
<1> QED
  BY <1>1, <1>2, <1>3, <1>4, StartStep, EmptyInboxStep, AdvanceStep, CascadeStep, DrainSlotStep,
     NextLiveDeadlineStep, WheelFires DEF WheelNext, PassStep

\* Where TimingWheel::insert and the cascade have put every live entry, and
\* what the cached deadline says of it, for any wheel, of the sleeps it has a
\* level for.
THEOREM WheelInvariant ==
  ASSUME MaxDelay < Span(Levels)
  PROVE  WheelSpec => []WheelInv
<1>1. WheelInv /\ [WheelNext]_wheelVars => WheelInv'
  BY WheelSteps
<1> QED BY <1>1, WheelBegins, PTL DEF WheelSpec

\* The types of the wheel's state, for any levels, slots, quantum and entries.
THEOREM WheelTypeCorrect ==
  ASSUME MaxDelay < Span(Levels)
  PROVE  WheelSpec => []WheelTypeOK
<1>1. WheelInv => WheelTypeOK
  BY DEF WheelInv
<1> QED BY <1>1, WheelInvariant, PTL

\* The wheel is a priority queue: fire_expired leaves no live entry that was
\* due at the tick of its pass (drain_expired), and fires none before its
\* deadline.
THEOREM TheWheelFiresOnTime ==
  ASSUME MaxDelay < Span(Levels)
  PROVE  WheelSpec => []FiresOnTime
<1>1. ASSUME WheelInv PROVE FiresOnTime
  <2>1. phase \in {"next", "fire"} => \A e \in LiveInWheel : DeadlineTick(e) > target
    BY <1>1, StillToCome DEF WheelInv, TickInv
  <2>2. \A e \in Entries : entry[e] \in {"ready", "fired"} => deadline[e] <= clock
    BY <1>1 DEF WheelInv, EntryOf
  <2> QED BY <2>1, <2>2 DEF FiresOnTime
<1> QED BY <1>1, WheelInvariant, PTL

\* Between ticks each live entry is in a bucket the current tick will reach in
\* time (insert, cascade_level), and next_live_deadline publishes a deadline that
\* is no later than any live entry's and that the pass has not yet dealt with.
THEOREM BucketsAndCacheAgree ==
  ASSUME MaxDelay < Span(Levels)
  PROVE  WheelSpec => []WheelAgrees
<1>1. ASSUME WheelInv PROVE Placed
  <2> SUFFICES ASSUME phase \in {"idle", "inbox", "advance"}, NEW e \in LiveInWheel, NEW l, NEW t,
                      l = level[e], t = DeadlineTick(e)
               PROVE  /\ l = 0 /\ t > current => slot[e] = WheelSlot(t, 0) /\ t - current < RingSlots
                      /\ l = 0 /\ t <= current => phase # "idle" /\ slot[e] = WheelSlot(current, 0)
                      /\ l > 0 => /\ slot[e] = WheelSlot(t, l)
                                  /\ t \div Span(l) > current \div Span(l)
                                  /\ t \div Span(l) <= current \div Span(l) + RingSlots
    BY DEF Placed
  <2>1. current \in Nat /\ t \in Nat /\ l \in LevelSet /\ RingSlots \in Nat \ {0}
    BY <1>1, WheelTypes, WheelAssumption DEF WheelInv, LiveInWheel, InWheel
  <2>2. Home(t, l, slot[e], current) /\ Ahead(t, l, current) /\ t > current
    BY <1>1, StillToCome
  <2>3. PICK w : w = Span(l)
    OBVIOUS
  <2>4. w \in Nat \ {0} /\ Span(l + 1) = RingSlots * w /\ (l = 0 => w = 1)
    BY <2>1, <2>3, SpanIs
  <2>5. current <= t /\ t - current < RingSlots * w /\ slot[e] = WheelSlot(t, l)
    BY <2>2, <2>4 DEF Home
  <2>6. t \div w <= current \div w + RingSlots
    BY <2>1, <2>4, <2>5, FewerTurns
  <2>7. t \div w > current \div w
    BY <2>2, <2>3 DEF Ahead
  <2>8. l = 0 => t - current < RingSlots
    <3>1. ASSUME l = 0 PROVE t - current < RingSlots
      <4>1. RingSlots * w = RingSlots
        BY <2>1, <2>4, <3>1
      <4> QED BY <2>5, <4>1
    <3> QED BY <3>1
  <2>9. ~ (t <= current)
    BY <2>1, <2>2
  <2> QED BY <2>2, <2>3, <2>5, <2>6, <2>7, <2>8, <2>9
<1>2. WheelInv => CacheCovers
  BY DEF WheelInv, CacheCovers, CacheOf, CacheInv
<1>3. WheelInv => WheelAgrees
  BY <1>1, <1>2 DEF WheelAgrees
<1> QED BY <1>3, WheelInvariant, PTL

-----------------------------------------------------------------------------
(* The slot pool.  PoolInv is the inductive invariant; each action has a   *)
(* lemma of its own, one step per conjunct.                                *)

USE NoSleepAssumption, NoSlotAssumption
USE DEF slotVars, sleepVars, firerVars, SleepPcs, FirerPcs, NotQueued,
        Holds, FirerRefs, FirerTearsDown, FirerAt, FSlot

LEMMA PoolInitInv == PoolInit => PoolTypeOK /\ PoolInv
<1> SUFFICES ASSUME PoolInit PROVE PoolTypeOK /\ PoolInv
  OBVIOUS
<1>1. PoolTypeOK
  BY DEF PoolInit, PoolTypeOK
<1>2. Indexed /\ Exclusive /\ Counted
  BY DEF PoolInit, Indexed, Exclusive, Counted, LiveOn
<1>3. Contents /\ Generations /\ Touching
  BY DEF PoolInit, Contents, Generations, Touching
<1>4. QED
  BY <1>1, <1>2, <1>3 DEF PoolInv

-----------------------------------------------------------------------------
(* The steps of a sleep, then those of the firer.                          *)

LEMMA PopFreeStep ==
  ASSUME PoolTypeOK, PoolInv, NEW s \in Futures, NEW i \in Slots, PopFree(s, i)
  PROVE  PoolTypeOK' /\ PoolInv'
<1>1. PoolTypeOK'
  BY DEF PoolTypeOK, PoolInv, Indexed, PopFree
<1>2. Indexed'
  BY DEF PoolTypeOK, PoolInv, Indexed, PopFree
<1>3. Exclusive'
  BY DEF PoolTypeOK, PoolInv, Indexed, Exclusive, PopFree
<1>4. Counted'
  BY DEF PoolTypeOK, PoolInv, Indexed, Exclusive, Counted, LiveOn, PopFree
<1>5. Contents'
  BY DEF PoolTypeOK, PoolInv, Indexed, Exclusive, Contents, PopFree
<1>6. Generations'
  BY DEF PoolTypeOK, PoolInv, Indexed, Generations, PopFree
<1>7. Touching'
  BY DEF PoolTypeOK, PoolInv, Indexed, Touching, PopFree
<1>8. QED
  BY <1>1, <1>2, <1>3, <1>4, <1>5, <1>6, <1>7 DEF PoolInv

LEMMA WriteCellStep ==
  ASSUME PoolTypeOK, PoolInv, NEW s \in Futures, WriteCell(s)
  PROVE  PoolTypeOK' /\ PoolInv'
<1>1. PoolTypeOK'
  BY DEF PoolTypeOK, PoolInv, Indexed, WriteCell
<1>2. Indexed'
  BY DEF PoolInv, Indexed, WriteCell
<1>3. Exclusive'
  BY DEF PoolInv, Exclusive, WriteCell
<1>4. Counted'
  BY DEF PoolTypeOK, PoolInv, Indexed, Exclusive, Counted, LiveOn, WriteCell
<1>5. Contents'
  BY DEF PoolTypeOK, PoolInv, Indexed, Exclusive, Contents, WriteCell
<1>6. Generations'
  BY DEF PoolInv, Generations, WriteCell
<1>7. Touching'
  BY DEF PoolInv, Touching, WriteCell
<1>8. QED
  BY <1>1, <1>2, <1>3, <1>4, <1>5, <1>6, <1>7 DEF PoolInv

LEMMA PublishRefStep ==
  ASSUME PoolTypeOK, PoolInv, NEW s \in Futures, PublishRef(s)
  PROVE  PoolTypeOK' /\ PoolInv'
<1>1. PoolTypeOK'
  BY DEF PoolTypeOK, PoolInv, Indexed, PublishRef
<1>2. Indexed'
  BY DEF PoolInv, Indexed, PublishRef
<1>3. Exclusive'
  BY DEF PoolTypeOK, PoolInv, Indexed, Counted, LiveOn, Exclusive, PublishRef
<1>4. Counted'
  BY DEF PoolTypeOK, PoolInv, Indexed, Exclusive, Counted, LiveOn, PublishRef
<1>5. Contents'
  BY DEF PoolTypeOK, PoolInv, Indexed, Contents, PublishRef
<1>6. Generations'
  BY DEF PoolTypeOK, PoolInv, Indexed, Generations, PublishRef
<1>7. Touching'
  BY DEF PoolInv, Touching, PublishRef
<1>8. QED
  BY <1>1, <1>2, <1>3, <1>4, <1>5, <1>6, <1>7 DEF PoolInv

LEMMA DowngradeStep ==
  ASSUME PoolTypeOK, PoolInv, NEW s \in Futures, Downgrade(s)
  PROVE  PoolTypeOK' /\ PoolInv'
<1>1. PoolTypeOK'
  BY DEF PoolTypeOK, PoolInv, Indexed, Downgrade
<1>2. Indexed'
  BY DEF PoolTypeOK, PoolInv, Indexed, Downgrade
<1>3. Exclusive'
  BY DEF PoolInv, Exclusive, Downgrade
<1>4. Counted'
  BY DEF PoolInv, Counted, LiveOn, Downgrade
<1>5. Contents'
  BY DEF PoolTypeOK, PoolInv, Indexed, Exclusive, Counted, LiveOn, Contents, Downgrade
<1>6. Generations'
  BY DEF PoolTypeOK, PoolInv, Indexed, Exclusive, Contents, Generations, Downgrade
<1>7. Touching'
  BY DEF PoolInv, Touching, Downgrade
<1>8. QED
  BY <1>1, <1>2, <1>3, <1>4, <1>5, <1>6, <1>7 DEF PoolInv

LEMMA FireSelfStep ==
  ASSUME PoolTypeOK, PoolInv, NEW s \in Futures, FireSelf(s)
  PROVE  PoolTypeOK' /\ PoolInv'
<1>1. PoolTypeOK'
  BY DEF PoolTypeOK, PoolInv, Indexed, FireSelf
<1>2. Indexed'
  BY DEF PoolInv, Indexed, FireSelf
<1>3. Exclusive'
  BY DEF PoolInv, Exclusive, FireSelf
<1>4. Counted'
  BY DEF PoolInv, Counted, LiveOn, FireSelf
<1>5. Contents'
  BY DEF PoolInv, Contents, FireSelf
<1>6. Generations'
  BY DEF PoolTypeOK, PoolInv, Indexed, Exclusive, Generations, FireSelf
<1>7. Touching'
  BY DEF PoolTypeOK, PoolInv, Indexed, Contents, Touching, FireSelf
<1>8. QED
  BY <1>1, <1>2, <1>3, <1>4, <1>5, <1>6, <1>7 DEF PoolInv

LEMMA DropSleepStep ==
  ASSUME PoolTypeOK, PoolInv, NEW s \in Futures, DropSleep(s)
  PROVE  PoolTypeOK' /\ PoolInv'
<1>0. idx[s] \in Slots /\ refcount[idx[s]] > 0
  BY DEF PoolTypeOK, PoolInv, Indexed, Counted, LiveOn, DropSleep, LastAfter
<1>1. PoolTypeOK'
  BY <1>0 DEF PoolTypeOK, DropSleep, LastAfter
<1>2. Indexed'
  BY DEF PoolTypeOK, PoolInv, Indexed, DropSleep, LastAfter
<1>3. Exclusive'
  BY DEF PoolTypeOK, PoolInv, Indexed, Counted, LiveOn, Exclusive, DropSleep, LastAfter
<1>4. Counted'
  BY DEF PoolTypeOK, PoolInv, Indexed, Exclusive, Counted, LiveOn, DropSleep, LastAfter
<1>5. Contents'
  BY DEF PoolInv, Contents, DropSleep, LastAfter
<1>6. Generations'
  BY DEF PoolInv, Generations, DropSleep, LastAfter
<1>7. Touching'
  BY DEF PoolInv, Touching, DropSleep, LastAfter
<1>8. QED
  BY <1>1, <1>2, <1>3, <1>4, <1>5, <1>6, <1>7 DEF PoolInv

LEMMA SleepTeardownStep ==
  ASSUME PoolTypeOK, PoolInv, NEW s \in Futures, SleepTeardown(s)
  PROVE  PoolTypeOK' /\ PoolInv'
<1>1. PoolTypeOK'
  BY DEF PoolTypeOK, PoolInv, Indexed, SleepTeardown, DropCell, BumpGeneration, PushFree
<1>2. Indexed'
  BY DEF PoolTypeOK, PoolInv, Indexed, SleepTeardown, DropCell, BumpGeneration, PushFree
<1>3. Exclusive'
    BY DEF PoolTypeOK, PoolInv, Indexed, Exclusive, SleepTeardown, DropCell,
         BumpGeneration, PushFree
<1>4. Counted'
    BY DEF PoolTypeOK, PoolInv, Counted, LiveOn, SleepTeardown, DropCell,
         BumpGeneration, PushFree
<1>5. Contents'
    BY DEF PoolTypeOK, PoolInv, Indexed, Exclusive, Contents, SleepTeardown, DropCell,
         BumpGeneration, PushFree
<1>6. Generations'
    BY DEF PoolTypeOK, PoolInv, Indexed, Generations, SleepTeardown, DropCell,
         BumpGeneration, PushFree
<1>7. Touching'
    BY DEF PoolTypeOK, PoolInv, Indexed, Contents, Touching, SleepTeardown, DropCell,
         BumpGeneration, PushFree
<1>8. QED
  BY <1>1, <1>2, <1>3, <1>4, <1>5, <1>6, <1>7 DEF PoolInv

LEMMA ForgetStep ==
  ASSUME PoolTypeOK, PoolInv, NEW s \in Futures, Forget(s)
  PROVE  PoolTypeOK' /\ PoolInv'
<1>1. PoolTypeOK'
  BY DEF PoolTypeOK, PoolInv, Indexed, Forget, IsDead
<1>2. Indexed'
  BY DEF PoolInv, Indexed, Forget, IsDead
<1>3. Exclusive'
  BY DEF PoolInv, Exclusive, Forget, IsDead
<1>4. Counted'
  BY DEF PoolInv, Counted, LiveOn, Forget, IsDead
<1>5. Contents'
  BY DEF PoolInv, Contents, Forget, IsDead
<1>6. Generations'
  BY DEF PoolInv, Generations, Forget, IsDead
<1>7. Touching'
  BY DEF PoolInv, Touching, Forget, IsDead
<1>8. QED
  BY <1>1, <1>2, <1>3, <1>4, <1>5, <1>6, <1>7 DEF PoolInv

LEMMA StartFireStep ==
  ASSUME PoolTypeOK, PoolInv, NEW s \in Futures, StartFire(s)
  PROVE  PoolTypeOK' /\ PoolInv'
<1>1. PoolTypeOK'
  BY DEF PoolTypeOK, PoolInv, Indexed, StartFire
<1>2. Indexed'
  BY DEF PoolInv, Indexed, StartFire
<1>3. Exclusive'
  BY DEF PoolInv, Exclusive, StartFire
<1>4. Counted'
  BY DEF PoolInv, Counted, LiveOn, StartFire
<1>5. Contents'
  BY DEF PoolInv, Contents, StartFire
<1>6. Generations'
  BY DEF PoolInv, Generations, StartFire
<1>7. Touching'
  BY DEF PoolInv, Touching, StartFire
<1>8. QED
  BY <1>1, <1>2, <1>3, <1>4, <1>5, <1>6, <1>7 DEF PoolInv

LEMMA FireLoadStep ==
  ASSUME PoolTypeOK, PoolInv, FireLoad
  PROVE  PoolTypeOK' /\ PoolInv'
<1>1. PoolTypeOK'
  BY DEF PoolTypeOK, PoolInv, Indexed, FireLoad, FinishFire
<1>2. Indexed'
  BY DEF PoolTypeOK, PoolInv, Indexed, FireLoad, FinishFire
<1>3. Exclusive'
  BY DEF PoolInv, Exclusive, FireLoad, FinishFire
<1>4. Counted'
  BY DEF PoolInv, Counted, LiveOn, FireLoad, FinishFire
<1>5. Contents'
  BY DEF PoolInv, Contents, FireLoad, FinishFire
<1>6. Generations'
  BY DEF PoolInv, Generations, FireLoad, FinishFire
<1>7. Touching'
  BY DEF PoolInv, Touching, FireLoad, FinishFire
<1>8. QED
  BY <1>1, <1>2, <1>3, <1>4, <1>5, <1>6, <1>7 DEF PoolInv

LEMMA FireCasStep ==
  ASSUME PoolTypeOK, PoolInv, FireCas
  PROVE  PoolTypeOK' /\ PoolInv'
<1>1. PoolTypeOK'
  BY DEF PoolTypeOK, PoolInv, Indexed, FireCas, FinishFire
<1>2. Indexed'
  BY DEF PoolTypeOK, PoolInv, Indexed, FireCas, FinishFire
<1>3. Exclusive'
  BY DEF PoolTypeOK, PoolInv, Indexed, Counted, LiveOn, Exclusive, FireCas, FinishFire
<1>4. Counted'
  BY DEF PoolTypeOK, PoolInv, Indexed, Exclusive, Counted, LiveOn, FireCas, FinishFire
<1>5. Contents'
    BY DEF PoolTypeOK, PoolInv, Indexed, Exclusive, Counted, LiveOn, Contents, FireCas,
         FinishFire
<1>6. Generations'
  BY DEF PoolInv, Generations, FireCas, FinishFire
<1>7. Touching'
  BY DEF PoolInv, Touching, FireCas, FinishFire
<1>8. QED
  BY <1>1, <1>2, <1>3, <1>4, <1>5, <1>6, <1>7 DEF PoolInv

LEMMA FireCheckStep ==
  ASSUME PoolTypeOK, PoolInv, FireCheck
  PROVE  PoolTypeOK' /\ PoolInv'
<1>1. PoolTypeOK'
  BY DEF PoolTypeOK, PoolInv, Indexed, FireCheck
<1>2. Indexed'
  BY DEF PoolInv, Indexed, FireCheck
<1>3. Exclusive'
  BY DEF PoolInv, Exclusive, FireCheck
<1>4. Counted'
  BY DEF PoolInv, Counted, LiveOn, FireCheck
<1>5. Contents'
  BY DEF PoolInv, Contents, FireCheck
<1>6. Generations'
  BY DEF PoolInv, Generations, FireCheck
<1>7. Touching'
  BY DEF PoolInv, Touching, FireCheck
<1>8. QED
  BY <1>1, <1>2, <1>3, <1>4, <1>5, <1>6, <1>7 DEF PoolInv

LEMMA FireTouchStep ==
  ASSUME PoolTypeOK, PoolInv, FireTouch
  PROVE  PoolTypeOK' /\ PoolInv'
<1>1. PoolTypeOK'
  BY DEF PoolTypeOK, PoolInv, Indexed, FireTouch
<1>2. Indexed'
  BY DEF PoolInv, Indexed, FireTouch
<1>3. Exclusive'
  BY DEF PoolInv, Exclusive, FireTouch
<1>4. Counted'
  BY DEF PoolInv, Counted, LiveOn, FireTouch
<1>5. Contents'
  BY DEF PoolInv, Contents, FireTouch
<1>6. Generations'
  BY DEF PoolTypeOK, PoolInv, Indexed, Exclusive, Generations, FireTouch
<1>7. Touching'
  BY DEF PoolTypeOK, PoolInv, Indexed, Contents, Touching, FireTouch
<1>8. QED
  BY <1>1, <1>2, <1>3, <1>4, <1>5, <1>6, <1>7 DEF PoolInv

LEMMA FireReleaseStep ==
  ASSUME PoolTypeOK, PoolInv, FireRelease
  PROVE  PoolTypeOK' /\ PoolInv'
<1>0. FSlot \in Slots /\ refcount[FSlot] > 0
    BY DEF PoolTypeOK, PoolInv, Indexed, Counted, LiveOn, FireRelease, FinishFire,
         LastAfter
<1>1. PoolTypeOK'
  BY <1>0 DEF PoolTypeOK, FireRelease, FinishFire, LastAfter
<1>2. Indexed'
  BY DEF PoolTypeOK, PoolInv, Indexed, FireRelease, FinishFire, LastAfter
<1>3. Exclusive'
    BY DEF PoolTypeOK, PoolInv, Indexed, Counted, LiveOn, Exclusive, FireRelease,
         FinishFire, LastAfter
<1>4. Counted'
  BY DEF PoolTypeOK, PoolInv, Counted, LiveOn, FireRelease, FinishFire, LastAfter
<1>5. Contents'
  BY DEF PoolInv, Contents, FireRelease, FinishFire, LastAfter
<1>6. Generations'
  BY DEF PoolInv, Generations, FireRelease, FinishFire, LastAfter
<1>7. Touching'
  BY DEF PoolInv, Touching, FireRelease, FinishFire, LastAfter
<1>8. QED
  BY <1>1, <1>2, <1>3, <1>4, <1>5, <1>6, <1>7 DEF PoolInv

LEMMA FireTeardownStep ==
  ASSUME PoolTypeOK, PoolInv, FireTeardown
  PROVE  PoolTypeOK' /\ PoolInv'
<1>1. PoolTypeOK'
    BY DEF PoolTypeOK, PoolInv, Indexed, FireTeardown, FinishFire, DropCell,
         BumpGeneration, PushFree
<1>2. Indexed'
    BY DEF PoolInv, Indexed, FireTeardown, FinishFire, DropCell, BumpGeneration,
         PushFree
<1>3. Exclusive'
    BY DEF PoolTypeOK, PoolInv, Indexed, Exclusive, FireTeardown, FinishFire, DropCell,
         BumpGeneration, PushFree
<1>4. Counted'
    BY DEF PoolInv, Counted, LiveOn, FireTeardown, FinishFire, DropCell,
         BumpGeneration, PushFree
<1>5. Contents'
    BY DEF PoolTypeOK, PoolInv, Indexed, Exclusive, Contents, FireTeardown, FinishFire,
         DropCell, BumpGeneration, PushFree
<1>6. Generations'
    BY DEF PoolTypeOK, PoolInv, Indexed, Exclusive, Generations, FireTeardown,
         FinishFire, DropCell, BumpGeneration, PushFree
<1>7. Touching'
    BY DEF PoolInv, Touching, FireTeardown, FinishFire, DropCell, BumpGeneration,
         PushFree
<1>8. QED
  BY <1>1, <1>2, <1>3, <1>4, <1>5, <1>6, <1>7 DEF PoolInv

LEMMA PoolStutter ==
  ASSUME PoolTypeOK, PoolInv, UNCHANGED poolVars
  PROVE  PoolTypeOK' /\ PoolInv'
<1>1. PoolTypeOK'
  BY DEF PoolTypeOK, poolVars
<1>2. PoolInv'
  BY DEF PoolInv, Indexed, Exclusive, Counted, LiveOn, Contents, Generations, Touching, poolVars
<1>3. QED BY <1>1, <1>2

LEMMA PoolNextInv == PoolTypeOK /\ PoolInv /\ [PoolNext]_poolVars => PoolTypeOK' /\ PoolInv'
<1> SUFFICES ASSUME PoolTypeOK, PoolInv, [PoolNext]_poolVars PROVE PoolTypeOK' /\ PoolInv'
  OBVIOUS
<1>1. CASE \E s \in Futures : SleepStep(s)
  BY <1>1, PopFreeStep, WriteCellStep, PublishRefStep, DowngradeStep, FireSelfStep,
     DropSleepStep, SleepTeardownStep DEF SleepStep
<1>2. CASE FirerStep
  BY <1>2, ForgetStep, StartFireStep, FireLoadStep, FireCasStep, FireCheckStep,
     FireTouchStep, FireReleaseStep, FireTeardownStep DEF FirerStep
<1>3. CASE UNCHANGED poolVars
  BY <1>3, PoolStutter
<1>4. QED
  BY <1>1, <1>2, <1>3 DEF PoolNext

-----------------------------------------------------------------------------
LEMMA PoolInvariance == PoolSpec => [](PoolTypeOK /\ PoolInv)
  BY PoolInitInv, PoolNextInv, PTL DEF PoolSpec

\* The types of the pool's state, for any number of sleeps and slots.
THEOREM PoolTypeCorrect == PoolSpec => []PoolTypeOK
  BY PoolInvariance, PTL

\* What the invariant says of a handle, of a live sleep and of a slot.
LEMMA PoolInvSafe ==
  ASSUME PoolTypeOK, PoolInv
  PROVE  TouchesOwnSleep /\ LiveKeepsSlot /\ SlotsHaveOneOwner
<1>1. TouchesOwnSleep
  BY DEF PoolTypeOK, PoolInv, Indexed, Contents, Generations, Touching, TouchesOwnSleep
<1>2. LiveKeepsSlot
  BY DEF PoolTypeOK, PoolInv, Indexed, Counted, LiveOn, Contents, Generations, LiveKeepsSlot
<1>3. OnePlace
  BY DEF PoolTypeOK, PoolInv, Indexed, Exclusive, Counted, LiveOn, Contents, OnePlace
<1>4. TearsDownAlone
  BY DEF PoolTypeOK, PoolInv, Indexed, Exclusive, Counted, LiveOn, Contents, TearsDownAlone,
         TearingDown
<1>5. QED
  BY <1>1, <1>2, <1>3, <1>4 DEF SlotsHaveOneOwner

\* A handle that passes the generation test reaches its own sleep's
\* initialised state, and a live sleep keeps its slot (SleepHandle::fire), for
\* any number of sleeps and slots.
THEOREM HandlesTouchTheirOwn == PoolSpec => [](TouchesOwnSleep /\ LiveKeepsSlot)
  BY PoolInvariance, PoolInvSafe, PTL

\* A slot is free, being filled or held by one sleep, and one actor alone tears
\* it down (SleepStatePool::acquire and release), for any number of them.
THEOREM SlotsAreOwned == PoolSpec => []SlotsHaveOneOwner
  BY PoolInvariance, PoolInvSafe, PTL

\* SleepHandle::is_dead never gives up a sleep that is still waiting.
THEOREM LiveHandlesAreKept == PoolSpec => NeverForgetsLive
<1>1. ASSUME PoolTypeOK, PoolInv, [PoolNext]_poolVars
      PROVE  [\A s \in handles \ handles' : stage[s] = "live" => fsleep' = s]_poolVars
  <2> SUFFICES ASSUME NEW t \in handles, t \notin handles', stage[t] = "live", PoolNext
               PROVE  fsleep' = t
    BY <1>1
  <2>1. t \in Futures /\ idx[t] \in Slots
    BY <1>1 DEF PoolTypeOK, PoolInv, Indexed
  <2>2. ~IsDead(t)
    BY <1>1, <2>1 DEF IsDead, PoolInv, Indexed, Counted, LiveOn, Generations
  <2>3. CASE \E s \in Futures : SleepStep(s)
    BY <2>3 DEF SleepStep, PopFree, WriteCell, PublishRef, Downgrade, FireSelf, DropSleep,
                SleepTeardown
  <2>4. CASE FirerStep
    BY <2>4, <2>2 DEF FirerStep, Forget, StartFire, FireLoad, FireCas, FireCheck, FireTouch,
                      FireRelease, FireTeardown
  <2>5. QED
    BY <2>3, <2>4 DEF PoolNext
<1>2. QED
  BY <1>1, PoolInvariance, PTL DEF PoolSpec, NeverForgetsLive
=============================================================================
