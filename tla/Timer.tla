------------------------------- MODULE Timer -------------------------------
(***************************************************************************)
(* One processor's kernel timer (kernel/src/exec/timer.rs): sleeps are     *)
(* registered from any processor through a lock-free inbox, the owner      *)
(* moves them to its wheel and fires them, and the earliest one has to be  *)
(* in the owner's hardware comparator before the owner halts.              *)
(*                                                                         *)
(* The wheel is a set here (TimingWheel has its levels and slots), time is *)
(* counted in wheel ticks, and the platform is one with a one-shot         *)
(* comparator per processor (TimerInterrupt::Deadline).                    *)
(***************************************************************************)
EXTENDS Integers, Sequences, FiniteSets, FiniteSetsExt

CONSTANTS
  Sleeps,        \* sleep futures
  Deadline,      \* the deadline each was created with
  Remotes,       \* registering processors other than the owner
  Owner,         \* the processor that built the timer
  MaxTime,       \* bound: the clock stops here
  SchedulerTick, \* SCHEDULER_TICK
  IdleInterval   \* IDLE_INTERRUPT_INTERVAL

Actors == Remotes \cup {Owner}
Inf == MaxTime + IdleInterval + 1        \* u64::MAX, no sleep pending

ASSUME SleepsAssumption == Sleeps # {}
ASSUME DeadlineAssumption == Deadline \in [Sleeps -> 1 .. MaxTime]
ASSUME OwnerAssumption == Owner \notin Remotes
ASSUME IntervalAssumption ==
  /\ MaxTime \in Nat /\ SchedulerTick \in Nat \ {0} /\ IdleInterval \in Nat
  /\ SchedulerTick <= IdleInterval

VARIABLES
  now,        \* Cpu::now
  inbox,      \* sleeps pushed and not yet drained
  wheel,      \* sleeps in the timing wheel
  ready,      \* the entries this fire_expired has taken out of the wheel
  published,  \* next_sleep_deadline
  armed,      \* armed_deadline, and the comparator it mirrors
  sleep,      \* sleep[s]: where the future is in its life
  passTime,   \* the clock value this fire_expired reads once, at its start
  arg,        \* the deadline arm_earlier was called with
  pc,         \* the owner's place in its loop
  idle,       \* its published IdleState
  latch, ipi, \* wake_pending and a pending wake interrupt at the owner
  reg,        \* reg[a]: actor a's place in Sleep::poll's registration
  regSleep    \* regSleep[a]: the sleep a is registering

loopVars == <<inbox, wheel, ready, published, sleep, passTime, pc, idle>>
wakeVars == <<latch, ipi>>
regVars == <<reg, regSleep>>
vars == <<now, inbox, wheel, ready, published, armed, sleep, passTime, arg, pc,
          idle, latch, ipi, reg, regSleep>>

Init ==
  /\ now = 0 /\ inbox = {} /\ wheel = {} /\ ready = {}
  /\ published = Inf /\ armed = SchedulerTick
  /\ sleep = [s \in Sleeps |-> "new"]
  /\ passTime = 0 /\ arg = Inf /\ pc = "drain" /\ idle = "Running"
  /\ latch = FALSE /\ ipi = FALSE
  /\ reg = [a \in Actors |-> "none"]
  /\ regSleep = [a \in Actors |-> CHOOSE s \in Sleeps : TRUE]

Earliest(S) == Min({Deadline[s] : s \in S} \cup {Inf})
Live(S) == {s \in S : sleep[s] = "pending"}

-----------------------------------------------------------------------------
(* Sleep::poll: register, on whatever processor the task runs.             *)

\* The owner polls tasks in one part of its loop; a remote at any time.
MayRun(a) == a = Owner => pc = "tasks"

\* First pending poll: push to the inbox.
Enqueue(a, s) ==
  /\ MayRun(a) /\ reg[a] = "none"
  /\ sleep[s] = "new" /\ Deadline[s] > now
  /\ sleep' = [sleep EXCEPT ![s] = "pending"]
  /\ inbox' = inbox \cup {s}
  /\ reg' = [reg EXCEPT ![a] = "lower"]
  /\ regSleep' = [regSleep EXCEPT ![a] = s]
  /\ UNCHANGED <<now, wheel, ready, published, armed, passTime, arg, pc, idle, wakeVars>>

\* publish_deadline's compare-and-swap loop; its one successful exchange, or
\* the read that finds an earlier deadline published.
LowerPublished(a) ==
  LET d == Deadline[regSleep[a]] IN
  /\ MayRun(a) /\ reg[a] = "lower"
  /\ published' = Min({published, d})
  /\ reg' = [reg EXCEPT ![a] =
               IF d >= published THEN "none"
               ELSE IF a = Owner THEN "arm" ELSE "peek"]
  /\ UNCHANGED <<now, inbox, wheel, ready, armed, sleep, passTime, arg, pc, idle,
                 wakeVars, regSleep>>

\* Mutant of OwnerArms: without arm_earlier's comparison.
OwnerArmsBlindly ==
  /\ MayRun(Owner) /\ reg[Owner] = "arm"
  /\ armed' = Deadline[regSleep[Owner]]
  /\ reg' = [reg EXCEPT ![Owner] = "none"]
  /\ UNCHANGED <<now, loopVars, arg, wakeVars, regSleep>>

\* The owner programs its own comparator: arm_earlier, under the mask.
OwnerArms ==
  /\ MayRun(Owner) /\ reg[Owner] = "arm"
  /\ armed' = Min({armed, Deadline[regSleep[Owner]]})
  /\ reg' = [reg EXCEPT ![Owner] = "none"]
  /\ UNCHANGED <<now, loopVars, arg, wakeVars, regSleep>>

\* Anyone else wakes the owner if it has published Parked.
PeekOwner(a) ==
  /\ reg[a] = "peek"
  /\ reg' = [reg EXCEPT ![a] = IF idle = "Parked" THEN "latch" ELSE "none"]
  /\ UNCHANGED <<now, loopVars, armed, arg, wakeVars, regSleep>>

WakeOwner(a) ==
  \/ /\ reg[a] = "latch"
     /\ latch' = TRUE
     /\ reg' = [reg EXCEPT ![a] = "ipi"]
     /\ UNCHANGED <<now, loopVars, armed, arg, ipi, regSleep>>
  \/ /\ reg[a] = "ipi"
     /\ ipi' = TRUE
     /\ reg' = [reg EXCEPT ![a] = "none"]
     /\ UNCHANGED <<now, loopVars, armed, arg, latch, regSleep>>

\* A pending Sleep is dropped: its slot is released and its entry goes stale.
Cancel(a, s) ==
  /\ MayRun(a) /\ reg[a] = "none"
  /\ sleep[s] = "pending" /\ \A b \in Actors : reg[b] # "none" => regSleep[b] # s
  /\ sleep' = [sleep EXCEPT ![s] = "dropped"]
  /\ UNCHANGED <<now, inbox, wheel, ready, published, armed, passTime, arg, pc,
                 idle, wakeVars, regVars>>

\* A poll that finds the deadline passed completes the sleep by itself.
PollDue(a, s) ==
  /\ MayRun(a) /\ reg[a] = "none"
  /\ sleep[s] = "pending" /\ Deadline[s] <= now
  /\ \A b \in Actors : reg[b] # "none" => regSleep[b] # s
  /\ sleep' = [sleep EXCEPT ![s] = "fired"]
  /\ UNCHANGED <<now, inbox, wheel, ready, published, armed, passTime, arg, pc,
                 idle, wakeVars, regVars>>

RegisterStep(a) ==
  \/ LowerPublished(a) \/ PeekOwner(a) \/ WakeOwner(a)
  \/ a = Owner /\ OwnerArms

-----------------------------------------------------------------------------
(* The owner: fire_expired, then its tasks, then the park.                 *)

\* drain_inbox: a sleep already dropped is not inserted.
DrainInbox ==
  /\ pc = "drain"
  /\ \/ \E s \in inbox :
          /\ inbox' = inbox \ {s}
          /\ wheel' = IF sleep[s] = "pending" THEN wheel \cup {s} ELSE wheel
          /\ UNCHANGED pc
     \/ /\ inbox = {}
        /\ pc' = "expire"
        /\ UNCHANGED <<inbox, wheel>>
  /\ UNCHANGED <<now, ready, published, armed, sleep, passTime, arg, idle,
                 wakeVars, regVars>>

\* Mutant of DrainExpired: the deadline rounded down a tick.
DrainEarly ==
  LET due == {s \in wheel : Deadline[s] <= passTime + 1} IN
  /\ pc = "expire"
  /\ wheel' = wheel \ due
  /\ ready' = ready \cup Live(due)
  /\ pc' = "store"
  /\ UNCHANGED <<now, inbox, published, armed, sleep, passTime, arg, idle,
                 wakeVars, regVars>>

\* drain_expired up to the time read at the start of the pass.
DrainExpired ==
  LET due == {s \in wheel : Deadline[s] <= passTime} IN
  /\ pc = "expire"
  /\ wheel' = wheel \ due
  /\ ready' = ready \cup Live(due)
  /\ pc' = "store"
  /\ UNCHANGED <<now, inbox, published, armed, sleep, passTime, arg, idle,
                 wakeVars, regVars>>

\* next_live_deadline, stored.  The cached minimum may still be that of a
\* dropped entry the wheel has not met.
StorePublished ==
  /\ pc = "store"
  /\ \E stale \in SUBSET (wheel \ Live(wheel)) :
       published' = Earliest(Live(wheel) \cup stale)
  /\ pc' = "check"
  /\ UNCHANGED <<now, inbox, wheel, ready, armed, sleep, passTime, arg, idle,
                 wakeVars, regVars>>

\* Mutant of CheckInbox: the pass ends without looking at the inbox again.
SkipCheckInbox ==
  /\ pc = "check"
  /\ pc' = "wake"
  /\ UNCHANGED <<now, inbox, wheel, ready, published, armed, sleep, passTime, arg,
                 idle, wakeVars, regVars>>

\* The emptiness test that closes the race with a registration.
CheckInbox ==
  /\ pc = "check"
  /\ pc' = IF inbox = {} THEN "wake" ELSE "drain"
  /\ UNCHANGED <<now, inbox, wheel, ready, published, armed, sleep, passTime, arg,
                 idle, wakeVars, regVars>>

\* Fire what is ready and still live, then load the deadline to arm.
FireReady ==
  /\ pc = "wake"
  /\ sleep' = [s \in Sleeps |-> IF s \in Live(ready) THEN "fired" ELSE sleep[s]]
  /\ ready' = {}
  /\ arg' = published
  /\ pc' = "arm"
  /\ UNCHANGED <<now, inbox, wheel, published, armed, passTime, idle, wakeVars, regVars>>

\* arm_earlier at the end of fire_expired.
ArmAfterFire ==
  /\ pc = "arm"
  /\ armed' = Min({armed, arg})
  /\ pc' = "run"
  /\ UNCHANGED <<now, inbox, wheel, ready, published, sleep, passTime, arg, idle,
                 wakeVars, regVars>>

\* The executor found a task: arm_scheduler_tick, then polls.
StartTasks ==
  /\ pc = "run"
  /\ armed' = Min({armed, now + SchedulerTick})
  /\ pc' = "tasks"
  /\ UNCHANGED <<now, inbox, wheel, ready, published, sleep, passTime, arg, idle,
                 wakeVars, regVars>>

\* The batch is over: another pass, which reads the clock afresh.
NextPass ==
  /\ pc = "tasks" /\ reg[Owner] = "none"
  /\ pc' = "drain"
  /\ passTime' = now
  /\ UNCHANGED <<now, inbox, wheel, ready, published, armed, sleep, arg, idle,
                 wakeVars, regVars>>

\* Nothing to run, park_until_work: publish Parked.
PublishParked ==
  /\ pc = "run"
  /\ idle' = "Parked"
  /\ pc' = "isDue"
  /\ UNCHANGED <<now, inbox, wheel, ready, published, armed, sleep, passTime, arg,
                 wakeVars, regVars>>

\* The loop again, with a fresh clock value.
BackToLoop == idle' = "Running" /\ pc' = "drain" /\ passTime' = now

\* timer.is_due after the store.
TestDue ==
  /\ pc = "isDue"
  /\ \/ published <= now /\ BackToLoop
     \/ published > now /\ pc' = "armLoad" /\ UNCHANGED <<idle, passTime>>
  /\ UNCHANGED <<now, inbox, wheel, ready, published, armed, sleep, arg, wakeVars, regVars>>

\* arm_published_deadline: load, then arm under the mask.
LoadPublished ==
  /\ pc = "armLoad"
  /\ arg' = published
  /\ pc' = "armPark"
  /\ UNCHANGED <<now, inbox, wheel, ready, published, armed, sleep, passTime, idle,
                 wakeVars, regVars>>

ArmForPark ==
  /\ pc = "armPark"
  /\ armed' = Min({armed, arg})
  /\ pc' = "halt"
  /\ UNCHANGED <<now, inbox, wheel, ready, published, sleep, passTime, arg, idle,
                 wakeVars, regVars>>

\* park_current under the mask.
Park ==
  /\ pc = "halt"
  /\ latch' = FALSE
  /\ \/ latch /\ BackToLoop
     \/ ~latch /\ pc' = "halted" /\ UNCHANGED <<idle, passTime>>
  /\ UNCHANGED <<now, inbox, wheel, ready, published, armed, sleep, arg, ipi, regVars>>

\* An interrupt ends the halt.
Unhalt ==
  \/ pc = "halted" /\ BackToLoop
  \/ pc # "halted" /\ UNCHANGED <<idle, pc, passTime>>

TakeIpi ==
  /\ ipi /\ ipi' = FALSE
  /\ Unhalt
  /\ UNCHANGED <<now, inbox, wheel, ready, published, armed, sleep, arg, latch, regVars>>

\* Mutant of TimerInterrupt: re-arms for a pending sleep only.
TimerInterruptTickless ==
  /\ now >= armed
  /\ armed' = IF published > now THEN published ELSE Inf
  /\ Unhalt
  /\ UNCHANGED <<now, inbox, wheel, ready, published, sleep, arg, wakeVars, regVars>>

\* handle_interrupt: re-arm for the next sleep that is not yet due, a tick on,
\* or the idle interval on when Parked is published.
TimerInterrupt ==
  LET interval == IF idle = "Parked" THEN IdleInterval ELSE SchedulerTick
      periodic == Min({now + interval, MaxTime}) IN
  /\ now >= armed
  /\ armed' = IF published > now THEN Min({periodic, published}) ELSE periodic
  /\ Unhalt
  /\ UNCHANGED <<now, inbox, wheel, ready, published, sleep, arg, wakeVars, regVars>>

\* Work for the owner that has nothing to do with its timer.
OtherWake ==
  /\ pc = "halted"
  /\ BackToLoop
  /\ UNCHANGED <<now, inbox, wheel, ready, published, armed, sleep, arg, wakeVars, regVars>>

Tick ==
  /\ now < MaxTime
  /\ now' = now + 1
  /\ UNCHANGED <<loopVars, armed, arg, wakeVars, regVars>>

-----------------------------------------------------------------------------
LoopStep ==
  \/ DrainInbox \/ DrainExpired \/ StorePublished \/ CheckInbox \/ FireReady
  \/ ArmAfterFire \/ StartTasks \/ NextPass \/ PublishParked \/ TestDue \/ LoadPublished
  \/ ArmForPark \/ Park

Next ==
  \/ LoopStep \/ TakeIpi \/ TimerInterrupt \/ OtherWake \/ Tick
  \/ \E a \in Actors :
       RegisterStep(a) \/ \E s \in Sleeps : Enqueue(a, s) \/ Cancel(a, s) \/ PollDue(a, s)

Spec == Init /\ [][Next]_vars

\* The loop runs on, interrupts are delivered, a started registration
\* finishes and time passes.  OtherWake, Enqueue, Cancel and PollDue
\* owe nothing: a task is polled again only once its waker has run.
FairSpec ==
  /\ Spec
  /\ WF_vars(LoopStep) /\ WF_vars(TakeIpi) /\ WF_vars(TimerInterrupt) /\ WF_vars(Tick)
  /\ \A a \in Actors : WF_vars(RegisterStep(a))

-----------------------------------------------------------------------------
TypeOK ==
  /\ now \in 0 .. MaxTime
  /\ inbox \in SUBSET Sleeps /\ wheel \in SUBSET Sleeps /\ ready \in SUBSET Sleeps
  /\ published \in 0 .. Inf /\ armed \in 0 .. Inf - 1 /\ arg \in 0 .. Inf
  /\ passTime \in 0 .. MaxTime
  /\ sleep \in [Sleeps -> {"new", "pending", "fired", "dropped"}]
  /\ pc \in {"drain", "expire", "store", "check", "wake", "arm", "run", "tasks", "isDue",
             "armLoad", "armPark", "halt", "halted"}
  /\ idle \in {"Running", "Parked"} /\ latch \in BOOLEAN /\ ipi \in BOOLEAN
  /\ reg \in [Actors -> {"none", "lower", "arm", "peek", "latch", "ipi"}]
  /\ regSleep \in [Actors -> Sleeps]

\* The sleeps whose registration is past its lowering.
Lowered == {s \in Sleeps : \A a \in Actors : reg[a] = "lower" => regSleep[a] # s}

\* Outside fire_expired's loop, the published deadline is no later than any
\* live registered sleep: the owner's store never buries a concurrent
\* registration's lowering (the pair of fences in enqueue and fire_expired).
PublishedCovers ==
  pc \notin {"drain", "expire", "store", "check"} =>
    \A s \in Live(inbox \cup wheel) \cap Lowered : published <= Deadline[s]

WakeComing ==
  ipi \/ \E a \in Actors : reg[a] \in {"peek", "latch", "ipi"}

\* A halted owner has the published deadline in its comparator, or is about
\* to be woken to put it there.
ArmedBeforeHalt ==
  pc = "halted" /\ published > now => armed <= published \/ WakeComing

\* No deadline slips between the registration that publishes it, the pass that
\* republishes the wheel's minimum and the park that arms it.
DeadlinesCovered == PublishedCovers /\ ArmedBeforeHalt

\* A sleep fires no earlier than its deadline, and is never forgotten: a live
\* sleep is in the inbox, in the wheel or in the hands of the pass.
NotForgotten ==
  \A s \in Sleeps :
    /\ sleep[s] = "fired" => Deadline[s] <= now
    /\ sleep[s] = "pending" => s \in inbox \cup wheel \cup ready

\* Every registered sleep is fired or dropped in the end.
SleepsFire == \A s \in Sleeps : sleep[s] = "pending" ~> sleep[s] # "pending"

\* A deadline is armed by a registration or a pass only to move it earlier;
\* only the timer's own interrupt moves it later.
OnlyInterruptMovesLater == [][armed' > armed => now >= armed]_vars
=============================================================================
