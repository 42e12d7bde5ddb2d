------------------------------ MODULE Executor ------------------------------
(***************************************************************************)
(* The per-processor run loop of the Helios kernel, its ready queues and   *)
(* the idle/park/wake handshake between processors                         *)
(* (kernel/src/exec/executor.rs, kernel/src/exec/idle.rs, the run loop of  *)
(* kernel/src/lib.rs, park_current/wake_processor of the backends).        *)
(*                                                                         *)
(* Every atomic operation two processors can interleave is a step of its   *)
(* own.  A processor's code runs in two contexts, the run loop with the    *)
(* task it polls ("task") and an interrupt handler ("irq"); the handler    *)
(* preempts the other.  Actor p is the task context of processor p, actor  *)
(* Irq(p) = N + p its interrupt context.                                   *)
(***************************************************************************)
EXTENDS Integers, Sequences, FiniteSets

CONSTANTS
  N,            \* configured processors
  Tasks,        \* spawned futures
  NoTask,       \* no runnable
  Home,         \* the ready queue a task's scheduler closure pushes to
  DeviceProcs,  \* processors that device interrupts are steered to
  WakeLatch     \* the backend keeps `wake_pending` (x86, aarch64; not riscv)

Procs == 0 .. N - 1
GlobalQ == N                \* index of the global queue
Queues == 0 .. N
Actors == 0 .. 2 * N - 1
Irq(p) == N + p
ProcessorOf(a) == IF a < N THEN a ELSE a - N    \* current_processor()

ASSUME NAssumption == N \in Nat \ {0}
ASSUME TasksAssumption == IsFiniteSet(Tasks)
ASSUME NoTaskAssumption == NoTask \notin Tasks
ASSUME HomeAssumption == Home \in [Tasks -> Queues]
ASSUME DeviceAssumption == DeviceProcs \subseteq Procs
ASSUME LatchAssumption == WakeLatch \in BOOLEAN

VARIABLES
  queue,   \* queue[q]: the ConcurrentQueue of runnables
  ready,   \* ready[q]: its AtomicUsize ready count
  idle,    \* idle[p]: the published IdleState
  latch,   \* latch[p]: the backend's wake_pending flag
  ipi,     \* ipi[p]: a wake interrupt is pending at p
  pc,      \* pc[p]: where p's run loop is
  stalled, \* stalled[p]: this pass has fired no sleep and run no task
  cur,     \* cur[p]: the runnable p popped last
  src,     \* src[p]: the queue p is popping from, or popped cur[p] from
  task,    \* task[t]: the async_task state of t
  cursor,  \* global_wake_cursor, modulo N
  stage,   \* stage[a]: how far actor a is inside a scheduler closure
  item,    \* item[a]: the runnable that closure is scheduling, while it matters
  victim   \* victim[a]: the processor a is about to wake, else 0

loopVars == <<pc, stalled, cur, src>>
wakeVars == <<latch, ipi>>
opVars == <<stage, item, victim>>
vars == <<queue, ready, idle, latch, ipi, pc, stalled, cur, src, task,
          cursor, stage, item, victim>>

PC == {"fire", "select", "pop1", "pop2", "dec", "run", "idle", "poll",
       "testLocal", "testGlobal", "park", "halted", "resume"}
Stages == {"none", "count", "push", "pushWake", "peek", "latch", "ipi"}

Init ==
  /\ queue = [q \in Queues |-> << >>]
  /\ ready = [q \in Queues |-> 0]
  /\ idle = [p \in Procs |-> "Running"]
  /\ latch = [p \in Procs |-> FALSE]
  /\ ipi = [p \in Procs |-> FALSE]
  /\ pc = [p \in Procs |-> "fire"]
  /\ stalled = [p \in Procs |-> TRUE]
  /\ cur = [p \in Procs |-> NoTask]
  /\ src = [p \in Procs |-> GlobalQ]
  /\ task = [t \in Tasks |-> "idle"]
  /\ cursor = 0
  /\ stage = [a \in Actors |-> "none"]
  /\ item = [a \in Actors |-> NoTask]
  /\ victim = [a \in Actors |-> 0]

-----------------------------------------------------------------------------
(* Scheduling a task: what `Waker::wake` does, and the scheduler closures. *)

\* async_task's wake: an idle task's runnable is handed to its scheduler
\* closure, a running one is marked and rescheduled when its poll returns, a
\* scheduled one is left alone.
Wake(a, t) ==
  \/ /\ task[t] = "idle"
     /\ task' = [task EXCEPT ![t] = "scheduled"]
     /\ stage' = [stage EXCEPT ![a] = "count"]
     /\ item' = [item EXCEPT ![a] = t]
  \/ /\ task[t] = "running"
     /\ task' = [task EXCEPT ![t] = "rewoken"]
     /\ UNCHANGED <<stage, item>>

\* should_wake_global_processor / should_wake_owner_processor with the
\* `current_processor() != owner` test of LocalScheduler.
ShouldWake(a, q, previous) ==
  IF q = GlobalQ THEN previous < N - 1 ELSE previous = 0 /\ ProcessorOf(a) # q

\* A context runs only while no interrupt handler preempts it.
Enabled(a) == a \in Procs => stage[Irq(a)] = "none"

\* push_ready: the count goes up before the runnable is visible.
Count(a) ==
  LET q == Home[item[a]] IN
  /\ Enabled(a)
  /\ stage[a] = "count"
  /\ ready' = [ready EXCEPT ![q] = ready[q] + 1]
  /\ stage' = [stage EXCEPT ![a] =
                 IF ShouldWake(a, q, ready[q]) THEN "pushWake" ELSE "push"]
  /\ UNCHANGED <<queue, idle, wakeVars, loopVars, task, cursor, item, victim>>

Push(a) ==
  LET q == Home[item[a]] IN
  /\ Enabled(a)
  /\ stage[a] \in {"push", "pushWake"}
  /\ queue' = [queue EXCEPT ![q] = Append(queue[q], item[a])]
  /\ stage' = [stage EXCEPT ![a] =
                 IF stage[a] = "pushWake" THEN "peek" ELSE "none"]
  /\ item' = [item EXCEPT ![a] =
                IF stage[a] = "pushWake" THEN item[a] ELSE NoTask]
  /\ UNCHANGED <<ready, idle, wakeVars, loopVars, task, cursor, victim>>

\* Mutant of RemoteVictim: the loop does not skip the current processor.
RemoteVictimSelf(current) == cursor

\* The processor wake_one_remote_processor's loop stops at: the first one from
\* the cursor on that is not the current one.
RemoteVictim(current) ==
  IF cursor = current THEN (cursor + 1) % N ELSE cursor

\* The tail of both schedulers: choose the processor, read its idle state.
Peek(a) ==
  LET q == Home[item[a]]
      v == IF q = GlobalQ THEN RemoteVictim(ProcessorOf(a)) ELSE q IN
  /\ Enabled(a)
  /\ stage[a] = "peek"
  /\ cursor' = IF q = GlobalQ THEN (cursor + 1) % N ELSE cursor
  /\ stage' = [stage EXCEPT ![a] = IF idle[v] = "Parked" THEN "latch" ELSE "none"]
  /\ victim' = [victim EXCEPT ![a] = IF idle[v] = "Parked" THEN v ELSE 0]
  /\ item' = [item EXCEPT ![a] = NoTask]
  /\ UNCHANGED <<queue, ready, idle, wakeVars, loopVars, task>>

\* wake_processor: publish the latch, then send the interrupt.
PublishWake(a) ==
  /\ Enabled(a)
  /\ stage[a] = "latch"
  /\ latch' = [latch EXCEPT ![victim[a]] = WakeLatch]
  /\ stage' = [stage EXCEPT ![a] = "ipi"]
  /\ UNCHANGED <<queue, ready, idle, ipi, loopVars, task, cursor, item, victim>>

SendIpi(a) ==
  /\ Enabled(a)
  /\ stage[a] = "ipi"
  /\ ipi' = [ipi EXCEPT ![victim[a]] = TRUE]
  /\ stage' = [stage EXCEPT ![a] = "none"]
  /\ victim' = [victim EXCEPT ![a] = 0]
  /\ UNCHANGED <<queue, ready, idle, latch, loopVars, task, cursor, item>>

SchedulerStep(a) ==
  Count(a) \/ Push(a) \/ Peek(a) \/ PublishWake(a) \/ SendIpi(a)

-----------------------------------------------------------------------------
(* The run loop of one processor.                                          *)

\* The loop itself moves only between scheduler closures and handlers.
AtLoop(p, where) ==
  /\ pc[p] = where
  /\ stage[p] = "none" /\ stage[Irq(p)] = "none"

GoTo(p, where) == pc' = [pc EXCEPT ![p] = where]

\* Timer::fire_expired wakes the task of a due sleep.
FireSleep(p, t) ==
  /\ AtLoop(p, "fire")
  /\ Wake(p, t)
  /\ stalled' = [stalled EXCEPT ![p] = FALSE]
  /\ UNCHANGED <<queue, ready, idle, wakeVars, pc, cur, src, cursor, victim>>

FireDone(p) ==
  /\ AtLoop(p, "fire")
  /\ GoTo(p, "select")
  /\ UNCHANGED <<queue, ready, idle, wakeVars, stalled, cur, src, task, cursor,
                 opVars>>

\* Local work first when the local count is not zero, else global first.
Select(p) ==
  /\ AtLoop(p, "select")
  /\ src' = [src EXCEPT ![p] = IF ready[p] # 0 THEN p ELSE GlobalQ]
  /\ GoTo(p, "pop1")
  /\ UNCHANGED <<queue, ready, idle, wakeVars, stalled, cur, task, cursor, opVars>>

OtherSource(p) == IF src[p] = p THEN GlobalQ ELSE p

PopReady(p) ==
  /\ pc[p] \in {"pop1", "pop2"}
  /\ AtLoop(p, pc[p])
  /\ queue[src[p]] # << >>
  /\ cur' = [cur EXCEPT ![p] = Head(queue[src[p]])]
  /\ queue' = [queue EXCEPT ![src[p]] = Tail(queue[src[p]])]
  /\ GoTo(p, "dec")
  /\ UNCHANGED <<ready, idle, wakeVars, stalled, src, task, cursor, opVars>>

\* An empty first source: pop_ready_source tries the second.
PopEmpty1(p) ==
  /\ AtLoop(p, "pop1")
  /\ queue[src[p]] = << >>
  /\ src' = [src EXCEPT ![p] = OtherSource(p)]
  /\ GoTo(p, "pop2")
  /\ UNCHANGED <<queue, ready, idle, wakeVars, stalled, cur, task, cursor, opVars>>

\* Both empty: another pass if this one did something, else the idle path.
PopEmpty2(p) ==
  /\ AtLoop(p, "pop2")
  /\ queue[src[p]] = << >>
  /\ GoTo(p, IF stalled[p] THEN "idle" ELSE "fire")
  /\ stalled' = [stalled EXCEPT ![p] = TRUE]
  /\ UNCHANGED <<queue, ready, idle, wakeVars, cur, src, task, cursor, opVars>>

\* Mutant of Decrement: the local count is decremented for a global pop too.
DecrementLocal(p) ==
  /\ AtLoop(p, "dec")
  /\ ready' = [ready EXCEPT ![p] = ready[p] - 1]
  /\ task' = [task EXCEPT ![cur[p]] = "running"]
  /\ stalled' = [stalled EXCEPT ![p] = FALSE]
  /\ GoTo(p, "run")
  /\ UNCHANGED <<queue, idle, wakeVars, cur, src, cursor, opVars>>

\* The second half of pop_ready, then Runnable::run starts the poll.
Decrement(p) ==
  /\ AtLoop(p, "dec")
  /\ ready' = [ready EXCEPT ![src[p]] = ready[src[p]] - 1]
  /\ task' = [task EXCEPT ![cur[p]] = "running"]
  /\ stalled' = [stalled EXCEPT ![p] = FALSE]
  /\ GoTo(p, "run")
  /\ UNCHANGED <<queue, idle, wakeVars, cur, src, cursor, opVars>>

\* The polled future wakes (or spawns) a task.
TaskWakes(p, t) ==
  /\ AtLoop(p, "run")
  /\ Wake(p, t)
  /\ UNCHANGED <<queue, ready, idle, wakeVars, loopVars, cursor, victim>>

\* The poll returns.  A future woken during its own poll is rescheduled by
\* Runnable::run, here, on the processor that ran it.  The batch limit ends a
\* pass early: the loop goes back to the timer instead of the queues.
TaskReturns(p) ==
  LET t == cur[p] IN
  /\ AtLoop(p, "run")
  /\ \E where \in {"select", "fire"} : GoTo(p, where)
  /\ cur' = [cur EXCEPT ![p] = NoTask]
  /\ \/ /\ task[t] = "running"
        /\ task' = [task EXCEPT ![t] = "idle"]
        /\ UNCHANGED <<stage, item>>
     \/ /\ task[t] = "rewoken"
        /\ task' = [task EXCEPT ![t] = "scheduled"]
        /\ stage' = [stage EXCEPT ![p] = "count"]
        /\ item' = [item EXCEPT ![p] = t]
  /\ UNCHANGED <<queue, ready, idle, wakeVars, stalled, src, cursor, victim>>

-----------------------------------------------------------------------------
(* park_until_work and the backend's park_current.                         *)

Publish(p, state, where) ==
  /\ idle' = [idle EXCEPT ![p] = state]
  /\ GoTo(p, where)
  /\ UNCHANGED <<queue, ready, wakeVars, stalled, cur, src, task, cursor, opVars>>

StartPolling(p) == AtLoop(p, "idle") /\ Publish(p, "Polling", "poll")

\* The adaptive window saw a ready count.
PollHit(p) ==
  /\ AtLoop(p, "poll")
  /\ ready[p] # 0 \/ ready[GlobalQ] # 0
  /\ Publish(p, "Running", "fire")

\* The window expired (or is zero).
PublishParked(p) == AtLoop(p, "poll") /\ Publish(p, "Parked", "testLocal")

\* has_ready_work after the store: the local count, then the global one.
Retest(p, here, q, next) ==
  /\ AtLoop(p, here)
  /\ \/ ready[q] # 0 /\ Publish(p, "Running", "fire")
     \/ ready[q] = 0 /\ Publish(p, "Parked", next)

\* Mutants: Parked is published without testing the count again.
SkipRetestLocal(p) == AtLoop(p, "testLocal") /\ Publish(p, "Parked", "testGlobal")
SkipRetestGlobal(p) == AtLoop(p, "testGlobal") /\ Publish(p, "Parked", "park")

RetestLocal(p) == Retest(p, "testLocal", p, "testGlobal")
RetestGlobal(p) == Retest(p, "testGlobal", GlobalQ, "park")

\* timer.is_due in the poll window and after the retest.
TimerDue(p) ==
  /\ AtLoop(p, "poll") \/ AtLoop(p, "park")
  /\ Publish(p, "Running", "fire")

\* park_current: under masked interrupts, take the latch or halt.
Park(p) ==
  /\ AtLoop(p, "park")
  /\ GoTo(p, IF latch[p] THEN "resume" ELSE "halted")
  /\ latch' = [latch EXCEPT ![p] = FALSE]
  /\ UNCHANGED <<queue, ready, idle, ipi, stalled, cur, src, task, cursor, opVars>>

Resume(p) == AtLoop(p, "resume") /\ Publish(p, "Running", "fire")

-----------------------------------------------------------------------------
(* Interrupts.  Any interrupt ends a halt once its handler returns.        *)

Unhalt(p) ==
  pc' = [pc EXCEPT ![p] = IF pc[p] = "halted" THEN "resume" ELSE pc[p]]

TakeIpi(p) ==
  /\ stage[Irq(p)] = "none"
  /\ ipi[p]
  /\ ipi' = [ipi EXCEPT ![p] = FALSE]
  /\ Unhalt(p)
  /\ UNCHANGED <<queue, ready, idle, latch, stalled, cur, src, task, cursor, opVars>>

\* The timer interrupt wakes no task: handle_interrupt leaves the due sleeps
\* to the event loop.  All it does here is end a halt.
TimerInterrupt(p) ==
  /\ stage[Irq(p)] = "none"
  /\ pc[p] = "halted"
  /\ Unhalt(p)
  /\ UNCHANGED <<queue, ready, idle, wakeVars, stalled, cur, src, task, cursor, opVars>>

\* A device handler raises the signal some task waits on.
DeviceInterrupt(p, t) ==
  /\ p \in DeviceProcs
  /\ stage[Irq(p)] = "none"
  /\ Wake(Irq(p), t)
  /\ Unhalt(p)
  /\ UNCHANGED <<queue, ready, idle, wakeVars, stalled, cur, src, cursor, victim>>

-----------------------------------------------------------------------------
\* The steps of the loop that do not depend on what a future or the clock does.
LoopStep(p) ==
  \/ FireDone(p) \/ Select(p) \/ PopReady(p) \/ PopEmpty1(p) \/ PopEmpty2(p)
  \/ Decrement(p) \/ TaskReturns(p)
  \/ StartPolling(p) \/ PollHit(p) \/ PublishParked(p)
  \/ RetestLocal(p) \/ RetestGlobal(p) \/ Park(p) \/ Resume(p)

Next ==
  \/ \E a \in Actors : SchedulerStep(a)
  \/ \E p \in Procs :
       \/ LoopStep(p) \/ TimerDue(p) \/ TakeIpi(p) \/ TimerInterrupt(p)
       \/ \E t \in Tasks : FireSleep(p, t) \/ TaskWakes(p, t) \/ DeviceInterrupt(p, t)

Spec == Init /\ [][Next]_vars

\* A processor keeps executing its loop (a poll returns: guests are preempted
\* at GUEST_TIME_SLICE, kernel futures are cooperative; fire_expired fires
\* finitely many sleeps), a closure that has started runs on, and a pending
\* interrupt is taken.  Nothing is assumed of the timer or of devices.
Fairness ==
  /\ \A p \in Procs : SF_vars(LoopStep(p)) /\ WF_vars(TakeIpi(p))
  /\ \A a \in Actors : WF_vars(SchedulerStep(a))

FairSpec == Spec /\ Fairness

-----------------------------------------------------------------------------
(* Properties.                                                             *)

TypeOK ==
  /\ queue \in [Queues -> Seq(Tasks)]
  /\ ready \in [Queues -> Int]
  /\ idle \in [Procs -> {"Running", "Polling", "Parked"}]
  /\ latch \in [Procs -> BOOLEAN]
  /\ ipi \in [Procs -> BOOLEAN]
  /\ pc \in [Procs -> PC]
  /\ stalled \in [Procs -> BOOLEAN]
  /\ cur \in [Procs -> Tasks \cup {NoTask}]
  /\ src \in [Procs -> Queues]
  /\ task \in [Tasks -> {"idle", "scheduled", "running", "rewoken"}]
  /\ cursor \in Procs
  /\ stage \in [Actors -> Stages]
  /\ item \in [Actors -> Tasks \cup {NoTask}]
  /\ victim \in [Actors -> Procs]

\* The runnables an actor has counted and not yet queued.
Counted(q) == {a \in Actors : stage[a] \in {"push", "pushWake"} /\ Home[item[a]] = q}
\* The processors that popped from q and have not yet decremented.
Uncounted(q) == {p \in Procs : pc[p] = "dec" /\ src[p] = q}

\* The ready count is the queue's length plus the pushes counted ahead of
\* their runnable plus the pops not yet subtracted: it never understates the
\* queue, which the park retest relies on, and pop_ready's "ready count
\* underflowed" assertion never fires.
ReadyCountExact ==
  \A q \in Queues :
    ready[q] = Len(queue[q]) + Cardinality(Counted(q)) + Cardinality(Uncounted(q))

\* The places that hold the runnable of t.
HoldersOf(t) ==
  [queued |-> {x \in Queues \X (1 .. Cardinality(Tasks)) :
                 x[2] <= Len(queue[x[1]]) /\ queue[x[1]][x[2]] = t},
   pushing |-> {a \in Actors : stage[a] \in {"count", "push", "pushWake"} /\ item[a] = t},
   popped |-> {p \in Procs : pc[p] \in {"dec", "run"} /\ cur[p] = t}]

\* A task that is scheduled or running has exactly one runnable, an idle one
\* none, and a processor-local task's runnable is only ever popped by its home
\* processor: the safety comment of spawn_unchecked rests on it.
OneRunnablePerTask ==
  \A t \in Tasks :
    LET h == HoldersOf(t) IN
    /\ Cardinality(h.queued) + Cardinality(h.pushing) + Cardinality(h.popped)
         = (IF task[t] = "idle" THEN 0 ELSE 1)
    /\ \A p \in h.popped : Home[t] \in {p, GlobalQ}

\* Every runnable is accounted for: queued once, counted once, in one place.
RunnablesAccounted == ReadyCountExact /\ OneRunnablePerTask

\* Why they are, as an inductive invariant: a runnable is handed from closure
\* to queue to processor, each of which holds it alone while the task's state
\* says so.
Pushing(a) == stage[a] \in {"count", "push", "pushWake"}
Popped(p) == pc[p] \in {"dec", "run"}
IsQueued(t) == \E i \in 1 .. Len(queue[Home[t]]) : queue[Home[t]][i] = t

QueuedOnce ==
  \A q \in Queues : \A i \in 1 .. Len(queue[q]) :
    /\ Home[queue[q][i]] = q /\ task[queue[q][i]] = "scheduled"
    /\ \A j \in 1 .. Len(queue[q]) : queue[q][i] = queue[q][j] => i = j

PushingAlone ==
  \A a \in Actors : Pushing(a) =>
    /\ task[item[a]] = "scheduled" /\ ~IsQueued(item[a])
    /\ \A b \in Actors : Pushing(b) /\ item[b] = item[a] => b = a

PoppedAlone ==
  \A p \in Procs : Popped(p) =>
    /\ task[cur[p]] \in (IF pc[p] = "dec" THEN {"scheduled"} ELSE {"running", "rewoken"})
    /\ Home[cur[p]] = src[p] /\ ~IsQueued(cur[p])
    /\ \A a \in Actors : Pushing(a) => item[a] # cur[p]
    /\ \A r \in Procs : Popped(r) /\ cur[r] = cur[p] => r = p

NoneMissing ==
  \A t \in Tasks : task[t] # "idle" =>
    \/ IsQueued(t)
    \/ \E a \in Actors : Pushing(a) /\ item[a] = t
    \/ \E p \in Procs : Popped(p) /\ cur[p] = t

HolderInv == QueuedOnce /\ PushingAlone /\ PoppedAlone /\ NoneMissing

\* Someone is on the way to wake p: a scheduler that counted work for queue q
\* and will look at an idle state, one that has seen p parked, or an interrupt.
WakeComing(p, q) ==
  \/ ipi[p]
  \/ \E a \in Actors :
       \/ stage[a] \in {"pushWake", "peek"} /\ Home[item[a]] = q
       \/ stage[a] \in {"latch", "ipi"} /\ victim[a] = p

LocalWakeComing(p) == pc[p] = "halted" /\ ready[p] # 0 => WakeComing(p, p)

\* No processor that takes no device interrupts stays halted on work of its
\* own queue without a wake under way.
NoLocalWakeIsLost == \A p \in Procs \ DeviceProcs : LocalWakeComing(p)

\* The claim of idle.rs, for every processor: "No wake is lost."
NoWakeIsLost == \A p \in Procs : LocalWakeComing(p)

\* When every processor is halted, global work has a wake under way.
NoGlobalWakeIsLost ==
  (ready[GlobalQ] # 0 /\ \A p \in Procs : pc[p] = "halted")
    => \E p \in Procs : WakeComing(p, GlobalQ)

\* Why no wake is lost, as an inductive invariant.  A processor past its local
\* retest has published Parked; work counted after that retest is answered by
\* the latch or by a scheduler that is still going to look at its idle state;
\* a latch set under a halted processor is followed by its interrupt; and with
\* global work outstanding, some processor has yet to look at the global count.
Committed(p) == pc[p] \in {"testGlobal", "park", "halted"}

LoopQuiet ==
  /\ \A p \in Procs : stage[p] # "none" => pc[p] \in {"fire", "select", "run"}
  /\ \A p \in Procs \ DeviceProcs : stage[Irq(p)] = "none"

PublishedParked ==
  \A p \in Procs : Committed(p) \/ pc[p] = "testLocal" => idle[p] = "Parked"

LocalRescue ==
  \A p \in Procs \ DeviceProcs :
    Committed(p) /\ ready[p] # 0 =>
      \/ latch[p]
      \/ \E a \in Actors :
           \/ stage[a] \in {"pushWake", "peek"} /\ Home[item[a]] = p
           \/ stage[a] = "latch" /\ victim[a] = p

HaltRescue ==
  \A p \in Procs :
    pc[p] = "halted" /\ latch[p] =>
      ipi[p] \/ \E a \in Actors : stage[a] = "ipi" /\ victim[a] = p

GlobalRescue ==
  ready[GlobalQ] # 0 =>
    \/ \E p \in Procs : pc[p] \notin {"park", "halted"} \/ latch[p]
    \/ \E a \in Actors :
         \/ stage[a] \in {"pushWake", "peek"} /\ Home[item[a]] = GlobalQ
         \/ stage[a] = "latch"

WakeInv == LoopQuiet /\ PublishedParked /\ LocalRescue /\ HaltRescue /\ GlobalRescue

\* Every scheduled task, local or global, is eventually polled, by the wake
\* protocol alone, without the help of the periodic timer interrupt.
ScheduledTasksRun ==
  \A t \in Tasks : task[t] = "scheduled" ~> task[t] = "running"
=============================================================================
