--------------------------- MODULE ExecutorProofs ---------------------------
(***************************************************************************)
(* Proofs about Executor for every number of processors, every set of      *)
(* tasks and every assignment of tasks to queues; and, in the second half, *)
(* about TaskArena for every set of futures, every number of classes and   *)
(* every share and reserve.                                                *)
(***************************************************************************)
EXTENDS Executor, TaskArena, FiniteSetTheorems, NaturalsInduction, WellFoundedInduction, TLAPS

-----------------------------------------------------------------------------
(* Typing, and what the run loop and the scheduler closures hold.           *)

Held ==
  /\ \A a \in Actors : stage[a] \in {"count", "push", "pushWake", "peek"} => item[a] \in Tasks
  /\ \A p \in Procs : pc[p] \in {"dec", "run"} => cur[p] \in Tasks
  /\ \A p \in Procs : src[p] \in {p, GlobalQ}

TypeInv == TypeOK /\ Held

USE DEF PC, Stages, loopVars, wakeVars, opVars

\* The index ranges: processors, queues and actors.
LEMMA Ranges ==
  /\ Procs \subseteq Queues /\ GlobalQ \in Queues /\ GlobalQ \notin Procs
  /\ Queues = Procs \cup {GlobalQ}
  /\ 0 \in Procs
  /\ \A p \in Procs : p \in Actors /\ Irq(p) \in Actors /\ Irq(p) \notin Procs
  /\ \A a \in Actors : ProcessorOf(a) \in Procs
  /\ \A a \in Actors : a = ProcessorOf(a) \/ a = Irq(ProcessorOf(a))
  BY NAssumption DEF Procs, Queues, GlobalQ, Actors, Irq, ProcessorOf

LEMMA IrqInjective == \A p, r \in Procs : Irq(p) = Irq(r) => p = r
  BY NAssumption DEF Procs, Irq

\* The victim wake_one_remote_processor picks is a processor.
LEMMA VictimType ==
  ASSUME NEW current \in Procs, cursor \in Procs
  PROVE  RemoteVictim(current) \in Procs /\ (cursor + 1) % N \in Procs
  BY NAssumption DEF RemoteVictim, Procs

LEMMA InitType == Init => TypeInv
  BY Ranges DEF Init, TypeInv, TypeOK, Held

\* Every step of a scheduler closure keeps the types.
LEMMA SchedulerType ==
  ASSUME TypeInv, NEW a \in Actors, SchedulerStep(a)
  PROVE  TypeInv'
<1> USE Ranges, HomeAssumption, NoTaskAssumption, LatchAssumption
<1>1. CASE Count(a)
  BY <1>1 DEF Count, ShouldWake, TypeInv, TypeOK, Held
<1>2. CASE Push(a)
  <2>1. queue' \in [Queues -> Seq(Tasks)]
    BY <1>2 DEF Push, TypeInv, TypeOK, Held
  <2> QED BY <1>2, <2>1 DEF Push, TypeInv, TypeOK, Held
<1>3. CASE Peek(a)
  <2>1. RemoteVictim(ProcessorOf(a)) \in Procs /\ (cursor + 1) % N \in Procs
    BY VictimType DEF TypeInv, TypeOK
  <2> QED BY <1>3, <2>1 DEF Peek, TypeInv, TypeOK, Held
<1>4. CASE PublishWake(a)
  BY <1>4 DEF PublishWake, TypeInv, TypeOK, Held
<1>5. CASE SendIpi(a)
  BY <1>5 DEF SendIpi, TypeInv, TypeOK, Held
<1> QED BY <1>1, <1>2, <1>3, <1>4, <1>5 DEF SchedulerStep

\* So does a store to the idle state, whatever it publishes.
LEMMA PublishType ==
  ASSUME TypeInv, NEW p \in Procs,
         NEW state \in {"Running", "Polling", "Parked"},
         NEW where \in {"fire", "poll", "testLocal", "testGlobal", "park"},
         Publish(p, state, where)
  PROVE  TypeInv'
  BY Ranges DEF Publish, GoTo, TypeInv, TypeOK, Held

LEMMA LoopType ==
  ASSUME TypeInv, NEW p \in Procs, LoopStep(p) \/ TimerDue(p)
  PROVE  TypeInv'
<1> USE Ranges, HomeAssumption, NoTaskAssumption DEF GoTo, AtLoop
<1>1. CASE FireDone(p)      BY <1>1 DEF FireDone, TypeInv, TypeOK, Held
<1>2. CASE Select(p)        BY <1>2 DEF Select, TypeInv, TypeOK, Held
<1>3. CASE PopReady(p)
  <2>1. /\ queue[src[p]] \in Seq(Tasks) /\ src[p] \in Queues
        /\ Head(queue[src[p]]) \in Tasks
        /\ Tail(queue[src[p]]) \in Seq(Tasks)
    BY <1>3 DEF PopReady, TypeInv, TypeOK, Held
  <2> QED BY <1>3, <2>1 DEF PopReady, TypeInv, TypeOK, Held
<1>4. CASE PopEmpty1(p)     BY <1>4 DEF PopEmpty1, OtherSource, TypeInv, TypeOK, Held
<1>5. CASE PopEmpty2(p)     BY <1>5 DEF PopEmpty2, TypeInv, TypeOK, Held
<1>6. CASE Decrement(p)
  <2>1. ready' \in [Queues -> Int]
    BY <1>6 DEF Decrement, TypeInv, TypeOK
  <2>2. task' \in [Tasks -> {"idle", "scheduled", "running", "rewoken"}]
    BY <1>6 DEF Decrement, TypeInv, TypeOK
  <2> QED BY <1>6, <2>1, <2>2 DEF Decrement, TypeInv, TypeOK, Held
<1>7. CASE TaskReturns(p)
  <2>1. cur[p] \in Tasks
    BY <1>7 DEF TaskReturns, TypeInv, TypeOK, Held
  <2>2. PICK where \in {"select", "fire"} : GoTo(p, where)
    BY <1>7 DEF TaskReturns
  <2>3. /\ task' \in [Tasks -> {"idle", "scheduled", "running", "rewoken"}]
        /\ stage' \in [Actors -> Stages]
        /\ item' \in [Actors -> Tasks \cup {NoTask}]
        /\ \A b \in Actors :
             stage'[b] \in {"count", "push", "pushWake", "peek"} => item'[b] \in Tasks
    <3>1. CASE task[cur[p]] = "running"
      BY <1>7, <2>1, <3>1 DEF TaskReturns, TypeInv, TypeOK, Held
    <3>2. CASE task[cur[p]] = "rewoken"
      <4>1. /\ task' = [task EXCEPT ![cur[p]] = "scheduled"]
            /\ stage' = [stage EXCEPT ![p] = "count"]
            /\ item' = [item EXCEPT ![p] = cur[p]]
        BY <1>7, <3>2 DEF TaskReturns
      <4> QED BY <2>1, <4>1 DEF TypeInv, TypeOK, Held
    <3> QED BY <1>7, <3>1, <3>2 DEF TaskReturns
  <2>4. /\ pc' \in [Procs -> PC] /\ cur' \in [Procs -> Tasks \cup {NoTask}]
        /\ \A r \in Procs : pc'[r] \in {"dec", "run"} => cur'[r] \in Tasks
    BY <1>7, <2>2 DEF TaskReturns, TypeInv, TypeOK, Held
  <2> QED BY <1>7, <2>3, <2>4 DEF TaskReturns, TypeInv, TypeOK, Held
<1>8. CASE StartPolling(p)  BY <1>8, PublishType DEF StartPolling
<1>9. CASE PollHit(p)       BY <1>9, PublishType DEF PollHit
<1>10. CASE PublishParked(p) BY <1>10, PublishType DEF PublishParked
<1>11. CASE RetestLocal(p)  BY <1>11, PublishType DEF RetestLocal, Retest
<1>12. CASE RetestGlobal(p) BY <1>12, PublishType DEF RetestGlobal, Retest
<1>13. CASE Park(p)         BY <1>13 DEF Park, TypeInv, TypeOK, Held
<1>14. CASE Resume(p)       BY <1>14, PublishType DEF Resume
<1>15. CASE TimerDue(p)     BY <1>15, PublishType DEF TimerDue
<1> QED
  BY <1>1, <1>2, <1>3, <1>4, <1>5, <1>6, <1>7, <1>8, <1>9, <1>10, <1>11, <1>12,
     <1>13, <1>14, <1>15 DEF LoopStep

\* Waker::wake keeps the types of what it touches.
LEMMA WakeType ==
  ASSUME TypeInv, NEW a \in Actors, NEW t \in Tasks, Wake(a, t)
  PROVE  /\ task' \in [Tasks -> {"idle", "scheduled", "running", "rewoken"}]
         /\ stage' \in [Actors -> Stages]
         /\ item' \in [Actors -> Tasks \cup {NoTask}]
         /\ \A b \in Actors :
              stage'[b] \in {"count", "push", "pushWake", "peek"} => item'[b] \in Tasks
<1>1. CASE task[t] = "idle"
  <2>1. /\ task' = [task EXCEPT ![t] = "scheduled"]
        /\ stage' = [stage EXCEPT ![a] = "count"]
        /\ item' = [item EXCEPT ![a] = t]
    BY <1>1 DEF Wake
  <2> QED BY <2>1 DEF TypeInv, TypeOK, Held
<1>2. CASE task[t] = "running"
  BY <1>2 DEF Wake, TypeInv, TypeOK, Held
<1> QED BY <1>1, <1>2 DEF Wake

LEMMA WakerType ==
  ASSUME TypeInv, NEW p \in Procs, NEW t \in Tasks,
         FireSleep(p, t) \/ TaskWakes(p, t) \/ DeviceInterrupt(p, t)
  PROVE  TypeInv'
<1>1. CASE FireSleep(p, t)
  BY <1>1, Ranges, WakeType DEF FireSleep, TypeInv, TypeOK, Held
<1>2. CASE TaskWakes(p, t)
  BY <1>2, Ranges, WakeType DEF TaskWakes, TypeInv, TypeOK, Held
<1>3. CASE DeviceInterrupt(p, t)
  <2>1. pc' \in [Procs -> PC] /\ \A r \in Procs : pc'[r] \in {"dec", "run"} => cur'[r] \in Tasks
    BY <1>3 DEF DeviceInterrupt, Unhalt, TypeInv, TypeOK, Held
  <2> QED BY <1>3, <2>1, Ranges, WakeType DEF DeviceInterrupt, TypeInv, TypeOK, Held
<1> QED BY <1>1, <1>2, <1>3

LEMMA InterruptType ==
  ASSUME TypeInv, NEW p \in Procs, TakeIpi(p) \/ TimerInterrupt(p)
  PROVE  TypeInv'
  BY DEF TakeIpi, TimerInterrupt, Unhalt, TypeInv, TypeOK, Held

LEMMA NextType == TypeInv /\ [Next]_vars => TypeInv'
<1> SUFFICES ASSUME TypeInv, [Next]_vars PROVE TypeInv'
  OBVIOUS
<1>1. CASE UNCHANGED vars
  BY <1>1 DEF vars, TypeInv, TypeOK, Held
<1>2. CASE Next
  BY <1>2, SchedulerType, LoopType, WakerType, InterruptType DEF Next
<1> QED BY <1>1, <1>2

\* Type correctness of the executor's shared and per-processor state, for any
\* machine.
THEOREM TypeCorrect == Spec => []TypeOK
<1>1. Spec => []TypeInv
  BY InitType, NextType, PTL DEF Spec
<1>2. TypeInv => TypeOK
  BY DEF TypeInv
<1> QED BY <1>1, <1>2, PTL
-----------------------------------------------------------------------------
(* No wake is lost.                                                        *)

LEMMA InitWake == Init => WakeInv
  BY Ranges, DeviceAssumption
     DEF Init, WakeInv, LoopQuiet, PublishedParked, Committed, LocalRescue,
         HaltRescue, GlobalRescue

\* A step of p's own loop that leaves the counts and the closures alone: what
\* it owes the handshake for the place it goes to.
LEMMA OwnStep ==
  ASSUME TypeInv, WakeInv, NEW p \in Procs, NEW where \in PC,
         stage[p] = "none", pc' = [pc EXCEPT ![p] = where],
         \A r \in Procs : r # p => idle'[r] = idle[r] /\ latch'[r] = latch[r],
         UNCHANGED <<ready, ipi, stage, item, victim>>,
         where \in {"testLocal", "testGlobal", "park", "halted"} => idle'[p] = "Parked",
         where \in {"testGlobal", "park", "halted"} =>
           ready[p] = 0 \/ (Committed(p) /\ latch'[p] = latch[p]),
         where = "halted" => ~latch'[p],
         where \in {"park", "halted"} =>
           ready[GlobalQ] = 0 \/ (pc[p] \in {"park", "halted"} /\ latch'[p] = latch[p])
  PROVE  WakeInv'
<1> USE Ranges, DeviceAssumption DEF TypeInv, TypeOK, WakeInv, Committed
<1>1. LoopQuiet'        BY DEF LoopQuiet
<1>2. PublishedParked'  BY DEF PublishedParked
<1>3. LocalRescue'      BY DEF LocalRescue
<1>4. HaltRescue'       BY DEF HaltRescue
<1>5. GlobalRescue'
  <2>1. CASE where \notin {"park", "halted"}
    <3>1. pc'[p] \notin {"park", "halted"}
      BY <2>1
    <3> QED BY <3>1 DEF GlobalRescue
  <2>2. CASE where \in {"park", "halted"} /\ ready[GlobalQ] = 0
    BY <2>2 DEF GlobalRescue
  <2>3. CASE pc[p] \in {"park", "halted"} /\ latch'[p] = latch[p]
    <3>1. \A r \in Procs : pc[r] \notin {"park", "halted"} \/ latch[r]
                           => pc'[r] \notin {"park", "halted"} \/ latch'[r]
      BY <2>3
    <3> QED BY <3>1 DEF GlobalRescue
  <2> QED BY <2>1, <2>2, <2>3
<1> QED BY <1>1, <1>2, <1>3, <1>4, <1>5

LEMMA LoopWake ==
  ASSUME TypeInv, WakeInv, NEW p \in Procs, LoopStep(p) \/ TimerDue(p)
  PROVE  WakeInv'
<1> USE Ranges, DeviceAssumption DEF AtLoop, GoTo
<1>1. CASE FireDone(p)      BY <1>1, OwnStep DEF FireDone
<1>2. CASE Select(p)        BY <1>2, OwnStep DEF Select
<1>3. CASE PopReady(p)      BY <1>3, OwnStep DEF PopReady
<1>4. CASE PopEmpty1(p)     BY <1>4, OwnStep DEF PopEmpty1
<1>5. CASE PopEmpty2(p)
  <2>1. CASE stalled[p]  BY <1>5, <2>1, OwnStep DEF PopEmpty2
  <2>2. CASE ~stalled[p] BY <1>5, <2>2, OwnStep DEF PopEmpty2
  <2> QED BY <2>1, <2>2
<1>6. CASE Decrement(p)
  \* Only the owner pops a local queue, and it is not parked while it does.
  <2>1. \A r \in Procs : r # p => ready'[r] = ready[r]
    BY <1>6 DEF Decrement, TypeInv, TypeOK, Held
  <2>2. /\ pc' = [pc EXCEPT ![p] = "run"] /\ pc \in [Procs -> PC]
        /\ stage[p] = "none"
        /\ UNCHANGED <<idle, latch, ipi, stage, item, victim>>
    BY <1>6 DEF Decrement, TypeInv, TypeOK
  <2>3. LoopQuiet' /\ PublishedParked' /\ HaltRescue'
    BY <2>2 DEF WakeInv, Committed, LoopQuiet, PublishedParked, HaltRescue
  <2>4. LocalRescue'
    BY <2>1, <2>2 DEF WakeInv, Committed, LocalRescue
  <2>5. GlobalRescue'
    BY <2>2 DEF GlobalRescue
  <2> QED BY <2>3, <2>4, <2>5 DEF WakeInv
<1>7. CASE TaskReturns(p)
  <2>1. PICK where \in {"select", "fire"} : GoTo(p, where)
    BY <1>7 DEF TaskReturns
  <2>2. \A a \in Actors : a # p => stage'[a] = stage[a] /\ item'[a] = item[a]
    BY <1>7 DEF TaskReturns, TypeInv, TypeOK
  <2>3. stage[p] = "none" /\ pc[p] = "run"
    BY <1>7 DEF TaskReturns
  <2>4. UNCHANGED <<ready, idle, latch, ipi, victim>>
    BY <1>7 DEF TaskReturns
  <2>a. /\ pc'[p] \in {"select", "fire"}
        /\ \A r \in Procs : r # p => pc'[r] = pc[r]
    BY <2>1 DEF TypeInv, TypeOK
  <2> HIDE <1>7
  <2> USE <2>2, <2>3, <2>4, <2>a DEF WakeInv, Committed
  <2>5. LoopQuiet'       BY DEF LoopQuiet
  <2>6. PublishedParked' BY DEF PublishedParked
  <2>7. LocalRescue'     BY DEF LocalRescue
  <2>8. HaltRescue'      BY DEF HaltRescue
  <2>9. GlobalRescue'    BY DEF GlobalRescue
  <2> QED BY <2>5, <2>6, <2>7, <2>8, <2>9
<1>8. CASE StartPolling(p)  BY <1>8, OwnStep DEF StartPolling, Publish, TypeInv, TypeOK
<1>9. CASE PollHit(p)       BY <1>9, OwnStep DEF PollHit, Publish, TypeInv, TypeOK
<1>10. CASE PublishParked(p)
  BY <1>10, OwnStep DEF PublishParked, Publish, TypeInv, TypeOK
<1>11. CASE RetestLocal(p)
  <2>1. CASE ready[p] # 0
    BY <1>11, <2>1, OwnStep DEF RetestLocal, Retest, Publish, TypeInv, TypeOK
  <2>2. CASE ready[p] = 0
    BY <1>11, <2>2, OwnStep DEF RetestLocal, Retest, Publish, TypeInv, TypeOK
  <2> QED BY <2>1, <2>2
<1>12. CASE RetestGlobal(p)
  <2>1. CASE ready[GlobalQ] # 0
    BY <1>12, <2>1, OwnStep DEF RetestGlobal, Retest, Publish, TypeInv, TypeOK
  <2>2. CASE ready[GlobalQ] = 0
    BY <1>12, <2>2, OwnStep DEF RetestGlobal, Retest, Publish, TypeInv, TypeOK, Committed
  <2> QED BY <2>1, <2>2
<1>13. CASE Park(p)
  <2>1. idle[p] = "Parked"
    BY <1>13 DEF Park, WakeInv, PublishedParked, Committed
  <2>2. CASE latch[p]
    BY <1>13, <2>1, <2>2, OwnStep DEF Park, TypeInv, TypeOK
  <2>3. CASE ~latch[p]
    BY <1>13, <2>1, <2>3, OwnStep DEF Park, TypeInv, TypeOK, Committed
  <2> QED BY <2>2, <2>3
<1>14. CASE Resume(p)       BY <1>14, OwnStep DEF Resume, Publish, TypeInv, TypeOK
<1>15. CASE TimerDue(p)     BY <1>15, OwnStep DEF TimerDue, Publish, TypeInv, TypeOK
<1> QED
  BY <1>1, <1>2, <1>3, <1>4, <1>5, <1>6, <1>7, <1>8, <1>9, <1>10, <1>11, <1>12,
     <1>13, <1>14, <1>15 DEF LoopStep

\* A step inside a closure leaves the other closures alone.
LEMMA SchedulerFrame ==
  ASSUME TypeInv, NEW a \in Actors, SchedulerStep(a)
  PROVE  /\ stage[a] # "none"
         /\ \A b \in Actors : b # a => /\ stage'[b] = stage[b]
                                       /\ item'[b] = item[b]
                                       /\ victim'[b] = victim[b]
         /\ UNCHANGED <<pc, idle>>
<1> USE DEF TypeInv, TypeOK
<1>1. CASE Count(a)       BY <1>1 DEF Count
<1>2. CASE Push(a)        BY <1>2 DEF Push
<1>3. CASE Peek(a)        BY <1>3 DEF Peek
<1>4. CASE PublishWake(a) BY <1>4 DEF PublishWake
<1>5. CASE SendIpi(a)     BY <1>5 DEF SendIpi
<1> QED BY <1>1, <1>2, <1>3, <1>4, <1>5 DEF SchedulerStep

\* The scheduler half of the handshake, on a machine with a wake latch and
\* more than one processor.
LEMMA SchedulerWake ==
  ASSUME TypeInv, WakeInv, WakeLatch, N >= 2, NEW a \in Actors, SchedulerStep(a)
  PROVE  WakeInv'
<1>1. /\ stage[a] # "none"
      /\ \A b \in Actors : b # a => /\ stage'[b] = stage[b]
                                    /\ item'[b] = item[b]
                                    /\ victim'[b] = victim[b]
      /\ UNCHANGED <<pc, idle>>
  BY SchedulerFrame
<1>2. LoopQuiet' /\ PublishedParked'
  <2>1. LoopQuiet /\ PublishedParked
    BY DEF WakeInv
  <2>2. PublishedParked'
    BY <1>1, <2>1 DEF PublishedParked, Committed
  <2>3. \A b \in Actors : stage'[b] # "none" => stage[b] # "none"
    BY <1>1
  <2> QED BY <1>1, <2>1, <2>2, <2>3, Ranges, DeviceAssumption DEF LoopQuiet
<1>3. \A p \in Procs \ DeviceProcs : Committed(p) => ProcessorOf(a) # p
  BY <1>1, Ranges DEF WakeInv, LoopQuiet, Committed
<1>4. CASE Count(a)
  <2> DEFINE q == Home[item[a]]
  <2>0. q \in Queues /\ stage[a] = "count"
    BY <1>4, HomeAssumption DEF Count, TypeInv, Held
  <2>1. /\ ready'[q] = ready[q] + 1 /\ \A r \in Queues : r # q => ready'[r] = ready[r]
        /\ ready[q] \in Int
        /\ stage'[a] = IF ShouldWake(a, q, ready[q]) THEN "pushWake" ELSE "push"
        /\ UNCHANGED <<latch, ipi, item, victim>>
    BY <1>4, <2>0 DEF Count, TypeInv, TypeOK
  <2> HIDE DEF q
  <2>2. HaltRescue'
    BY <1>1, <2>0, <2>1 DEF WakeInv, HaltRescue
  <2>3. LocalRescue'
    <3> SUFFICES ASSUME NEW p \in Procs \ DeviceProcs, Committed(p)', ready'[p] # 0
                 PROVE  \/ latch'[p]
                        \/ \E b \in Actors :
                             \/ stage'[b] \in {"pushWake", "peek"} /\ Home[item'[b]] = p
                             \/ stage'[b] = "latch" /\ victim'[b] = p
      BY DEF LocalRescue
    <3>1. Committed(p) /\ p \in Queues /\ p # GlobalQ
      BY <1>1, Ranges DEF Committed
    <3>2. CASE ready[p] # 0
      <4>1. \/ latch[p]
            \/ \E b \in Actors :
                 \/ stage[b] \in {"pushWake", "peek"} /\ Home[item[b]] = p
                 \/ stage[b] = "latch" /\ victim[b] = p
        BY <3>1, <3>2 DEF WakeInv, LocalRescue
      <4> QED BY <4>1, <1>1, <2>0, <2>1
    <3>3. CASE ready[p] = 0
      <4>1. q = p
        BY <3>1, <3>3, <2>1
      <4>2. stage'[a] = "pushWake"
        BY <4>1, <3>1, <3>3, <1>3, <2>1 DEF ShouldWake
      <4> QED BY <4>1, <4>2, <2>1 DEF q
    <3> QED BY <3>2, <3>3
  <2>4. GlobalRescue'
    <3> SUFFICES ASSUME ready'[GlobalQ] # 0
                 PROVE  \/ \E p \in Procs : pc'[p] \notin {"park", "halted"} \/ latch'[p]
                        \/ \E b \in Actors :
                             \/ stage'[b] \in {"pushWake", "peek"} /\ Home[item'[b]] = GlobalQ
                             \/ stage'[b] = "latch"
      BY DEF GlobalRescue
    <3>1. CASE ready[GlobalQ] # 0
      <4>1. \/ \E p \in Procs : pc[p] \notin {"park", "halted"} \/ latch[p]
            \/ \E b \in Actors :
                 \/ stage[b] \in {"pushWake", "peek"} /\ Home[item[b]] = GlobalQ
                 \/ stage[b] = "latch"
        BY <3>1 DEF WakeInv, GlobalRescue
      <4> QED BY <4>1, <1>1, <2>0, <2>1
    <3>2. CASE ready[GlobalQ] = 0
      <4>1. q = GlobalQ
        BY <3>2, <2>1, Ranges
      <4>2. stage'[a] = "pushWake"
        BY <4>1, <3>2, <2>1, NAssumption DEF ShouldWake
      <4> QED BY <4>1, <4>2, <2>1 DEF q
    <3> QED BY <3>1, <3>2
  <2> QED BY <1>2, <2>2, <2>3, <2>4 DEF WakeInv
<1>5. CASE Push(a)
  <2>1. /\ UNCHANGED <<ready, latch, ipi, victim>>
        /\ \/ stage[a] = "pushWake" /\ stage'[a] = "peek" /\ item'[a] = item[a]
           \/ stage[a] = "push" /\ stage'[a] = "none"
    BY <1>5 DEF Push, TypeInv, TypeOK
  <2>2. HaltRescue'   BY <1>1, <2>1 DEF WakeInv, HaltRescue
  <2>3. LocalRescue'  BY <1>1, <2>1 DEF WakeInv, LocalRescue, Committed
  <2>4. GlobalRescue' BY <1>1, <2>1 DEF WakeInv, GlobalRescue
  <2> QED BY <1>2, <2>2, <2>3, <2>4 DEF WakeInv
<1>6. CASE Peek(a)
  <2> DEFINE q == Home[item[a]]
             v == IF q = GlobalQ THEN RemoteVictim(ProcessorOf(a)) ELSE q
  <2>1. q \in Queues /\ stage[a] = "peek" /\ v \in Procs
    BY <1>6, HomeAssumption, Ranges, VictimType DEF Peek, TypeInv, TypeOK, Held
  <2>2. /\ UNCHANGED <<ready, latch, ipi>>
        /\ idle[v] = "Parked" => stage'[a] = "latch" /\ victim'[a] = v
        /\ idle[v] # "Parked" => stage'[a] = "none"
    BY <1>6, <2>1 DEF Peek, TypeInv, TypeOK
  <2>3. idle[v] # "Parked" => ~Committed(v)
    BY <2>1 DEF WakeInv, PublishedParked
  <2>4. HaltRescue'
    BY <1>1, <2>1, <2>2 DEF WakeInv, HaltRescue
  <2>5. LocalRescue'
    <3> SUFFICES ASSUME NEW p \in Procs \ DeviceProcs, Committed(p)', ready'[p] # 0
                 PROVE  \/ latch'[p]
                        \/ \E b \in Actors :
                             \/ stage'[b] \in {"pushWake", "peek"} /\ Home[item'[b]] = p
                             \/ stage'[b] = "latch" /\ victim'[b] = p
      BY DEF LocalRescue
    <3>1. Committed(p) /\ ready[p] # 0 /\ p # GlobalQ
      BY <1>1, <2>2, Ranges DEF Committed
    <3>2. \/ latch[p]
          \/ \E b \in Actors :
               \/ stage[b] \in {"pushWake", "peek"} /\ Home[item[b]] = p
               \/ stage[b] = "latch" /\ victim[b] = p
      BY <3>1 DEF WakeInv, LocalRescue
    <3>3. CASE q = p
      BY <3>1, <3>3, <2>2, <2>3
    <3>4. CASE q # p
      BY <3>2, <3>4, <1>1, <2>1, <2>2
    <3> QED BY <3>3, <3>4
  <2>6. GlobalRescue'
    <3>1. CASE q = GlobalQ
      <4>1. stage'[a] = "latch" \/ pc'[v] \notin {"park", "halted"}
        BY <1>1, <2>2, <2>3 DEF Committed
      <4> QED BY <4>1, <2>1 DEF GlobalRescue
    <3>2. CASE q # GlobalQ
      BY <3>2, <1>1, <2>1, <2>2 DEF WakeInv, GlobalRescue
    <3> QED BY <3>1, <3>2
  <2> QED BY <1>2, <2>4, <2>5, <2>6 DEF WakeInv
<1>7. CASE PublishWake(a)
  <2>1. /\ UNCHANGED <<ready, ipi, item, victim>> /\ victim[a] \in Procs
        /\ stage[a] = "latch" /\ stage'[a] = "ipi"
        /\ latch'[victim[a]] = TRUE
        /\ \A p \in Procs : p # victim[a] => latch'[p] = latch[p]
    BY <1>7 DEF PublishWake, TypeInv, TypeOK
  <2>2. HaltRescue'   BY <1>1, <2>1 DEF WakeInv, HaltRescue
  <2>3. LocalRescue'  BY <1>1, <2>1 DEF WakeInv, LocalRescue, Committed
  <2>4. GlobalRescue' BY <2>1 DEF GlobalRescue
  <2> QED BY <1>2, <2>2, <2>3, <2>4 DEF WakeInv
<1>8. CASE SendIpi(a)
  <2>1. /\ UNCHANGED <<ready, latch, item>> /\ victim[a] \in Procs
        /\ stage[a] = "ipi" /\ stage'[a] = "none"
        /\ ipi'[victim[a]] = TRUE
        /\ \A p \in Procs : p # victim[a] => ipi'[p] = ipi[p]
    BY <1>8 DEF SendIpi, TypeInv, TypeOK
  <2>2. HaltRescue'   BY <1>1, <2>1 DEF WakeInv, HaltRescue
  <2>3. LocalRescue'  BY <1>1, <2>1 DEF WakeInv, LocalRescue, Committed
  <2>4. GlobalRescue' BY <1>1, <2>1 DEF WakeInv, GlobalRescue
  <2> QED BY <1>2, <2>2, <2>3, <2>4 DEF WakeInv
<1> QED BY <1>4, <1>5, <1>6, <1>7, <1>8 DEF SchedulerStep

\* Waking a task only starts a closure; ending a halt ends the commitment.
LEMMA WakerWake ==
  ASSUME TypeInv, WakeInv, NEW p \in Procs, NEW t \in Tasks,
         FireSleep(p, t) \/ TaskWakes(p, t) \/ DeviceInterrupt(p, t)
  PROVE  WakeInv'
<1>1. PICK a \in Actors :
        /\ stage[a] = "none" /\ Wake(a, t)
        /\ \/ a = p /\ pc[p] \in {"fire", "run"} /\ pc' = pc
           \/ /\ a = Irq(p) /\ p \in DeviceProcs
              /\ pc' = [pc EXCEPT ![p] = IF pc[p] = "halted" THEN "resume" ELSE pc[p]]
  BY Ranges DEF FireSleep, TaskWakes, DeviceInterrupt, AtLoop, Unhalt
<1>2. /\ stage'[a] \in {"none", "count"}
      /\ \A b \in Actors : b # a => stage'[b] = stage[b] /\ item'[b] = item[b]
  <2>1. stage \in [Actors -> Stages] /\ item \in [Actors -> Tasks \cup {NoTask}]
    BY DEF TypeInv, TypeOK
  <2> QED BY <1>1, <2>1 DEF Wake
<1>3. /\ \A r \in Procs : pc'[r] = pc[r] \/ (pc[r] = "halted" /\ pc'[r] = "resume")
      /\ UNCHANGED <<ready, idle, latch, ipi, victim>>
  <2>1. pc \in [Procs -> PC]
    BY DEF TypeInv, TypeOK
  <2> QED BY <1>1, <2>1 DEF FireSleep, TaskWakes, DeviceInterrupt
<1>4. LoopQuiet'
  BY <1>1, <1>2, <1>3, Ranges, IrqInjective, DeviceAssumption DEF WakeInv, LoopQuiet
<1>5. PublishedParked'
  BY <1>3 DEF WakeInv, PublishedParked, Committed
<1>6. LocalRescue'
  BY <1>1, <1>2, <1>3 DEF WakeInv, LocalRescue, Committed
<1>7. HaltRescue'
  BY <1>1, <1>2, <1>3 DEF WakeInv, HaltRescue
<1>8. GlobalRescue'
  BY <1>1, <1>2, <1>3 DEF WakeInv, GlobalRescue
<1> QED BY <1>4, <1>5, <1>6, <1>7, <1>8 DEF WakeInv

LEMMA InterruptWake ==
  ASSUME TypeInv, WakeInv, NEW p \in Procs, TakeIpi(p) \/ TimerInterrupt(p)
  PROVE  WakeInv'
<1>1. /\ pc'[p] # "halted"
      /\ \A r \in Procs : pc'[r] = pc[r] \/ (pc[r] = "halted" /\ pc'[r] = "resume")
      /\ \A r \in Procs : r # p => ipi'[r] = ipi[r]
      /\ UNCHANGED <<ready, idle, latch, stage, item, victim>>
  BY DEF TakeIpi, TimerInterrupt, Unhalt, TypeInv, TypeOK
<1>2. LoopQuiet'       BY <1>1 DEF WakeInv, LoopQuiet
<1>3. PublishedParked' BY <1>1 DEF WakeInv, PublishedParked, Committed
<1>4. LocalRescue'     BY <1>1 DEF WakeInv, LocalRescue, Committed
<1>5. HaltRescue'      BY <1>1 DEF WakeInv, HaltRescue
<1>6. GlobalRescue'    BY <1>1 DEF WakeInv, GlobalRescue
<1> QED BY <1>2, <1>3, <1>4, <1>5, <1>6 DEF WakeInv

LEMMA NextWake ==
  ASSUME WakeLatch, N >= 2, TypeInv, WakeInv, [Next]_vars
  PROVE  WakeInv'
<1>1. CASE UNCHANGED vars
  BY <1>1 DEF vars, WakeInv, LoopQuiet, PublishedParked, LocalRescue, HaltRescue,
              GlobalRescue, Committed
<1>2. CASE Next
  BY <1>2, SchedulerWake, LoopWake, WakerWake, InterruptWake DEF Next
<1> QED BY <1>1, <1>2

\* What the invariant gives at a halted processor.
LEMMA WakeInvSuffices == TypeInv /\ WakeInv => NoLocalWakeIsLost /\ NoGlobalWakeIsLost
<1> SUFFICES ASSUME TypeInv, WakeInv PROVE NoLocalWakeIsLost /\ NoGlobalWakeIsLost
  OBVIOUS
<1>1. NoLocalWakeIsLost
  BY DEF NoLocalWakeIsLost, LocalWakeComing, WakeComing, WakeInv, LocalRescue,
         HaltRescue, Committed
<1>2. NoGlobalWakeIsLost
  <2> SUFFICES ASSUME ready[GlobalQ] # 0, \A p \in Procs : pc[p] = "halted"
               PROVE  \E p \in Procs : WakeComing(p, GlobalQ)
    BY DEF NoGlobalWakeIsLost
  <2>1. CASE \E p \in Procs : latch[p]
    BY <2>1 DEF WakeInv, HaltRescue, WakeComing
  <2>2. CASE \E a \in Actors : stage[a] \in {"pushWake", "peek"} /\ Home[item[a]] = GlobalQ
    BY <2>2, Ranges DEF WakeComing
  <2>3. CASE \E a \in Actors : stage[a] = "latch"
    BY <2>3 DEF WakeComing, TypeInv, TypeOK
  <2> QED BY <2>1, <2>2, <2>3 DEF WakeInv, GlobalRescue
<1> QED BY <1>1, <1>2

LEMMA WakeInvariance ==
  WakeLatch /\ N >= 2 => (Spec => [](TypeInv /\ WakeInv))
<1> SUFFICES ASSUME WakeLatch, N >= 2
             PROVE  Spec => [](TypeInv /\ WakeInv)
  OBVIOUS
<1>1. Init => TypeInv /\ WakeInv
  BY InitType, InitWake
<1>2. (TypeInv /\ WakeInv) /\ [Next]_vars => (TypeInv /\ WakeInv)'
  BY NextType, NextWake
<1> QED BY <1>1, <1>2, PTL DEF Spec

\* On any machine with two or more processors whose backend keeps a wake latch
\* (x86, aarch64), no wake for a processor-local task is lost on a processor
\* that takes no device interrupts: halted with counted work of its own, it
\* has a wake under way.
THEOREM LocalWakesAreNotLost ==
  WakeLatch /\ N >= 2 => (Spec => []NoLocalWakeIsLost)
  BY WakeInvariance, WakeInvSuffices, PTL

\* On such a machine no wake for a global task is lost at all, device
\* interrupts or not: with every processor halted and global work counted,
\* some scheduler or interrupt is about to end a halt.
THEOREM GlobalWakesAreNotLost ==
  WakeLatch /\ N >= 2 => (Spec => []NoGlobalWakeIsLost)
  BY WakeInvariance, WakeInvSuffices, PTL
-----------------------------------------------------------------------------
(* Every runnable is accounted for.                                        *)

Within(u, s) == \E i \in 1 .. Len(s) : s[i] = u
Distinct(s) == \A i, j \in 1 .. Len(s) : s[i] = s[j] => i = j

\* A push at the back of a queue, and a pop at its front.
LEMMA Appended ==
  ASSUME NEW S, NEW s \in Seq(S), NEW e \in S
  PROVE  /\ \A u : Within(u, Append(s, e)) <=> Within(u, s) \/ u = e
         /\ Distinct(s) /\ ~Within(e, s) => Distinct(Append(s, e))
<1>1. /\ Len(Append(s, e)) = Len(s) + 1 /\ Len(s) \in Nat
      /\ \A i \in 1 .. Len(s) : Append(s, e)[i] = s[i]
      /\ Append(s, e)[Len(s) + 1] = e
  OBVIOUS
<1>2. \A i \in 1 .. Len(s) + 1 : i \in 1 .. Len(s) \/ i = Len(s) + 1
  BY <1>1
<1>3. ASSUME NEW u PROVE Within(u, Append(s, e)) <=> Within(u, s) \/ u = e
  <2>1. Within(u, s) => Within(u, Append(s, e))
    BY <1>1 DEF Within
  <2>2. u = e => Within(u, Append(s, e))
    BY <1>1 DEF Within
  <2>3. Within(u, Append(s, e)) => Within(u, s) \/ u = e
    BY <1>1, <1>2 DEF Within
  <2> QED BY <2>1, <2>2, <2>3
<1>4. ASSUME Distinct(s), ~Within(e, s) PROVE Distinct(Append(s, e))
  BY <1>1, <1>2, <1>4 DEF Within, Distinct
<1> QED BY <1>3, <1>4

LEMMA Tailed ==
  ASSUME NEW S, NEW s \in Seq(S), s # << >>, Distinct(s)
  PROVE  /\ \A u : Within(u, Tail(s)) <=> Within(u, s) /\ u # Head(s)
         /\ Distinct(Tail(s)) /\ Within(Head(s), s)
<1>1. /\ Len(Tail(s)) = Len(s) - 1 /\ Len(s) \in Nat /\ Len(s) > 0 /\ Head(s) = s[1]
      /\ \A i \in 1 .. Len(s) - 1 : Tail(s)[i] = s[i + 1]
  OBVIOUS
<1>2. ASSUME NEW u PROVE Within(u, Tail(s)) <=> Within(u, s) /\ u # Head(s)
  <2>1. ASSUME Within(u, Tail(s)) PROVE Within(u, s) /\ u # Head(s)
    <3>1. PICK i \in 1 .. Len(s) - 1 : s[i + 1] = u
      BY <1>1, <2>1 DEF Within
    <3>2. i + 1 \in 1 .. Len(s) /\ 1 \in 1 .. Len(s) /\ i + 1 # 1
      BY <1>1
    <3> QED BY <1>1, <3>1, <3>2 DEF Within, Distinct
  <2>2. ASSUME Within(u, s), u # Head(s) PROVE Within(u, Tail(s))
    <3>1. PICK i \in 1 .. Len(s) : s[i] = u
      BY <2>2 DEF Within
    <3>2. i - 1 \in 1 .. Len(s) - 1 /\ Tail(s)[i - 1] = s[i]
      BY <1>1, <2>2, <3>1
    <3> QED BY <1>1, <3>1, <3>2 DEF Within
  <2> QED BY <2>1, <2>2
<1>3. Distinct(Tail(s))
  BY <1>1 DEF Distinct
<1>4. Within(Head(s), s)
  BY <1>1 DEF Within
<1> QED BY <1>2, <1>3, <1>4

\* The invariant on the queues, in these words.
QueuedFor(queues, tasks) ==
  \A q \in Queues :
    /\ Distinct(queues[q])
    /\ \A t \in Tasks : Within(t, queues[q]) => Home[t] = q /\ tasks[t] = "scheduled"

LEMMA QueuedWords ==
  ASSUME NEW queues \in [Queues -> Seq(Tasks)], NEW tasks
  PROVE  QueuedFor(queues, tasks) <=>
           \A q \in Queues : \A i \in 1 .. Len(queues[q]) :
             /\ Home[queues[q][i]] = q /\ tasks[queues[q][i]] = "scheduled"
             /\ \A j \in 1 .. Len(queues[q]) : queues[q][i] = queues[q][j] => i = j
<1>1. \A q \in Queues : \A i \in 1 .. Len(queues[q]) : queues[q][i] \in Tasks
  OBVIOUS
<1> QED BY <1>1 DEF QueuedFor, Distinct, Within

\* A step that moves no runnable.
LEMMA HolderFrame ==
  ASSUME HolderInv, UNCHANGED <<queue, task>>,
         \A a \in Actors : Pushing(a)' = Pushing(a) /\ (Pushing(a) => item'[a] = item[a]),
         \A p \in Procs : Popped(p)' = Popped(p)
                          /\ (Popped(p) => /\ pc'[p] = pc[p]
                                           /\ cur'[p] = cur[p] /\ src'[p] = src[p])
  PROVE  HolderInv'
<1>1. \A t : IsQueued(t)' = IsQueued(t)
  BY DEF IsQueued
<1>2. QueuedOnce'   BY DEF HolderInv, QueuedOnce
<1>3. PushingAlone' BY <1>1 DEF HolderInv, PushingAlone
<1>4. PoppedAlone'  BY <1>1 DEF HolderInv, PoppedAlone
<1>5. NoneMissing'  BY <1>1 DEF HolderInv, NoneMissing
<1> QED BY <1>2, <1>3, <1>4, <1>5 DEF HolderInv

LEMMA SchedulerHolders ==
  ASSUME TypeInv, HolderInv, NEW a \in Actors, SchedulerStep(a)
  PROVE  HolderInv'
<1>1. CASE Push(a)
  <2> DEFINE t == item[a]
             q == Home[t]
  <2>1. /\ t \in Tasks /\ q \in Queues /\ queue[q] \in Seq(Tasks)
        /\ Pushing(a) /\ task[t] = "scheduled" /\ ~IsQueued(t)
    BY <1>1, HomeAssumption DEF Push, TypeInv, TypeOK, Held, HolderInv, PushingAlone, Pushing
  <2>2. /\ queue' = [queue EXCEPT ![q] = Append(queue[q], t)]
        /\ UNCHANGED <<task, pc, cur, src>>
        /\ ~Pushing(a)' 
        /\ \A b \in Actors \ {a} : Pushing(b)' = Pushing(b) /\ item'[b] = item[b]
    BY <1>1 DEF Push, TypeInv, TypeOK, Pushing
  <2>3. /\ queue'[q] = Append(queue[q], t)
        /\ \A r \in Queues \ {q} : queue'[r] = queue[r]
    BY <2>1, <2>2 DEF TypeInv, TypeOK
  <2>4. TypeInv'
    BY SchedulerType
  <2>5. \A u \in Tasks : IsQueued(u)' <=> IsQueued(u) \/ u = t
    <3>1. \A u \in Tasks : /\ IsQueued(u)' <=> Within(u, queue'[Home[u]])
                           /\ IsQueued(u) <=> Within(u, queue[Home[u]])
                           /\ Home[u] \in Queues
      BY HomeAssumption DEF IsQueued, Within
    <3>2. \A u \in Tasks : Within(u, queue'[q]) <=> Within(u, queue[q]) \/ u = t
      BY <2>1, <2>3, Appended
    <3> QED BY <2>3, <3>1, <3>2
  <2>6. QueuedOnce'
    <3>1. QueuedFor(queue, task)
      BY QueuedWords DEF HolderInv, QueuedOnce, TypeInv, TypeOK
    <3>2. Distinct(queue[q]) /\ ~Within(t, queue[q])
      BY <2>1, <3>1 DEF IsQueued, Within, QueuedFor
    <3>3. /\ Distinct(queue'[q])
          /\ \A u \in Tasks : Within(u, queue'[q]) <=> Within(u, queue[q]) \/ u = t
      BY <2>1, <2>3, <3>2, Appended
    <3>4. QueuedFor(queue', task')
      BY <2>1, <2>2, <2>3, <3>1, <3>3 DEF QueuedFor
    <3>5. queue' \in [Queues -> Seq(Tasks)]
      BY <2>4 DEF TypeInv, TypeOK
    <3> QED BY <3>4, <3>5, QueuedWords DEF QueuedOnce
  <2>7. PushingAlone'
    BY <2>1, <2>2, <2>5 DEF HolderInv, PushingAlone, TypeInv, Held, Pushing
  <2>8. \A p \in Procs : Popped(p)' = Popped(p)
    BY <2>2 DEF Popped
  <2>9. PoppedAlone'
    BY <2>1, <2>2, <2>5, <2>8 DEF HolderInv, PoppedAlone, TypeInv, Held, Popped
  <2>10. NoneMissing'
    BY <2>1, <2>2, <2>5, <2>8 DEF HolderInv, NoneMissing
  <2> QED BY <2>6, <2>7, <2>9, <2>10 DEF HolderInv
<1>2. CASE ~Push(a)
  BY <1>2, HolderFrame
     DEF SchedulerStep, Count, Peek, PublishWake, SendIpi, TypeInv, TypeOK, Pushing, Popped
<1> QED BY <1>1, <1>2

\* Waker::wake hands a task's one runnable to the closure it calls.
LEMMA WakeHolders ==
  ASSUME TypeInv, HolderInv, NEW a \in Actors, NEW t \in Tasks, Wake(a, t), ~Pushing(a),
         UNCHANGED <<queue, cur, src>>,
         \A p \in Procs : Popped(p)' = Popped(p) /\ (Popped(p) => pc'[p] = pc[p])
  PROVE  HolderInv'
<1>1. \A u : IsQueued(u)' = IsQueued(u)
  BY DEF IsQueued
<1>2. \A q \in Queues : \A i \in 1 .. Len(queue[q]) : queue[q][i] \in Tasks
  BY DEF TypeInv, TypeOK
<1>3. CASE task[t] = "idle"
  <2>1. /\ task' = [task EXCEPT ![t] = "scheduled"]
        /\ \A u \in Tasks \ {t} : task'[u] = task[u]
        /\ task'[t] = "scheduled"
        /\ Pushing(a)' /\ item'[a] = t
        /\ \A b \in Actors \ {a} : Pushing(b)' = Pushing(b) /\ item'[b] = item[b]
    BY <1>3 DEF Wake, TypeInv, TypeOK, Pushing
  <2>2. /\ \A q \in Queues : \A i \in 1 .. Len(queue[q]) : queue[q][i] # t
        /\ \A b \in Actors : Pushing(b) => item[b] # t
        /\ \A p \in Procs : Popped(p) => cur[p] # t
    BY <1>3 DEF HolderInv, QueuedOnce, PushingAlone, PoppedAlone
  <2>3. ~IsQueued(t)
    BY <2>2, HomeAssumption DEF IsQueued
  <2>4. QueuedOnce'
    BY <1>2, <2>1, <2>2 DEF HolderInv, QueuedOnce
  <2>5. PushingAlone'
    <3>1. \A b \in Actors : Pushing(b) => item[b] \in Tasks
      BY DEF TypeInv, Held, Pushing
    <3> QED BY <1>1, <2>1, <2>2, <2>3, <3>1 DEF HolderInv, PushingAlone
  <2>6. PoppedAlone'
    <3>1. \A p \in Procs : Popped(p) => cur[p] \in Tasks
      BY DEF TypeInv, Held, Popped
    <3> QED BY <1>1, <2>1, <2>2, <3>1 DEF HolderInv, PoppedAlone
  <2>7. NoneMissing'
    BY <1>1, <2>1 DEF HolderInv, NoneMissing
  <2> QED BY <2>4, <2>5, <2>6, <2>7 DEF HolderInv
<1>4. CASE task[t] = "running"
  <2>1. /\ task' = [task EXCEPT ![t] = "rewoken"] /\ UNCHANGED <<stage, item>>
    BY <1>4 DEF Wake
  <2>2. /\ \A u \in Tasks \ {t} : task'[u] = task[u]
        /\ task'[t] = "rewoken"
        /\ \A b \in Actors : Pushing(b)' = Pushing(b) /\ item'[b] = item[b]
    BY <2>1 DEF TypeInv, TypeOK, Pushing
  <2>3. QueuedOnce'
    BY <1>2, <1>4, <2>2 DEF HolderInv, QueuedOnce
  <2>4. PushingAlone'
    <3>1. \A b \in Actors : Pushing(b) => item[b] \in Tasks
      BY DEF TypeInv, Held, Pushing
    <3> QED BY <1>1, <1>4, <2>2, <3>1 DEF HolderInv, PushingAlone
  <2>5. PoppedAlone'
    <3>1. \A p \in Procs : Popped(p) => cur[p] \in Tasks
      BY DEF TypeInv, Held, Popped
    <3> QED BY <1>1, <1>4, <2>2, <3>1 DEF HolderInv, PoppedAlone
  <2>6. NoneMissing'
    BY <1>1, <1>4, <2>2 DEF HolderInv, NoneMissing
  <2> QED BY <2>3, <2>4, <2>5, <2>6 DEF HolderInv
<1> QED BY <1>3, <1>4 DEF Wake

LEMMA WakerHolders ==
  ASSUME TypeInv, HolderInv, NEW p \in Procs, NEW t \in Tasks,
         FireSleep(p, t) \/ TaskWakes(p, t) \/ DeviceInterrupt(p, t)
  PROVE  HolderInv'
<1>1. CASE FireSleep(p, t)
  BY <1>1, WakeHolders, Ranges DEF FireSleep, AtLoop, Pushing, Popped
<1>2. CASE TaskWakes(p, t)
  BY <1>2, WakeHolders, Ranges DEF TaskWakes, AtLoop, Pushing, Popped
<1>3. CASE DeviceInterrupt(p, t)
  <2>1. \A r \in Procs : Popped(r)' = Popped(r) /\ (Popped(r) => pc'[r] = pc[r])
    BY <1>3 DEF DeviceInterrupt, Unhalt, Popped, TypeInv, TypeOK
  <2> QED BY <1>3, <2>1, WakeHolders, Ranges DEF DeviceInterrupt, Pushing
<1> QED BY <1>1, <1>2, <1>3

LEMMA PopHolders ==
  ASSUME TypeInv, HolderInv, NEW p \in Procs, PopReady(p)
  PROVE  HolderInv'
<1> DEFINE q == src[p]
           t == Head(queue[q])
<1>1. /\ q \in Queues /\ queue[q] \in Seq(Tasks) /\ queue[q] # << >>
      /\ t \in Tasks /\ ~Popped(p)
  BY DEF PopReady, TypeInv, TypeOK, Held, Popped
<1>2. /\ queue'[q] = Tail(queue[q])
      /\ \A r \in Queues \ {q} : queue'[r] = queue[r]
      /\ UNCHANGED <<task, src, stage, item>>
      /\ pc'[p] = "dec" /\ cur'[p] = t
      /\ \A r \in Procs \ {p} : pc'[r] = pc[r] /\ cur'[r] = cur[r]
  BY <1>1 DEF PopReady, GoTo, TypeInv, TypeOK
<1>3. QueuedFor(queue, task)
  BY QueuedWords DEF HolderInv, QueuedOnce, TypeInv, TypeOK
<1>4. /\ \A u : Within(u, queue'[q]) <=> Within(u, queue[q]) /\ u # t
      /\ Distinct(queue'[q]) /\ Within(t, queue[q])
  BY <1>1, <1>2, <1>3, Tailed DEF QueuedFor
<1>5. Home[t] = q /\ task[t] = "scheduled"
  BY <1>1, <1>3, <1>4 DEF QueuedFor
<1>6. \A u \in Tasks : IsQueued(u)' <=> IsQueued(u) /\ u # t
  <2>1. \A u \in Tasks : /\ IsQueued(u)' <=> Within(u, queue'[Home[u]])
                         /\ IsQueued(u) <=> Within(u, queue[Home[u]])
                         /\ Home[u] \in Queues
    BY HomeAssumption DEF IsQueued, Within
  <2> HIDE DEF t, q
  <2> QED BY <1>2, <1>4, <1>5, <2>1
<1>7. IsQueued(t)
  BY <1>4, <1>5 DEF IsQueued, Within
<1>8. /\ \A b \in Actors : Pushing(b)' = Pushing(b)
      /\ \A b \in Actors : Pushing(b) => item[b] \in Tasks /\ item[b] # t
      /\ \A r \in Procs : Popped(r) => cur[r] \in Tasks /\ cur[r] # t
      /\ \A r \in Procs \ {p} : Popped(r)' = Popped(r)
      /\ Popped(p)'
  BY <1>2, <1>7 DEF Pushing, Popped, TypeInv, Held, HolderInv, PushingAlone, PoppedAlone
<1> HIDE DEF t, q
<1>9. QueuedOnce'
  <2>1. QueuedFor(queue', task')
    BY <1>2, <1>3, <1>4 DEF QueuedFor
  <2>2. queue' \in [Queues -> Seq(Tasks)]
    BY LoopType DEF TypeInv, TypeOK, LoopStep
  <2> QED BY <2>1, <2>2, QueuedWords DEF QueuedOnce
<1>10. PushingAlone'
  BY <1>2, <1>6, <1>8 DEF HolderInv, PushingAlone
<1>11. PoppedAlone'
  <2>1. \A r \in Procs : IsQueued(cur[r])' <=> Within(cur'[r], queue'[Home[cur'[r]]])
    BY DEF IsQueued, Within
  <2>2. \A u \in Tasks : Within(u, queue'[Home[u]]) <=> IsQueued(u) /\ u # t
    BY <1>6 DEF IsQueued, Within
  <2>3. ~IsQueued(cur[p])' /\ src'[p] = q
    BY <1>1, <1>2, <2>1, <2>2 DEF q
  <2>4. \A r \in Procs \ {p} : Popped(r) => ~IsQueued(cur[r])'
    BY <1>2, <1>8, <2>1, <2>2 DEF HolderInv, PoppedAlone
  <2> QED BY <1>2, <1>5, <1>8, <2>3, <2>4 DEF HolderInv, PoppedAlone
<1>12. NoneMissing'
  BY <1>1, <1>2, <1>6, <1>8 DEF HolderInv, NoneMissing
<1> QED BY <1>9, <1>10, <1>11, <1>12 DEF HolderInv

LEMMA DecrementHolders ==
  ASSUME TypeInv, HolderInv, NEW p \in Procs, Decrement(p)
  PROVE  HolderInv'
<1> DEFINE t == cur[p]
<1>1. /\ t \in Tasks /\ Popped(p) /\ pc[p] = "dec"
      /\ task'[t] = "running" /\ \A u \in Tasks \ {t} : task'[u] = task[u]
      /\ pc'[p] = "run" /\ \A r \in Procs \ {p} : pc'[r] = pc[r]
      /\ UNCHANGED <<queue, cur, src, stage, item>>
  BY DEF Decrement, AtLoop, GoTo, TypeInv, TypeOK, Held, Popped
<1>2. \A u : IsQueued(u)' = IsQueued(u)
  BY <1>1 DEF IsQueued
<1>3. ~IsQueued(t) /\ \A b \in Actors : Pushing(b) => item[b] # t
  BY <1>1 DEF HolderInv, PoppedAlone
<1>4. /\ \A q \in Queues : \A i \in 1 .. Len(queue[q]) : queue[q][i] \in Tasks
      /\ \A b \in Actors : Pushing(b)' = Pushing(b) /\ (Pushing(b) => item[b] \in Tasks)
      /\ \A r \in Procs : Popped(r)' = Popped(r) /\ (Popped(r) => cur[r] \in Tasks)
  BY <1>1 DEF Pushing, Popped, TypeInv, TypeOK, Held
<1>5. \A q \in Queues : \A i \in 1 .. Len(queue[q]) : queue[q][i] # t
  BY <1>3 DEF HolderInv, QueuedOnce, IsQueued
<1>6. QueuedOnce'
  BY <1>1, <1>4, <1>5 DEF HolderInv, QueuedOnce
<1>7. PushingAlone'
  BY <1>1, <1>2, <1>3, <1>4 DEF HolderInv, PushingAlone
<1>8. PoppedAlone'
  BY <1>1, <1>2, <1>4 DEF HolderInv, PoppedAlone
<1>9. NoneMissing'
  BY <1>1, <1>2, <1>4 DEF HolderInv, NoneMissing
<1> QED BY <1>6, <1>7, <1>8, <1>9 DEF HolderInv

LEMMA ReturnHolders ==
  ASSUME TypeInv, HolderInv, NEW p \in Procs, TaskReturns(p)
  PROVE  HolderInv'
<1> DEFINE t == cur[p]
<1>1. /\ t \in Tasks /\ Popped(p) /\ pc[p] = "run" /\ ~Pushing(p)
      /\ ~Popped(p)' /\ \A r \in Procs \ {p} : pc'[r] = pc[r] /\ cur'[r] = cur[r]
      /\ UNCHANGED <<queue, src>>
  BY DEF TaskReturns, AtLoop, GoTo, TypeInv, TypeOK, Held, Popped, Pushing
<1>2. /\ \A u : IsQueued(u)' = IsQueued(u)
      /\ \A q \in Queues : \A i \in 1 .. Len(queue[q]) : queue[q][i] \in Tasks
      /\ \A b \in Actors : Pushing(b) => item[b] \in Tasks
      /\ \A r \in Procs : Popped(r) => cur[r] \in Tasks
      /\ \A r \in Procs \ {p} : Popped(r)' = Popped(r)
  BY <1>1 DEF IsQueued, Pushing, Popped, TypeInv, TypeOK, Held
<1>3. /\ ~IsQueued(t) /\ \A b \in Actors : Pushing(b) => item[b] # t
      /\ \A r \in Procs \ {p} : Popped(r) => cur[r] # t
      /\ \A q \in Queues : \A i \in 1 .. Len(queue[q]) : queue[q][i] # t
  BY <1>1 DEF HolderInv, QueuedOnce, PoppedAlone, IsQueued
<1>4. CASE task[t] = "running"
  <2>1. /\ task'[t] = "idle" /\ \A u \in Tasks \ {t} : task'[u] = task[u]
        /\ UNCHANGED <<stage, item>> /\ \A b \in Actors : Pushing(b)' = Pushing(b)
    BY <1>1, <1>4 DEF TaskReturns, TypeInv, TypeOK, Pushing
  <2>2. QueuedOnce'   BY <1>1, <1>2, <1>3, <2>1 DEF HolderInv, QueuedOnce
  <2>3. PushingAlone' BY <1>1, <1>2, <1>3, <2>1 DEF HolderInv, PushingAlone
  <2>4. PoppedAlone'  BY <1>1, <1>2, <1>3, <2>1 DEF HolderInv, PoppedAlone
  <2>5. NoneMissing'  BY <1>1, <1>2, <1>3, <2>1 DEF HolderInv, NoneMissing
  <2> QED BY <2>2, <2>3, <2>4, <2>5 DEF HolderInv
<1>5. CASE task[t] = "rewoken"
  <2>1. /\ task' = [task EXCEPT ![t] = "scheduled"]
        /\ stage' = [stage EXCEPT ![p] = "count"] /\ item' = [item EXCEPT ![p] = t]
    BY <1>5 DEF TaskReturns
  <2>2. /\ task'[t] = "scheduled" /\ \A u \in Tasks \ {t} : task'[u] = task[u]
        /\ p \in Actors /\ Pushing(p)' /\ item'[p] = t
        /\ \A b \in Actors \ {p} : Pushing(b)' = Pushing(b) /\ item'[b] = item[b]
    BY <1>1, <2>1, Ranges DEF TypeInv, TypeOK, Pushing
  <2> HIDE DEF t
  <2>3. QueuedOnce'   BY <1>1, <1>2, <1>3, <2>2 DEF HolderInv, QueuedOnce
  <2>4. PushingAlone' BY <1>1, <1>2, <1>3, <2>2 DEF HolderInv, PushingAlone
  <2>5. PoppedAlone'  BY <1>1, <1>2, <1>3, <2>2 DEF HolderInv, PoppedAlone
  <2>6. NoneMissing'  BY <1>1, <1>2, <1>3, <2>2 DEF HolderInv, NoneMissing, t
  <2> QED BY <2>3, <2>4, <2>5, <2>6 DEF HolderInv
<1> QED BY <1>4, <1>5 DEF TaskReturns

LEMMA LoopHolders ==
  ASSUME TypeInv, HolderInv, NEW p \in Procs,
         LoopStep(p) \/ TimerDue(p) \/ TakeIpi(p) \/ TimerInterrupt(p)
  PROVE  HolderInv'
<1>1. CASE PopReady(p) \/ Decrement(p) \/ TaskReturns(p)
  BY <1>1, PopHolders, DecrementHolders, ReturnHolders
<1>2. CASE ~(PopReady(p) \/ Decrement(p) \/ TaskReturns(p))
  <2>1. UNCHANGED <<queue, task, stage, item, cur>>
    BY <1>2 DEF LoopStep, FireDone, Select, PopEmpty1, PopEmpty2, StartPolling, PollHit,
         PublishParked, RetestLocal, RetestGlobal, Retest, Park, Resume, TimerDue, Publish,
         TakeIpi, TimerInterrupt
  <2>2. /\ \A r \in Procs \ {p} : pc'[r] = pc[r] /\ src'[r] = src[r]
        /\ ~Popped(p)' /\ ~Popped(p)
        \/ UNCHANGED <<pc, src>>
    BY <1>2 DEF LoopStep, FireDone, Select, PopEmpty1, PopEmpty2, StartPolling, PollHit,
         PublishParked, RetestLocal, RetestGlobal, Retest, Park, Resume, TimerDue, Publish,
         TakeIpi, TimerInterrupt, Unhalt, AtLoop, GoTo, Popped, TypeInv, TypeOK
  <2> QED BY <2>1, <2>2, HolderFrame DEF Pushing, Popped
<1> QED BY <1>1, <1>2

LEMMA HolderInvariance == Spec => [](TypeInv /\ HolderInv)
<1>1. Init => HolderInv
  BY DEF Init, HolderInv, QueuedOnce, PushingAlone, PoppedAlone, NoneMissing, Pushing, Popped
<1>2. ASSUME TypeInv, HolderInv, [Next]_vars PROVE HolderInv'
  <2>1. CASE UNCHANGED vars
    BY <1>2, <2>1, HolderFrame DEF vars, Pushing, Popped
  <2>2. CASE Next
    BY <1>2, <2>2, SchedulerHolders, LoopHolders, WakerHolders DEF Next
  <2> QED BY <1>2, <2>1, <2>2
<1> QED BY <1>1, <1>2, InitType, NextType, PTL DEF Spec

LEMMA IntervalCard == \A n \in Nat : Cardinality(1 .. n) = n
<1> SUFFICES ASSUME NEW n \in Nat PROVE Cardinality(1 .. n) = n
  OBVIOUS
<1>1. Cardinality(1 .. n) = IF 1 > n THEN 0 ELSE n - 1 + 1
  BY FS_Interval
<1> QED BY <1>1

\* A queue holds each task once, so it is no longer than the set of tasks.
LEMMA QueueBounded ==
  ASSUME TypeInv, QueuedOnce, NEW q \in Queues
  PROVE  Len(queue[q]) <= Cardinality(Tasks)
<1>1. queue[q] \in Seq(Tasks) /\ Len(queue[q]) \in Nat
  BY DEF TypeInv, TypeOK
<1>2. queue[q] \in Injection(1 .. Len(queue[q]), Tasks)
  BY <1>1 DEF QueuedOnce, Injection, IsInjective
<1>3. Cardinality(1 .. Len(queue[q])) <= Cardinality(Tasks)
  BY <1>2, TasksAssumption, FS_Injection
<1> QED BY <1>1, <1>3, IntervalCard

\* What the invariant says in HoldersOf's numbers.
LEMMA HoldersCounted == TypeInv /\ HolderInv => OneRunnablePerTask
<1> SUFFICES ASSUME TypeInv, HolderInv, NEW t \in Tasks
             PROVE  /\ Cardinality(HoldersOf(t).queued) + Cardinality(HoldersOf(t).pushing)
                         + Cardinality(HoldersOf(t).popped)
                         = (IF task[t] = "idle" THEN 0 ELSE 1)
                    /\ \A p \in HoldersOf(t).popped : Home[t] \in {p, GlobalQ}
  BY DEF OneRunnablePerTask
<1> DEFINE queued == HoldersOf(t).queued
           pushing == HoldersOf(t).pushing
           popped == HoldersOf(t).popped
<1>1. /\ queued = {x \in Queues \X (1 .. Cardinality(Tasks)) :
                     x[2] <= Len(queue[x[1]]) /\ queue[x[1]][x[2]] = t}
      /\ pushing = {a \in Actors : Pushing(a) /\ item[a] = t}
      /\ popped = {p \in Procs : Popped(p) /\ cur[p] = t}
  BY DEF HoldersOf, Pushing, Popped
<1> HIDE DEF queued, pushing, popped
<1>2. \A p \in popped : Home[t] \in {p, GlobalQ}
  BY <1>1 DEF HolderInv, PoppedAlone, TypeInv, Held
<1>3. queued # {} => IsQueued(t) /\ task[t] = "scheduled"
  <2> SUFFICES ASSUME NEW x \in queued PROVE IsQueued(t) /\ task[t] = "scheduled"
    OBVIOUS
  <2>1. /\ x[1] \in Queues /\ x[2] \in 1 .. Len(queue[x[1]]) /\ queue[x[1]][x[2]] = t
    BY <1>1, TasksAssumption, FS_CardinalityType DEF TypeInv, TypeOK
  <2>2. Home[t] = x[1] /\ task[t] = "scheduled"
    BY <2>1 DEF HolderInv, QueuedOnce
  <2> QED BY <2>1, <2>2 DEF IsQueued
<1>4. IsQueued(t) => /\ \E x : queued = {x}
                     /\ task[t] = "scheduled" /\ pushing = {} /\ popped = {}
  <2> SUFFICES ASSUME IsQueued(t)
               PROVE  /\ \E x : queued = {x}
                      /\ task[t] = "scheduled" /\ pushing = {} /\ popped = {}
    OBVIOUS
  <2>1. PICK i \in 1 .. Len(queue[Home[t]]) : queue[Home[t]][i] = t
    BY DEF IsQueued
  <2>2. Home[t] \in Queues
    BY HomeAssumption
  <2>3. Len(queue[Home[t]]) <= Cardinality(Tasks) /\ Cardinality(Tasks) \in Nat
    BY <2>2, QueueBounded, TasksAssumption, FS_CardinalityType DEF HolderInv
  <2>4. Len(queue[Home[t]]) \in Nat
    BY <2>2 DEF TypeInv, TypeOK
  <2>5. <<Home[t], i>> \in queued
    BY <1>1, <2>1, <2>2, <2>3, <2>4
  <2>6. ASSUME NEW x \in queued PROVE x = <<Home[t], i>>
    <3>1. /\ x = <<x[1], x[2]>> /\ x[1] \in Queues /\ queue[x[1]][x[2]] = t
          /\ x[2] \in 1 .. Len(queue[x[1]])
      BY <1>1, <2>3, <2>6 DEF TypeInv, TypeOK
    <3>2. Home[t] = x[1]
      BY <3>1 DEF HolderInv, QueuedOnce
    <3>3. x[2] = i
      BY <2>1, <2>2, <3>1, <3>2 DEF HolderInv, QueuedOnce
    <3> QED BY <3>1, <3>2, <3>3
  <2>7. queued = {<<Home[t], i>>}
    BY <2>5, <2>6
  <2>8. pushing = {}
    BY <1>1 DEF HolderInv, PushingAlone
  <2>9. popped = {}
    BY <1>1 DEF HolderInv, PoppedAlone
  <2> QED BY <1>3, <2>7, <2>8, <2>9
<1>5. ASSUME NEW a \in pushing
      PROVE  pushing = {a} /\ task[t] = "scheduled" /\ popped = {}
  BY <1>1, <1>5 DEF HolderInv, PushingAlone, PoppedAlone
<1>6. ASSUME NEW p \in popped
      PROVE  popped = {p} /\ task[t] # "idle"
  BY <1>1, <1>6 DEF HolderInv, PoppedAlone
<1>7. task[t] # "idle" => IsQueued(t) \/ pushing # {} \/ popped # {}
  BY <1>1 DEF HolderInv, NoneMissing
<1>8. /\ Cardinality({}) = 0 /\ \A x : Cardinality({x}) = 1
  BY FS_EmptySet, FS_Singleton
<1>9. Cardinality(queued) + Cardinality(pushing) + Cardinality(popped)
        = (IF task[t] = "idle" THEN 0 ELSE 1)
  <2>1. CASE IsQueued(t)
    <3>1. PICK x : queued = {x}
      BY <1>4, <2>1
    <3>2. /\ Cardinality(queued) = 1 /\ Cardinality(pushing) = 0 /\ Cardinality(popped) = 0
          /\ task[t] # "idle"
      BY <1>4, <1>8, <2>1, <3>1
    <3> QED BY <3>2
  <2>2. CASE ~IsQueued(t) /\ pushing # {}
    <3>1. PICK a \in pushing : TRUE
      BY <2>2
    <3>2. /\ Cardinality(queued) = 0 /\ Cardinality(pushing) = 1 /\ Cardinality(popped) = 0
          /\ task[t] # "idle"
      BY <1>3, <1>5, <1>8, <2>2, <3>1
    <3> QED BY <3>2
  <2>3. CASE ~IsQueued(t) /\ pushing = {} /\ popped # {}
    <3>1. PICK p \in popped : TRUE
      BY <2>3
    <3>2. /\ Cardinality(queued) = 0 /\ Cardinality(pushing) = 0 /\ Cardinality(popped) = 1
          /\ task[t] # "idle"
      BY <1>3, <1>6, <1>8, <2>3, <3>1
    <3> QED BY <3>2
  <2>4. CASE ~IsQueued(t) /\ pushing = {} /\ popped = {}
    <3>1. /\ Cardinality(queued) = 0 /\ Cardinality(pushing) = 0 /\ Cardinality(popped) = 0
          /\ task[t] = "idle"
      BY <1>3, <1>8, <1>7, <2>4
    <3> QED BY <3>1
  <2> QED BY <2>1, <2>2, <2>3, <2>4
<1> QED BY <1>2, <1>9 DEF queued, pushing, popped

\* push_ready and pop_ready move the ready count with the runnables.
LEMMA CountStep ==
  ASSUME TypeInv, ReadyCountExact, [Next]_vars
  PROVE  ReadyCountExact'
<1>1. \A q : /\ IsFiniteSet(Counted(q)) /\ IsFiniteSet(Uncounted(q))
             /\ Cardinality(Counted(q)) \in Nat /\ Cardinality(Uncounted(q)) \in Nat
  <2>1. IsFiniteSet(Actors) /\ IsFiniteSet(Procs)
    BY NAssumption, FS_Interval DEF Actors, Procs
  <2>2. \A q : Counted(q) \subseteq Actors /\ Uncounted(q) \subseteq Procs
    BY DEF Counted, Uncounted
  <2> QED BY <2>1, <2>2, FS_Subset, FS_CardinalityType
<1>2. \A q \in Queues : ready[q] \in Int /\ queue[q] \in Seq(Tasks) /\ Len(queue[q]) \in Nat
  BY DEF TypeInv, TypeOK
<1> SUFFICES ASSUME NEW q \in Queues
             PROVE  ready'[q] = Len(queue'[q]) + Cardinality(Counted(q)')
                                  + Cardinality(Uncounted(q)')
  BY DEF ReadyCountExact
<1>3. /\ ready[q] = Len(queue[q]) + Cardinality(Counted(q)) + Cardinality(Uncounted(q))
      /\ ready[q] \in Int /\ Len(queue[q]) \in Nat
      /\ Cardinality(Counted(q)) \in Nat /\ Cardinality(Uncounted(q)) \in Nat
  BY <1>1, <1>2 DEF ReadyCountExact
<1>4. ASSUME NEW a \in Actors, Count(a) \/ Push(a)
      PROVE  \/ Home[item[a]] = q
             \/ /\ ready'[q] = ready[q] /\ queue'[q] = queue[q]
                /\ Counted(q)' = Counted(q) /\ Uncounted(q)' = Uncounted(q)
  BY <1>4, HomeAssumption DEF Count, Push, TypeInv, TypeOK, Held, Counted, Uncounted
<1>5. ASSUME NEW a \in Actors, Count(a), Home[item[a]] = q
      PROVE  /\ ready'[q] = ready[q] + 1 /\ queue'[q] = queue[q]
             /\ Cardinality(Counted(q)') = Cardinality(Counted(q)) + 1
             /\ Uncounted(q)' = Uncounted(q)
  <2>1. Counted(q)' = Counted(q) \cup {a} /\ a \notin Counted(q)
    BY <1>5 DEF Count, TypeInv, TypeOK, Counted
  <2>2. Cardinality(Counted(q)') = Cardinality(Counted(q)) + 1
    BY <1>1, <2>1, FS_AddElement
  <2> QED BY <1>5, <2>2 DEF Count, TypeInv, TypeOK, Uncounted
<1>6. ASSUME NEW a \in Actors, Push(a), Home[item[a]] = q
      PROVE  /\ ready'[q] = ready[q] /\ Len(queue'[q]) = Len(queue[q]) + 1
             /\ Cardinality(Counted(q)') = Cardinality(Counted(q)) - 1
             /\ Uncounted(q)' = Uncounted(q)
  <2>1. Counted(q)' = Counted(q) \ {a} /\ a \in Counted(q)
    BY <1>6 DEF Push, TypeInv, TypeOK, Counted
  <2>2. Cardinality(Counted(q)') = Cardinality(Counted(q)) - 1
    BY <1>1, <2>1, FS_RemoveElement
  <2>3. Len(queue'[q]) = Len(queue[q]) + 1
    BY <1>2, <1>6 DEF Push, TypeInv, TypeOK, Held
  <2> QED BY <1>6, <2>2, <2>3 DEF Push, Uncounted
<1>7. ASSUME NEW a \in Actors, Peek(a) \/ PublishWake(a) \/ SendIpi(a)
      PROVE  /\ ready'[q] = ready[q] /\ queue'[q] = queue[q]
             /\ Counted(q)' = Counted(q) /\ Uncounted(q)' = Uncounted(q)
  BY <1>7 DEF Peek, PublishWake, SendIpi, TypeInv, TypeOK, Counted, Uncounted
<1>8. ASSUME NEW p \in Procs, PopReady(p) \/ Decrement(p)
      PROVE  \/ src[p] = q
             \/ /\ ready'[q] = ready[q] /\ queue'[q] = queue[q]
                /\ Counted(q)' = Counted(q) /\ Uncounted(q)' = Uncounted(q)
  BY <1>8 DEF PopReady, Decrement, GoTo, TypeInv, TypeOK, Held, Counted, Uncounted
<1>9. ASSUME NEW p \in Procs, PopReady(p), src[p] = q
      PROVE  /\ ready'[q] = ready[q] /\ Len(queue'[q]) = Len(queue[q]) - 1
             /\ Cardinality(Uncounted(q)') = Cardinality(Uncounted(q)) + 1
             /\ Counted(q)' = Counted(q)
  <2>1. Uncounted(q)' = Uncounted(q) \cup {p} /\ p \notin Uncounted(q)
    BY <1>9 DEF PopReady, GoTo, TypeInv, TypeOK, Uncounted
  <2>2. Cardinality(Uncounted(q)') = Cardinality(Uncounted(q)) + 1
    BY <1>1, <2>1, FS_AddElement
  <2>3. Len(queue'[q]) = Len(queue[q]) - 1
    BY <1>2, <1>9 DEF PopReady, TypeInv, TypeOK
  <2> QED BY <1>9, <2>2, <2>3 DEF PopReady, Counted
<1>10. ASSUME NEW p \in Procs, Decrement(p), src[p] = q
       PROVE  /\ ready'[q] = ready[q] - 1 /\ queue'[q] = queue[q]
              /\ Cardinality(Uncounted(q)') = Cardinality(Uncounted(q)) - 1
              /\ Counted(q)' = Counted(q)
  <2>1. Uncounted(q)' = Uncounted(q) \ {p} /\ p \in Uncounted(q)
    BY <1>10 DEF Decrement, AtLoop, GoTo, TypeInv, TypeOK, Uncounted
  <2>2. Cardinality(Uncounted(q)') = Cardinality(Uncounted(q)) - 1
    BY <1>1, <2>1, FS_RemoveElement
  <2> QED BY <1>10, <2>2 DEF Decrement, TypeInv, TypeOK, Counted
<1>11. ASSUME NEW p \in Procs, LoopStep(p) \/ TimerDue(p) \/ TakeIpi(p) \/ TimerInterrupt(p),
              ~PopReady(p), ~Decrement(p)
       PROVE  /\ ready'[q] = ready[q] /\ queue'[q] = queue[q]
              /\ Counted(q)' = Counted(q) /\ Uncounted(q)' = Uncounted(q)
  <2>1. CASE TaskReturns(p)
    <3>1. Uncounted(q)' = Uncounted(q)
      BY <2>1 DEF TaskReturns, AtLoop, GoTo, TypeInv, TypeOK, Uncounted
    <3>2. \/ UNCHANGED <<stage, item>>
          \/ stage' = [stage EXCEPT ![p] = "count"] /\ item' = [item EXCEPT ![p] = cur[p]]
      BY <2>1 DEF TaskReturns
    <3>3. Counted(q)' = Counted(q)
      BY <2>1, <3>2, Ranges DEF TaskReturns, AtLoop, TypeInv, TypeOK, Counted
    <3> QED BY <2>1, <3>1, <3>3 DEF TaskReturns
  <2>2. CASE ~TaskReturns(p)
    BY <1>11, <2>2
       DEF LoopStep, FireDone, Select, PopEmpty1, PopEmpty2, StartPolling, PollHit,
         PublishParked, RetestLocal, RetestGlobal, Retest, Park, Resume, TimerDue, Publish,
         TakeIpi, TimerInterrupt, Unhalt, AtLoop, GoTo, TypeInv, TypeOK, Counted, Uncounted
  <2> QED BY <2>1, <2>2
<1>12. ASSUME NEW a \in Actors, NEW t \in Tasks, Wake(a, t), stage[a] = "none"
       PROVE  Counted(q)' = Counted(q)
  BY <1>12 DEF Wake, TypeInv, TypeOK, Counted
<1>13. ASSUME NEW p \in Procs, NEW t \in Tasks,
              FireSleep(p, t) \/ TaskWakes(p, t) \/ DeviceInterrupt(p, t)
       PROVE  /\ ready'[q] = ready[q] /\ queue'[q] = queue[q]
              /\ Counted(q)' = Counted(q) /\ Uncounted(q)' = Uncounted(q)
  <2>1. Counted(q)' = Counted(q)
    BY <1>12, <1>13, Ranges DEF FireSleep, TaskWakes, DeviceInterrupt, AtLoop
  <2> QED BY <1>13, <2>1
       DEF FireSleep, TaskWakes, DeviceInterrupt, Unhalt, TypeInv, TypeOK, Uncounted
<1> DEFINE Still == /\ ready'[q] = ready[q] /\ queue'[q] = queue[q]
                    /\ Counted(q)' = Counted(q) /\ Uncounted(q)' = Uncounted(q)
<1>14. UNCHANGED vars => Still
  BY DEF vars, Counted, Uncounted
<1>15. CASE Still
  <2>1. /\ Cardinality(Counted(q)') = Cardinality(Counted(q))
        /\ Cardinality(Uncounted(q)') = Cardinality(Uncounted(q))
        /\ Len(queue'[q]) = Len(queue[q]) /\ ready'[q] = ready[q]
    BY <1>15, Zenon
  <2> QED BY <1>3, <2>1
<1> HIDE DEF Still
<1>16. ASSUME NEW a \in Actors, SchedulerStep(a), ~Still
       PROVE  ready'[q] = Len(queue'[q]) + Cardinality(Counted(q)') + Cardinality(Uncounted(q)')
  <2>1. CASE Count(a) /\ Home[item[a]] = q
    BY <1>3, <1>5, <2>1
  <2>2. CASE Push(a) /\ Home[item[a]] = q
    BY <1>3, <1>6, <2>2
  <2> QED BY <1>4, <1>7, <1>16, <2>1, <2>2 DEF SchedulerStep, Still
<1>17. ASSUME NEW p \in Procs,
              LoopStep(p) \/ TimerDue(p) \/ TakeIpi(p) \/ TimerInterrupt(p), ~Still
       PROVE  ready'[q] = Len(queue'[q]) + Cardinality(Counted(q)') + Cardinality(Uncounted(q)')
  <2>1. CASE PopReady(p) /\ src[p] = q
    <3>1. /\ Cardinality(Counted(q)') = Cardinality(Counted(q))
          /\ Cardinality(Uncounted(q)') = Cardinality(Uncounted(q)) + 1
          /\ Len(queue'[q]) = Len(queue[q]) - 1 /\ ready'[q] = ready[q]
      BY <1>9, <2>1, Zenon
    <3> QED BY <1>3, <3>1
  <2>2. CASE Decrement(p) /\ src[p] = q
    <3>1. /\ Cardinality(Counted(q)') = Cardinality(Counted(q))
          /\ Cardinality(Uncounted(q)') = Cardinality(Uncounted(q)) - 1
          /\ Len(queue'[q]) = Len(queue[q]) /\ ready'[q] = ready[q] - 1
      BY <1>10, <2>2, Zenon
    <3> QED BY <1>3, <3>1
  <2> QED BY <1>8, <1>11, <1>17, <2>1, <2>2 DEF Still
<1>18. CASE Next
  BY <1>13, <1>15, <1>16, <1>17, <1>18 DEF Next, Still
<1> QED BY <1>14, <1>15, <1>18

\* Every runnable is in one place, the ready counts count them, and a task
\* bound to a processor is popped there alone: push_ready, pop_ready and the
\* safety comment of spawn_unchecked, for any machine and any tasks.
THEOREM RunnablesAreAccounted == Spec => []RunnablesAccounted
<1>1. Init => ReadyCountExact
  <2> SUFFICES ASSUME Init, NEW q \in Queues
               PROVE  ready[q] = Len(queue[q]) + Cardinality(Counted(q))
                                   + Cardinality(Uncounted(q))
    BY DEF ReadyCountExact
  <2>1. Counted(q) = {} /\ Uncounted(q) = {} /\ ready[q] = 0 /\ Len(queue[q]) = 0
    BY DEF Init, Counted, Uncounted
  <2> QED BY <2>1, FS_EmptySet
<1>2. Spec => []ReadyCountExact
  <2>1. Spec => []TypeInv
    BY HolderInvariance, PTL
  <2>2. ReadyCountExact /\ TypeInv /\ [Next]_vars => ReadyCountExact'
    BY CountStep
  <2> QED BY <1>1, <2>1, <2>2, PTL DEF Spec
<1>3. Spec => []OneRunnablePerTask
  BY HolderInvariance, HoldersCounted, PTL
<1> QED BY <1>2, <1>3, PTL DEF RunnablesAccounted

-----------------------------------------------------------------------------
(* TaskArena.  Numbers first: induction, and functions defined by recursion *)

\* A set of numbers has a least one.
LEMMA LeastOf ==
  ASSUME NEW T \in SUBSET Nat, T # {}
  PROVE  \E x \in T : \A y \in T : x <= y
<1> DEFINE R == {ss \in Nat \X Nat : ss[1] < ss[2]}
<1>1. IsWellFoundedOn(R, Nat)
  BY NatLessThanWellFounded, Zenon DEF OpToRel
<1> HIDE DEF R
<1>2. PICK x \in T : \A y \in T : ~(<<y, x>> \in R)
  BY <1>1, WFMin
<1>3. ASSUME NEW y \in T PROVE x <= y
  <2>1. x \in Nat /\ y \in Nat
    OBVIOUS
  <2>2. y < x => <<y, x>> \in R
    BY <2>1 DEF R
  <2> QED BY <1>2, <2>1, <2>2
<1> QED BY <1>3

\* Division with remainder.
LEMMA DivMod ==
  ASSUME NEW x \in Nat, NEW w \in Nat \ {0}
  PROVE  \E q \in Nat, r \in 0 .. w - 1 : x = w * q + r /\ x % w = r
<1> DEFINE T == {r \in Nat : \E q \in Nat : x = w * q + r}
<1>1. x = w * 0 + x /\ x \in T
  OBVIOUS
<1>2. PICK r \in T : \A y \in T : r <= y
  BY <1>1, LeastOf
<1>3. PICK q \in Nat : r \in Nat /\ x = w * q + r
  OBVIOUS
<1>4. r < w
  <2> SUFFICES ASSUME r >= w PROVE FALSE
    OBVIOUS
  <2>1. w * (q + 1) = w * q + w
    OBVIOUS
  <2>2. x = w * (q + 1) + (r - w) /\ r - w \in Nat /\ q + 1 \in Nat
    BY <1>3, <2>1
  <2>3. r - w \in T
    BY <2>2
  <2> HIDE DEF T
  <2> QED BY <1>2, <1>3, <2>3
<1>5. x % w = r /\ r \in 0 .. w - 1
  BY <1>3, <1>4
<1> HIDE DEF T
<1> QED BY <1>3, <1>5

\* Induction, for a set of numbers.
LEMMA Induct ==
  ASSUME NEW T \in SUBSET Nat, 0 \in T, \A n \in T : n + 1 \in T
  PROVE  T = Nat
<1> SUFFICES ASSUME Nat \ T # {} PROVE FALSE
  OBVIOUS
<1>1. PICK x \in Nat \ T : \A y \in Nat \ T : x <= y
  BY LeastOf
<1>2. x - 1 \in Nat /\ x - 1 \in T
  <2>1. x # 0
    OBVIOUS
  <2>2. x - 1 \in Nat /\ ~(x <= x - 1)
    BY <2>1
  <2> QED BY <1>1, <2>2
<1>3. (x - 1) + 1 \in T
  BY <1>2
<1> QED BY <1>2, <1>3

\* A function defined by recursion over 0 .. Q exists.
Recurs(f, Q, a, G) == f = [n \in 0 .. Q |-> IF n = 0 THEN a ELSE G[f[n - 1]]]

\* Such a function exists, whatever the step G is.
LEMMA Recursion ==
  ASSUME NEW S, NEW a \in S, NEW G \in [S -> S], NEW Q \in Nat
  PROVE  \E f \in [0 .. Q -> S] : Recurs(f, Q, a, G)
<1> DEFINE T == {n \in Nat : \E f \in [0 .. n -> S] : Recurs(f, n, a, G)}
<1>1. 0 \in T
  <2> DEFINE f == [n \in 0 .. 0 |-> a]
  <2>1. f \in [0 .. 0 -> S] /\ Recurs(f, 0, a, G)
    BY DEF Recurs
  <2> HIDE DEF f
  <2> QED BY <2>1
<1>2. ASSUME NEW n \in T PROVE n + 1 \in T
  <2>1. PICK g \in [0 .. n -> S] : Recurs(g, n, a, G)
    OBVIOUS
  <2> DEFINE f == [m \in 0 .. n + 1 |-> IF m <= n THEN g[m] ELSE G[g[n]]]
  <2>2. n \in Nat /\ n \in 0 .. n /\ g[n] \in S /\ G[g[n]] \in S
    OBVIOUS
  <2>3. f \in [0 .. n + 1 -> S]
    BY <2>2
  <2>4. ASSUME NEW m \in 0 .. n + 1 PROVE f[m] = IF m = 0 THEN a ELSE G[f[m - 1]]
    <3>1. CASE m = n + 1
      BY <2>2, <3>1
    <3>2. CASE m = 0
      BY <2>1, <2>2, <3>2 DEF Recurs
    <3>3. CASE m # n + 1 /\ m # 0
      <4>1. m \in 0 .. n /\ m - 1 \in 0 .. n + 1 /\ m - 1 <= n /\ m <= n
        BY <2>2, <3>3
      <4>2. g[m] = G[g[m - 1]]
        BY <2>1, <3>3, <4>1 DEF Recurs
      <4>3. f[m] = g[m] /\ f[m - 1] = g[m - 1]
        BY <4>1
      <4> QED BY <3>3, <4>2, <4>3
    <3> QED BY <3>1, <3>2, <3>3
  <2>5. Recurs(f, n + 1, a, G)
    <3>1. f = [m \in 0 .. n + 1 |-> f[m]]
      OBVIOUS
    <3> HIDE DEF f
    <3> QED BY <2>4, <3>1 DEF Recurs
  <2> HIDE DEF f
  <2> QED BY <2>2, <2>3, <2>5
<1>3. T = Nat
  <2> HIDE DEF T
  <2>1. T \in SUBSET Nat
    BY DEF T
  <2> QED BY <1>1, <1>2, <2>1, Induct
<1> QED BY <1>3

\* Each class is twice the size of the one below.
LEMMA SizesAre ==
  /\ Sizes \in [Classes -> Nat \ {0}] /\ Sizes[0] = 1
  /\ \A c \in Classes : c # 0 => c - 1 \in Classes /\ Sizes[c] = 2 * Sizes[c - 1]
<1> DEFINE S == Nat \ {0}
           G == [x \in S |-> 2 * x]
           Q == ClassCount - 1
           P(f) == f = [c \in Classes |-> IF c = 0 THEN 1 ELSE 2 * f[c - 1]]
<1>1. Q \in Nat /\ Classes = 0 .. Q /\ 1 \in S
  BY ArenaAssumption DEF Classes
<1>2. G \in [S -> S]
  OBVIOUS
<1>3. PICK f \in [0 .. Q -> S] : Recurs(f, Q, 1, G)
  <2> HIDE DEF S, G, Q
  <2> QED BY <1>1, <1>2, Recursion
<1>4. P(f)
  <2>1. \A n \in 0 .. Q : n # 0 => n - 1 \in 0 .. Q /\ f[n - 1] \in S
    BY <1>1
  <2>2. \A n \in 0 .. Q : f[n] = IF n = 0 THEN 1 ELSE 2 * f[n - 1]
    BY <1>3, <2>1 DEF Recurs
  <2>3. f = [c \in Classes |-> f[c]]
    BY <1>1
  <2> HIDE DEF Q
  <2> QED BY <1>1, <2>2, <2>3
<1>5. P(CHOOSE g : P(g))
  <2> HIDE DEF P
  <2> QED BY <1>4
<1>6. P(Sizes)
  <2>1. Sizes = CHOOSE g : P(g)
    BY DEF Sizes
  <2> HIDE DEF P
  <2> QED BY <1>5, <2>1
<1> DEFINE T == {n \in Nat : n \in Classes => Sizes[n] \in S}
<1>7. T = Nat
  <2>1. 0 \in T
    BY <1>1, <1>6
  <2>2. ASSUME NEW n \in T PROVE n + 1 \in T
    <3>1. n \in Nat /\ (n + 1 \in Classes => n \in Classes /\ Sizes[n + 1] = 2 * Sizes[n])
      BY <1>1, <1>6
    <3>2. n \in Classes => Sizes[n] \in Nat \ {0}
      OBVIOUS
    <3> QED BY <3>1, <3>2
  <2> HIDE DEF T
  <2>3. T \in SUBSET Nat
    BY DEF T
  <2> QED BY <2>1, <2>2, <2>3, Induct
<1>8. \A c \in Classes : Sizes[c] \in S
  <2>1. Classes \subseteq Nat
    BY <1>1
  <2> QED BY <1>7, <2>1
<1>9. Sizes \in [Classes -> S]
  <2>1. Sizes = [c \in Classes |-> Sizes[c]]
    BY <1>6
  <2> HIDE DEF S
  <2> QED BY <1>8, <2>1
<1>10. Sizes[0] = 1
  BY <1>1, <1>6
<1>11. \A c \in Classes : c # 0 => c - 1 \in Classes /\ Sizes[c] = 2 * Sizes[c - 1]
  BY <1>1, <1>6
<1> QED BY <1>9, <1>10, <1>11

-----------------------------------------------------------------------------
(* Rounding down, and buddies                                              *)

\* Quotient and remainder are unique.
LEMMA Quotient ==
  ASSUME NEW o \in Nat, NEW w \in Nat \ {0}, NEW q \in Nat, NEW r \in 0 .. w - 1, o = w * q + r
  PROVE  o % w = r /\ o \div w = q
  OBVIOUS

\* A number is even or odd.
LEMMA HalfOf == ASSUME NEW q \in Nat PROVE \E p \in Nat : q = 2 * p \/ q = 2 * p + 1
<1>1. 2 \in Nat \ {0}
  OBVIOUS
<1>2. PICK p \in Nat, r \in 0 .. 2 - 1 : q = 2 * p + r
  BY <1>1, DivMod, Zenon
<1>3. r \in {0, 1}
  OBVIOUS
<1> QED BY <1>2, <1>3

\* o is r more than a, the q-th multiple of w; q is even or odd.
Rounds(o, w, q, r, a) ==
  /\ o = a + r /\ o % w = r /\ a % w = 0 /\ a \div w = q
  /\ (a + w) \div w = q + 1 /\ (a + w) % w = 0
Even(o, w, q, r) == q % 2 = 0 /\ (q + 1) % 2 = 1 /\ o % (2 * w) = r
Odd(o, w, q, r, a) ==
  /\ q % 2 = 1 /\ (q - 1) % 2 = 0 /\ o % (2 * w) = w + r
  /\ a - w \in Nat /\ (a - w) \div w = q - 1 /\ (a - w) % w = 0

\* Every o rounds down to a multiple of w, and from there to one of 2w.
LEMMA RoundTwice ==
  ASSUME NEW o \in Nat, NEW w \in Nat \ {0}
  PROVE  \E q \in Nat, r \in 0 .. w - 1, a \in Nat :
           Rounds(o, w, q, r, a) /\ (Even(o, w, q, r) \/ Odd(o, w, q, r, a))
<1>1. PICK q \in Nat, r \in 0 .. w - 1 : o = w * q + r /\ o % w = r
  BY DivMod
<1>2. PICK a \in Nat : a = w * q
  OBVIOUS
<1>3. a % w = 0 /\ a \div w = q
  <2>1. a = w * q + 0 /\ 0 \in 0 .. w - 1
    BY <1>2
  <2> QED BY <2>1, Quotient
<1>4. (a + w) \div w = q + 1 /\ (a + w) % w = 0
  <2>1. w * (q + 1) = w * q + w
    OBVIOUS
  <2>2. a + w = w * (q + 1) + 0 /\ 0 \in 0 .. w - 1 /\ a + w \in Nat /\ q + 1 \in Nat
    BY <1>2, <2>1
  <2> QED BY <2>2, Quotient
<1>5. Rounds(o, w, q, r, a)
  BY <1>1, <1>2, <1>3, <1>4 DEF Rounds
<1>6. 2 * w \in Nat \ {0}
  OBVIOUS
<1>7. ASSUME NEW p \in Nat, q = 2 * p PROVE Even(o, w, q, r)
  <2>1. (2 * w) * p = w * (2 * p)
    OBVIOUS
  <2>2. o = (2 * w) * p + r /\ r \in 0 .. 2 * w - 1
    BY <1>1, <1>7, <2>1
  <2>3. o % (2 * w) = r
    BY <1>6, <2>2, Quotient
  <2>4. q % 2 = 0 /\ (q + 1) % 2 = 1
    BY <1>7
  <2> QED BY <2>3, <2>4 DEF Even
<1>8. ASSUME NEW p \in Nat, q = 2 * p + 1 PROVE Odd(o, w, q, r, a)
  <2>1. (2 * w) * p + w = w * (2 * p + 1) /\ w * (2 * p) = w * (2 * p + 1) - w
    OBVIOUS
  <2>2. o = (2 * w) * p + (w + r) /\ w + r \in 0 .. 2 * w - 1
    BY <1>1, <1>8, <2>1
  <2>3. o % (2 * w) = w + r
    BY <1>6, <2>2, Quotient
  <2>4. q % 2 = 1 /\ (q - 1) % 2 = 0 /\ q - 1 = 2 * p
    BY <1>8
  <2>5. PICK b \in Nat : b = w * (2 * p)
    OBVIOUS
  <2>6. b = a - w /\ b = w * (q - 1) + 0 /\ 0 \in 0 .. w - 1 /\ q - 1 \in Nat
    BY <1>2, <1>8, <2>1, <2>4, <2>5
  <2>7. b \div w = q - 1 /\ b % w = 0
    BY <2>6, Quotient
  <2> QED BY <2>3, <2>4, <2>6, <2>7 DEF Odd
<1>9. \E p \in Nat : q = 2 * p \/ q = 2 * p + 1
  BY HalfOf
<1>10. Even(o, w, q, r) \/ Odd(o, w, q, r, a)
  BY <1>7, <1>8, <1>9
<1> QED BY <1>5, <1>10

\* The sizes, for a class at a time.
LEMMA ClassIs ==
  ASSUME NEW c \in Classes
  PROVE  /\ ClassSize(c) \in Nat \ {0} /\ c \in Nat
         /\ c + 1 \in Classes => ClassSize(c + 1) = 2 * ClassSize(c)
         /\ c # 0 => c - 1 \in Classes /\ ClassSize(c) = 2 * ClassSize(c - 1)
<1>1. c \in Nat
  BY DEF Classes
<1>2. c + 1 \in Classes => (c + 1) - 1 \in Classes /\ Sizes[c + 1] = 2 * Sizes[(c + 1) - 1]
  BY <1>1, SizesAre
<1>3. (c + 1) - 1 = c
  BY <1>1
<1> QED BY <1>1, <1>2, <1>3, SizesAre DEF ClassSize

\* The block around o has o in it, and starts where it starts.
LEMMA AroundIs ==
  ASSUME NEW o \in Nat, NEW c \in Classes
  PROVE  /\ Around(o, c) \in Nat /\ Around(o, c) <= o /\ o < Around(o, c) + ClassSize(c)
         /\ Around(Around(o, c), c) = Around(o, c)
<1>1. PICK w \in Nat \ {0} : w = ClassSize(c)
  BY ClassIs
<1>2. PICK q \in Nat, r \in 0 .. w - 1, a \in Nat : Rounds(o, w, q, r, a)
  BY RoundTwice
<1>3. o = a + r /\ o % ClassSize(c) = r /\ a % ClassSize(c) = 0
  BY <1>1, <1>2 DEF Rounds
<1>4. Around(o, c) = a
  BY <1>3 DEF Around
<1>5. Around(a, c) = a
  BY <1>3 DEF Around
<1> QED BY <1>1, <1>3, <1>4, <1>5

\* The block of the next class is this one and its buddy.
LEMMA BuddyIs ==
  ASSUME NEW o \in Nat, NEW c \in Classes, c + 1 \in Classes, Around(o, c) = o
  PROVE  /\ Buddy(o, c) \in Nat /\ Around(Buddy(o, c), c) = Buddy(o, c)
         /\ Buddy(Buddy(o, c), c) = o
         /\ \/ Buddy(o, c) = o + ClassSize(c) /\ Around(o, c + 1) = o
            \/ Buddy(o, c) = o - ClassSize(c) /\ Around(o, c + 1) = o - ClassSize(c)
<1>1. PICK w \in Nat \ {0} : w = ClassSize(c) /\ ClassSize(c + 1) = 2 * w
  BY ClassIs
<1>2. PICK q \in Nat, r \in 0 .. w - 1, a \in Nat :
        Rounds(o, w, q, r, a) /\ (Even(o, w, q, r) \/ Odd(o, w, q, r, a))
  BY RoundTwice
<1>3. r = 0 /\ a = o
  BY <1>1, <1>2 DEF Around, Rounds
<1>4. CASE Even(o, w, q, r)
  <2>1. Buddy(o, c) = o + w /\ Buddy(o + w, c) = o
    <3>1. o \div w = q /\ (o + w) \div w = q + 1 /\ q % 2 = 0 /\ (q + 1) % 2 = 1
      BY <1>2, <1>3, <1>4 DEF Rounds, Even
    <3>2. Buddy(o, c) = o + w
      BY <1>1, <3>1 DEF Buddy
    <3>3. Buddy(o + w, c) = (o + w) - w
      BY <1>1, <3>1 DEF Buddy
    <3> QED BY <3>2, <3>3
  <2>2. Around(o, c + 1) = o /\ Around(o + w, c) = o + w
    BY <1>1, <1>2, <1>3, <1>4 DEF Around, Rounds, Even
  <2> QED BY <1>1, <2>1, <2>2
<1>5. CASE Odd(o, w, q, r, a)
  <2>1. Buddy(o, c) = o - w /\ Buddy(o - w, c) = o /\ o - w \in Nat
    <3>1. o \div w = q /\ (o - w) \div w = q - 1 /\ q % 2 = 1 /\ (q - 1) % 2 = 0 /\ o - w \in Nat
      BY <1>2, <1>3, <1>5 DEF Rounds, Odd
    <3>2. Buddy(o, c) = o - w
      BY <1>1, <3>1 DEF Buddy
    <3>3. Buddy(o - w, c) = (o - w) + w
      BY <1>1, <3>1 DEF Buddy
    <3> QED BY <3>1, <3>2, <3>3
  <2>2. Around(o, c + 1) = o - w /\ Around(o - w, c) = o - w
    BY <1>1, <1>2, <1>3, <1>5 DEF Around, Rounds, Odd
  <2> QED BY <1>1, <2>1, <2>2
<1> QED BY <1>2, <1>4, <1>5

\* Rounding down class by class is rounding down at once.
LEMMA AroundUp ==
  ASSUME NEW o \in Nat, NEW c \in Classes, c + 1 \in Classes
  PROVE  Around(Around(o, c), c + 1) = Around(o, c + 1)
<1>1. PICK w \in Nat \ {0} : w = ClassSize(c) /\ ClassSize(c + 1) = 2 * w
  BY ClassIs
<1>2. PICK q \in Nat, r \in 0 .. w - 1, a \in Nat :
        Rounds(o, w, q, r, a) /\ (Even(o, w, q, r) \/ Odd(o, w, q, r, a))
  BY RoundTwice
<1>4. Around(o, c) = a
  BY <1>1, <1>2 DEF Around, Rounds
<1>5. PICK p \in Nat, s \in 0 .. w - 1, b \in Nat :
        Rounds(a, w, p, s, b) /\ (Even(a, w, p, s) \/ Odd(a, w, p, s, b))
  BY RoundTwice
<1>6. s = 0 /\ a = b /\ p = q
  BY <1>2, <1>5 DEF Rounds
<1>7. CASE Even(o, w, q, r)
  <2>1. Even(a, w, p, s)
    BY <1>5, <1>6, <1>7 DEF Even, Odd
  <2> QED BY <1>1, <1>2, <1>4, <1>6, <1>7, <2>1 DEF Around, Even, Rounds
<1>8. CASE Odd(o, w, q, r, a)
  <2>1. Odd(a, w, p, s, b)
    BY <1>5, <1>6, <1>8 DEF Even, Odd
  <2> QED BY <1>1, <1>2, <1>4, <1>6, <1>8, <2>1 DEF Around, Odd, Rounds
<1> QED BY <1>2, <1>7, <1>8

\* What is aligned for a class is for the one below, where its buddy follows it.
LEMMA AlignedDown ==
  ASSUME NEW o \in Nat, NEW c \in Classes, c + 1 \in Classes, Around(o, c + 1) = o
  PROVE  /\ Around(o, c) = o /\ Buddy(o, c) = o + ClassSize(c)
         /\ Buddy(o + ClassSize(c), c) = o /\ Around(o + ClassSize(c), c) = o + ClassSize(c)
<1>0. ClassSize(c) \in Nat \ {0}
  BY ClassIs
<1>1. Around(Around(o, c), c + 1) = o /\ Around(o, c) \in Nat /\ Around(o, c) <= o
  BY AroundUp, AroundIs
<1>2. Around(Around(o, c), c + 1) <= Around(o, c)
  BY <1>1, AroundIs
<1>3. Around(o, c) = o
  BY <1>1, <1>2
<1>4. Buddy(o, c) = o + ClassSize(c)
  BY <1>0, <1>3, BuddyIs
<1> QED BY <1>3, <1>4, BuddyIs

-----------------------------------------------------------------------------
(* Blocks and the granules they cover                                      *)

Blocks == Nat \X Classes
Aligned(b) == Around(b[1], b[2]) = b[1]
Covered(X) == UNION { Extent(b) : b \in X }
NoOverlap(X) == \A b, d \in X : b # d => Extent(b) \cap Extent(d) = {}

\* A block, and where it starts.
LEMMA ExtentIs ==
  ASSUME NEW b \in Blocks
  PROVE  b[1] \in Nat /\ b[2] \in Classes /\ b = <<b[1], b[2]>> /\ b[1] \in Extent(b) /\ Extent(b) \subseteq Nat
<1>1. b[1] \in Nat /\ b[2] \in Classes /\ b = <<b[1], b[2]>>
  BY DEF Blocks
<1>2. ClassSize(b[2]) \in Nat \ {0}
  BY <1>1, ClassIs
<1> QED BY <1>1, <1>2 DEF Extent

\* Some blocks make way for others that cover the same granules.
LEMMA Exchange ==
  ASSUME NEW A, NEW X, X \subseteq A, NEW Y, NoOverlap(A), NoOverlap(Y), Covered(X) = Covered(Y)
  PROVE  /\ NoOverlap((A \ X) \cup Y) /\ Covered((A \ X) \cup Y) = Covered(A)
         /\ \A d \in A \ X : \A y \in Y : Extent(d) \cap Extent(y) = {}
<1>1. ASSUME NEW d \in A \ X, NEW y \in Y PROVE Extent(d) \cap Extent(y) = {}
  <2> SUFFICES ASSUME NEW g \in Extent(d), g \in Extent(y) PROVE FALSE
    OBVIOUS
  <2>1. g \in Covered(X)
    BY DEF Covered
  <2>2. PICK x \in X : g \in Extent(x)
    BY <2>1 DEF Covered
  <2> QED BY <2>2 DEF NoOverlap
<1>2. NoOverlap((A \ X) \cup Y)
  BY <1>1 DEF NoOverlap
<1>3. Covered(A) = Covered(A \ X) \cup Covered(X)
  BY DEF Covered
<1>4. Covered((A \ X) \cup Y) = Covered(A \ X) \cup Covered(Y)
  BY DEF Covered
<1> QED BY <1>1, <1>2, <1>3, <1>4

\* A block of class c and the buddies with which it merges up to class k.
Partner(o, j) == <<Buddy(Around(o, j), j), j>>
Pieces(o, c, k) == {<<o, c>>} \cup { Partner(o, j) : j \in c .. k - 1 }

\* What is below a class is a class.
LEMMA ClassesBelow ==
  ASSUME NEW k \in Classes, NEW j \in Nat, j <= k
  PROVE  j \in Classes /\ (j < k => j + 1 \in Classes)
  BY ArenaAssumption DEF Classes

\* The next larger block is this one and its partner.
LEMMA PartnerIs ==
  ASSUME NEW o \in Nat, NEW j \in Classes, j + 1 \in Classes
  PROVE  /\ Partner(o, j) \in Blocks /\ Aligned(Partner(o, j))
         /\ Extent(<<Around(o, j + 1), j + 1>>) = Extent(<<Around(o, j), j>>) \cup Extent(Partner(o, j))
         /\ Extent(<<Around(o, j), j>>) \cap Extent(Partner(o, j)) = {}
<1>1. PICK a \in Nat : a = Around(o, j) /\ Around(a, j) = a
  BY AroundIs
<1>2. PICK w \in Nat \ {0} : w = ClassSize(j) /\ ClassSize(j + 1) = 2 * w
  BY ClassIs
<1>3. PICK b \in Nat : b = Buddy(a, j) /\ Around(b, j) = b
  BY <1>1, BuddyIs
<1>4. (b = a + w /\ Around(o, j + 1) = a) \/ (b = a - w /\ Around(o, j + 1) = a - w)
  <2>1. Around(a, j + 1) = Around(o, j + 1)
    BY <1>1, AroundUp
  <2>2. (b = a + w /\ Around(a, j + 1) = a) \/ (b = a - w /\ Around(a, j + 1) = a - w)
    BY <1>1, <1>2, <1>3, BuddyIs
  <2> QED BY <2>1, <2>2
<1>5. Partner(o, j) = <<b, j>> /\ <<b, j>> \in Blocks /\ Aligned(<<b, j>>)
  BY <1>1, <1>3 DEF Partner, Blocks, Aligned
<1>6. Extent(<<a, j>>) = a .. a + w - 1 /\ Extent(<<b, j>>) = b .. b + w - 1
  BY <1>2 DEF Extent
<1>7. CASE b = a + w /\ Around(o, j + 1) = a
  <2>1. Extent(<<a, j + 1>>) = a .. a + 2 * w - 1
    BY <1>2 DEF Extent
  <2>2. a .. a + 2 * w - 1 = (a .. a + w - 1) \cup (b .. b + w - 1) /\ (a .. a + w - 1) \cap (b .. b + w - 1) = {}
    BY <1>7
  <2> QED BY <1>1, <1>5, <1>6, <1>7, <2>1, <2>2
<1>8. CASE b = a - w /\ Around(o, j + 1) = a - w
  <2>1. Extent(<<b, j + 1>>) = b .. b + 2 * w - 1
    BY <1>2 DEF Extent
  <2>2. b .. b + 2 * w - 1 = (a .. a + w - 1) \cup (b .. b + w - 1) /\ (a .. a + w - 1) \cap (b .. b + w - 1) = {}
    BY <1>8
  <2> QED BY <1>1, <1>5, <1>6, <1>8, <2>1, <2>2
<1> QED BY <1>4, <1>7, <1>8

\* They cover the merged block, each its own part of it.
Merges(o, c, k) == Covered(Pieces(o, c, k)) = Extent(<<Around(o, k), k>>) /\ NoOverlap(Pieces(o, c, k))

\* By induction over the classes.
LEMMA PiecesMerge ==
  ASSUME NEW o \in Nat, NEW c \in Classes, Around(o, c) = o, NEW k \in Classes, c <= k
  PROVE  Merges(o, c, k)
<1> DEFINE T == {n \in Nat : c + n \in Classes => Merges(o, c, c + n)}
<1>0. c \in Nat /\ k \in Nat
  BY DEF Classes
<1>1. 0 \in T
  <2>1. Pieces(o, c, c) = {<<o, c>>}
    BY <1>0 DEF Pieces
  <2>2. Merges(o, c, c)
    BY <2>1 DEF Merges, Covered, NoOverlap
  <2>3. c + 0 = c
    BY <1>0
  <2> QED BY <2>2, <2>3
<1>2. ASSUME NEW n \in T PROVE n + 1 \in T
  <2> SUFFICES ASSUME c + (n + 1) \in Classes PROVE Merges(o, c, c + (n + 1))
    OBVIOUS
  <2>1. PICK j \in Nat : j = c + n
    BY <1>0
  <2>2. j \in Classes /\ j + 1 \in Classes /\ c + (n + 1) = j + 1
    <3>1. n \in Nat /\ c + (n + 1) = j + 1 /\ j <= c + (n + 1)
      BY <1>0, <2>1
    <3> QED BY <3>1, <2>1, ClassesBelow
  <2>3. Merges(o, c, j)
    BY <2>1, <2>2
  <2>4. Pieces(o, c, j + 1) = Pieces(o, c, j) \cup {Partner(o, j)}
    <3>1. c .. (j + 1) - 1 = (c .. j - 1) \cup {j}
      BY <1>0, <2>1
    <3> QED BY <3>1 DEF Pieces
  <2>5. Covered(Pieces(o, c, j + 1)) = Covered(Pieces(o, c, j)) \cup Extent(Partner(o, j))
    BY <2>4 DEF Covered
  <2>6. \A b \in Pieces(o, c, j) : Extent(b) \subseteq Extent(<<Around(o, j), j>>)
    BY <2>3 DEF Merges, Covered
  <2>7. \A b \in Pieces(o, c, j) : Extent(b) \cap Extent(Partner(o, j)) = {}
    BY <2>2, <2>6, PartnerIs
  <2>8. NoOverlap(Pieces(o, c, j + 1))
    BY <2>3, <2>4, <2>7 DEF NoOverlap, Merges
  <2>9. Covered(Pieces(o, c, j + 1)) = Extent(<<Around(o, j + 1), j + 1>>)
    BY <2>2, <2>3, <2>5, PartnerIs DEF Merges
  <2> QED BY <2>2, <2>8, <2>9 DEF Merges
<1>3. T = Nat
  <2> HIDE DEF T
  <2>1. T \in SUBSET Nat
    BY DEF T
  <2> QED BY <1>1, <1>2, <2>1, Induct
<1>4. k - c \in Nat /\ c + (k - c) = k
  BY <1>0
<1>5. k - c \in T
  BY <1>3, <1>4
<1> QED BY <1>4, <1>5

\* A block is aligned for all the classes below, its buddies there are in it.
LEMMA AlignedBelow ==
  ASSUME NEW o \in Nat, NEW k \in Classes, Around(o, k) = o, NEW j \in Nat, j <= k
  PROVE  /\ Around(o, j) = o
         /\ j < k => Partner(o, j) = <<o + ClassSize(j), j>> /\ Buddy(o + ClassSize(j), j) = o
<1> DEFINE T == {n \in Nat : n <= k => Around(o, k - n) = o}
<1>0. k \in Nat
  BY DEF Classes
<1>1. 0 \in T
  BY <1>0
<1>2. ASSUME NEW n \in T PROVE n + 1 \in T
  <2> SUFFICES ASSUME n + 1 <= k PROVE Around(o, k - (n + 1)) = o
    OBVIOUS
  <2>1. PICK i \in Nat : i = k - (n + 1)
    BY <1>0
  <2>2. i + 1 = k - n /\ i < k /\ i <= k /\ n <= k
    BY <1>0, <2>1
  <2>3. i \in Classes /\ i + 1 \in Classes
    BY <2>2, ClassesBelow
  <2> QED BY <2>1, <2>2, <2>3, AlignedDown
<1>3. T = Nat
  <2> HIDE DEF T
  <2>1. T \in SUBSET Nat
    BY DEF T
  <2> QED BY <1>1, <1>2, <2>1, Induct
<1>4. ASSUME NEW i \in Nat, i <= k PROVE Around(o, i) = o
  <2>1. k - i \in Nat /\ k - i <= k /\ k - (k - i) = i
    BY <1>0, <1>4
  <2>2. k - i \in T
    BY <1>3, <2>1
  <2> QED BY <2>1, <2>2
<1>5. Around(o, j) = o
  BY <1>4
<1>6. ASSUME j < k PROVE Partner(o, j) = <<o + ClassSize(j), j>> /\ Buddy(o + ClassSize(j), j) = o
  <2>1. j \in Classes /\ j + 1 \in Classes /\ j + 1 \in Nat /\ j + 1 <= k
    BY <1>0, <1>6, ClassesBelow
  <2>2. Around(o, j + 1) = o
    BY <1>4, <2>1
  <2> QED BY <1>5, <2>1, <2>2, AlignedDown DEF Partner
<1> QED BY <1>5, <1>6

\* The largest of a bounded set of numbers is what Max says.
LEMMA GreatestOf ==
  ASSUME NEW T \in SUBSET Nat, T # {}, NEW Q \in Nat, \A x \in T : x <= Q
  PROVE  Max(T) \in T /\ \A y \in T : y <= Max(T)
<1> DEFINE R == {Q - x : x \in T}
<1>1. R \in SUBSET Nat /\ R # {}
  <2>1. \A x \in T : x \in Nat /\ Q - x \in Nat
    OBVIOUS
  <2> QED BY <2>1
<1>2. PICK y \in R : \A z \in R : y <= z
  <2> HIDE DEF R
  <2> QED BY <1>1, LeastOf
<1>3. PICK x \in T : y = Q - x
  OBVIOUS
<1>4. ASSUME NEW z \in T PROVE x >= z
  <2>1. Q - z \in R
    OBVIOUS
  <2>2. x \in Nat /\ z \in Nat /\ Q - x <= Q - z
    BY <1>2, <1>3, <2>1
  <2> QED BY <2>2
<1>5. \E v \in T : \A z \in T : v >= z
  BY <1>4
<1>6. Max(T) \in T /\ \A z \in T : Max(T) >= z
  BY <1>5 DEF Max
<1> QED BY <1>6

-----------------------------------------------------------------------------
(* The chains of blocks on their way back                                  *)

Nodes == [Granules -> [next : Granules \cup {Null}, class : Classes]]

Chain(nodes, n, s, o) ==
  /\ \A i, j \in 1 .. n : s[i] = s[j] => i = j
  /\ o = IF n = 0 THEN Null ELSE s[1]
  /\ \A i \in 1 .. n : nodes[s[i]].next = IF i = n THEN Null ELSE s[i + 1]

\* X are the offsets on the chain from o, which ends.
Linked(nodes, o, X) ==
  \E n \in Nat : \E s \in [1 .. n -> Granules] : Chain(nodes, n, s, o) /\ X = {s[i] : i \in 1 .. n}

\* The arena's size, its granules and its share.
LEMMA GranulesAre ==
  /\ TopSize \in Nat \ {0} /\ GranuleCount \in Nat \ {0} /\ Granules = 0 .. GranuleCount - 1
  /\ Null \notin Granules /\ NoFuture \notin Futures
  /\ ShareSize \in Nat \ {0} /\ ShareSize < GranuleCount
<1>1. ClassCount - 1 \in Classes /\ ShareTops \in Nat \ {0} /\ ReserveTops \in Nat \ {0}
  BY ArenaAssumption DEF Classes
<1>2. PICK w \in Nat \ {0} : w = TopSize
  BY <1>1, ClassIs DEF TopSize
<1>3. PICK x \in Nat \ {0} : x = ShareTops
  BY <1>1
<1>4. PICK y \in Nat \ {0} : y = ReserveTops
  BY <1>1
<1>5. (x + y) * w = x * w + y * w /\ x * w \in Nat \ {0} /\ y * w \in Nat \ {0}
  OBVIOUS
<1> QED BY <1>2, <1>3, <1>4, <1>5, ArenaAssumption DEF GranuleCount, Granules, ShareSize

\* The empty chain.
LEMMA NothingLinked == \A nodes : Linked(nodes, Null, {})
<1> SUFFICES ASSUME NEW nodes PROVE Linked(nodes, Null, {})
  OBVIOUS
<1> DEFINE s == [i \in 1 .. 0 |-> 0]
<1>1. s \in [1 .. 0 -> Granules] /\ Chain(nodes, 0, s, Null) /\ {} = {s[i] : i \in 1 .. 0}
  BY DEF Chain
<1> HIDE DEF s
<1> QED BY <1>1 DEF Linked

\* What is on a chain are granules, its start among them.
LEMMA LinkedSet ==
  ASSUME NEW nodes, NEW o, NEW X, Linked(nodes, o, X)
  PROVE  X \subseteq Granules /\ (o = Null => X = {}) /\ (o # Null => o \in X)
<1>1. PICK n \in Nat : \E s \in [1 .. n -> Granules] : Chain(nodes, n, s, o) /\ X = {s[i] : i \in 1 .. n}
  BY DEF Linked
<1>2. PICK s \in [1 .. n -> Granules] : Chain(nodes, n, s, o) /\ X = {s[i] : i \in 1 .. n}
  BY <1>1
<1>3. X \subseteq Granules
  BY <1>2
<1>4. CASE n = 0
  BY <1>2, <1>3, <1>4 DEF Chain
<1>5. CASE n # 0
  <2>1. 1 \in 1 .. n /\ o = s[1]
    BY <1>2, <1>5 DEF Chain
  <2>2. o \in X /\ o \in Granules
    BY <1>2, <2>1
  <2> QED BY <1>3, <2>2, GranulesAre
<1> QED BY <1>4, <1>5

\* A block is put before the chain.
LEMMA LinkedPush ==
  ASSUME NEW nodes, NEW o, NEW X, Linked(nodes, o, X), NEW x \in Granules \ X, nodes[x].next = o
  PROVE  Linked(nodes, x, X \cup {x})
<1>1. PICK n \in Nat : \E s \in [1 .. n -> Granules] : Chain(nodes, n, s, o) /\ X = {s[i] : i \in 1 .. n}
  BY DEF Linked
<1>2. PICK s \in [1 .. n -> Granules] : Chain(nodes, n, s, o) /\ X = {s[i] : i \in 1 .. n}
  BY <1>1
<1> DEFINE t == [i \in 1 .. n + 1 |-> IF i = 1 THEN x ELSE s[i - 1]]
<1>3. \A i \in 1 .. n + 1 : i # 1 => i - 1 \in 1 .. n /\ t[i] = s[i - 1] /\ t[i] # x /\ t[i] \in Granules
  BY <1>2
<1>4. 1 \in 1 .. n + 1 /\ t[1] = x
  OBVIOUS
<1>5. t \in [1 .. n + 1 -> Granules]
  BY <1>3
<1>6. \A i, j \in 1 .. n + 1 : t[i] = t[j] => i = j
  <2> SUFFICES ASSUME NEW i \in 1 .. n + 1, NEW j \in 1 .. n + 1, t[i] = t[j] PROVE i = j
    OBVIOUS
  <2>1. CASE i = 1 \/ j = 1
    BY <1>3, <1>4, <2>1
  <2>2. CASE i # 1 /\ j # 1
    <3> HIDE DEF t
    <3>1. i - 1 \in 1 .. n /\ j - 1 \in 1 .. n /\ s[i - 1] = s[j - 1]
      BY <1>3, <2>2
    <3>2. i - 1 = j - 1
      BY <1>2, <3>1 DEF Chain
    <3> QED BY <3>2
  <2> QED BY <2>1, <2>2
<1>7. ASSUME NEW i \in 1 .. n + 1 PROVE nodes[t[i]].next = IF i = n + 1 THEN Null ELSE t[i + 1]
  <2>1. CASE i = 1
    <3>1. n # 0 => 2 \in 1 .. n + 1 /\ t[2] = s[1]
      OBVIOUS
    <3>2. o = IF n = 0 THEN Null ELSE t[2]
      BY <1>2, <3>1 DEF Chain
    <3>3. nodes[t[1]].next = o
      BY <1>4
    <3> QED BY <2>1, <3>2, <3>3
  <2>2. CASE i # 1
    <3>1. i - 1 \in 1 .. n /\ t[i] = s[i - 1]
      BY <1>3, <2>2
    <3>2. nodes[s[i - 1]].next = IF i - 1 = n THEN Null ELSE s[(i - 1) + 1]
      BY <1>2, <3>1 DEF Chain
    <3>3. i # n + 1 => i + 1 \in 1 .. n + 1 /\ i + 1 # 1 /\ t[i + 1] = s[(i + 1) - 1]
      BY <1>3
    <3>4. (i - 1) + 1 = i /\ (i + 1) - 1 = i
      OBVIOUS
    <3> HIDE DEF t
    <3> QED BY <3>1, <3>2, <3>3, <3>4
  <2> QED BY <2>1, <2>2
<1>8. X \cup {x} = {t[i] : i \in 1 .. n + 1}
  <2>1. ASSUME NEW y \in X PROVE \E i \in 1 .. n + 1 : y = t[i]
    <3>1. PICK i \in 1 .. n : y = s[i]
      BY <1>2
    <3>2. i + 1 \in 1 .. n + 1 /\ i + 1 # 1 /\ (i + 1) - 1 = i
      OBVIOUS
    <3>3. t[i + 1] = s[(i + 1) - 1]
      BY <1>3, <3>2
    <3> HIDE DEF t
    <3> QED BY <3>1, <3>2, <3>3
  <2>2. ASSUME NEW i \in 1 .. n + 1 PROVE t[i] \in X \cup {x}
    BY <1>2, <1>3, <1>4
  <2> HIDE DEF t
  <2> QED BY <1>4, <2>1, <2>2
<1>9. n + 1 \in Nat /\ n + 1 # 0
  OBVIOUS
<1> HIDE DEF t
<1>10. Chain(nodes, n + 1, t, x)
  BY <1>4, <1>6, <1>7, <1>9 DEF Chain
<1> QED BY <1>5, <1>8, <1>9, <1>10 DEF Linked

\* The first block is taken off.
LEMMA LinkedPop ==
  ASSUME NEW nodes, NEW o, NEW X, Linked(nodes, o, X), o # Null
  PROVE  o \in X /\ Linked(nodes, nodes[o].next, X \ {o})
<1>1. PICK n \in Nat : \E s \in [1 .. n -> Granules] : Chain(nodes, n, s, o) /\ X = {s[i] : i \in 1 .. n}
  BY DEF Linked
<1>2. PICK s \in [1 .. n -> Granules] : Chain(nodes, n, s, o) /\ X = {s[i] : i \in 1 .. n}
  BY <1>1
<1>3. n # 0 /\ o = s[1] /\ 1 \in 1 .. n
  BY <1>2 DEF Chain
<1>4. PICK m \in Nat : n = m + 1
  <2>1. n - 1 \in Nat /\ n = (n - 1) + 1
    BY <1>3
  <2> QED BY <2>1
<1> DEFINE t == [i \in 1 .. m |-> s[i + 1]]
<1>5. \A i \in 1 .. m : i + 1 \in 1 .. n /\ i + 1 # 1 /\ t[i] = s[i + 1] /\ t[i] \in Granules
  BY <1>4
<1>6. t \in [1 .. m -> Granules]
  BY <1>5
<1> HIDE DEF t
<1>7. \A i, j \in 1 .. m : t[i] = t[j] => i = j
  <2> SUFFICES ASSUME NEW i \in 1 .. m, NEW j \in 1 .. m, t[i] = t[j] PROVE i = j
    OBVIOUS
  <2>1. i + 1 = j + 1
    BY <1>2, <1>5 DEF Chain
  <2> QED BY <2>1
<1>8. nodes[o].next = IF m = 0 THEN Null ELSE t[1]
  <2>1. nodes[s[1]].next = IF 1 = n THEN Null ELSE s[1 + 1]
    BY <1>2, <1>3 DEF Chain
  <2>2. m # 0 => 1 \in 1 .. m /\ t[1] = s[1 + 1]
    BY <1>5
  <2> QED BY <1>3, <1>4, <2>1, <2>2
<1>9. ASSUME NEW i \in 1 .. m PROVE nodes[t[i]].next = IF i = m THEN Null ELSE t[i + 1]
  <2>1. i + 1 \in 1 .. n /\ t[i] = s[i + 1]
    BY <1>5
  <2>2. nodes[s[i + 1]].next = IF i + 1 = n THEN Null ELSE s[(i + 1) + 1]
    BY <1>2, <2>1 DEF Chain
  <2>3. i # m => i + 1 \in 1 .. m /\ t[i + 1] = s[(i + 1) + 1]
    BY <1>5
  <2> QED BY <1>4, <2>1, <2>2, <2>3
<1>10. X \ {o} = {t[i] : i \in 1 .. m}
  <2>1. ASSUME NEW y \in X \ {o} PROVE \E i \in 1 .. m : y = t[i]
    <3>1. PICK i \in 1 .. n : y = s[i]
      BY <1>2
    <3>2. i # 1
      BY <1>3, <3>1
    <3>3. i - 1 \in 1 .. m /\ (i - 1) + 1 = i
      BY <1>4, <3>2
    <3>4. t[i - 1] = s[(i - 1) + 1]
      BY <1>5, <3>3
    <3> QED BY <3>1, <3>3, <3>4
  <2>2. ASSUME NEW i \in 1 .. m PROVE t[i] \in X \ {o}
    <3>1. i + 1 \in 1 .. n /\ i + 1 # 1 /\ t[i] = s[i + 1]
      BY <1>5
    <3>2. s[i + 1] # s[1]
      BY <1>2, <1>3, <3>1 DEF Chain
    <3> QED BY <1>2, <1>3, <3>1, <3>2
  <2> QED BY <2>1, <2>2
<1>11. Chain(nodes, m, t, nodes[o].next)
  BY <1>7, <1>8, <1>9 DEF Chain
<1>12. o \in X
  BY <1>2, <1>3
<1> QED BY <1>6, <1>10, <1>11, <1>12 DEF Linked

\* Only the nodes on the chain matter.
LEMMA LinkedKept ==
  ASSUME NEW nodes, NEW others, NEW o, NEW X, Linked(nodes, o, X), \A x \in X : others[x] = nodes[x]
  PROVE  Linked(others, o, X)
<1>1. PICK n \in Nat : \E s \in [1 .. n -> Granules] : Chain(nodes, n, s, o) /\ X = {s[i] : i \in 1 .. n}
  BY DEF Linked
<1>2. PICK s \in [1 .. n -> Granules] : Chain(nodes, n, s, o) /\ X = {s[i] : i \in 1 .. n}
  BY <1>1
<1>3. \A i \in 1 .. n : s[i] \in X /\ others[s[i]] = nodes[s[i]]
  BY <1>2
<1>4. Chain(others, n, s, o)
  BY <1>2, <1>3 DEF Chain
<1> QED BY <1>2, <1>4 DEF Linked

\* After k steps along the chain.
Along(n, s, k) == {s[i] : i \in {j \in 1 .. n : j <= k + 1}} \cup {x \in {Null} : k >= n}

\* A step of Reach is a step along the chain.
LEMMA AlongOnward ==
  ASSUME NEW nodes, NEW n \in Nat, NEW s \in [1 .. n -> Granules], NEW o, Chain(nodes, n, s, o), NEW k \in Nat
  PROVE  Along(n, s, k + 1) = Onward(nodes, Along(n, s, k))
<1>0. Null \notin Granules
  BY GranulesAre
<1>1. \A i \in 1 .. n : s[i] \in Granules /\ s[i] # Null /\ nodes[s[i]].next = IF i = n THEN Null ELSE s[i + 1]
  BY <1>0 DEF Chain
<1>2. ASSUME NEW x \in Along(n, s, k) PROVE x \in Along(n, s, k + 1)
  <2>1. CASE x = Null /\ k >= n
    BY <2>1 DEF Along
  <2>2. ASSUME NEW i \in 1 .. n, i <= k + 1, x = s[i] PROVE x \in Along(n, s, k + 1)
    <3>1. i <= (k + 1) + 1
      BY <2>2
    <3> QED BY <2>2, <3>1 DEF Along
  <2> QED BY <2>1, <2>2 DEF Along
<1>3. ASSUME NEW x \in Along(n, s, k) \ {Null} PROVE nodes[x].next \in Along(n, s, k + 1)
  <2>1. PICK i \in 1 .. n : i <= k + 1 /\ x = s[i]
    BY DEF Along
  <2>2. CASE i = n
    <3>1. nodes[x].next = Null /\ k + 1 >= n
      BY <1>1, <2>1, <2>2
    <3> QED BY <3>1 DEF Along
  <2>3. CASE i # n
    <3>1. nodes[x].next = s[i + 1] /\ i + 1 \in 1 .. n /\ i + 1 <= (k + 1) + 1
      BY <1>1, <2>1, <2>3
    <3> QED BY <3>1 DEF Along
  <2> QED BY <2>2, <2>3
<1>4. ASSUME NEW y \in Along(n, s, k + 1) PROVE y \in Onward(nodes, Along(n, s, k))
  <2>1. CASE y = Null /\ k + 1 >= n
    <3>1. CASE k >= n
      BY <2>1, <3>1 DEF Onward, Along
    <3>2. CASE ~(k >= n)
      <4>1. n = k + 1 /\ n \in 1 .. n /\ n <= k + 1
        BY <2>1, <3>2
      <4>2. s[n] \in Along(n, s, k) /\ s[n] # Null /\ nodes[s[n]].next = Null
        BY <1>1, <4>1 DEF Along
      <4> QED BY <2>1, <4>2 DEF Onward
    <3> QED BY <3>1, <3>2
  <2>2. ASSUME NEW i \in 1 .. n, i <= (k + 1) + 1, y = s[i] PROVE y \in Onward(nodes, Along(n, s, k))
    <3>1. CASE i <= k + 1
      BY <2>2, <3>1 DEF Onward, Along
    <3>2. CASE ~(i <= k + 1)
      <4>1. i = k + 2 /\ k + 1 \in 1 .. n /\ k + 1 <= k + 1 /\ k + 1 # n /\ (k + 1) + 1 = i
        BY <2>2, <3>2
      <4>2. s[k + 1] \in Along(n, s, k) /\ s[k + 1] # Null /\ nodes[s[k + 1]].next = s[i]
        BY <1>1, <4>1 DEF Along
      <4> QED BY <2>2, <4>2 DEF Onward
    <3> QED BY <3>1, <3>2
  <2> QED BY <2>1, <2>2 DEF Along
<1> QED BY <1>2, <1>3, <1>4 DEF Onward

\* A chain that repeats nothing is no longer than the arena.
LEMMA ChainShort ==
  ASSUME NEW n \in Nat, NEW s \in [1 .. n -> Granules], \A i, j \in 1 .. n : s[i] = s[j] => i = j
  PROVE  n <= GranuleCount
<1>1. s \in Injection(1 .. n, Granules)
  BY DEF Injection, IsInjective
<1>2. GranuleCount \in Nat \ {0} /\ Granules = 0 .. GranuleCount - 1
  BY GranulesAre
<1>3. IsFiniteSet(Granules) /\ Cardinality(Granules) = GranuleCount
  <2>1. 0 \in Int /\ GranuleCount - 1 \in Int
    BY <1>2
  <2>2. /\ IsFiniteSet(0 .. GranuleCount - 1)
        /\ Cardinality(0 .. GranuleCount - 1) = IF 0 > GranuleCount - 1 THEN 0 ELSE (GranuleCount - 1) - 0 + 1
    BY <2>1, FS_Interval
  <2> QED BY <1>2, <2>2
<1>4. Cardinality(1 .. n) <= GranuleCount
  BY <1>1, <1>3, FS_Injection
<1>5. Cardinality(1 .. n) = n
  <2>1. Cardinality(1 .. n) = IF 1 > n THEN 0 ELSE n - 1 + 1
    BY FS_Interval
  <2> QED BY <2>1
<1> QED BY <1>4, <1>5

\* What Reach finds.
LEMMA LinkedReach ==
  ASSUME NEW nodes \in Nodes, NEW o \in Granules \cup {Null}, NEW X, Linked(nodes, o, X)
  PROVE  Reach(nodes, o) = X \cup {Null}
<1> DEFINE U == SUBSET (Granules \cup {Null})
           G == [F \in U |-> Onward(nodes, F)]
           P(f) == f = [k \in 0 .. GranuleCount |-> IF k = 0 THEN {o} ELSE Onward(nodes, f[k - 1])]
<1>1. PICK n \in Nat : \E s \in [1 .. n -> Granules] : Chain(nodes, n, s, o) /\ X = {s[i] : i \in 1 .. n}
  BY DEF Linked
<1>2. PICK s \in [1 .. n -> Granules] : Chain(nodes, n, s, o) /\ X = {s[i] : i \in 1 .. n}
  BY <1>1
<1>3. n <= GranuleCount /\ GranuleCount \in Nat
  BY <1>2, ChainShort, GranulesAre DEF Chain
<1>4. G \in [U -> U]
  <2>1. ASSUME NEW F \in U PROVE Onward(nodes, F) \in U
    <3>1. \A x \in F \ {Null} : x \in Granules /\ nodes[x].next \in Granules \cup {Null}
      BY DEF Nodes
    <3> QED BY <3>1 DEF Onward
  <2> QED BY <2>1
<1>5. PICK f \in [0 .. GranuleCount -> U] : Recurs(f, GranuleCount, {o}, G)
  <2>1. {o} \in U
    OBVIOUS
  <2> HIDE DEF U, G
  <2> QED BY <1>3, <1>4, <2>1, Recursion
<1>6. P(f)
  <2>1. \A k \in 0 .. GranuleCount : k # 0 => k - 1 \in 0 .. GranuleCount /\ f[k - 1] \in U
    BY <1>3
  <2>2. \A k \in 0 .. GranuleCount : k # 0 => G[f[k - 1]] = Onward(nodes, f[k - 1])
    BY <2>1
  <2>3. \A k \in 0 .. GranuleCount : f[k] = IF k = 0 THEN {o} ELSE G[f[k - 1]]
    BY <1>5 DEF Recurs
  <2>4. f = [k \in 0 .. GranuleCount |-> f[k]]
    OBVIOUS
  <2> HIDE DEF G, U
  <2> QED BY <2>2, <2>3, <2>4
<1>7. PICK g : P(g) /\ Reach(nodes, o) = g[GranuleCount]
  <2>1. P(CHOOSE h : P(h))
    <3> HIDE DEF P
    <3> QED BY <1>6
  <2>2. Reach(nodes, o) = (CHOOSE h : P(h))[GranuleCount]
    BY DEF Reach
  <2> HIDE DEF P
  <2> QED BY <2>1, <2>2
<1> DEFINE T == {k \in Nat : k <= GranuleCount => g[k] = Along(n, s, k)}
<1>8. 0 \in T
  <2>1. g[0] = {o}
    BY <1>3, <1>7
  <2>2. CASE n = 0
    BY <1>2, <2>1, <2>2 DEF Chain, Along
  <2>3. CASE n # 0
    <3>1. o = s[1] /\ {j \in 1 .. n : j <= 0 + 1} = {1} /\ ~(0 >= n)
      BY <1>2, <2>3 DEF Chain
    <3> QED BY <2>1, <3>1 DEF Along
  <2> QED BY <2>2, <2>3
<1>9. ASSUME NEW k \in T PROVE k + 1 \in T
  <2> SUFFICES ASSUME k + 1 <= GranuleCount PROVE g[k + 1] = Along(n, s, k + 1)
    OBVIOUS
  <2>1. k \in Nat /\ k + 1 \in 0 .. GranuleCount /\ k + 1 # 0 /\ (k + 1) - 1 = k /\ k <= GranuleCount
    BY <1>3
  <2>2. g[k + 1] = Onward(nodes, g[k])
    BY <1>7, <2>1
  <2>3. g[k] = Along(n, s, k)
    BY <2>1
  <2> HIDE DEF T, P
  <2> QED BY <1>2, <2>1, <2>2, <2>3, AlongOnward
<1>10. T = Nat
  <2> HIDE DEF T
  <2>1. T \in SUBSET Nat
    BY DEF T
  <2> QED BY <1>8, <1>9, <2>1, Induct
<1>11. g[GranuleCount] = Along(n, s, GranuleCount)
  <2>1. GranuleCount \in T
    BY <1>3, <1>10
  <2> QED BY <1>3, <2>1
<1>12. Along(n, s, GranuleCount) = X \cup {Null}
  <2>1. {j \in 1 .. n : j <= GranuleCount + 1} = 1 .. n /\ GranuleCount >= n
    BY <1>3
  <2> QED BY <1>2, <2>1 DEF Along
<1> QED BY <1>7, <1>11, <1>12

-----------------------------------------------------------------------------
(* The invariant.  First where a future is, and the owner.                 *)

FutureOf(t) ==
  /\ life[t] \in {"placed", "live", "publish"} <=> block[t] # NoBlock
  /\ life[t] = "placed" => opc \in {"active", "instance"} /\ request.task = t
  /\ life[t] = "publish" => node[block[t][1]] = [next |-> seen[t], class |-> block[t][2]]
  /\ life[t] = "subInstance" => funding[t] = "Instance"
OwnerAt ==
  /\ opc \in {"swap", "drain"} => request.task \in Futures /\ life[request.task] = "none"
  /\ opc \in {"active", "instance"} =>
       /\ request.task \in Futures /\ life[request.task] = "placed"
       /\ funding[request.task] = request.funding
  /\ opc = "instance" => request.funding = "Instance"
  /\ opc # "drain" => draining = Null
PlaceInv == OwnerAt /\ \A t \in Futures : FutureOf(t)

\* The futures that have blocks, and all the blocks there are when S are the
\* offsets on the stack and D those the drain has yet to get to.
Away == {t \in Futures : block[t] # NoBlock}
Lent == {block[t] : t \in Away}
Returning(X) == {<<x, node[x].class>> : x \in X}
Everything(S, D) == free["Share"] \cup free["Reserve"] \cup Lent \cup Returning(S \cup D)

\* A block is aligned and in one region; nobody has another's block; together
\* the blocks cover the arena, and no two overlap.
Sound(b) == b \in Granules \X Classes /\ Aligned(b) /\ Extent(b) \subseteq Span(RegionOf(b[1]))
Separate(S, D) ==
  /\ S \cap D = {}
  /\ \A t \in Away : block[t][1] \notin S \cup D /\ \A u \in Away : block[t][1] = block[u][1] => t = u
  /\ \A r \in Regions : \A b \in free[r] :
       /\ RegionOf(b[1]) = r /\ b[1] \notin S \cup D
       /\ \A t \in Away : b[1] # block[t][1]
Parts(S, D) ==
  /\ Separate(S, D)
  /\ NoOverlap(Everything(S, D)) /\ Covered(Everything(S, D)) = Granules
  /\ \A b \in Everything(S, D) : Sound(b)

\* A region's granules are in the arena, and in no other region.
LEMMA SpanIs ==
  ASSUME NEW r \in Regions, NEW g \in Span(r)
  PROVE  g \in Granules /\ RegionOf(g) = r
<1>1. ShareSize \in Nat /\ GranuleCount \in Nat /\ ShareSize < GranuleCount /\ Granules = 0 .. GranuleCount - 1
  BY GranulesAre
<1> QED BY <1>1 DEF Regions, Span, Share, Reserve, RegionOf

\* Blocks of the arena are blocks.
LEMMA BlocksAre == Granules \X Classes \subseteq Blocks
  BY GranulesAre DEF Blocks

\* A block inside a sound one is sound, and in the same region.
LEMMA SoundInside ==
  ASSUME NEW b, Sound(b), NEW d \in Blocks, Aligned(d), Extent(d) \subseteq Extent(b)
  PROVE  Sound(d) /\ RegionOf(d[1]) = RegionOf(b[1])
<1>1. d[1] \in Extent(d) /\ d[2] \in Classes /\ d = <<d[1], d[2]>>
  BY ExtentIs
<1>2. RegionOf(b[1]) \in Regions
  BY DEF RegionOf, Regions
<1>3. d[1] \in Span(RegionOf(b[1]))
  BY <1>1 DEF Sound
<1>4. d[1] \in Granules /\ RegionOf(d[1]) = RegionOf(b[1])
  BY <1>2, <1>3, SpanIs
<1>5. d \in Granules \X Classes
  BY <1>1, <1>4
<1> QED BY <1>4, <1>5 DEF Sound

\* Blocks that do not overlap do not start at the same granule.
LEMMA OffsetsDiffer ==
  ASSUME NEW b \in Blocks, NEW d \in Blocks, Extent(b) \cap Extent(d) = {}
  PROVE  b[1] # d[1]
  BY ExtentIs

\* The pieces of a block are aligned and inside it.
LEMMA PiecesInside ==
  ASSUME NEW o \in Nat, NEW c \in Classes, Around(o, c) = o, NEW k \in Classes, c <= k
  PROVE  /\ <<Around(o, k), k>> \in Blocks /\ Aligned(<<Around(o, k), k>>)
         /\ \A p \in Pieces(o, c, k) : /\ p \in Blocks /\ Aligned(p)
                                       /\ Extent(p) \subseteq Extent(<<Around(o, k), k>>)
<1>1. <<Around(o, k), k>> \in Blocks /\ Aligned(<<Around(o, k), k>>)
  BY AroundIs DEF Blocks, Aligned
<1>2. ASSUME NEW p \in Pieces(o, c, k) PROVE p \in Blocks /\ Aligned(p)
  <2>1. CASE p = <<o, c>>
    BY <2>1 DEF Blocks, Aligned
  <2>2. ASSUME NEW j \in c .. k - 1, p = Partner(o, j) PROVE p \in Blocks /\ Aligned(p)
    <3>1. c \in Nat /\ k \in Nat
      BY DEF Classes
    <3>2. j \in Nat /\ j <= k /\ j < k
      BY <3>1
    <3>3. j \in Classes /\ j + 1 \in Classes
      BY <3>2, ClassesBelow
    <3> QED BY <2>2, <3>3, PartnerIs
  <2> QED BY <2>1, <2>2 DEF Pieces
<1>3. ASSUME NEW p \in Pieces(o, c, k) PROVE Extent(p) \subseteq Extent(<<Around(o, k), k>>)
  BY PiecesMerge DEF Merges, Covered
<1> QED BY <1>1, <1>2, <1>3

\* How far a block merges, and what is then free.
LEMMA MergedIs ==
  ASSUME NEW r, NEW o, NEW c \in Classes
  PROVE  \E m \in Classes :
           /\ c <= m /\ \A j \in c .. m - 1 : Partner(o, j) \in free[r]
           /\ m + 1 \in Classes => Partner(o, m) \notin free[r]
           /\ Freed(r, o, c) = (free[r] \ {Partner(o, j) : j \in c .. m - 1}) \cup {<<Around(o, m), m>>}
<1> DEFINE T == { k \in c .. ClassCount - 1 : \A j \in c .. k - 1 : Partner(o, j) \in free[r] }
           m == MergedClass(r, o, c)
<1>0. ClassCount - 1 \in Nat /\ c \in Nat /\ c <= ClassCount - 1 /\ Classes = 0 .. ClassCount - 1
  BY ArenaAssumption DEF Classes
<1>1. m = Max(T)
  BY DEF MergedClass, Partner
<1>2. T \in SUBSET Nat /\ c \in T /\ \A x \in T : x <= ClassCount - 1
  BY <1>0
<1>3. m \in T /\ \A y \in T : y <= m
  <2> HIDE DEF T, m
  <2> QED BY <1>0, <1>1, <1>2, GreatestOf
<1>4. m \in Classes /\ m \in Nat /\ c <= m /\ \A j \in c .. m - 1 : Partner(o, j) \in free[r]
  BY <1>0, <1>3
<1>5. ASSUME m + 1 \in Classes, Partner(o, m) \in free[r] PROVE FALSE
  <2> HIDE DEF m
  <2>1. m + 1 \in c .. ClassCount - 1
    BY <1>0, <1>4, <1>5
  <2>2. \A j \in c .. (m + 1) - 1 : j = m \/ j \in c .. m - 1
    BY <1>0, <1>4
  <2>3. m + 1 \in T
    BY <1>4, <1>5, <2>1, <2>2
  <2>4. m + 1 <= m
    BY <1>3, <2>3
  <2> QED BY <1>4, <2>4
<1>6. Freed(r, o, c) = (free[r] \ {Partner(o, j) : j \in c .. m - 1}) \cup {<<Around(o, m), m>>}
  BY DEF Freed, Partner
<1> HIDE DEF m, T
<1> QED BY <1>4, <1>5, <1>6

\* What is free once a block was split.
LEMMA SplitIs ==
  ASSUME NEW r, NEW b \in Blocks, Aligned(b), NEW c \in Classes, c <= b[2]
  PROVE  /\ Split(r, b, c) = (free[r] \ {b}) \cup {Partner(b[1], j) : j \in c .. b[2] - 1}
         /\ Around(b[1], c) = b[1] /\ Around(b[1], b[2]) = b[1]
         /\ \A j \in c .. b[2] - 1 : /\ j \in Classes /\ j + 1 \in Classes
                                     /\ Partner(b[1], j) = <<b[1] + ClassSize(j), j>>
                                     /\ Buddy(b[1] + ClassSize(j), j) = b[1]
<1>1. b[1] \in Nat /\ b[2] \in Classes /\ Around(b[1], b[2]) = b[1] /\ c \in Nat /\ b[2] \in Nat
  BY DEF Blocks, Aligned, Classes
<1>2. ASSUME NEW j \in c .. b[2] - 1
      PROVE  /\ j \in Classes /\ j + 1 \in Classes /\ Partner(b[1], j) = <<b[1] + ClassSize(j), j>>
             /\ Buddy(b[1] + ClassSize(j), j) = b[1]
  <2>1. j \in Nat /\ j <= b[2] /\ j < b[2]
    BY <1>1
  <2> QED BY <1>1, <2>1, AlignedBelow, ClassesBelow
<1>3. {Partner(b[1], j) : j \in c .. b[2] - 1} = { <<b[1] + ClassSize(k), k>> : k \in c .. b[2] - 1 }
  BY <1>2
<1>4. Around(b[1], c) = b[1]
  BY <1>1, AlignedBelow
<1> QED BY <1>1, <1>2, <1>3, <1>4 DEF Split

\* The types, but for the counts: those follow from what they count.
ArenaTypes ==
  /\ free \in [Regions -> SUBSET (Granules \X Classes)]
  /\ head \in Granules \cup {Null} /\ draining \in Granules \cup {Null}
  /\ node \in Nodes
  /\ opc \in {"idle", "swap", "drain", "active", "instance", "panic"}
  /\ request \in [task : Futures \cup {NoFuture}, class : Classes, funding : Fundings]
  /\ life \in [Futures -> {"none", "placed", "live", "publish", "subInstance", "subActive"}]
  /\ block \in [Futures -> (Granules \X Classes) \cup {NoBlock}]
  /\ funding \in [Futures -> Fundings] /\ seen \in [Futures -> Granules \cup {Null}]

\* S is on the stack, D is being drained, and nothing else is missing.
Carries(S, D) == Linked(node, head, S) /\ Linked(node, draining, D) /\ Parts(S, D)

\* What is not free in region r.
Rest(r, S, D) == (IF r = "Share" THEN free["Reserve"] ELSE free["Share"]) \cup Lent \cup Returning(S \cup D)

\* All blocks are the free ones of a region and the rest.
LEMMA RestIs ==
  ASSUME NEW r \in Regions, NEW S, NEW D
  PROVE  Everything(S, D) = free[r] \cup Rest(r, S, D)
  BY DEF Regions, Everything, Rest

\* No free block is among the rest.
LEMMA RestApart ==
  ASSUME ArenaTypes, NEW r \in Regions, NEW S, NEW D, Parts(S, D), NEW b \in free[r], NEW d \in Rest(r, S, D)
  PROVE  b # d
<1>1. CASE d \in Lent \cup Returning(S \cup D)
  BY <1>1 DEF Parts, Separate, Lent, Returning
<1>2. CASE d \in (IF r = "Share" THEN free["Reserve"] ELSE free["Share"])
  BY <1>2 DEF Parts, Separate, Regions
<1> QED BY <1>1, <1>2 DEF Rest

\* Every block that somebody has is sound.
LEMMA EverythingIsBlocks ==
  ASSUME NEW S, NEW D, Parts(S, D), NEW b \in Everything(S, D)
  PROVE  b \in Blocks /\ Sound(b) /\ Aligned(b) /\ b[1] \in Nat /\ b[2] \in Classes /\ b = <<b[1], b[2]>>
<1>1. Sound(b)
  BY DEF Parts
<1>2. b \in Blocks /\ Aligned(b)
  BY <1>1, BlocksAre DEF Sound
<1> QED BY <1>1, <1>2, ExtentIs

\* Free blocks of a region trade places with others; what else there is does not.
LEMMA Swapped ==
  ASSUME NEW F, NEW R, NEW P, P \subseteq F, NEW x \in R, \A b \in F : \A d \in R : b # d, NEW M
  PROVE  ((F \ P) \cup {M}) \cup (R \ {x}) = ((F \cup R) \ ({x} \cup P)) \cup {M}
  OBVIOUS

\* A turn of the drain merges the block with its free buddies.
LEMMA DrainParts ==
  ASSUME ArenaTypes, NEW S, NEW D, Carries(S, D), DrainOne
  PROVE  \E X : Carries(S, X)'
<1> DEFINE E == Everything(S, D)
<1>1. draining \in D /\ draining \in Granules /\ Linked(node, node[draining].next, D \ {draining})
  <2>1. draining # Null
    BY DEF DrainOne
  <2> QED BY <2>1, LinkedPop DEF Carries, ArenaTypes
<1>2. PICK x \in Nat : x = draining
  BY <1>1, GranulesAre
<1>3. PICK c \in Classes : c = node[x].class
  BY <1>1, <1>2 DEF ArenaTypes, Nodes
<1>4. PICK r \in Regions : r = RegionOf(x)
  BY DEF RegionOf, Regions
<1>5. Parts(S, D) /\ x \in D /\ x \notin S
  BY <1>1, <1>2 DEF Carries, Parts, Separate
<1>6. <<x, c>> \in Returning(S \cup D) /\ <<x, c>> \in Rest(r, S, D) /\ <<x, c>> \in E
  BY <1>3, <1>4, <1>5 DEF Returning, Rest, Everything
<1>7. Sound(<<x, c>>) /\ Around(x, c) = x
  BY <1>5, <1>6, EverythingIsBlocks DEF Aligned
<1>8. PICK m \in Classes :
           /\ c <= m /\ \A j \in c .. m - 1 : Partner(x, j) \in free[r]
           /\ m + 1 \in Classes => Partner(x, m) \notin free[r]
           /\ Freed(r, x, c) = (free[r] \ {Partner(x, j) : j \in c .. m - 1}) \cup {<<Around(x, m), m>>}
  BY MergedIs
<1> DEFINE P == {Partner(x, j) : j \in c .. m - 1}
           M == <<Around(x, m), m>>
<1>9. P \subseteq free[r] /\ Pieces(x, c, m) = {<<x, c>>} \cup P /\ Pieces(x, c, m) \subseteq E
  <2>1. P \subseteq free[r] /\ Pieces(x, c, m) = {<<x, c>>} \cup P
    BY <1>8 DEF Pieces
  <2> HIDE DEF P
  <2> QED BY <1>6, <2>1, RestIs
<1>10. M \in Blocks /\ Aligned(M) /\ Covered(Pieces(x, c, m)) = Extent(M)
  BY <1>7, <1>8, PiecesInside, PiecesMerge DEF Merges
<1> HIDE DEF P, M
<1>11. Sound(M) /\ RegionOf(M[1]) = r
  <2>1. \A p \in Pieces(x, c, m) : Extent(p) \subseteq Span(r)
    <3>1. ASSUME NEW p \in free[r] PROVE Extent(p) \subseteq Span(r)
      <4>1. Sound(p) /\ RegionOf(p[1]) = r
        BY <1>5, <1>9, RestIs, EverythingIsBlocks DEF Parts, Separate
      <4> QED BY <4>1 DEF Sound
    <3>2. Extent(<<x, c>>) \subseteq Span(r)
      BY <1>4, <1>7 DEF Sound
    <3> QED BY <1>9, <3>1, <3>2
  <2>2. Extent(M) \subseteq Span(r)
    BY <1>10, <2>1 DEF Covered
  <2>3. M[1] \in Extent(M) /\ M[2] \in Classes /\ M = <<M[1], M[2]>>
    BY <1>10, ExtentIs
  <2>4. M[1] \in Granules /\ RegionOf(M[1]) = r
    BY <2>2, <2>3, SpanIs
  <2>5. M \in Granules \X Classes
    BY <2>3, <2>4
  <2> QED BY <1>10, <2>2, <2>4, <2>5 DEF Sound
<1>12. /\ NoOverlap((E \ Pieces(x, c, m)) \cup {M}) /\ Covered((E \ Pieces(x, c, m)) \cup {M}) = Covered(E)
       /\ \A d \in E \ Pieces(x, c, m) : Extent(d) \cap Extent(M) = {}
  <2>1. NoOverlap(E) /\ NoOverlap({M}) /\ Covered({M}) = Extent(M)
    BY <1>5 DEF Parts, NoOverlap, Covered
  <2> HIDE DEF E
  <2> QED BY <1>9, <1>10, <2>1, Exchange
<1>13. /\ free' = [free EXCEPT ![r] = (free[r] \ P) \cup {M}]
       /\ node' = [node EXCEPT ![x] = NoNode]
       /\ draining' = node[x].next /\ UNCHANGED <<head, block>>
  BY <1>2, <1>3, <1>4, <1>8 DEF DrainOne, P, M, taskVars
<1>14. /\ free'[r] = (free[r] \ P) \cup {M}
       /\ \A o \in Regions : o # r => free'[o] = free[o]
       /\ \A y \in Granules : y # x => node'[y] = node[y]
  BY <1>13 DEF ArenaTypes, Nodes
<1>15. /\ Away' = Away /\ Lent' = Lent
       /\ Returning(S \cup (D \ {x}))' = Returning(S \cup D) \ {<<x, c>>}
  <2>1. Away' = Away /\ Lent' = Lent
    BY <1>13 DEF Away, Lent
  <2>2. S \cup D \subseteq Granules
    BY LinkedSet DEF Carries
  <2>3. \A y \in S \cup D : y # x => node'[y] = node[y]
    BY <1>14, <2>2
  <2>4. S \cup (D \ {x}) = (S \cup D) \ {x}
    BY <1>5
  <2>5. Returning(S \cup (D \ {x}))' = {<<y, node[y].class>> : y \in (S \cup D) \ {x}}
    BY <2>3, <2>4 DEF Returning
  <2>6. Returning(S \cup D) \ {<<x, c>>} = {<<y, node[y].class>> : y \in (S \cup D) \ {x}}
    BY <1>3 DEF Returning
  <2> QED BY <2>1, <2>5, <2>6
<1>16. Rest(r, S, D \ {x})' = Rest(r, S, D) \ {<<x, c>>}
  <2>1. <<x, c>> \notin Lent
    BY <1>5 DEF Parts, Separate, Lent
  <2>2. \A o \in Regions : <<x, c>> \notin free[o]
    BY <1>5 DEF Parts, Separate
  <2>3. (IF r = "Share" THEN free["Reserve"] ELSE free["Share"])' = IF r = "Share" THEN free["Reserve"] ELSE free["Share"]
    BY <1>14 DEF Regions
  <2> QED BY <1>15, <2>1, <2>2, <2>3 DEF Rest, Regions
<1>17. Everything(S, D \ {x})' = (E \ Pieces(x, c, m)) \cup {M}
  <2>1. Everything(S, D \ {x})' = free'[r] \cup Rest(r, S, D \ {x})'
    BY DEF Regions, Everything, Rest
  <2>2. E = free[r] \cup Rest(r, S, D)
    BY RestIs
  <2>3. \A b \in free[r] : \A d \in Rest(r, S, D) : b # d
    BY <1>5, RestApart
  <2> HIDE DEF E
  <2> QED BY <1>6, <1>9, <1>14, <1>16, <2>1, <2>2, <2>3, Swapped
<1>18. Separate(S, D \ {x})'
  <2>1. \A d \in E \ Pieces(x, c, m) : d \in Blocks /\ d[1] # M[1]
    BY <1>5, <1>10, <1>12, EverythingIsBlocks, OffsetsDiffer
  <2>2. ASSUME NEW t \in Away PROVE block[t] \in E \ Pieces(x, c, m)
    <3>1. block[t] \in Lent /\ block[t][1] # x
      BY <1>5 DEF Parts, Separate, Lent
    <3>2. block[t] \in Rest(r, S, D) /\ block[t] \notin P
      BY <1>5, <1>9, <3>1, RestApart DEF Rest
    <3>4. block[t] # <<x, c>>
      BY <3>1
    <3> QED BY <1>9, <3>1, <3>2, <3>4 DEF Everything
  <2>3. ASSUME NEW y \in S \cup D, y # x PROVE y # M[1]
    <3>1. <<y, node[y].class>> \in Returning(S \cup D) /\ <<y, node[y].class>> # <<x, c>>
      BY <2>3 DEF Returning
    <3>2. <<y, node[y].class>> \in Rest(r, S, D) /\ <<y, node[y].class>> \notin P
      BY <1>5, <1>9, <3>1, RestApart DEF Rest
    <3>3. <<y, node[y].class>> \in E \ Pieces(x, c, m)
      BY <1>9, <3>1, <3>2 DEF Everything
    <3> QED BY <2>1, <3>3
  <2>4. ASSUME NEW o \in Regions, NEW b \in free'[o]
        PROVE  /\ RegionOf(b[1]) = o /\ b[1] \notin S \cup (D \ {x})
               /\ \A t \in Away : b[1] # block[t][1]
    <3>1. CASE b \in free[o]
      BY <1>5, <3>1 DEF Parts, Separate
    <3>2. CASE b = M /\ o = r
      <4>1. RegionOf(b[1]) = o
        BY <1>11, <3>2
      <4>2. b[1] \notin S \cup (D \ {x})
        BY <1>5, <2>3, <3>2
      <4>3. \A t \in Away : b[1] # block[t][1]
        BY <2>1, <2>2, <3>2
      <4> QED BY <4>1, <4>2, <4>3
    <3> QED BY <1>14, <2>4, <3>1, <3>2
  <2> QED BY <1>5, <1>13, <1>15, <2>4 DEF Separate, Parts
<1>19. Parts(S, D \ {x})'
  <2>1. ASSUME NEW b \in (E \ Pieces(x, c, m)) \cup {M} PROVE Sound(b)
    BY <1>5, <1>11, EverythingIsBlocks
  <2>2. NoOverlap(Everything(S, D \ {x}))' /\ Covered(Everything(S, D \ {x}))' = Granules
    BY <1>5, <1>12, <1>17 DEF Parts, NoOverlap, Covered, Extent
  <2>3. \A b \in Everything(S, D \ {x})' : Sound(b)'
    BY <1>17, <2>1 DEF Sound, Aligned, Extent
  <2> QED BY <1>18, <2>2, <2>3 DEF Parts
<1>20. Linked(node, head, S)' /\ Linked(node, draining, D \ {x})'
  <2>1. S \subseteq Granules /\ D \subseteq Granules
    BY LinkedSet DEF Carries
  <2>2. Linked(node', head, S)
    BY <1>5, <1>14, <2>1, LinkedKept DEF Carries
  <2>3. Linked(node', node[x].next, D \ {x})
    BY <1>1, <1>2, <1>14, <2>1, LinkedKept
  <2> QED BY <1>13, <2>2, <2>3 DEF Linked, Chain
<1>21. Carries(S, D \ {x})'
  BY <1>19, <1>20 DEF Carries
<1> QED BY <1>21

\* A free block gives way to its pieces, of which one leaves the region.
LEMMA Replaced ==
  ASSUME NEW F, NEW R, NEW b \in F, \A d \in F : \A e \in R : d # e, NEW Q, NEW P
  PROVE  ((F \ {b}) \cup P) \cup (R \cup {Q}) = ((F \cup R) \ {b}) \cup ({Q} \cup P)
  OBVIOUS

\* The blocks of futures and chains are among the rest.
LEMMA OldBlocks ==
  ASSUME NEW S, NEW D, NEW r \in Regions
  PROVE  /\ \A t \in Away : block[t] \in Rest(r, S, D)
         /\ \A y \in S \cup D : <<y, node[y].class>> \in Rest(r, S, D)
  BY DEF Rest, Lent, Returning

\* A source is split, and a piece of it becomes the future's.
LEMMA PlaceParts ==
  ASSUME ArenaTypes, PlaceInv, NEW S, NEW D, Carries(S, D), opc = "drain",
         NEW r \in Regions, NEW b \in Sources(r, request.class), Place(r, b)
  PROVE  Carries(S, D)'
<1> DEFINE E == Everything(S, D)
           c == request.class
           t == request.task
           P == {Partner(b[1], j) : j \in c .. b[2] - 1}
           Q == <<b[1], c>>
           Y == {Q} \cup P
<1>1. b \in free[r] /\ c \in Classes /\ c <= b[2] /\ t \in Futures /\ block[t] = NoBlock /\ Parts(S, D)
  BY DEF Sources, PlaceInv, OwnerAt, FutureOf, Carries, ArenaTypes
<1>2. /\ b \in E /\ b \in Blocks /\ Sound(b) /\ Aligned(b) /\ b[1] \in Nat /\ b[2] \in Classes
      /\ b = <<b[1], b[2]>> /\ RegionOf(b[1]) = r
  <2>1. b \in E
    BY <1>1, RestIs
  <2> QED BY <1>1, <2>1, EverythingIsBlocks DEF Parts, Separate
<1>3. /\ Split(r, b, c) = (free[r] \ {b}) \cup P /\ Around(b[1], c) = b[1] /\ Around(b[1], b[2]) = b[1]
      /\ \A j \in c .. b[2] - 1 : j \in Classes /\ Partner(b[1], j) = <<b[1] + ClassSize(j), j>>
  BY <1>1, <1>2, SplitIs
<1>4. Y = Pieces(b[1], c, b[2]) /\ Covered(Y) = Extent(b) /\ NoOverlap(Y)
  <2>1. Y = Pieces(b[1], c, b[2])
    BY DEF Pieces
  <2>2. Merges(b[1], c, b[2])
    BY <1>1, <1>2, <1>3, PiecesMerge
  <2> HIDE DEF Y
  <2> QED BY <1>2, <1>3, <2>1, <2>2 DEF Merges
<1>5. \A p \in Y : p \in Blocks /\ Sound(p) /\ RegionOf(p[1]) = r
  <2>1. ASSUME NEW p \in Y PROVE p \in Blocks /\ Aligned(p) /\ Extent(p) \subseteq Extent(b)
    <3> HIDE DEF Y
    <3> QED BY <1>1, <1>2, <1>3, <1>4, PiecesInside
  <2> HIDE DEF Y
  <2> QED BY <1>2, <2>1, SoundInside
<1>6. \A p \in P : p \in Y /\ Q \in Y /\ p # Q
  <2>1. ASSUME NEW j \in c .. b[2] - 1 PROVE Partner(b[1], j) # Q
    <3>1. ClassSize(j) \in Nat \ {0}
      BY <1>3, ClassIs
    <3> QED BY <1>2, <1>3, <3>1
  <2> QED BY <2>1
<1>7. /\ free' = [free EXCEPT ![r] = (free[r] \ {b}) \cup P]
      /\ block' = [block EXCEPT ![t] = Q] /\ UNCHANGED <<head, node, draining>>
  BY <1>3 DEF Place
<1>8. /\ free'[r] = (free[r] \ {b}) \cup P /\ \A o \in Regions : o # r => free'[o] = free[o]
      /\ block'[t] = Q /\ \A u \in Futures : u # t => block'[u] = block[u]
  BY <1>1, <1>7 DEF ArenaTypes
<1>9. Q # NoBlock /\ Away' = Away \cup {t} /\ t \notin Away /\ \A u \in Away : block'[u] = block[u]
  <2>1. b[1] \in Granules
    BY <1>2 DEF Sound
  <2>2. Q # NoBlock
    BY <2>1, GranulesAre DEF NoBlock
  <2> HIDE DEF Q
  <2> QED BY <1>1, <1>8, <2>2 DEF Away
<1> HIDE DEF P, Q, Y, t, c
<1>10. Lent' = Lent \cup {Q}
  BY <1>8, <1>9 DEF Lent
<1>11. Rest(r, S, D)' = Rest(r, S, D) \cup {Q}
  <2>1. (IF r = "Share" THEN free["Reserve"] ELSE free["Share"])' = IF r = "Share" THEN free["Reserve"] ELSE free["Share"]
    BY <1>8 DEF Regions
  <2>2. Returning(S \cup D)' = Returning(S \cup D)
    BY <1>7 DEF Returning
  <2> QED BY <1>10, <2>1, <2>2 DEF Rest
<1>12. \A d \in free[r] : \A e \in Rest(r, S, D) : d # e
  BY <1>1, RestApart
<1>13. Everything(S, D)' = (E \ {b}) \cup Y
  <2>1. Everything(S, D)' = free'[r] \cup Rest(r, S, D)'
    BY DEF Regions, Everything, Rest
  <2>2. E = free[r] \cup Rest(r, S, D)
    BY RestIs
  <2>3. Y = {Q} \cup P
    BY DEF Y
  <2> HIDE DEF E
  <2> QED BY <1>1, <1>8, <1>11, <1>12, <2>1, <2>2, <2>3, Replaced
<1>14. /\ NoOverlap((E \ {b}) \cup Y) /\ Covered((E \ {b}) \cup Y) = Covered(E)
       /\ \A d \in E \ {b} : \A y \in Y : Extent(d) \cap Extent(y) = {}
  <2>1. NoOverlap(E) /\ Covered({b}) = Extent(b) /\ {b} \subseteq E
    BY <1>1, <1>2 DEF Parts, Covered
  <2> HIDE DEF E
  <2> QED BY <1>4, <2>1, Exchange
<1>15. \A d \in E \ {b} : \A y \in Y : d[1] # y[1]
  BY <1>1, <1>5, <1>14, EverythingIsBlocks, OffsetsDiffer
<1>16. \A p \in P : p[1] # Q[1]
  BY <1>4, <1>5, <1>6, OffsetsDiffer DEF NoOverlap
<1>17. \A d \in Rest(r, S, D) : d \in E \ {b}
  BY <1>1, <1>12, RestIs
<1>18. \A y \in Y : /\ y[1] \notin S \cup D
                    /\ \A u \in Away : y[1] # block[u][1]
  <2>1. ASSUME NEW y \in Y, NEW z \in S \cup D PROVE y[1] # z
    <3>1. <<z, node[z].class>> \in E \ {b}
      BY <1>17, OldBlocks
    <3> QED BY <1>15, <3>1
  <2>2. ASSUME NEW y \in Y, NEW u \in Away PROVE y[1] # block[u][1]
    BY <1>15, <1>17, OldBlocks
  <2> QED BY <2>1, <2>2
<1>19. Separate(S, D)'
  <2>1. ASSUME NEW u \in Away'
        PROVE  block'[u][1] \notin S \cup D /\ \A v \in Away' : block'[u][1] = block'[v][1] => u = v
    <3>1. CASE u = t
      BY <1>6, <1>8, <1>9, <1>18, <3>1 DEF Y
    <3>2. CASE u \in Away
      BY <1>1, <1>6, <1>8, <1>9, <1>18, <3>2 DEF Y, Parts, Separate
    <3> QED BY <1>9, <3>1, <3>2
  <2>2. ASSUME NEW o \in Regions, NEW d \in free'[o]
        PROVE  RegionOf(d[1]) = o /\ d[1] \notin S \cup D /\ \A u \in Away' : d[1] # block'[u][1]
    <3>1. CASE d \in free[o] /\ d # b
      <4>1. d \in E \ {b}
        BY <3>1, RestIs
      <4>2. d[1] # Q[1]
        BY <1>15, <4>1 DEF Y
      <4>3. RegionOf(d[1]) = o /\ d[1] \notin S \cup D /\ \A u \in Away : d[1] # block[u][1]
        BY <1>1, <3>1 DEF Parts, Separate
      <4> QED BY <1>8, <1>9, <4>2, <4>3
    <3>2. CASE d \in P /\ o = r
      BY <1>5, <1>6, <1>8, <1>9, <1>16, <1>18, <3>2
    <3>3. CASE d = b /\ o # r
      BY <1>1, <1>2, <1>8, <2>2, <3>3 DEF Parts, Separate
    <3> QED BY <1>8, <2>2, <3>1, <3>2, <3>3
  <2> QED BY <1>1, <2>1, <2>2 DEF Separate, Parts
<1>20. Parts(S, D)'
  <2>1. ASSUME NEW d \in (E \ {b}) \cup Y PROVE Sound(d)
    BY <1>1, <1>5, EverythingIsBlocks
  <2>2. NoOverlap(Everything(S, D))' /\ Covered(Everything(S, D))' = Granules
    BY <1>1, <1>13, <1>14 DEF Parts, NoOverlap, Covered, Extent
  <2>3. \A d \in Everything(S, D)' : Sound(d)'
    BY <1>13, <2>1 DEF Sound, Aligned, Extent
  <2> QED BY <1>19, <2>2, <2>3 DEF Parts
<1>21. Linked(node, head, S)' /\ Linked(node, draining, D)'
  <2>1. Linked(node, head, S) /\ Linked(node, draining, D)
    BY DEF Carries
  <2>2. Linked(node, head, S)'
    BY <1>7, <2>1
  <2>3. Linked(node, draining, D)'
    BY <1>7, <2>1
  <2> QED BY <2>2, <2>3
<1> QED BY <1>20, <1>21 DEF Carries

\* Nothing that concerns the blocks changes.
LEMMA QuietParts ==
  ASSUME NEW S, NEW D, Carries(S, D), UNCHANGED <<free, head, node, draining, block>>
  PROVE  Carries(S, D)'
<1>1. Linked(node, head, S) /\ Linked(node, draining, D) /\ Parts(S, D)
  BY DEF Carries
<1>2. Linked(node, head, S)'
  BY <1>1
<1>3. Linked(node, draining, D)'
  BY <1>1
<1>4. Everything(S, D)' = Everything(S, D) /\ Separate(S, D)'
  BY <1>1 DEF Everything, Separate, Lent, Away, Returning, Parts
<1>5. Parts(S, D)'
  BY <1>1, <1>4 DEF Parts, NoOverlap, Covered, Extent, Sound, Aligned
<1> QED BY <1>2, <1>3, <1>5 DEF Carries

\* A node is written in a block that is in nobody else's hands.
LEMMA LinkParts ==
  ASSUME ArenaTypes, NEW S, NEW D, Carries(S, D), NEW t \in Away, Link(t),
         UNCHANGED <<free, head, draining, block>>
  PROVE  Carries(S, D)'
<1>1. Linked(node, head, S) /\ Linked(node, draining, D) /\ Parts(S, D)
  BY DEF Carries
<1>2. block[t][1] \notin S \cup D /\ S \subseteq Granules /\ D \subseteq Granules
  BY <1>1, LinkedSet DEF Parts, Separate
<1>3. \A y \in S \cup D : node'[y] = node[y]
  BY <1>2 DEF Link, ArenaTypes, Nodes
<1>4. Linked(node', head, S) /\ Linked(node', draining, D)
  BY <1>1, <1>3, LinkedKept
<1>5. Linked(node, head, S)'
  BY <1>4
<1>6. Linked(node, draining, D)'
  BY <1>4
<1>7. Everything(S, D)' = Everything(S, D)
  <2>1. Returning(S \cup D)' = Returning(S \cup D)
    BY <1>3 DEF Returning
  <2> QED BY <2>1 DEF Everything, Lent, Away
<1>8. Separate(S, D)'
  BY <1>1 DEF Parts, Separate, Away
<1>9. Parts(S, D)'
  BY <1>1, <1>7, <1>8 DEF Parts, NoOverlap, Covered, Extent, Sound, Aligned
<1> QED BY <1>5, <1>6, <1>9 DEF Carries

\* The block goes from the future to the stack.
LEMMA PushParts ==
  ASSUME ArenaTypes, PlaceInv, NEW S, NEW D, Carries(S, D), NEW t \in Futures,
         life[t] = "publish", head = seen[t], Pushed(t)
  PROVE  \E X : Carries(X, D)'
<1>1. Linked(node, head, S) /\ Linked(node, draining, D) /\ Parts(S, D)
  BY DEF Carries
<1>2. t \in Away /\ node[block[t][1]] = [next |-> seen[t], class |-> block[t][2]]
  BY DEF PlaceInv, FutureOf, Away
<1>3. PICK x \in Granules : x = block[t][1] /\ x \notin S \cup D /\ block[t] = <<x, node[x].class>> /\ node[x].next = head
  <2>1. block[t] \in Granules \X Classes
    BY <1>2 DEF Away, ArenaTypes
  <2>2. block[t][1] \notin S \cup D
    BY <1>1, <1>2 DEF Parts, Separate
  <2> QED BY <1>2, <2>1, <2>2
<1>4. Linked(node, x, S \cup {x})
  BY <1>1, <1>3, LinkedPush
<1>5. head' = x /\ block' = [block EXCEPT ![t] = NoBlock] /\ UNCHANGED <<free, node, draining>>
  BY <1>3 DEF Pushed, ownerVars
<1>6. Linked(node, head, S \cup {x})'
  BY <1>4, <1>5
<1>7. Linked(node, draining, D)'
  BY <1>1, <1>5
<1>8. Away' = Away \ {t} /\ \A u \in Away' : block'[u] = block[u]
  BY <1>5 DEF Away, ArenaTypes
<1>9. Everything(S \cup {x}, D)' = Everything(S, D)
  <2>1. Lent' = Lent \ {block[t]}
    <3>1. \A u \in Away : block[u] = block[t] => u = t
      BY <1>1, <1>2 DEF Parts, Separate
    <3> QED BY <1>8, <3>1 DEF Lent
  <2>2. Returning((S \cup {x}) \cup D)' = Returning(S \cup D) \cup {block[t]}
    BY <1>3, <1>5 DEF Returning
  <2>3. block[t] \in Lent
    BY <1>2 DEF Lent
  <2> QED BY <1>5, <2>1, <2>2, <2>3 DEF Everything
<1>10. Separate(S \cup {x}, D)'
  <2>1. \A u \in Away' : u \in Away /\ u # t /\ block'[u] = block[u] /\ block[u][1] # x
    BY <1>1, <1>2, <1>3, <1>8 DEF Parts, Separate
  <2>2. \A r \in Regions : \A b \in free[r] : b[1] # x
    BY <1>1, <1>2, <1>3 DEF Parts, Separate
  <2> QED BY <1>1, <1>3, <1>5, <2>1, <2>2 DEF Parts, Separate
<1>11. Parts(S \cup {x}, D)'
  BY <1>1, <1>9, <1>10 DEF Parts, NoOverlap, Covered, Extent, Sound, Aligned
<1>12. Carries(S \cup {x}, D)'
  BY <1>6, <1>7, <1>11 DEF Carries
<1> QED BY <1>12

\* The whole stack goes to the drain.
LEMMA TakeParts ==
  ASSUME NEW S, NEW D, Carries(S, D), draining = Null, TakeChain
  PROVE  Carries({}, S)'
<1>1. Linked(node, head, S) /\ Linked(node, draining, D) /\ Parts(S, D)
  BY DEF Carries
<1>2. D = {}
  BY <1>1, LinkedSet
<1>3. head' = Null /\ draining' = head /\ UNCHANGED <<free, node, block>>
  BY DEF TakeChain, taskVars
<1>4. Linked(node, head, {})'
  <2>1. Linked(node', Null, {})
    BY NothingLinked
  <2> QED BY <1>3, <2>1
<1>5. Linked(node, draining, S)'
  BY <1>1, <1>3
<1>6. Everything({}, S)' = Everything(S, D)
  BY <1>2, <1>3 DEF Everything, Lent, Away, Returning
<1>7. Separate({}, S)'
  BY <1>1, <1>2, <1>3 DEF Parts, Separate, Away
<1>8. Parts({}, S)'
  BY <1>1, <1>6, <1>7 DEF Parts, NoOverlap, Covered, Extent, Sound, Aligned
<1> QED BY <1>4, <1>5, <1>8 DEF Carries

USE DEF ownerVars, countVars, taskVars

-----------------------------------------------------------------------------
(* The owner's requests and the futures' lives                             *)

\* The two outcomes of take_block.
Taken(r, b) == Place(r, b) /\ (request.funding = "Instance" => r = "Share")
Refused ==
  /\ Sources("Share", request.class) = {}
  /\ request.funding = "Kernel" => Sources("Reserve", request.class) = {}
  /\ opc' = IF request.funding = "Instance" THEN "idle" ELSE "panic"
  /\ request' = NoRequest
  /\ UNCHANGED <<free, head, node, active, instanceActive, draining, life, block, funding, seen>>

\* What take_block does: it serves the request from a region it may use, or refuses.
LEMMA TakeBlockIs ==
  ASSUME ArenaTypes, TakeBlock
  PROVE  \/ \E r \in Regions : \E b \in Sources(r, request.class) : Taken(r, b)
         \/ Refused
<1> DEFINE regions == RegionsFor(request.funding)
           serving == { i \in DOMAIN regions : Sources(regions[i], request.class) # {} }
<1>1. request.funding \in {"Instance", "Kernel"}
  BY DEF ArenaTypes, Fundings
<1>2. CASE request.funding = "Instance"
  <2>1. DOMAIN regions = {1} /\ regions[1] = "Share"
    BY <1>2 DEF RegionsFor
  <2>2. \A i \in serving : regions[i] = "Share" /\ "Share" \in Regions
    BY <2>1 DEF Regions
  <2>3. serving = {} => Sources("Share", request.class) = {}
    BY <2>1
  <2> QED BY <1>2, <2>2, <2>3 DEF TakeBlock, Taken, Refused
<1>3. CASE request.funding = "Kernel"
  <2>1. DOMAIN regions = {1, 2} /\ regions[1] = "Share" /\ regions[2] = "Reserve"
    BY <1>3 DEF RegionsFor
  <2>2. \A i \in serving : regions[i] \in Regions
    BY <2>1 DEF Regions
  <2>3. serving = {} => Sources("Share", request.class) = {} /\ Sources("Reserve", request.class) = {}
    BY <2>1
  <2> QED BY <1>3, <2>2, <2>3 DEF TakeBlock, Taken, Refused
<1> QED BY <1>1, <1>2, <1>3

\* Where block and node of a future are.
LEMMA AwayIs ==
  ASSUME ArenaTypes, PlaceInv, NEW t \in Futures, life[t] \in {"placed", "live", "publish"}
  PROVE  t \in Away /\ block[t] \in Granules \X Classes /\ block[t][1] \in Granules
<1>1. t \in Away /\ block[t] # NoBlock
  BY DEF PlaceInv, FutureOf, Away
<1>2. block[t] \in Granules \X Classes
  BY <1>1 DEF ArenaTypes
<1> QED BY <1>1, <1>2

\* A source is free, sound and in its region.
LEMMA SourceIs ==
  ASSUME ArenaTypes, NEW S, NEW D, Carries(S, D), NEW r \in Regions, NEW b \in Sources(r, request.class)
  PROVE  /\ b \in free[r] /\ b[1] \in Granules /\ RegionOf(b[1]) = r /\ Sound(b)
         /\ <<b[1], request.class>> \in Granules \X Classes
<1>1. b \in free[r]
  BY DEF Sources
<1>2. b \in Granules \X Classes /\ request.class \in Classes
  BY <1>1 DEF ArenaTypes
<1>3. RegionOf(b[1]) = r /\ Sound(b)
  BY <1>1, EverythingIsBlocks, RestIs DEF Carries, Parts, Separate
<1> QED BY <1>1, <1>2, <1>3

\* Every step keeps the owner and the futures where they say they are.
LEMMA PlaceIs ==
  ASSUME ArenaTypes, PlaceInv, NEW S, NEW D, Carries(S, D), opc # "panic", ArenaNext
  PROVE  PlaceInv'
<1> USE DEF PlaceInv, OwnerAt
<1>0. NoFuture \notin Futures /\ NoBlock \notin Granules \X Classes
  BY GranulesAre DEF NoBlock
<1>1. ASSUME NEW t \in Futures, NEW c \in Classes, NEW f \in Fundings, Spawn(t, c, f) PROVE PlaceInv'
  BY <1>1 DEF Spawn, FutureOf, ArenaTypes
<1>2. CASE TakeChain
  BY <1>2 DEF TakeChain, FutureOf, ArenaTypes
<1>3. CASE DrainOne
  <2>1. ASSUME NEW t \in Futures, life[t] = "publish" PROVE block[t][1] # draining
    <3>1. t \in Away
      BY <2>1, AwayIs
    <3>2. draining \in D
      BY <1>3, LinkedSet DEF DrainOne, Carries
    <3> QED BY <3>1, <3>2 DEF Carries, Parts, Separate
  <2>2. ASSUME NEW t \in Futures PROVE FutureOf(t)'
    <3>1. CASE life[t] = "publish"
      <4>1. block[t][1] \in Granules
        BY <3>1, AwayIs
      <4>2. node'[block[t][1]] = node[block[t][1]]
        BY <1>3, <2>1, <3>1, <4>1 DEF DrainOne, ArenaTypes, Nodes
      <4> QED BY <1>3, <3>1, <4>2 DEF DrainOne, FutureOf
    <3>2. CASE life[t] # "publish"
      BY <1>3, <3>2 DEF DrainOne, FutureOf
    <3> QED BY <3>1, <3>2
  <2> QED BY <1>3, <2>2 DEF DrainOne
<1>4. CASE TakeBlock
  <2>0. opc = "drain" /\ draining = Null /\ request.task \in Futures
    BY <1>4 DEF TakeBlock
  <2>1. CASE Refused
    BY <2>0, <2>1 DEF Refused, FutureOf, NoRequest
  <2>2. ASSUME NEW r \in Regions, NEW b \in Sources(r, request.class), Taken(r, b) PROVE PlaceInv'
    <3>1. <<b[1], request.class>> # NoBlock
      BY <1>0, SourceIs
    <3>2. ASSUME NEW t \in Futures PROVE FutureOf(t)'
      <4>1. CASE t = request.task
        BY <2>2, <3>1, <4>1 DEF Taken, Place, FutureOf, ArenaTypes
      <4>2. CASE t # request.task
        BY <2>0, <2>2, <4>2 DEF Taken, Place, FutureOf, ArenaTypes
      <4> QED BY <4>1, <4>2
    <3>3. OwnerAt'
      BY <2>0, <2>2 DEF Taken, Place, ArenaTypes
    <3> QED BY <3>2, <3>3
  <2> QED BY <1>4, <2>1, <2>2, TakeBlockIs
<1>5. CASE CountActive
  BY <1>5 DEF CountActive, HandOver, FutureOf, ArenaTypes, Fundings
<1>6. CASE CountInstance
  BY <1>6 DEF CountInstance, HandOver, FutureOf, ArenaTypes
<1>7. ASSUME NEW t \in Futures, Link(t), life[t] \in {"live", "publish"}, life'[t] = "publish",
             \A u \in Futures : u # t => life'[u] = life[u],
             UNCHANGED <<opc, request, draining, block, funding>>
      PROVE  PlaceInv'
  <2>1. t \in Away /\ block[t] # NoBlock /\ block[t][1] \in Granules
    BY <1>7, AwayIs DEF Away
  <2>2. ASSUME NEW u \in Futures PROVE FutureOf(u)'
    <3>1. CASE u = t
      BY <1>7, <2>1, <3>1 DEF FutureOf, Link, ArenaTypes, Nodes
    <3>2. CASE u # t /\ life[u] = "publish"
      <4>1. u \in Away /\ block[u][1] \in Granules
        BY <3>2, AwayIs
      <4>2. block[u][1] # block[t][1]
        BY <2>1, <3>2, <4>1 DEF Carries, Parts, Separate
      <4>3. node'[block[u][1]] = node[block[u][1]] /\ seen'[u] = seen[u]
        BY <1>7, <3>2, <4>1, <4>2 DEF Link, ArenaTypes, Nodes
      <4> QED BY <1>7, <3>2, <4>3 DEF FutureOf
    <3>3. CASE u # t /\ life[u] # "publish"
      BY <1>7, <3>3 DEF FutureOf
    <3> QED BY <3>1, <3>2, <3>3
  <2>3. request.task # t \/ opc \notin {"swap", "drain", "active", "instance"}
    BY <1>7
  <2> QED BY <1>7, <2>2, <2>3
<1>8. ASSUME NEW t \in Futures, Release(t) \/ PushRemote(t) \/ SubInstance(t) \/ SubActive(t) PROVE PlaceInv'
  <2>1. CASE Release(t)
    BY <1>7, <2>1 DEF Release, ArenaTypes
  <2>2. CASE PushRemote(t) /\ Link(t) /\ UNCHANGED <<ownerVars, head, countVars, life, block, funding>>
    BY <1>7, <2>2 DEF PushRemote, ArenaTypes
  <2>3. CASE PushRemote(t) /\ Pushed(t)
    BY <2>3 DEF PushRemote, Pushed, FutureOf, ArenaTypes, Fundings
  <2>4. CASE SubInstance(t)
    BY <2>4 DEF SubInstance, FutureOf, ArenaTypes
  <2>5. CASE SubActive(t)
    BY <2>5 DEF SubActive, FutureOf, ArenaTypes
  <2> QED BY <1>8, <2>1, <2>2, <2>3, <2>4, <2>5 DEF PushRemote
<1> QED BY <1>1, <1>2, <1>3, <1>4, <1>5, <1>6, <1>8 DEF ArenaNext

PartsInv == \E S, D : Carries(S, D)

\* Every step keeps the arena partitioned.
LEMMA PartsNext ==
  ASSUME ArenaTypes, PlaceInv, PartsInv, opc # "panic", ArenaNext
  PROVE  PartsInv'
<1>0. PICK S, D : Carries(S, D)
  BY DEF PartsInv
<1>1. ASSUME UNCHANGED <<free, head, node, draining, block>> PROVE PartsInv'
  BY <1>0, <1>1, QuietParts DEF PartsInv
<1>2. ASSUME NEW t \in Futures, NEW c \in Classes, NEW f \in Fundings, Spawn(t, c, f) PROVE PartsInv'
  BY <1>1, <1>2 DEF Spawn
<1>3. CASE TakeChain
  <2>1. draining = Null
    BY <1>3 DEF TakeChain, PlaceInv, OwnerAt
  <2> QED BY <1>0, <1>3, <2>1, TakeParts DEF PartsInv
<1>4. CASE DrainOne
  BY <1>0, <1>4, DrainParts DEF PartsInv
<1>5. CASE TakeBlock
  <2>1. CASE Refused
    BY <1>1, <2>1 DEF Refused
  <2>2. ASSUME NEW r \in Regions, NEW b \in Sources(r, request.class), Taken(r, b) PROVE PartsInv'
    <3>1. opc = "drain" /\ Place(r, b)
      BY <1>5, <2>2 DEF TakeBlock, Taken
    <3> QED BY <1>0, <3>1, PlaceParts DEF PartsInv
  <2> QED BY <1>5, <2>1, <2>2, TakeBlockIs
<1>6. CASE CountActive
  BY <1>1, <1>6 DEF CountActive
<1>7. CASE CountInstance
  BY <1>1, <1>7 DEF CountInstance
<1>8. ASSUME NEW t \in Futures, life[t] \in {"live", "publish"}, Link(t), UNCHANGED <<free, head, draining, block>>
      PROVE PartsInv'
  <2>1. t \in Away
    BY <1>8, AwayIs
  <2> QED BY <1>0, <1>8, <2>1, LinkParts DEF PartsInv
<1>9. ASSUME NEW t \in Futures, Release(t) PROVE PartsInv'
  BY <1>8, <1>9 DEF Release
<1>10. ASSUME NEW t \in Futures, PushRemote(t) PROVE PartsInv'
  <2>1. CASE head = seen[t] /\ Pushed(t)
    <3>1. life[t] = "publish"
      BY <1>10 DEF PushRemote
    <3> QED BY <1>0, <2>1, <3>1, PushParts DEF PartsInv
  <2>2. CASE ~ (head = seen[t] /\ Pushed(t))
    BY <1>8, <1>10, <2>2 DEF PushRemote
  <2> QED BY <2>1, <2>2
<1>11. ASSUME NEW t \in Futures, SubInstance(t) PROVE PartsInv'
  BY <1>1, <1>11 DEF SubInstance
<1>12. ASSUME NEW t \in Futures, SubActive(t) PROVE PartsInv'
  BY <1>1, <1>12 DEF SubActive
<1> QED BY <1>2, <1>3, <1>4, <1>5, <1>6, <1>7, <1>9, <1>10, <1>11, <1>12 DEF ArenaNext

\* What is free is made of blocks.
LEMMA FreeNext ==
  ASSUME ArenaTypes, PartsInv, PlaceInv, opc # "panic", ArenaNext
  PROVE  (\A r \in Regions : free'[r] \subseteq Granules \X Classes) /\ free' = [r \in Regions |-> free'[r]]
<1>1. PartsInv'
  BY PartsNext
<1>2. PICK S, D : Carries(S, D)'
  BY <1>1 DEF PartsInv
<1>3. ASSUME NEW r \in Regions, NEW b \in free'[r] PROVE b \in Granules \X Classes
  <2>1. b \in Everything(S, D)'
    BY DEF Everything, Regions
  <2> QED BY <1>2, <2>1 DEF Carries, Parts, Sound
<1>4. free = [r \in Regions |-> free[r]]
  BY DEF ArenaTypes
<1>5. free' = free \/ \E r \in Regions : \E F : free' = [free EXCEPT ![r] = F]
  <2>1. CASE DrainOne
    <3>1. RegionOf(draining) \in Regions
      BY DEF Regions, RegionOf
    <3> QED BY <2>1, <3>1 DEF DrainOne
  <2>2. CASE TakeBlock
    BY <2>2, TakeBlockIs DEF Taken, Place, Refused
  <2>3. CASE ~ DrainOne /\ ~ TakeBlock
    BY <2>3 DEF ArenaNext, Spawn, TakeChain, CountActive, CountInstance, Release, PushRemote, Pushed, SubInstance, SubActive
  <2> QED BY <2>1, <2>2, <2>3
<1>6. free' = [r \in Regions |-> free'[r]]
  BY <1>4, <1>5
<1> QED BY <1>3, <1>6

\* Every step keeps the types.
LEMMA TypesNext ==
  ASSUME ArenaTypes, PartsInv, PlaceInv, opc # "panic", ArenaNext
  PROVE  ArenaTypes'
<1>1. free' \in [Regions -> SUBSET (Granules \X Classes)]
  BY FreeNext
<1>2. Null \in Granules \cup {Null} /\ 0 \in Classes /\ NoNode \in [next : Granules \cup {Null}, class : Classes]
      /\ NoRequest \in [task : Futures \cup {NoFuture}, class : Classes, funding : Fundings]
  BY ArenaAssumption DEF Classes, NoNode, NoRequest, Fundings
<1>3. PICK S, D : Carries(S, D)
  BY DEF PartsInv
<1>4. ASSUME NEW t \in Futures, NEW c \in Classes, NEW f \in Fundings, Spawn(t, c, f) PROVE ArenaTypes'
  BY <1>1, <1>4 DEF Spawn, ArenaTypes, Fundings
<1>5. CASE TakeChain
  BY <1>1, <1>5 DEF TakeChain, ArenaTypes
<1>6. CASE DrainOne
  <2>1. node[draining].next \in Granules \cup {Null} /\ node' \in Nodes
    BY <1>2, <1>6 DEF DrainOne, ArenaTypes, Nodes
  <2> QED BY <1>1, <1>6, <2>1 DEF DrainOne, ArenaTypes
<1>7. CASE TakeBlock
  <2>1. CASE Refused
    BY <1>1, <1>2, <2>1 DEF Refused, ArenaTypes
  <2>2. ASSUME NEW r \in Regions, NEW b \in Sources(r, request.class), Taken(r, b) PROVE ArenaTypes'
    <3>1. <<b[1], request.class>> \in Granules \X Classes
      BY <1>3, SourceIs
    <3>2. request.funding \in Fundings
      BY DEF ArenaTypes
    <3> QED BY <1>1, <2>2, <3>1, <3>2 DEF Taken, Place, ArenaTypes
  <2> QED BY <1>7, <2>1, <2>2, TakeBlockIs
<1>8. CASE CountActive
  BY <1>1, <1>2, <1>8 DEF CountActive, HandOver, ArenaTypes
<1>9. CASE CountInstance
  BY <1>1, <1>2, <1>9 DEF CountInstance, HandOver, ArenaTypes
<1>10. ASSUME NEW t \in Futures, life[t] \in {"live", "publish"}, Link(t)
       PROVE node' \in Nodes /\ seen' \in [Futures -> Granules \cup {Null}]
  <2>1. block[t] \in Granules \X Classes
    BY <1>10, AwayIs
  <2>2. [next |-> head, class |-> block[t][2]] \in [next : Granules \cup {Null}, class : Classes]
    BY <2>1 DEF ArenaTypes
  <2> QED BY <1>10, <2>2 DEF Link, ArenaTypes, Nodes
<1>11. ASSUME NEW t \in Futures, Release(t) PROVE ArenaTypes'
  BY <1>1, <1>10, <1>11 DEF Release, ArenaTypes
<1>12. ASSUME NEW t \in Futures, PushRemote(t) PROVE ArenaTypes'
  <2>1. CASE Pushed(t)
    <3>1. block[t][1] \in Granules
      BY <1>12, AwayIs DEF PushRemote
    <3> QED BY <1>1, <2>1, <3>1 DEF Pushed, ArenaTypes, NoBlock
  <2>2. CASE ~ Pushed(t)
    BY <1>1, <1>10, <1>12, <2>2 DEF PushRemote, ArenaTypes
  <2> QED BY <2>1, <2>2
<1>13. ASSUME NEW t \in Futures, SubInstance(t) PROVE ArenaTypes'
  BY <1>1, <1>13 DEF SubInstance, ArenaTypes
<1>14. ASSUME NEW t \in Futures, SubActive(t) PROVE ArenaTypes'
  BY <1>1, <1>14 DEF SubActive, ArenaTypes, Fundings
<1> QED BY <1>4, <1>5, <1>6, <1>7, <1>8, <1>9, <1>11, <1>12, <1>13, <1>14 DEF ArenaNext

\* An instance's block is in the share.
ReserveInv ==
  \A t \in Futures : funding[t] = "Instance" /\ block[t] # NoBlock => RegionOf(block[t][1]) = "Share"

\* Every step keeps instances out of the reserve.
LEMMA ReserveNext ==
  ASSUME ArenaTypes, PartsInv, PlaceInv, ReserveInv, opc # "panic", ArenaNext
  PROVE  ReserveInv'
<1>1. PICK S, D : Carries(S, D)
  BY DEF PartsInv
<1>2. ASSUME \A t \in Futures : block'[t] = NoBlock \/ (block'[t] = block[t] /\ (funding'[t] = "Instance" => funding[t] = "Instance"))
      PROVE  ReserveInv'
  BY <1>2 DEF ReserveInv
<1>3. CASE TakeBlock
  <2>1. CASE Refused
    BY <1>2, <2>1 DEF Refused
  <2>2. ASSUME NEW r \in Regions, NEW b \in Sources(r, request.class), Taken(r, b) PROVE ReserveInv'
    <3>1. RegionOf(b[1]) = r
      BY <1>1, SourceIs
    <3>2. /\ block' = [block EXCEPT ![request.task] = <<b[1], request.class>>]
          /\ funding' = [funding EXCEPT ![request.task] = request.funding]
          /\ request.funding = "Instance" => r = "Share"
      BY <2>2 DEF Taken, Place
    <3> QED BY <3>1, <3>2 DEF ReserveInv, ArenaTypes
  <2> QED BY <1>3, <2>1, <2>2, TakeBlockIs
<1>4. ASSUME NEW t \in Futures, PushRemote(t) PROVE ReserveInv'
  BY <1>2, <1>4 DEF PushRemote, Pushed, ArenaTypes
<1>5. ASSUME NEW t \in Futures, SubActive(t) PROVE ReserveInv'
  BY <1>2, <1>5 DEF SubActive, ArenaTypes
<1>6. CASE UNCHANGED <<block, funding>>
  BY <1>2, <1>6
<1> QED BY <1>3, <1>4, <1>5, <1>6
        DEF ArenaNext, Spawn, TakeChain, DrainOne, CountActive, CountInstance, Release, SubInstance

\* A block whose start is in the share is in the share.
LEMMA ReserveHolds ==
  ASSUME ArenaTypes, PartsInv, ReserveInv
  PROVE  ReserveIsKernels
<1>1. PICK S, D : Carries(S, D)
  BY DEF PartsInv
<1>2. ASSUME NEW t \in Futures, funding[t] = "Instance", block[t] # NoBlock PROVE Extent(block[t]) \subseteq Share
  <2>1. block[t] \in Everything(S, D)
    BY <1>2 DEF Everything, Lent, Away
  <2>2. Extent(block[t]) \subseteq Span(RegionOf(block[t][1]))
    BY <1>1, <2>1 DEF Carries, Parts, Sound
  <2>3. RegionOf(block[t][1]) = "Share"
    BY <1>2 DEF ReserveInv
  <2> QED BY <2>2, <2>3 DEF Span
<1> QED BY <1>2 DEF ReserveIsKernels

-----------------------------------------------------------------------------
(* The counts                                                              *)

\* The futures active counts, and those instanceActive does.
Handed == {t \in Futures : life[t] \notin {"none", "placed"}}
Instances == {t \in Futures : funding[t] = "Instance" /\ life[t] \in {"live", "publish", "subInstance"}}
CountInv ==
  /\ IsFiniteSet(Handed)
  /\ active = Cardinality(Handed) + (IF opc = "instance" THEN 1 ELSE 0)
  /\ instanceActive = Cardinality(Instances)

\* Both counts are of finite sets.
LEMMA InstancesFinite ==
  ASSUME IsFiniteSet(Handed)
  PROVE  IsFiniteSet(Instances) /\ Cardinality(Handed) \in Nat /\ Cardinality(Instances) \in Nat
<1>1. Instances \in SUBSET Handed
  BY DEF Instances, Handed
<1> QED BY <1>1, FS_Subset, FS_CardinalityType

\* The counts are right, and never negative.
LEMMA CountedIs == CountInv => CountsExact /\ active \in Nat /\ instanceActive \in Nat
  BY InstancesFinite DEF CountInv, CountsExact, Handed, Instances

\* Every step counts what it hands out or takes back.
LEMMA CountNext ==
  ASSUME ArenaTypes, PlaceInv, CountInv, opc # "panic", ArenaNext
  PROVE  CountInv'
<1>0. IsFiniteSet(Handed) /\ IsFiniteSet(Instances) /\ Cardinality(Handed) \in Nat /\ Cardinality(Instances) \in Nat
  BY InstancesFinite DEF CountInv
<1>1. ASSUME UNCHANGED <<active, instanceActive>>, opc # "instance", opc' # "instance",
             Handed' = Handed, Instances' = Instances
      PROVE  CountInv'
  BY <1>1 DEF CountInv
<1>2. ASSUME NEW t \in Futures, NEW c \in Classes, NEW f \in Fundings, Spawn(t, c, f) PROVE CountInv'
  BY <1>1, <1>2 DEF Spawn, Handed, Instances
<1>3. CASE TakeChain \/ DrainOne
  BY <1>1, <1>3 DEF TakeChain, DrainOne, Handed, Instances
<1>4. CASE TakeBlock
  <2>0. opc = "drain" /\ request.task \in Futures /\ life[request.task] = "none"
    BY <1>4 DEF TakeBlock, PlaceInv, OwnerAt
  <2>1. CASE Refused
    BY <1>1, <2>0, <2>1 DEF Refused, Handed, Instances
  <2>2. ASSUME NEW r \in Regions, NEW b \in Sources(r, request.class), Taken(r, b) PROVE CountInv'
    <3>1. /\ funding' = [funding EXCEPT ![request.task] = request.funding]
          /\ life' = [life EXCEPT ![request.task] = "placed"]
          /\ opc' = "active" /\ UNCHANGED <<active, instanceActive>>
      BY <2>2 DEF Taken, Place
    <3>2. Handed' = Handed /\ Instances' = Instances
      BY <2>0, <3>1 DEF Handed, Instances, ArenaTypes
    <3> QED BY <1>1, <2>0, <3>1, <3>2
  <2> QED BY <1>4, <2>1, <2>2, TakeBlockIs
<1>5. ASSUME opc \in {"active", "instance"}, HandOver
      PROVE  /\ request.task \notin Handed /\ Handed' = Handed \cup {request.task}
             /\ UNCHANGED funding => request.task \notin Instances /\
                  Instances' = IF request.funding = "Instance" THEN Instances \cup {request.task} ELSE Instances
  <2>1. request.task \in Futures /\ life[request.task] = "placed" /\ funding[request.task] = request.funding
    BY <1>5 DEF PlaceInv, OwnerAt
  <2> QED BY <1>5, <2>1 DEF HandOver, Handed, Instances, ArenaTypes
<1>6. CASE CountActive
  <2>1. CASE request.funding = "Instance" /\ opc' = "instance" /\ UNCHANGED <<life, request>>
    BY <1>0, <1>6, <2>1 DEF CountActive, CountInv, Handed, Instances
  <2>2. CASE request.funding = "Kernel" /\ HandOver
    <3>1. Handed' = Handed \cup {request.task} /\ request.task \notin Handed /\ Instances' = Instances
      BY <1>5, <1>6, <2>2 DEF CountActive
    <3>2. IsFiniteSet(Handed') /\ Cardinality(Handed') = Cardinality(Handed) + 1
      BY <1>0, <3>1, FS_AddElement
    <3> QED BY <1>0, <1>6, <2>2, <3>1, <3>2 DEF CountActive, HandOver, CountInv
  <2> QED BY <1>6, <2>1, <2>2 DEF CountActive
<1>7. CASE CountInstance
  <2>0. request.funding = "Instance"
    BY <1>7 DEF CountInstance, PlaceInv, OwnerAt
  <2>1. /\ Handed' = Handed \cup {request.task} /\ request.task \notin Handed
        /\ Instances' = Instances \cup {request.task} /\ request.task \notin Instances
    BY <1>5, <1>7, <2>0 DEF CountInstance
  <2>2. IsFiniteSet(Handed') /\ Cardinality(Handed') = Cardinality(Handed) + 1 /\ Cardinality(Instances') = Cardinality(Instances) + 1
    BY <1>0, <2>1, FS_AddElement
  <2> QED BY <1>0, <1>7, <2>1, <2>2 DEF CountInstance, HandOver, CountInv
<1>8. ASSUME Handed' = Handed, Instances' = Instances, UNCHANGED <<active, instanceActive, opc>> PROVE CountInv'
  BY <1>8 DEF CountInv
<1>9. ASSUME NEW t \in Futures, Release(t) PROVE CountInv'
  <2>1. Handed' = Handed /\ Instances' = Instances
    BY <1>9 DEF Release, Handed, Instances, ArenaTypes
  <2> QED BY <1>8, <1>9, <2>1 DEF Release
<1>10. ASSUME NEW t \in Futures, PushRemote(t) PROVE CountInv'
  <2>1. Handed' = Handed /\ Instances' = Instances
    BY <1>10 DEF PushRemote, Pushed, Handed, Instances, ArenaTypes
  <2> QED BY <1>8, <1>10, <2>1 DEF PushRemote, Pushed
<1>11. ASSUME NEW t \in Futures, SubInstance(t) PROVE CountInv'
  <2>1. Handed' = Handed /\ t \in Instances /\ Instances' = Instances \ {t}
    BY <1>11 DEF SubInstance, Handed, Instances, ArenaTypes, PlaceInv, FutureOf
  <2>2. Cardinality(Instances') = Cardinality(Instances) - 1
    BY <1>0, <2>1, FS_RemoveElement
  <2> QED BY <1>0, <1>11, <2>1, <2>2 DEF SubInstance, CountInv
<1>12. ASSUME NEW t \in Futures, SubActive(t) PROVE CountInv'
  <2>1. Instances' = Instances /\ t \in Handed /\ Handed' = Handed \ {t}
    BY <1>12 DEF SubActive, Handed, Instances, ArenaTypes
  <2>2. IsFiniteSet(Handed') /\ Cardinality(Handed') = Cardinality(Handed) - 1
    BY <1>0, <2>1, FS_RemoveElement
  <2> QED BY <1>0, <1>12, <2>1, <2>2 DEF SubActive, CountInv
<1> QED BY <1>2, <1>3, <1>4, <1>6, <1>7, <1>9, <1>10, <1>11, <1>12 DEF ArenaNext

-----------------------------------------------------------------------------
(* No two buddies are free                                                 *)

Unpaired(F) == \A b \in F : b[2] + 1 \in Classes => <<Buddy(b[1], b[2]), b[2]>> \notin F
NoBuddies == \A r \in Regions : Unpaired(free[r])

\* A block whose buddy starts at o is the buddy of o.
LEMMA BuddyBack ==
  ASSUME NEW b \in Blocks, Aligned(b), b[2] + 1 \in Classes, NEW o, NEW k, <<Buddy(b[1], b[2]), b[2]>> = <<o, k>>
  PROVE  b[2] = k /\ b = <<Buddy(o, k), k>> /\ o # b[1]
<1>1. b[1] \in Nat /\ b[2] \in Classes /\ b = <<b[1], b[2]>> /\ Around(b[1], b[2]) = b[1]
  BY ExtentIs DEF Aligned
<1>2. ClassSize(b[2]) \in Nat \ {0}
  BY <1>1, ClassIs
<1>3. Buddy(Buddy(b[1], b[2]), b[2]) = b[1] /\ Buddy(b[1], b[2]) # b[1]
  BY <1>1, <1>2, BuddyIs
<1>4. k = b[2] /\ o = Buddy(b[1], b[2])
  OBVIOUS
<1> QED BY <1>1, <1>3, <1>4

\* Merging goes on until the buddy is not free.
LEMMA MergedUnpaired ==
  ASSUME NEW F, \A b \in F : b \in Blocks /\ Aligned(b), Unpaired(F), NEW P,
         NEW o \in Nat, NEW m \in Classes, m + 1 \in Classes => Partner(o, m) \notin F
  PROVE  Unpaired((F \ P) \cup {<<Around(o, m), m>>})
<1> DEFINE M == <<Around(o, m), m>>
<1>1. M \in Blocks /\ Aligned(M) /\ M[1] = Around(o, m) /\ M[2] = m
  BY AroundIs DEF Blocks, Aligned
<1>2. ASSUME NEW b \in F, b[2] + 1 \in Classes PROVE <<Buddy(b[1], b[2]), b[2]>> \notin F \cup {M}
  <2>1. <<Buddy(b[1], b[2]), b[2]>> \notin F
    BY <1>2 DEF Unpaired
  <2>2. ASSUME <<Buddy(b[1], b[2]), b[2]>> = M PROVE FALSE
    <3>1. b[2] = m /\ b = <<Buddy(Around(o, m), m), m>>
      BY <1>2, <2>2, BuddyBack
    <3>2. b = Partner(o, m)
      BY <3>1 DEF Partner
    <3> QED BY <1>2, <3>1, <3>2
  <2> QED BY <2>1, <2>2
<1>3. ASSUME m + 1 \in Classes PROVE <<Buddy(M[1], M[2]), M[2]>> \notin F \cup {M}
  <2>1. <<Buddy(M[1], M[2]), M[2]>> \notin F
    BY <1>1, <1>3 DEF Partner
  <2>2. ASSUME <<Buddy(M[1], M[2]), M[2]>> = M PROVE FALSE
    <3> HIDE DEF M
    <3>1. M = <<M[1], M[2]>>
      BY <1>1, ExtentIs
    <3>2. M[1] # M[1]
      BY <1>1, <1>3, <2>2, <3>1, BuddyBack
    <3> QED BY <3>2
  <2> QED BY <2>1, <2>2
<1>4. \A b \in F \cup {M} : b[2] + 1 \in Classes => <<Buddy(b[1], b[2]), b[2]>> \notin F \cup {M}
  BY <1>1, <1>2, <1>3
<1> HIDE DEF M
<1>5. Unpaired((F \ P) \cup {M})
  BY <1>4 DEF Unpaired
<1> QED BY <1>5 DEF M

\* The pieces a split leaves free have no free buddies.
LEMMA SplitUnpaired ==
  ASSUME NEW F, \A b \in F : b \in Blocks /\ Aligned(b), Unpaired(F), NEW b \in F, \A d \in F : d[1] = b[1] => d = b,
         NEW c \in Classes, c <= b[2]
  PROVE  Unpaired((F \ {b}) \cup {Partner(b[1], j) : j \in c .. b[2] - 1})
<1> DEFINE P == {Partner(b[1], j) : j \in c .. b[2] - 1}
           G == (F \ {b}) \cup P
<1>1. b[1] \in Nat /\ b[2] \in Classes
  BY ExtentIs
<1>2. ASSUME NEW j \in c .. b[2] - 1
      PROVE  /\ j \in Classes /\ Partner(b[1], j) = <<b[1] + ClassSize(j), j>>
             /\ Buddy(b[1] + ClassSize(j), j) = b[1] /\ ClassSize(j) \in Nat \ {0}
  <2>1. /\ j \in Classes /\ j + 1 \in Classes /\ Partner(b[1], j) = <<b[1] + ClassSize(j), j>>
        /\ Buddy(b[1] + ClassSize(j), j) = b[1]
    BY SplitIs
  <2> QED BY <2>1, ClassIs
<1>3. ASSUME NEW k PROVE <<b[1], k>> \notin G
  <2>1. <<b[1], k>> \notin F \ {b}
    OBVIOUS
  <2>2. ASSUME NEW j \in c .. b[2] - 1 PROVE <<b[1], k>> # Partner(b[1], j)
    BY <1>1, <1>2
  <2> QED BY <2>1, <2>2
<1>4. ASSUME NEW d \in P PROVE <<Buddy(d[1], d[2]), d[2]>> \notin G
  <2>1. PICK j \in c .. b[2] - 1 : d = Partner(b[1], j)
    OBVIOUS
  <2>2. Buddy(d[1], d[2]) = b[1]
    BY <1>2, <2>1
  <2> QED BY <1>3, <2>2
<1>5. ASSUME NEW d \in F \ {b}, d[2] + 1 \in Classes PROVE <<Buddy(d[1], d[2]), d[2]>> \notin G
  <2>1. <<Buddy(d[1], d[2]), d[2]>> \notin F
    BY <1>5 DEF Unpaired
  <2>2. ASSUME NEW j \in c .. b[2] - 1, <<Buddy(d[1], d[2]), d[2]>> = Partner(b[1], j) PROVE FALSE
    <3>1. <<Buddy(d[1], d[2]), d[2]>> = <<b[1] + ClassSize(j), j>>
      BY <1>2, <2>2
    <3>2. d = <<Buddy(b[1] + ClassSize(j), j), j>>
      BY <1>5, <3>1, BuddyBack
    <3>3. d[1] = b[1]
      BY <1>2, <3>2
    <3> QED BY <3>3
  <2> QED BY <2>1, <2>2
<1>6. ASSUME NEW d \in G, d[2] + 1 \in Classes PROVE <<Buddy(d[1], d[2]), d[2]>> \notin G
  BY <1>4, <1>5, <1>6
<1> HIDE DEF G
<1>7. Unpaired(G)
  BY <1>6 DEF Unpaired
<1> QED BY <1>7 DEF G

\* What is free.
LEMMA FreeIs ==
  ASSUME NEW S, NEW D, Carries(S, D), NEW r \in Regions
  PROVE  /\ \A b \in free[r] : b \in Blocks /\ Aligned(b) /\ Sound(b) /\ RegionOf(b[1]) = r
         /\ NoOverlap(free[r]) /\ \A b, d \in free[r] : b[1] = d[1] => b = d
<1>1. free[r] \subseteq Everything(S, D)
  BY RestIs
<1>2. NoOverlap(free[r])
  BY <1>1 DEF Carries, Parts, NoOverlap
<1>3. \A b \in free[r] : b \in Blocks /\ Aligned(b) /\ Sound(b) /\ RegionOf(b[1]) = r
  BY <1>1, EverythingIsBlocks DEF Carries, Parts, Separate
<1> QED BY <1>2, <1>3, OffsetsDiffer DEF NoOverlap

\* Every step keeps free buddies merged.
LEMMA BuddiesNext ==
  ASSUME ArenaTypes, PartsInv, PlaceInv, NoBuddies, opc # "panic", ArenaNext
  PROVE  NoBuddies'
<1>0. PICK S, D : Carries(S, D)
  BY DEF PartsInv
<1>1. ASSUME NEW r \in Regions, NEW F, Unpaired(F), free' = [free EXCEPT ![r] = F] PROVE NoBuddies'
  <2>1. \A o \in Regions : Unpaired(free'[o])
    BY <1>1 DEF ArenaTypes, NoBuddies
  <2> QED BY <2>1 DEF NoBuddies, Unpaired
<1>2. CASE DrainOne
  <2>1. PICK x, r, c : x = draining /\ r = RegionOf(x) /\ c = node[x].class
    OBVIOUS
  <2>2. x \in Nat /\ c \in Classes /\ r \in Regions
    BY <1>2, <2>1, GranulesAre DEF DrainOne, ArenaTypes, Nodes, RegionOf, Regions
  <2>3. PICK m \in Classes :
          /\ m + 1 \in Classes => Partner(x, m) \notin free[r]
          /\ Freed(r, x, c) = (free[r] \ {Partner(x, j) : j \in c .. m - 1}) \cup {<<Around(x, m), m>>}
    BY <2>2, MergedIs
  <2>4. Unpaired(free[r]) /\ \A b \in free[r] : b \in Blocks /\ Aligned(b)
    BY <1>0, <2>2, FreeIs DEF NoBuddies
  <2>5. Unpaired(Freed(r, x, c))
    <3>1. PICK P : P = {Partner(x, j) : j \in c .. m - 1}
      OBVIOUS
    <3>2. PICK F : F = free[r]
      OBVIOUS
    <3>3. Unpaired((F \ P) \cup {<<Around(x, m), m>>})
      BY <2>2, <2>3, <2>4, <3>2, MergedUnpaired
    <3> QED BY <2>3, <3>1, <3>2, <3>3
  <2>6. free' = [free EXCEPT ![r] = Freed(r, x, c)]
    BY <1>2, <2>1 DEF DrainOne
  <2> QED BY <1>1, <2>2, <2>5, <2>6
<1>3. ASSUME NEW r \in Regions, NEW b \in Sources(r, request.class), Place(r, b) PROVE NoBuddies'
  <2>1. b \in free[r] /\ request.class <= b[2] /\ request.class \in Classes
    BY ClassIs, <1>0, FreeIs DEF Sources, ArenaTypes, Blocks, Classes
  <2>2. Unpaired(free[r]) /\ (\A d \in free[r] : d \in Blocks /\ Aligned(d)) /\ \A d \in free[r] : d[1] = b[1] => d = b
    BY <1>0, <2>1, FreeIs DEF NoBuddies
  <2>3. Split(r, b, request.class) = (free[r] \ {b}) \cup {Partner(b[1], j) : j \in request.class .. b[2] - 1}
    BY <2>1, <2>2, SplitIs
  <2>4. Unpaired(Split(r, b, request.class))
    BY <2>1, <2>2, <2>3, SplitUnpaired
  <2> QED BY <1>1, <1>3, <2>4 DEF Place
<1>4. CASE UNCHANGED free
  BY <1>4 DEF NoBuddies, Unpaired
<1>5. CASE TakeBlock
  BY <1>3, <1>4, <1>5, TakeBlockIs DEF Taken, Refused
<1>6. CASE ~ DrainOne /\ ~ TakeBlock
  BY <1>4, <1>6 DEF ArenaNext, Spawn, TakeChain, CountActive, CountInstance, Release, PushRemote, Pushed, SubInstance, SubActive
<1> QED BY <1>2, <1>5, <1>6

-----------------------------------------------------------------------------
(* At the start                                                            *)

\* A granule is in one aligned block of each class.
LEMMA InsideAround ==
  ASSUME NEW b \in Blocks, Aligned(b), NEW g \in Extent(b)
  PROVE  g \in Nat /\ Around(g, b[2]) = b[1]
<1>1. PICK o, w : o = b[1] /\ w = ClassSize(b[2])
  OBVIOUS
<1>2. o \in Nat /\ b[2] \in Classes /\ w \in Nat \ {0} /\ o - (o % w) = o
  BY <1>1, ExtentIs, ClassIs DEF Aligned, Around
<1>3. g \in o .. o + w - 1
  BY <1>1 DEF Extent
<1>4. PICK q \in Nat, r \in 0 .. w - 1 : o = w * q + r /\ o % w = r
  BY <1>2, DivMod
<1>5. o = w * q
  BY <1>2, <1>4
<1>6. PICK s \in 0 .. w - 1 : g = o + s
  <2>1. g - o \in 0 .. w - 1 /\ g = o + (g - o)
    BY <1>2, <1>3
  <2> QED BY <2>1
<1>7. g = w * q + s /\ g \in Nat
  BY <1>2, <1>3, <1>5, <1>6
<1>8. g % w = s
  BY <1>2, <1>7, Quotient
<1>9. g - (g % w) = o
  BY <1>2, <1>6, <1>8
<1> QED BY <1>1, <1>7, <1>9 DEF Around

\* A multiple of w that is below another is at least w below it.
LEMMA MultipleFits ==
  ASSUME NEW w \in Nat \ {0}, NEW q \in Nat, NEW k \in Nat, w * q < k * w
  PROVE  w * q + w <= k * w
<1>1. q < k
  <2>1. ASSUME q >= k PROVE FALSE
    <3>1. PICK d \in Nat : q = k + d
      <4>1. q - k \in Nat /\ q = k + (q - k)
        BY <2>1
      <4> QED BY <4>1
    <3>2. w * q = k * w + w * d /\ w * d \in Nat /\ k * w \in Nat /\ w * q \in Nat
      BY <3>1
    <3> QED BY <3>2
  <2> QED BY <2>1
<1>2. PICK d \in Nat : k = q + 1 + d
  <2>1. k - q - 1 \in Nat /\ k = q + 1 + (k - q - 1)
    BY <1>1
  <2> QED BY <2>1
<1>3. k * w = w * q + w + w * d /\ w * d \in Nat /\ w * q \in Nat
  BY <1>2
<1> QED BY <1>3

Tops(r) == { <<o, ClassCount - 1>> : o \in {g \in Span(r) : g % TopSize = 0} }

\* The blocks a region starts with.
LEMMA TopIs ==
  ASSUME NEW r \in Regions, NEW b \in Tops(r)
  PROVE  /\ b \in Blocks /\ Aligned(b) /\ Sound(b) /\ RegionOf(b[1]) = r /\ b[1] \in Span(r)
         /\ b[2] = ClassCount - 1
<1>1. PICK o \in Span(r) : o % TopSize = 0 /\ b = <<o, ClassCount - 1>>
  BY DEF Tops
<1>2. /\ ClassCount - 1 \in Classes /\ TopSize = ClassSize(ClassCount - 1) /\ o \in Granules /\ RegionOf(o) = r
      /\ ShareTops \in Nat /\ ReserveTops \in Nat /\ b[1] = o /\ b[2] = ClassCount - 1
  BY <1>1, ArenaAssumption, SpanIs DEF Classes, TopSize
<1>3. o \in Nat /\ TopSize \in Nat \ {0} /\ b \in Granules \X Classes /\ b \in Blocks
  BY <1>1, <1>2, GranulesAre DEF Blocks
<1>4. Aligned(b)
  BY <1>1, <1>2, <1>3 DEF Aligned, Around
<1>5. PICK q \in Nat, s \in 0 .. TopSize - 1 : o = TopSize * q + s /\ o % TopSize = s
  BY <1>3, DivMod
<1>6. o = TopSize * q
  BY <1>1, <1>3, <1>5
<1>7. Extent(b) = o .. o + TopSize - 1
  BY <1>2 DEF Extent
<1>8. Extent(b) \subseteq Span(r)
  <2>1. CASE r = "Share"
    <3>1. o < ShareTops * TopSize
      BY <1>1, <1>3, <2>1, GranulesAre DEF Span, Share, ShareSize
    <3>2. o + TopSize <= ShareTops * TopSize
      BY <1>2, <1>3, <1>6, <3>1, MultipleFits
    <3>3. o + TopSize <= ShareSize /\ ShareSize \in Nat
      BY <3>2, GranulesAre DEF ShareSize
    <3> QED BY <1>3, <1>7, <2>1, <3>3 DEF Span, Share
  <2>2. CASE r = "Reserve"
    <3>1. o < (ShareTops + ReserveTops) * TopSize /\ o >= ShareSize
      BY <1>1, <1>3, <2>2, GranulesAre DEF Span, Share, Reserve, GranuleCount
    <3>2. ShareTops + ReserveTops \in Nat
      BY <1>2
    <3>3. o + TopSize <= (ShareTops + ReserveTops) * TopSize
      BY <1>3, <1>6, <3>1, <3>2, MultipleFits
    <3>4. o + TopSize <= GranuleCount /\ GranuleCount \in Nat /\ ShareSize \in Nat
      BY <3>3, GranulesAre DEF GranuleCount
    <3> QED BY <1>3, <1>7, <2>2, <3>1, <3>4, GranulesAre DEF Span, Share, Reserve
  <2> QED BY <2>1, <2>2 DEF Regions
<1> QED BY <1>1, <1>2, <1>3, <1>4, <1>8 DEF Sound

\* They partition the arena.
LEMMA TopsTile ==
  /\ NoOverlap(Tops("Share") \cup Tops("Reserve"))
  /\ Covered(Tops("Share") \cup Tops("Reserve")) = Granules
<1> DEFINE A == Tops("Share") \cup Tops("Reserve")
<1>0. "Share" \in Regions /\ "Reserve" \in Regions
  BY DEF Regions
<1>1. \A b \in A : b \in Blocks /\ Aligned(b) /\ Sound(b) /\ b[2] = ClassCount - 1
  BY <1>0, TopIs
<1>2. ASSUME NEW b \in A, NEW d \in A, NEW g \in Extent(b), g \in Extent(d) PROVE b = d
  <2>1. b[1] = Around(g, ClassCount - 1) /\ d[1] = Around(g, ClassCount - 1)
    BY <1>1, <1>2, InsideAround
  <2>2. b = <<b[1], b[2]>> /\ d = <<d[1], d[2]>>
    BY <1>1, ExtentIs
  <2> QED BY <1>1, <2>1, <2>2
<1>3. ASSUME NEW b \in A, NEW g \in Extent(b) PROVE g \in Granules
  <2>1. Extent(b) \subseteq Span(RegionOf(b[1])) /\ RegionOf(b[1]) \in Regions
    BY <1>1 DEF Sound, RegionOf, Regions
  <2> QED BY <2>1, SpanIs
<1>4. ASSUME NEW g \in Granules PROVE \E b \in A : g \in Extent(b)
  <2>1. ClassCount - 1 \in Classes /\ TopSize = ClassSize(ClassCount - 1) /\ TopSize \in Nat \ {0} /\ g \in Nat
    BY ArenaAssumption, GranulesAre DEF Classes, TopSize
  <2>2. PICK q \in Nat, s \in 0 .. TopSize - 1 : g = TopSize * q + s
    BY <2>1, DivMod
  <2>3. PICK o \in Nat : o = TopSize * q /\ g = o + s
    BY <2>1, <2>2
  <2>4. o = TopSize * q + 0 /\ 0 \in 0 .. TopSize - 1
    BY <2>1, <2>3
  <2>5. o % TopSize = 0
    BY <2>1, <2>4, Quotient
  <2>6. o \in Granules
    BY <2>1, <2>3, GranulesAre
  <2>7. o \in Span("Share") \/ o \in Span("Reserve")
    BY <2>6, GranulesAre DEF Span, Reserve
  <2>8. <<o, ClassCount - 1>> \in A
    BY <2>5, <2>7 DEF Tops
  <2>9. g \in Extent(<<o, ClassCount - 1>>)
    BY <2>1, <2>3 DEF Extent
  <2> QED BY <2>8, <2>9
<1> HIDE DEF A
<1>5. NoOverlap(A) /\ Covered(A) = Granules
  BY <1>2, <1>3, <1>4 DEF NoOverlap, Covered
<1> QED BY <1>5 DEF A

\* The inductive invariant.
ArenaInv == ArenaTypes /\ PlaceInv /\ PartsInv /\ NoBuddies /\ ReserveInv /\ CountInv

\* The arena starts partitioned, with nothing handed out.
LEMMA ArenaStarts == ASSUME ArenaInit PROVE ArenaInv
<1>0. free = [r \in Regions |-> Tops(r)] /\ free["Share"] = Tops("Share") /\ free["Reserve"] = Tops("Reserve")
  BY DEF ArenaInit, Tops, Regions
<1>1. \A r \in Regions : \A b \in Tops(r) : b \in Blocks /\ Aligned(b) /\ Sound(b) /\ RegionOf(b[1]) = r /\ b[2] = ClassCount - 1
  BY TopIs
<1>2. ArenaTypes
  <2>1. free \in [Regions -> SUBSET (Granules \X Classes)]
    BY <1>0, <1>1 DEF Sound
  <2>2. 0 \in Classes
    BY ArenaAssumption DEF Classes
  <2> QED BY <2>1, <2>2 DEF ArenaInit, ArenaTypes, Nodes, NoNode, NoRequest, Fundings, NoBlock
<1>3. PlaceInv
  BY DEF ArenaInit, PlaceInv, OwnerAt, FutureOf
<1>4. Away = {} /\ Lent = {}
  BY DEF ArenaInit, Away, Lent
<1>5. PartsInv
  <2>1. Linked(node, head, {}) /\ Linked(node, draining, {})
    BY NothingLinked DEF ArenaInit
  <2>2. Everything({}, {}) = Tops("Share") \cup Tops("Reserve")
    BY <1>0, <1>4 DEF Everything, Returning
  <2>3. Separate({}, {})
    BY <1>0, <1>1, <1>4 DEF Separate
  <2>4. Parts({}, {})
    BY <1>1, <2>2, <2>3, TopsTile DEF Parts, Regions
  <2> QED BY <2>1, <2>4 DEF PartsInv, Carries
<1>6. NoBuddies
  <2>1. ASSUME NEW r \in Regions, NEW b \in free[r], b[2] + 1 \in Classes PROVE FALSE
    <3>1. b[2] = ClassCount - 1
      BY <1>0, <1>1, <2>1
    <3> QED BY <2>1, <3>1, ArenaAssumption DEF Classes
  <2> QED BY <2>1 DEF NoBuddies, Unpaired
<1>7. ReserveInv
  BY DEF ArenaInit, ReserveInv
<1>8. CountInv
  <2>1. Handed = {} /\ Instances = {}
    BY DEF ArenaInit, Handed, Instances
  <2> QED BY <2>1, FS_EmptySet DEF ArenaInit, CountInv
<1> QED BY <1>2, <1>3, <1>5, <1>6, <1>7, <1>8 DEF ArenaInv

\* Every step keeps the invariant.
LEMMA ArenaSteps ==
  ASSUME ArenaInv, [opc # "panic" /\ ArenaNext]_arenaVars
  PROVE  ArenaInv'
<1>1. CASE opc # "panic" /\ ArenaNext
  <2>1. PICK S, D : Carries(S, D)
    BY DEF ArenaInv, PartsInv
  <2> QED BY <1>1, <2>1, TypesNext, PlaceIs, PartsNext, BuddiesNext, ReserveNext, CountNext DEF ArenaInv
<1>2. CASE UNCHANGED arenaVars
  <2>1. PartsInv'
    <3>1. PICK S, D : Carries(S, D)
      BY DEF ArenaInv, PartsInv
    <3> QED BY <1>2, <3>1, QuietParts DEF arenaVars, PartsInv
  <2>2. ArenaTypes' /\ PlaceInv' /\ NoBuddies' /\ ReserveInv' /\ CountInv'
    BY <1>2 DEF arenaVars, ArenaInv, ArenaTypes, PlaceInv, OwnerAt, FutureOf, NoBuddies, Unpaired, ReserveInv, CountInv, Handed, Instances
  <2> QED BY <2>1, <2>2 DEF ArenaInv
<1> QED BY <1>1, <1>2

\* ArenaInv, the inductive invariant of TaskArena, holds in every reachable
\* state: allocate's steps, the drain and the releases on other processors keep
\* the arena partitioned, free buddies merged, and the counts exact.
THEOREM ArenaInvariant == ArenaSpec => []ArenaInv
  BY ArenaStarts, ArenaSteps, PTL DEF ArenaSpec

-----------------------------------------------------------------------------
(* Who has which block                                                     *)

FreeAt(h) == \E r \in Regions : \E b \in free[r] : h = <<r, b>>
LentAt(h) == \E t \in Away : h = <<t, block[t]>>
OnItsWay(h, who, X) == \E x \in X : h = <<who, <<x, node[x].class>>>>

\* Holdings, by who has the block.
LEMMA HoldingsAre ==
  ASSUME ArenaTypes, NEW S, NEW D, Carries(S, D)
  PROVE  /\ Null \in Reach(node, head) /\ Null \in Reach(node, draining)
         /\ \A h : h \in Holdings <=>
              FreeAt(h) \/ LentAt(h) \/ OnItsWay(h, "stack", S) \/ OnItsWay(h, "drain", D)
<1>1. node \in Nodes /\ head \in Granules \cup {Null} /\ draining \in Granules \cup {Null}
  BY DEF ArenaTypes
<1>2. Linked(node, head, S) /\ Linked(node, draining, D)
  BY DEF Carries
<1>3. Reach(node, head) = S \cup {Null} /\ Reach(node, draining) = D \cup {Null}
  BY <1>1, <1>2, LinkedReach
<1>4. Null \notin S /\ Null \notin D
  BY <1>2, LinkedSet, GranulesAre
<1>5. Reach(node, head) \ {Null} = S /\ Reach(node, draining) \ {Null} = D
  BY <1>3, <1>4
<1>6. OnChain(head) = {<<x, node[x].class>> : x \in S} /\ OnChain(draining) = {<<x, node[x].class>> : x \in D}
  BY <1>5 DEF OnChain
<1>7. ASSUME NEW h PROVE h \in ({"stack"} \X OnChain(head)) <=> OnItsWay(h, "stack", S)
  BY <1>6 DEF OnItsWay
<1>8. ASSUME NEW h PROVE h \in ({"drain"} \X OnChain(draining)) <=> OnItsWay(h, "drain", D)
  BY <1>6 DEF OnItsWay
<1>9. ASSUME NEW h PROVE h \in UNION { {r} \X free[r] : r \in Regions } <=> FreeAt(h)
  BY DEF FreeAt
<1>10. ASSUME NEW h PROVE h \in { <<t, block[t]>> : t \in {u \in Futures : block[u] # NoBlock} } <=> LentAt(h)
  BY DEF LentAt, Away
<1> DEFINE A == UNION { {r} \X free[r] : r \in Regions }
           B == { <<t, block[t]>> : t \in {u \in Futures : block[u] # NoBlock} }
           K == {"stack"} \X OnChain(head)
           R == {"drain"} \X OnChain(draining)
<1>12. Holdings = A \cup B \cup K \cup R
  BY DEF Holdings
<1>11. ASSUME NEW h
       PROVE  /\ h \in A <=> FreeAt(h)
              /\ h \in B <=> LentAt(h)
              /\ h \in K <=> OnItsWay(h, "stack", S)
              /\ h \in R <=> OnItsWay(h, "drain", D)
  BY <1>7, <1>8, <1>9, <1>10
<1> HIDE DEF A, B, K, R
<1>13. ASSUME NEW h
       PROVE  h \in Holdings <=> FreeAt(h) \/ LentAt(h) \/ OnItsWay(h, "stack", S) \/ OnItsWay(h, "drain", D)
  BY <1>11, <1>12
<1> QED BY <1>3, <1>13

\* The blocks of Holdings are all blocks.
LEMMA HoldingsCover ==
  ASSUME ArenaTypes, NEW S, NEW D, Carries(S, D)
  PROVE  /\ \A h \in Holdings : h[2] \in Everything(S, D)
         /\ \A b \in Everything(S, D) : \E h \in Holdings : h[2] = b
<1>1. ASSUME NEW h \in Holdings PROVE h[2] \in Everything(S, D)
  <2>1. CASE FreeAt(h)
    BY <2>1 DEF FreeAt, Everything, Regions
  <2>2. CASE LentAt(h)
    BY <2>2 DEF LentAt, Everything, Lent
  <2>3. CASE OnItsWay(h, "stack", S) \/ OnItsWay(h, "drain", D)
    BY <2>3 DEF OnItsWay, Everything, Returning
  <2> QED BY <2>1, <2>2, <2>3, HoldingsAre
<1>2. ASSUME NEW r \in Regions, NEW b \in free[r] PROVE \E h \in Holdings : h[2] = b
  <2>1. <<r, b>> \in Holdings /\ <<r, b>>[2] = b
    BY <1>2, HoldingsAre DEF FreeAt
  <2> QED BY <2>1
<1>3. ASSUME NEW t \in Away PROVE \E h \in Holdings : h[2] = block[t]
  <2>1. <<t, block[t]>> \in Holdings /\ <<t, block[t]>>[2] = block[t]
    BY <1>3, HoldingsAre DEF LentAt
  <2> QED BY <2>1
<1>4. ASSUME NEW x \in S PROVE \E h \in Holdings : h[2] = <<x, node[x].class>>
  <2>0. PICK b : b = <<x, node[x].class>>
    OBVIOUS
  <2>1. <<"stack", b>> \in Holdings /\ <<"stack", b>>[2] = b
    BY <1>4, <2>0, HoldingsAre DEF OnItsWay
  <2> QED BY <2>0, <2>1
<1>5. ASSUME NEW x \in D PROVE \E h \in Holdings : h[2] = <<x, node[x].class>>
  <2>0. PICK b : b = <<x, node[x].class>>
    OBVIOUS
  <2>1. <<"drain", b>> \in Holdings /\ <<"drain", b>>[2] = b
    BY <1>5, <2>0, HoldingsAre DEF OnItsWay
  <2> QED BY <2>0, <2>1
<1>6. ASSUME NEW b \in Everything(S, D) PROVE \E h \in Holdings : h[2] = b
  BY <1>2, <1>3, <1>4, <1>5, <1>6 DEF Everything, Lent, Returning, Regions
<1> QED BY <1>1, <1>6

\* A block has one holder.
LEMMA HoldersDiffer ==
  ASSUME ArenaTypes, NEW S, NEW D, Carries(S, D), NEW h \in Holdings, NEW k \in Holdings, h[2] = k[2]
  PROVE  h = k
<1>0. Separate(S, D)
  BY DEF Carries, Parts
<1>1. CASE FreeAt(h)
  <2>1. PICK r \in Regions : \E b \in free[r] : h = <<r, b>>
    BY <1>1 DEF FreeAt
  <2>2. PICK b \in free[r] : h = <<r, b>>
    BY <2>1
  <2>3. RegionOf(b[1]) = r /\ b[1] \notin S \cup D /\ (\A t \in Away : b[1] # block[t][1]) /\ k[2] = b
    BY <1>0, <2>2 DEF Separate
  <2>4. CASE FreeAt(k)
    BY <1>0, <2>2, <2>3, <2>4 DEF FreeAt, Separate
  <2>5. CASE LentAt(k)
    BY <2>3, <2>5 DEF LentAt
  <2>6. CASE OnItsWay(k, "stack", S) \/ OnItsWay(k, "drain", D)
    BY <2>3, <2>6 DEF OnItsWay
  <2> QED BY <2>4, <2>5, <2>6, HoldingsAre
<1>2. CASE LentAt(h)
  <2>1. PICK t \in Away : h = <<t, block[t]>>
    BY <1>2 DEF LentAt
  <2>2. k[2] = block[t] /\ block[t][1] \notin S \cup D
    BY <1>0, <2>1 DEF Separate
  <2>3. CASE FreeAt(k)
    BY <1>0, <2>2, <2>3 DEF FreeAt, Separate
  <2>4. CASE LentAt(k)
    BY <1>0, <2>1, <2>2, <2>4 DEF LentAt, Separate
  <2>5. CASE OnItsWay(k, "stack", S) \/ OnItsWay(k, "drain", D)
    BY <2>2, <2>5 DEF OnItsWay
  <2> QED BY <2>3, <2>4, <2>5, HoldingsAre
<1>3. ASSUME NEW who, NEW X, (X = S /\ who = "stack") \/ (X = D /\ who = "drain"), OnItsWay(h, who, X) PROVE h = k
  <2>1. PICK x \in X : h = <<who, <<x, node[x].class>>>>
    BY <1>3 DEF OnItsWay
  <2>2. x \in S \cup D /\ k[2] = <<x, node[x].class>> /\ k[2][1] = x
    BY <1>3, <2>1
  <2>3. CASE FreeAt(k)
    BY <1>0, <2>2, <2>3 DEF FreeAt, Separate
  <2>4. CASE LentAt(k)
    BY <1>0, <2>2, <2>4 DEF LentAt, Separate
  <2>5. CASE OnItsWay(k, "stack", S)
    <3>1. PICK y \in S : k = <<"stack", <<y, node[y].class>>>>
      BY <2>5 DEF OnItsWay
    <3>2. y = x
      BY <2>2, <3>1
    <3> QED BY <1>0, <1>3, <2>1, <3>1, <3>2 DEF Separate
  <2>6. CASE OnItsWay(k, "drain", D)
    <3>1. PICK y \in D : k = <<"drain", <<y, node[y].class>>>>
      BY <2>6 DEF OnItsWay
    <3>2. y = x
      BY <2>2, <3>1
    <3> QED BY <1>0, <1>3, <2>1, <3>1, <3>2 DEF Separate
  <2> QED BY <2>3, <2>4, <2>5, <2>6, HoldingsAre
<1>4. CASE OnItsWay(h, "stack", S)
  BY <1>3, <1>4
<1>5. CASE OnItsWay(h, "drain", D)
  BY <1>3, <1>5
<1> QED BY <1>1, <1>2, <1>4, <1>5, HoldingsAre

\* The arena is partitioned.
LEMMA Partitioned ==
  ASSUME ArenaTypes, PartsInv
  PROVE  BlocksPartition
<1>0. PICK S, D : Carries(S, D)
  BY DEF PartsInv
<1>1. \A r \in Regions : \A b \in free[r] : Extent(b) \subseteq Span(r)
  BY <1>0, FreeIs DEF Sound
<1>2. Null \in Reach(node, head) /\ Null \in Reach(node, draining)
  BY <1>0, HoldingsAre
<1>3. UNION { Extent(h[2]) : h \in Holdings } = Covered(Everything(S, D))
  BY <1>0, HoldingsCover DEF Covered
<1>4. Covered(Everything(S, D)) = Granules /\ NoOverlap(Everything(S, D))
  BY <1>0 DEF Carries, Parts
<1>5. ASSUME NEW h \in Holdings, NEW k \in Holdings, h # k PROVE Extent(h[2]) \cap Extent(k[2]) = {}
  <2>1. h[2] # k[2]
    BY <1>0, <1>5, HoldersDiffer
  <2> QED BY <1>0, <1>4, <2>1, HoldingsCover DEF NoOverlap
<1> QED BY <1>1, <1>2, <1>3, <1>4, <1>5 DEF BlocksPartition

\* What the invariant is for.
LEMMA ArenaIsSound == ArenaInv => ArenaTypeOK /\ ArenaAccounted
  BY Partitioned, ReserveHolds, CountedIs DEF ArenaInv, ArenaTypes, ArenaTypeOK, ArenaAccounted, Nodes

\* The types of TaskArena hold in every reachable state; the counts that
\* release decrements never fall below zero.
THEOREM ArenaTypeCorrect == ArenaSpec => []ArenaTypeOK
  BY ArenaInvariant, ArenaIsSound, PTL

\* For any futures, classes, share and reserve: however releases race the
\* owner's drain, every granule is in exactly one free block, one future's block
\* or one block on its way back, instances keep out of the reserve, and the
\* counts are exact.
THEOREM ArenaIsAccounted == ArenaSpec => []ArenaAccounted
  BY ArenaInvariant, ArenaIsSound, PTL

-----------------------------------------------------------------------------
(* What is refused does not fit                                            *)

\* Rounding down to a class and then to a larger one is rounding down to the larger.
LEMMA AroundFurther ==
  ASSUME NEW o \in Nat, NEW j \in Classes, NEW k \in Classes, j <= k
  PROVE  Around(Around(o, j), k) = Around(o, k)
<1> DEFINE T == {n \in Nat : j + n \in Classes => Around(Around(o, j), j + n) = Around(o, j + n)}
<1>0. j \in Nat /\ k \in Nat /\ Around(o, j) \in Nat
  BY AroundIs DEF Classes
<1>1. 0 \in T
  <2>1. j + 0 = j
    BY <1>0
  <2> QED BY <2>1, AroundIs
<1>2. ASSUME NEW n \in T PROVE n + 1 \in T
  <2>1. ASSUME j + (n + 1) \in Classes PROVE Around(Around(o, j), j + (n + 1)) = Around(o, j + (n + 1))
    <3>1. PICK i : i = j + n
      OBVIOUS
    <3>2. n \in Nat
      OBVIOUS
    <3>3. i \in Nat /\ i + 1 = j + (n + 1) /\ i <= i + 1
      BY <1>0, <3>1, <3>2
    <3>4. i \in Classes /\ i + 1 \in Classes
      BY <2>1, <3>3, ClassesBelow
    <3>5. Around(Around(o, j), i) = Around(o, i)
      BY <1>2, <3>1, <3>4
    <3>6. Around(Around(Around(o, j), i), i + 1) = Around(Around(o, j), i + 1)
      BY <1>0, <3>4, AroundUp
    <3>7. Around(Around(o, i), i + 1) = Around(o, i + 1)
      BY <3>4, AroundUp
    <3>8. Around(Around(o, j), i + 1) = Around(o, i + 1)
      BY <3>5, <3>6, <3>7
    <3> QED BY <3>3, <3>8
  <2>2. n + 1 \in Nat
    OBVIOUS
  <2> QED BY <2>1, <2>2
<1>3. T \in SUBSET Nat
  OBVIOUS
<1>4. T = Nat
  <2> HIDE DEF T
  <2> QED BY <1>1, <1>2, <1>3, Induct
<1>5. PICK n \in Nat : j + n = k
  <2>1. k - j \in Nat /\ j + (k - j) = k
    BY <1>0
  <2> QED BY <2>1
<1>6. n \in T
  <2> HIDE DEF T
  <2> QED BY <1>4
<1> QED BY <1>5, <1>6

\* A free run that a block would fit in is in one free block.
LEMMA FitsInOne ==
  ASSUME NEW F, \A b \in F : b \in Blocks /\ Aligned(b), Unpaired(F),
         NEW c \in Classes, NEW o \in Nat, Around(o, c) = o, Extent(<<o, c>>) \subseteq Covered(F)
  PROVE  \E b \in F : b[2] >= c
<1> DEFINE T == {n \in Nat : n \in Classes => \A x \in Nat :
                   Around(x, n) = x /\ Extent(<<x, n>>) \subseteq Covered(F) => \E b \in F : b[2] >= n /\ x \in Extent(b)}
<1>0. \A b \in F : b[1] \in Nat /\ b[2] \in Classes /\ b[2] \in Nat /\ b = <<b[1], b[2]>>
  BY ExtentIs DEF Classes
<1>1. 0 \in T
  <2>1. ASSUME 0 \in Classes, NEW x \in Nat, Extent(<<x, 0>>) \subseteq Covered(F)
        PROVE  \E b \in F : b[2] >= 0 /\ x \in Extent(b)
    <3>1. x \in Extent(<<x, 0>>)
      BY <2>1, ExtentIs DEF Blocks
    <3> QED BY <1>0, <2>1, <3>1 DEF Covered
  <2> QED BY <2>1
<1>2. ASSUME NEW n \in T PROVE n + 1 \in T
  <2>0. n \in Nat /\ n + 1 \in Nat
    OBVIOUS
  <2>1. ASSUME n + 1 \in Classes, NEW x \in Nat, Around(x, n + 1) = x, Extent(<<x, n + 1>>) \subseteq Covered(F)
        PROVE  \E b \in F : b[2] >= n + 1 /\ x \in Extent(b)
    <3>1. n \in Classes
      BY <2>0, <2>1, ClassesBelow
    <3>2. PICK w, y : w = ClassSize(n) /\ y = x + w
      OBVIOUS
    <3>3. /\ w \in Nat \ {0} /\ ClassSize(n + 1) = 2 * w /\ y \in Nat
          /\ Around(x, n) = x /\ Buddy(x, n) = y /\ Around(y, n) = y
      BY <2>1, <3>1, <3>2, ClassIs, AlignedDown
    <3>4. /\ Extent(<<x, n>>) = x .. x + w - 1 /\ Extent(<<y, n>>) = y .. y + w - 1
          /\ Extent(<<x, n + 1>>) = x .. x + 2 * w - 1
      BY <3>2, <3>3 DEF Extent
    <3>5. Extent(<<x, n>>) \subseteq Covered(F) /\ Extent(<<y, n>>) \subseteq Covered(F) /\ y \in Extent(<<x, n + 1>>)
      <4>1. /\ x .. x + w - 1 \subseteq x .. x + 2 * w - 1 /\ y .. y + w - 1 \subseteq x .. x + 2 * w - 1
            /\ y \in x .. x + 2 * w - 1
        BY <3>2, <3>3
      <4>2. Extent(<<x, n>>) \subseteq Extent(<<x, n + 1>>) /\ Extent(<<y, n>>) \subseteq Extent(<<x, n + 1>>)
            /\ y \in Extent(<<x, n + 1>>)
        BY <3>4, <4>1
      <4> QED BY <2>1, <4>2
    <3>6. PICK b \in F : b[2] >= n /\ x \in Extent(b)
      BY <1>2, <3>1, <3>3, <3>5
    <3>7. PICK d \in F : d[2] >= n /\ y \in Extent(d)
      BY <1>2, <3>1, <3>3, <3>5
    <3>8. CASE b[2] >= n + 1
      BY <3>6, <3>8
    <3>9. CASE d[2] >= n + 1
      <4>1. <<x, n + 1>> \in Blocks /\ Aligned(<<x, n + 1>>)
        BY <2>1 DEF Blocks, Aligned
      <4>2. Around(y, n + 1) = x
        BY <3>5, <4>1, InsideAround
      <4>3. d[2] \in Classes /\ n + 1 <= d[2] /\ d \in Blocks /\ Aligned(d)
        BY <1>0, <2>0, <3>9
      <4>4. Around(x, d[2]) = Around(y, d[2])
        BY <2>1, <3>3, <4>2, <4>3, AroundFurther
      <4>5. Around(y, d[2]) = d[1]
        BY <3>7, <4>3, InsideAround
      <4>6. d[1] <= x /\ x < d[1] + ClassSize(d[2]) /\ d[1] \in Nat /\ ClassSize(d[2]) \in Nat
        BY <1>0, <4>3, <4>4, <4>5, AroundIs, ClassIs
      <4>7. x \in Extent(d)
        BY <4>6 DEF Extent
      <4> QED BY <3>9, <4>7
    <3>10. CASE b[2] = n /\ d[2] = n
      <4>1. b[1] = x /\ d[1] = y
        BY <3>3, <3>6, <3>7, <3>10, InsideAround
      <4>2. b = <<x, n>> /\ d = <<y, n>>
        BY <1>0, <3>10, <4>1
      <4>3. <<Buddy(b[1], b[2]), b[2]>> \in F /\ b[2] + 1 \in Classes
        BY <2>1, <3>3, <3>10, <4>1, <4>2
      <4> QED BY <4>3 DEF Unpaired
    <3>11. b[2] >= n + 1 \/ d[2] >= n + 1 \/ (b[2] = n /\ d[2] = n)
      BY <1>0, <2>0, <3>6, <3>7
    <3> QED BY <3>8, <3>9, <3>10, <3>11
  <2> QED BY <2>0, <2>1
<1>3. T \in SUBSET Nat
  OBVIOUS
<1>4. T = Nat
  <2> HIDE DEF T
  <2> QED BY <1>1, <1>2, <1>3, Induct
<1>5. c \in T
  <2> HIDE DEF T
  <2> QED BY <1>4 DEF Classes
<1> QED BY <1>5

\* Without a source there is no free block of the class or above.
LEMMA NoSource ==
  ASSUME NEW r, NEW c \in Classes, Sources(r, c) = {}, \A b \in free[r] : b \in Blocks
  PROVE  \A b \in free[r] : ~ (b[2] >= c)
<1> DEFINE T == {n \in Nat : n >= c /\ \E b \in free[r] : b[2] = n}
<1>1. ASSUME NEW b \in free[r], b[2] >= c PROVE FALSE
  <2>1. \A d \in free[r] : d[2] \in Nat
    BY ExtentIs DEF Classes
  <2>2. b[2] \in T /\ T \in SUBSET Nat
    BY <1>1, <2>1
  <2>3. PICK n \in T : \A m \in T : n <= m
    <3> HIDE DEF T
    <3> QED BY <2>2, LeastOf
  <2>4. PICK d \in free[r] : d[2] = n
    OBVIOUS
  <2>5. d[2] >= c /\ \A e \in free[r] : e[2] >= c => d[2] <= e[2]
    BY <2>1, <2>3, <2>4
  <2>6. d \in Sources(r, c)
    BY <2>5 DEF Sources
  <2> QED BY <2>6
<1> QED BY <1>1

\* A region without a source has no room.
LEMMA NoRoom ==
  ASSUME ArenaInv, NEW r \in Regions, NEW c \in Classes, Sources(r, c) = {}
  PROVE  ~ Fits(r, c)
<1>0. PICK S, D : Carries(S, D)
  BY DEF ArenaInv, PartsInv
<1>1. (\A b \in free[r] : b \in Blocks /\ Aligned(b)) /\ Unpaired(free[r])
  BY <1>0, FreeIs DEF ArenaInv, NoBuddies
<1>2. \A b \in free[r] : ~ (b[2] >= c)
  BY <1>1, NoSource
<1>3. ASSUME NEW o \in Span(r), o % ClassSize(c) = 0, Extent(<<o, c>>) \subseteq Covered(free[r]) PROVE FALSE
  <2>1. o \in Nat /\ ClassSize(c) \in Nat
    BY SpanIs, GranulesAre, ClassIs
  <2>2. Around(o, c) = o
    BY <1>3, <2>1 DEF Around
  <2>3. \E b \in free[r] : b[2] >= c
    BY <1>1, <1>3, <2>1, <2>2, FitsInOne
  <2> QED BY <1>2, <2>3
<1> QED BY <1>3 DEF Fits, Covered

\* A step that refuses leaves no room in any region it may use.
LEMMA RefusalIsHonest ==
  ASSUME ArenaInv, opc # "panic", ArenaNext, opc = "drain", opc' \in {"idle", "panic"}
  PROVE  /\ ~ Fits("Share", request.class)
         /\ request.funding = "Kernel" => ~ Fits("Reserve", request.class)
<1>1. Refused
  <2>1. TakeBlock
    BY DEF ArenaNext, Spawn, TakeChain, DrainOne, CountActive, CountInstance, Release, PushRemote, Pushed, SubInstance,
           SubActive, ownerVars
  <2>2. ASSUME NEW r, NEW b, Taken(r, b) PROVE FALSE
    BY <2>2 DEF Taken, Place
  <2> QED BY <2>1, <2>2, TakeBlockIs DEF ArenaInv
<1>2. request.class \in Classes
  BY DEF ArenaInv, ArenaTypes
<1> QED BY <1>1, <1>2, NoRoom DEF Refused, Regions

\* take_block refuses only when no aligned run of free granules of the size is
\* left in any region the request may use: since free buddies are always merged
\* a run that is free is inside one free block.
THEOREM RefusalsAreHonest == ArenaSpec => HonestRefusal
<1>1. ASSUME ArenaInv, [opc # "panic" /\ ArenaNext]_arenaVars
      PROVE  [opc = "drain" /\ opc' \in {"idle", "panic"} =>
               /\ ~ Fits("Share", request.class)
               /\ request.funding = "Kernel" => ~ Fits("Reserve", request.class)]_arenaVars
  BY <1>1, RefusalIsHonest DEF arenaVars
<1> QED BY <1>1, ArenaInvariant, PTL DEF ArenaSpec, HonestRefusal
=============================================================================
