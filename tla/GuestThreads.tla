----------------------------- MODULE GuestThreads -----------------------------
(***************************************************************************)
(* The threads of a WASIX process and what stops them: the turn that       *)
(* drives a store's call (component/turn.rs), the mailboxes that signals   *)
(* and the process's end go through (service/descriptor.rs), the table of  *)
(* threads (service/wasix_thread.rs), the condemnation of an instance      *)
(* (instance.rs) and the way main's completion becomes the process's       *)
(* (service/exec.rs).                                                      *)
(*                                                                         *)
(* Four things are raised from any processor, each as a mark that is       *)
(* stored, a broadcast to the turns that wait, and an interruption of the  *)
(* running stores: the end of a thread, a signal to a thread, a signal to  *)
(* the process, a kill.  A turn reads the four marks one after the other.  *)
(* What it waits with is the generation of a Notify it sampled; `woken`    *)
(* says that one of the three generations has moved since.                 *)
(*                                                                         *)
(* A call's result is kept as what it ends: "returns" is a return,         *)
(* thread_exit or a signal to oneself, "ends" is proc_exit, an exec, a     *)
(* trap or any other failure.                                              *)
(***************************************************************************)
EXTENDS Integers, Sequences, FiniteSets, SequencesExt

CONSTANTS
  Threads,     \* the threads the process may spawn
  Main,        \* its main thread
  Plans        \* what happens to the process: the threads it spawns, in
               \* the order of their ids, the signals its parent and its threads
               \* raise, a kill, asyncify unwinds, time slices and host calls
               \* that suspend

All == Threads \cup {Main}
Process == "process"
Kill == "kill"
Outside == {"parent", "killer"}
NoCall == "none"
Host == "host"
NoEnd == "none"

ASSUME ThreadsAssumption ==
  /\ Main \notin Threads
  /\ \A p \in Plans : /\ p.threads \in Seq(Threads) /\ p.raises \in Nat
                     /\ p.kill \in BOOLEAN /\ p.unwinds \in BOOLEAN
                     /\ p.slices \in BOOLEAN /\ p.parks \in BOOLEAN
  /\ All \cap {Process, Kill, NoCall, Host, "parent", "killer"} = {}

Marks == <<"ended", "signal", "process", "kill">>

VARIABLES
  plan,
  guest,      \* guest[t]: the task of thread t, its store and the call it drives
  stores,     \* the stores an interruption of the instance reaches
  interrupt,  \* the stores with a request their guest has not met
  ended,      \* the threads whose mailbox carries the end of the process
  signalled,  \* the threads whose mailbox has a signal pending
  processSignal, \* the process's mailbox has a signal pending
  condemned,  \* the instance's kill flag
  named,      \* the threads whose mailbox has a target
  table,      \* the table of threads, and the end a thread recorded in it
  exits,      \* the threads whose end is published
  job,        \* job[a]: the mailboxes a is bringing something to
  raises,     \* signals raised
  awaited     \* the threads main waits for

vars == <<plan, guest, stores, interrupt, ended, signalled, processSignal, condemned,
          named, table, exits, job, raises, awaited>>
markVars == <<ended, signalled, processSignal, condemned>>
tableVars == <<table, exits>>
raiseVars == <<job, raises>>

\* Something to bring to mailboxes, and its first step.
Bring(mark, to) == [mark |-> mark, to |-> to, stage |-> "mark"]
NoJob == Bring("none", <<>>)

\* A task that drives a call: its waits are armed, then the marks are read.
Driving(call) ==
  [pc |-> "look", look |-> 1, at |-> "poll", call |-> call, result |-> "none",
   on |-> NoCall, woken |-> FALSE, unwound |-> FALSE]
NotYet == [Driving("instantiate") EXCEPT !.pc = "none"]

Init ==
  /\ plan \in Plans
  /\ guest = [t \in All |-> IF t = Main THEN Driving("start") ELSE NotYet]
  /\ stores = {Main} /\ interrupt = {}
  /\ ended = {} /\ signalled = {} /\ processSignal = FALSE /\ condemned = FALSE
  /\ named = {Main}
  /\ table = [open |-> TRUE, threads |-> <<>>, end |-> NoEnd]
  /\ exits = {}
  /\ job = [a \in All \cup Outside |-> NoJob]
  /\ raises = 0
  /\ awaited = {}

At(t, pc) == guest[t].pc = pc
Goes(t, pc) == guest' = [guest EXCEPT ![t].pc = pc]

\* The reads of the marks begin, and end.
Looks(t, place) == [guest[t] EXCEPT !.pc = "look", !.look = 1, !.at = place]
Leaves(t, pc) == [guest[t] EXCEPT !.pc = pc, !.look = 1, !.at = "poll"]

----------------------------------------------------------------------------
(* A turn                                                                  *)

\* The marks a turn reads, in their order, leaving out those nothing in the plan
\* stores.
Reads == CASE plan.raises > 0 /\ plan.kill -> Marks
           [] plan.raises > 0 /\ ~plan.kill -> <<"ended", "signal", "process">>
           [] ~(plan.raises > 0) /\ plan.kill -> <<"ended", "kill">>
           [] OTHER -> <<"ended">>

Marked(t, mark) ==
  CASE mark = "ended"   -> t \in ended
    [] mark = "signal"  -> t \in signalled
    [] mark = "process" -> processSignal
    [] mark = "kill"    -> condemned

\* A read that finds its mark: a signal is taken, an end and a kill stay owed.
\* In the interrupt callback it becomes the call's result, and the completion
\* of the call reads again.
Finds(t) ==
  LET mark == Reads[guest[t].look]
  IN  /\ At(t, "look") /\ Marked(t, mark)
      /\ signalled' = IF mark = "signal" THEN signalled \ {t} ELSE signalled
      /\ processSignal' = (processSignal /\ mark # "process")
      /\ guest' = [guest EXCEPT ![t] =
           IF @.at = "callback" THEN [Looks(t, "complete") EXCEPT !.result = mark]
                                ELSE [Leaves(t, "over") EXCEPT !.result = mark]]
      /\ UNCHANGED <<plan, stores, interrupt, ended, condemned, named, tableVars, raiseVars,
                     awaited>>

FindsNothing(t) ==
  /\ At(t, "look") /\ ~Marked(t, Reads[guest[t].look])
  /\ guest[t].look < Len(Reads)
  /\ guest' = [guest EXCEPT ![t].look = @ + 1]
  /\ UNCHANGED <<plan, stores, interrupt, markVars, named, tableVars, raiseVars, awaited>>

LastLookFindsNothing(t) ==
  At(t, "look") /\ guest[t].look = Len(Reads) /\ ~Marked(t, Reads[guest[t].look])

\* withdraw: the thread, if it is there, is taken out.
Without(threads, t) ==
  IF t \in ToSet(threads)
  THEN RemoveAt(threads, CHOOSE i \in DOMAIN threads : threads[i] = t)
  ELSE threads

\* Nothing is owed and the host call has resolved, or there is none: the guest
\* runs.  A join removes the thread it waited for.
Resumes(t) ==
  LET on == guest[t].on
  IN  /\ LastLookFindsNothing(t) /\ guest[t].at = "poll"
      /\ on \in {NoCall, Host} \cup exits
      /\ guest' = [guest EXCEPT ![t] = [Leaves(t, "run") EXCEPT !.on = NoCall]]
      /\ table' = [table EXCEPT !.threads = Without(@, on)]
      /\ UNCHANGED <<plan, stores, interrupt, markVars, named, exits, raiseVars, awaited>>

\* Nothing is owed and the host call has not resolved.
StaysSuspended(t) ==
  /\ LastLookFindsNothing(t)
  /\ guest[t].at = "waits" \/ (guest[t].at = "poll" /\ guest[t].on \notin {NoCall} \cup exits)
  /\ guest' = [guest EXCEPT ![t] = Leaves(t, "waits")]
  /\ UNCHANGED <<plan, stores, interrupt, markVars, named, tableVars, raiseVars, awaited>>

\* The callback finds nothing, and the guest gives up its processor.
Yields(t) ==
  /\ LastLookFindsNothing(t) /\ guest[t].at = "callback"
  /\ guest' = [guest EXCEPT ![t] = [Leaves(t, "waits") EXCEPT !.on = Host]]
  /\ UNCHANGED <<plan, stores, interrupt, markVars, named, tableVars, raiseVars, awaited>>

\* A call that has completed keeps its result.
Completes(t) ==
  /\ LastLookFindsNothing(t) /\ guest[t].at = "complete"
  /\ guest' = [guest EXCEPT ![t] = Leaves(t, "over")]
  /\ UNCHANGED <<plan, stores, interrupt, markVars, named, tableVars, raiseVars, awaited>>

\* The waits of a suspended call: one that has completed is armed again and
\* the marks are read again; else the task parks.
PollWaits(t) ==
  /\ At(t, "waits")
  /\ guest' = [guest EXCEPT ![t] =
       IF @.woken THEN [Looks(t, "waits") EXCEPT !.woken = FALSE] ELSE [@ EXCEPT !.pc = "parked"]]
  /\ UNCHANGED <<plan, stores, interrupt, markVars, named, tableVars, raiseVars, awaited>>

\* The parked task is polled: a broadcast, the end of the thread it joins, or
\* its host call woke it.
Wake(t) ==
  /\ At(t, "parked")
  /\ guest[t].woken \/ guest[t].on \in {Host} \cup exits
  /\ guest' = [guest EXCEPT ![t] = Looks(t, "poll")]
  /\ UNCHANGED <<plan, stores, interrupt, markVars, named, tableVars, raiseVars, awaited>>

----------------------------------------------------------------------------
(* What a running guest does                                               *)

\* It meets an interruption at its next check.
OnInterrupt(t) ==
  /\ At(t, "run") /\ t \in interrupt
  /\ interrupt' = interrupt \ {t}
  /\ guest' = [guest EXCEPT ![t] = Looks(t, "callback")]
  /\ UNCHANGED <<plan, stores, markVars, named, tableVars, raiseVars, awaited>>

\* A timer interrupt finds that it has run for a time slice.
TimeSlice(t) ==
  /\ plan.slices /\ At(t, "run") /\ t \notin interrupt
  /\ interrupt' = interrupt \cup {t}
  /\ UNCHANGED <<plan, guest, stores, markVars, named, tableVars, raiseVars, awaited>>

\* It suspends in a host call that may never resolve, or joins a thread.
Suspend(t) ==
  /\ At(t, "run")
  /\ \E on \in {h \in {Host} : plan.parks} \cup {u \in Threads \ {t} : u \in ToSet(table.threads)} :
       guest' = [guest EXCEPT ![t] = [@ EXCEPT !.pc = "waits", !.on = on]]
  /\ UNCHANGED <<plan, stores, interrupt, markVars, named, tableVars, raiseVars, awaited>>

\* Its call completes, for good or in an asyncify unwind.
Return(t) ==
  /\ At(t, "run")
  /\ \E r \in {"returns", "ends"} :
       guest' = [guest EXCEPT ![t] = [Looks(t, "complete") EXCEPT !.result = r]]
  /\ UNCHANGED <<plan, stores, interrupt, markVars, named, tableVars, raiseVars, awaited>>

Unwind(t) ==
  /\ At(t, "run") /\ guest[t].call = "start" /\ plan.unwinds
  /\ guest' = [guest EXCEPT ![t] =
       [Looks(t, "complete") EXCEPT !.result = "returns", !.unwound = TRUE]]
  /\ UNCHANGED <<plan, stores, interrupt, markVars, named, tableVars, raiseVars, awaited>>

\* Mutant of Admits: a process that has ended admits a thread.
AdmitsAny == TRUE
Admits == table.open

IsNextTid(u) ==
  \E i \in DOMAIN plan.threads :
     /\ plan.threads[i] = u
     /\ \A j \in DOMAIN plan.threads : At(plan.threads[j], "none") <=> j >= i

\* thread_spawn: the thread is in the table before its task exists.
Spawn(t, u) ==
  /\ At(t, "run") /\ IsNextTid(u) /\ Admits
  /\ table' = [table EXCEPT !.threads = Append(@, u)]
  /\ guest' = [guest EXCEPT ![t] = [@ EXCEPT !.pc = "spawning", !.on = u], ![u].pc = "admitted"]
  /\ UNCHANGED <<plan, stores, interrupt, markVars, named, exits, raiseVars, awaited>>

Returned(t) == [guest[t] EXCEPT !.pc = "run", !.on = NoCall]

Spawned(t) ==
  /\ At(t, "spawning")
  /\ guest' = [guest EXCEPT ![t] = Returned(t), ![guest[t].on].pc = "launched"]
  /\ UNCHANGED <<plan, stores, interrupt, markVars, named, tableVars, raiseVars, awaited>>

\* The id cannot be written back, or the executor's share is full.
SpawnRefused(t) ==
  /\ At(t, "spawning")
  /\ guest' = [guest EXCEPT ![t] = Returned(t), ![guest[t].on].pc = "published"]
  /\ table' = [table EXCEPT !.threads = Without(@, guest[t].on)]
  /\ exits' = exits \cup {guest[t].on}
  /\ UNCHANGED <<plan, stores, interrupt, markVars, named, raiseVars, awaited>>

\* thread_signal: on a thread that has not published its end.
ThreadSignal(t, u) ==
  /\ At(t, "run") /\ u \in ToSet(table.threads) \ (exits \cup {t})
  /\ raises < plan.raises /\ raises' = raises + 1
  /\ job' = [job EXCEPT ![t] = Bring("signal", <<u>>)]
  /\ Goes(t, "raising")
  /\ UNCHANGED <<plan, stores, interrupt, markVars, named, tableVars, awaited>>

----------------------------------------------------------------------------
(* Raising: the mark is stored, the turns are woken, the stores interrupted *)

Reported == guest[Main].pc = "reported"

\* The parent signals the process.
Raise ==
  /\ ~Reported /\ job["parent"] = NoJob
  /\ raises < plan.raises /\ raises' = raises + 1
  /\ job' = [job EXCEPT !["parent"] = Bring("process", <<Process>>)]
  /\ UNCHANGED <<plan, guest, stores, interrupt, markVars, named, tableVars, awaited>>

\* The instance is condemned, once.
Condemn ==
  /\ plan.kill /\ ~Reported /\ ~condemned /\ job["killer"] = NoJob
  /\ job' = [job EXCEPT !["killer"] = Bring("kill", <<Kill>>)]
  /\ UNCHANGED <<plan, guest, stores, interrupt, markVars, named, tableVars, raises, awaited>>

Busy(a, stage) == job[a].to # <<>> /\ job[a].stage = stage

StoreMark(a) ==
  LET m == Head(job[a].to)
  IN  /\ Busy(a, "mark")
      /\ job' = [job EXCEPT ![a].stage = "wake"]
      /\ ended' = IF job[a].mark = "end" THEN ended \cup {m} ELSE ended
      /\ signalled' = IF job[a].mark = "signal" THEN signalled \cup {m} ELSE signalled
      /\ processSignal' = (processSignal \/ job[a].mark = "process")
      /\ condemned' = (condemned \/ job[a].mark = "kill")
      /\ UNCHANGED <<plan, guest, stores, interrupt, named, tableVars, raises, awaited>>

\* The mailboxes a turn waits on.
Heard(t) == {t, Process, Kill}

\* Mutant of Armed: a turn waits only while it is parked.
ArmedLate(t) == At(t, "parked")
\* The waits are armed when the call is driven, and gone with it.
Armed(t) == guest[t].pc \in {"look", "run", "spawning", "raising", "waits", "parked"}
Broadcast(m) ==
  guest' = [t \in All |-> IF m \in Heard(t) /\ Armed(t)
                          THEN [guest[t] EXCEPT !.woken = TRUE] ELSE guest[t]]

WakeTurns(a) ==
  /\ Busy(a, "wake")
  /\ job' = [job EXCEPT ![a].stage = "interrupt"]
  /\ Broadcast(Head(job[a].to))
  /\ UNCHANGED <<plan, stores, interrupt, markVars, named, tableVars, raises, awaited>>

HasTarget(m) == m \in named \cup {Process, Kill}

\* A thread goes on once it has brought what it had to the last mailbox.
GoesOn(a, left) ==
  IF a \in All /\ left = <<>>
  THEN Goes(a, CASE At(a, "raising") -> "run"
                 [] At(a, "ending") /\ a = Main -> "awaiting"
                 [] OTHER -> "leaving")
  ELSE UNCHANGED guest

InterruptStores(a) ==
  LET left == Tail(job[a].to)
  IN  /\ Busy(a, "interrupt")
      /\ interrupt' = IF HasTarget(Head(job[a].to)) THEN stores ELSE interrupt
      /\ job' = [job EXCEPT ![a] = IF left = <<>> THEN NoJob
                                   ELSE [@ EXCEPT !.to = left, !.stage = "mark"]]
      /\ GoesOn(a, left)
      /\ UNCHANGED <<plan, stores, markVars, named, tableVars, raises, awaited>>

----------------------------------------------------------------------------
(* A spawned thread: its store, its calls, its end                         *)

Register(t) ==
  /\ At(t, "launched") /\ Goes(t, "registered")
  /\ stores' = stores \cup {t}
  /\ UNCHANGED <<plan, interrupt, markVars, named, tableVars, raiseVars, awaited>>

\* The process's mailbox is named its target again; a signal that is pending
\* interrupts.
AttachProcess(t) ==
  /\ At(t, "registered") /\ Goes(t, "attaching")
  /\ interrupt' = IF processSignal THEN stores ELSE interrupt
  /\ UNCHANGED <<plan, stores, markVars, named, tableVars, raiseVars, awaited>>

\* The thread's own mailbox: the target first, then the marks.
NameTarget(t) ==
  /\ At(t, "attaching") /\ Goes(t, "named")
  /\ named' = named \cup {t}
  /\ UNCHANGED <<plan, stores, interrupt, markVars, tableVars, raiseVars, awaited>>

Attached(t) ==
  /\ At(t, "named")
  /\ interrupt' = IF t \in signalled \cup ended THEN stores ELSE interrupt
  /\ guest' = [guest EXCEPT ![t] = Driving("instantiate")]
  /\ UNCHANGED <<plan, stores, markVars, named, tableVars, raiseVars, awaited>>

Failed(t) == guest[t].result # "returns"
\* An asyncify unwind is completed whatever the call's result, but for the end
\* of the process.
Rewinds(t) == guest[t].call = "start" /\ guest[t].unwound /\ guest[t].result # "ended"

\* The next call of the image: its start function after its instantiation, the
\* calls that rewind its stack, and the start function again.
GoesBack(t) == IF guest[t].call = "start" THEN Rewinds(t) ELSE ~Failed(t)
NextCall(t) ==
  LET call == guest[t].call
  IN  /\ At(t, "over") /\ GoesBack(t)
      /\ guest' = [guest EXCEPT ![t] = Driving(IF call = "start" THEN "rewind" ELSE "start")]
      /\ UNCHANGED <<plan, stores, interrupt, markVars, named, tableVars, raiseVars, awaited>>

\* The process's end stopped the call, or the rewind between two calls.
MetTheEnd(t) == 
  guest[t].result = "ended" \/ (guest[t].call = "rewind" /\ Failed(t) /\ t \in ended)

EndsAlone(t) ==
  \/ MetTheEnd(t)
  \/ guest[t].call = "start" /\ guest[t].result \in {"returns", "signal"}

EndThread(t) ==
  /\ t # Main /\ At(t, "over") /\ ~GoesBack(t) /\ EndsAlone(t)
  /\ Goes(t, "leaving")
  /\ UNCHANGED <<plan, stores, interrupt, markVars, named, tableVars, raiseVars, awaited>>

EndsProcess(t) == t # Main /\ At(t, "over") /\ ~GoesBack(t) /\ ~EndsAlone(t)

\* end_from_thread: the end is recorded, then main and the others are ended.
EndFromThread(t) ==
  /\ EndsProcess(t) /\ table.open
  /\ table' = [table EXCEPT !.open = FALSE, !.end = t]
  /\ job' = [job EXCEPT ![t] =
               Bring("end", <<Main>> \o Without(table.threads, t))]
  /\ Goes(t, "ending")
  /\ UNCHANGED <<plan, stores, interrupt, markVars, named, exits, raises, awaited>>

\* The process has ended already.
EndDropped(t) ==
  /\ EndsProcess(t) /\ ~table.open
  /\ Goes(t, "leaving")
  /\ UNCHANGED <<plan, stores, interrupt, markVars, named, tableVars, raiseVars, awaited>>

\* Main's call is over: it takes the end a thread recorded, or has its own.
MainOver ==
  /\ At(Main, "over") /\ ~GoesBack(Main)
  /\ table' = IF MetTheEnd(Main) THEN [table EXCEPT !.end = NoEnd] ELSE table
  /\ Goes(Main, "leaving")
  /\ UNCHANGED <<plan, stores, interrupt, markVars, named, exits, raiseVars, awaited>>

\* The store and its registration are dropped.
DropStore(t) ==
  /\ At(t, "leaving")
  /\ Goes(t, IF t = Main THEN "closing" ELSE "gone")
  /\ stores' = stores \ {t} /\ interrupt' = interrupt \ {t}
  /\ UNCHANGED <<plan, markVars, named, tableVars, raiseVars, awaited>>

Publish(t) ==
  /\ At(t, "gone") /\ Goes(t, "published")
  /\ exits' = exits \cup {t}
  /\ UNCHANGED <<plan, stores, interrupt, markVars, named, table, raiseVars, awaited>>

\* Mutant of Close: the threads are awaited and nobody ends them.
CloseAndWait ==
  /\ At(Main, "closing")
  /\ table' = [table EXCEPT !.open = FALSE, !.threads = <<>>]
  /\ awaited' = ToSet(table.threads)
  /\ Goes(Main, "awaiting")
  /\ UNCHANGED <<plan, stores, interrupt, markVars, named, exits, raiseVars>>

\* WasixProcessThreads::end: the table is closed and emptied, then every thread
\* is ended, then every one is awaited.
Close ==
  /\ At(Main, "closing")
  /\ table' = [table EXCEPT !.open = FALSE, !.threads = <<>>]
  /\ awaited' = ToSet(table.threads)
  /\ job' = IF table.threads = <<>> THEN job
            ELSE [job EXCEPT ![Main] = Bring("end", table.threads)]
  /\ Goes(Main, IF table.threads = <<>> THEN "awaiting" ELSE "ending")
  /\ UNCHANGED <<plan, stores, interrupt, markVars, named, exits, raises>>

Report ==
  /\ At(Main, "awaiting") /\ awaited \subseteq exits
  /\ Goes(Main, "reported")
  /\ UNCHANGED <<plan, stores, interrupt, markVars, named, tableVars, raiseVars, awaited>>

----------------------------------------------------------------------------
TurnStep(t) ==
  \/ Finds(t) \/ FindsNothing(t) \/ Resumes(t) \/ StaysSuspended(t) \/ Yields(t)
  \/ Completes(t) \/ PollWaits(t) \/ NextCall(t)
LifeStep(t) ==
  \/ Register(t) \/ AttachProcess(t) \/ NameTarget(t) \/ Attached(t)
  \/ EndThread(t) \/ EndFromThread(t) \/ EndDropped(t) \/ DropStore(t) \/ Publish(t)
Runs(t) ==
  \/ TimeSlice(t) \/ Suspend(t) \/ Return(t) \/ Unwind(t)
  \/ \E u \in Threads : Spawn(t, u) \/ ThreadSignal(t, u)
JobStep(a) == StoreMark(a) \/ WakeTurns(a) \/ InterruptStores(a)
MainStep == MainOver \/ Close \/ Report

Next ==
  \/ \E t \in All : TurnStep(t) \/ LifeStep(t) \/ Runs(t) \/ Wake(t) \/ OnInterrupt(t)
                     \/ Spawned(t) \/ SpawnRefused(t)
  \/ \E a \in All \cup Outside : JobStep(a)
  \/ Raise \/ Condemn \/ MainStep

Spec == Init /\ [][Next]_vars

\* A processor goes on with what it runs: a turn, a host call, the life of a
\* thread's task, something it brings to a mailbox.  A guest meets its
\* interruptions, and a task that was woken is polled.  Nothing is assumed of
\* what a guest does, nor of its host calls.
Woken(t) == Wake(t) /\ (guest[t].woken \/ guest[t].on \in exits)
GoesAhead(t) ==
  \/ TurnStep(t) \/ LifeStep(t) \/ OnInterrupt(t) \/ Woken(t)
  \/ Spawned(t) \/ SpawnRefused(t) \/ JobStep(t)
  \/ t = Main /\ MainStep
Fairness == /\ \A t \in All : WF_vars(GoesAhead(t))
            /\ \A a \in Outside : WF_vars(JobStep(a))
FairSpec == Spec /\ Fairness

----------------------------------------------------------------------------
\* What a process's end promises: when it is reported no thread of it is left,
\* its store gone and its status published (finish_core_module_process: "no
\* thread outlives its process"), and main stops on its mailbox's end only after
\* a thread recorded the end main then takes (the expect of
\* run_core_module_image).
EndsWhole ==
  /\ Reported => \A t \in Threads : guest[t].pc \in {"none", "published"}
  /\ At(Main, "over") /\ MetTheEnd(Main) => table.end \in Threads

\* Somebody is still to wake, or to interrupt, on behalf of a mark that thread t
\* owes its guest.
Owed(t) == {mark \in ToSet(Marks) : Marked(t, mark)}
Mailbox(t, mark) == IF mark = "process" THEN Process ELSE IF mark = "kill" THEN Kill ELSE t
UnderWay(t, mark, stages) ==
  \E a \in All \cup Outside :
     job[a].to # <<>> /\ Head(job[a].to) = Mailbox(t, mark) /\ job[a].stage \in stages

\* A stop is never slept through nor outrun: a guest that is suspended with a
\* stop marked has a wake behind it or under way, and one that runs has an
\* interruption pending or under way, whichever processor raised the stop at
\* whichever point of the turn.
StopsAreComing ==
  \A t \in All : \A mark \in Owed(t) :
    /\ At(t, "parked") => guest[t].woken \/ UnderWay(t, mark, {"wake"})
    /\ At(t, "run") => t \in interrupt \/ UnderWay(t, mark, {"wake", "interrupt"})

\* A process that is killed, or that one of its threads ended, is reported
\* ended, whatever its guests do and wherever they are suspended.
StopsEnd == (condemned \/ ~table.open) ~> Reported
=============================================================================
