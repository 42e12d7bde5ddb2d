------------------------------- MODULE Notify -------------------------------
(***************************************************************************)
(* Notify (kernel/src/exec/sync.rs): permits for one waiter each, a        *)
(* generation for broadcasts, and an event_listener list that wakes the    *)
(* waits that have parked.  Every atomic access and every list operation   *)
(* is a step, for waiters and producers on any processor.                  *)
(*                                                                         *)
(* ProgressSignal in the same file is this with broadcasts only.  The list *)
(* is event-listener's, taken from how it is used: notify(n) makes up the  *)
(* number of notified listeners to n, a poll that finds its listener       *)
(* notified removes it, and dropping a notified listener passes the        *)
(* notification on.                                                        *)
(***************************************************************************)
EXTENDS Integers, Sequences, FiniteSets, SequencesExt

CONSTANTS
  Waiters,     \* tasks that wait
  Producers,   \* tasks and interrupt handlers that notify
  Kinds,       \* the notify operations they use
  MaxNotifies, \* bound: notifications by each producer
  MaxWaits     \* bound: waits each waiter starts

ASSUME WaitersAssumption == IsFiniteSet(Waiters)
ASSUME KindsAssumption == Kinds \subseteq {"one", "coalesced", "all"}
ASSUME BudgetAssumption == MaxNotifies \in Nat /\ MaxWaits \in Nat

VARIABLES
  permits, generation,
  list,      \* the event's listeners, oldest first; a waiter has at most one
  notified,  \* the waiters whose listener is notified
  pc,        \* pc[w]: where the waiter is in poll_notified
  observed,  \* observed[w]: the generation the wait was armed at
  seen,      \* seen[w]: the generation this turn of the loop read
  waits,     \* waits[w]: how many waits were started
  npc,       \* npc[n]: "idle", or the size of the event notification to come
  sent,      \* sent[n]: how many notifications were begun
  doubled    \* history: a permit has joined another still in store

eventVars == <<list, notified>>
waiterVars == <<pc, observed, seen, waits>>
producerVars == <<npc, sent, doubled>>
vars == <<permits, generation, list, notified, pc, observed, seen, waits, npc, sent, doubled>>

All == Cardinality(Waiters)  \* usize::MAX listeners

Init ==
  /\ permits = 0 /\ generation = 0
  /\ list = <<>> /\ notified = {}
  /\ pc = [w \in Waiters |-> "idle"]
  /\ observed = [w \in Waiters |-> 0] /\ seen = [w \in Waiters |-> 0]
  /\ waits = [w \in Waiters |-> 0]
  /\ npc = [n \in Producers |-> 0] /\ sent = [n \in Producers |-> 0]
  /\ doubled = FALSE

-----------------------------------------------------------------------------
(* event-listener                                                          *)

\* The listeners of l that are notified once notify(n) has run.
Reached(l, already, n) ==
  already \cup { l[j] : j \in { k \in 1 .. Len(l) :
      /\ l[k] \notin already
      /\ Cardinality({m \in 1 .. k : l[m] \notin already}) <= n - Cardinality(already) } }

HasListener(w) == w \in Range(list)

\* The list l without w's entry.
Unlink(l, w) ==
  IF w \in Range(l) THEN RemoveAt(l, CHOOSE i \in 1 .. Len(l) : l[i] = w) ELSE l

\* Mutant of DropListener: a notification dies with its listener.
DropListenerSilently(w) ==
  /\ list' = Unlink(list, w)
  /\ notified' = notified \ {w}

\* A listener is dropped, if the waiter has one.
DropListener(w) ==
  LET rest == Unlink(list, w) IN
  /\ list' = rest
  /\ notified' = IF w \in notified THEN Reached(rest, notified \ {w}, 1) ELSE notified

-----------------------------------------------------------------------------
(* A wait                                                                  *)

Goto(w, place) == pc' = [pc EXCEPT ![w] = place]

\* Notify::notified, Notify::waiter: armed when created.
Arm(w) ==
  /\ pc[w] = "idle" /\ waits[w] < MaxWaits
  /\ waits' = [waits EXCEPT ![w] = @ + 1]
  /\ observed' = [observed EXCEPT ![w] = generation]
  /\ Goto(w, "armed")
  /\ UNCHANGED <<permits, generation, eventVars, seen, producerVars>>

\* The task is polled: the first time, because its listener was notified, or
\* for a reason of its own.
Poll(w) ==
  /\ pc[w] \in {"armed", "parked"}
  /\ Goto(w, "gen")
  /\ UNCHANGED <<permits, generation, eventVars, observed, seen, waits, producerVars>>

\* rearm: the wait is complete and the waiter is armed for the next one.
Complete(w, g) ==
  /\ observed' = [observed EXCEPT ![w] = g]
  /\ DropListener(w)
  /\ Goto(w, "done")

\* Mutant of LoadGeneration: the wait is re-armed on every turn.
LoadAndRearm(w) ==
  /\ pc[w] = "gen"
  /\ seen' = [seen EXCEPT ![w] = generation]
  /\ observed' = [observed EXCEPT ![w] = generation]
  /\ Goto(w, "claim")
  /\ UNCHANGED <<permits, generation, eventVars, waits, producerVars>>

LoadGeneration(w) ==
  /\ pc[w] = "gen"
  /\ seen' = [seen EXCEPT ![w] = generation]
  /\ \/ generation # observed[w] /\ Complete(w, generation)
     \/ generation = observed[w] /\ Goto(w, "claim") /\ UNCHANGED <<eventVars, observed>>
  /\ UNCHANGED <<permits, generation, waits, producerVars>>

TryClaimPermit(w) ==
  /\ pc[w] = "claim"
  /\ \/ /\ permits > 0
        /\ permits' = permits - 1
        /\ Complete(w, seen[w])
     \/ /\ permits = 0
        /\ Goto(w, IF HasListener(w) THEN "poll" ELSE "listen")
        /\ UNCHANGED <<permits, eventVars, observed>>
  /\ UNCHANGED <<generation, seen, waits, producerVars>>

\* Register, and go round again.
Listen(w) ==
  /\ pc[w] = "listen"
  /\ list' = Append(list, w)
  /\ Goto(w, "gen")
  /\ UNCHANGED <<permits, generation, notified, observed, seen, waits, producerVars>>

\* Poll the listener: a notified one is used up, another parks the task.
PollListener(w) ==
  /\ pc[w] = "poll"
  /\ \/ /\ w \in notified
        /\ list' = Unlink(list, w)
        /\ notified' = notified \ {w}
        /\ Goto(w, "gen")
     \/ /\ w \notin notified
        /\ Goto(w, "parked")
        /\ UNCHANGED eventVars
  /\ UNCHANGED <<permits, generation, observed, seen, waits, producerVars>>

\* The caller takes the result: a reusable waiter stays armed at the
\* generation it was re-armed at, a future is gone.
TakeResult(w) ==
  /\ pc[w] = "done"
  /\ \/ /\ waits[w] < MaxWaits
        /\ waits' = [waits EXCEPT ![w] = @ + 1]
        /\ Goto(w, "armed")
     \/ Goto(w, "idle") /\ UNCHANGED waits
  /\ UNCHANGED <<permits, generation, eventVars, observed, seen, producerVars>>

\* The wait is dropped: a timeout won, or the task was cancelled.
Cancel(w) ==
  /\ pc[w] \in {"armed", "parked"}
  /\ DropListener(w)
  /\ Goto(w, "idle")
  /\ UNCHANGED <<permits, generation, observed, seen, waits, producerVars>>

-----------------------------------------------------------------------------
(* A notification: its atomic, then the event.                             *)

Begin(n, kind) ==
  /\ kind \in Kinds /\ npc[n] = 0 /\ sent[n] < MaxNotifies
  /\ sent' = [sent EXCEPT ![n] = @ + 1]

NotifyOne(n) ==
  /\ Begin(n, "one")
  /\ permits' = permits + 1
  /\ doubled' = (doubled \/ permits # 0)
  /\ npc' = [npc EXCEPT ![n] = 1]
  /\ UNCHANGED <<generation, eventVars, waiterVars>>

NotifyOneCoalesced(n) ==
  /\ Begin(n, "coalesced")
  /\ \/ permits = 0 /\ permits' = 1 /\ npc' = [npc EXCEPT ![n] = 1]
     \/ permits # 0 /\ UNCHANGED <<permits, npc>>
  /\ UNCHANGED <<generation, eventVars, waiterVars, doubled>>

\* Mutant of NotifyAll: wakes one.
NotifyAllAsOne(n) ==
  /\ Begin(n, "all")
  /\ generation' = generation + 1
  /\ npc' = [npc EXCEPT ![n] = 1]
  /\ UNCHANGED <<permits, eventVars, waiterVars, doubled>>

NotifyAll(n) ==
  /\ Begin(n, "all")
  /\ generation' = generation + 1
  /\ npc' = [npc EXCEPT ![n] = All]
  /\ UNCHANGED <<permits, eventVars, waiterVars, doubled>>

EventNotify(n) ==
  /\ npc[n] > 0
  /\ notified' = Reached(list, notified, npc[n])
  /\ npc' = [npc EXCEPT ![n] = 0]
  /\ UNCHANGED <<permits, generation, list, waiterVars, sent, doubled>>

-----------------------------------------------------------------------------
PollStep(w) ==
  LoadGeneration(w) \/ TryClaimPermit(w) \/ Listen(w) \/ PollListener(w)

Next ==
  \/ \E w \in Waiters : Arm(w) \/ Poll(w) \/ PollStep(w) \/ TakeResult(w) \/ Cancel(w)
  \/ \E n \in Producers :
       NotifyOne(n) \/ NotifyOneCoalesced(n) \/ NotifyAll(n) \/ EventNotify(n)

Spec == Init /\ [][Next]_vars

\* A poll runs to its end, a task whose listener was notified is polled again,
\* and a begun notification finishes.  Nobody has to wait or notify.
Fairness ==
  /\ \A w \in Waiters : WF_vars(PollStep(w)) /\ WF_vars(w \in notified /\ Poll(w))
  /\ \A n \in Producers : WF_vars(EventNotify(n))

FairSpec == Spec /\ Fairness

-----------------------------------------------------------------------------
TypeOK ==
  /\ permits \in Nat /\ generation \in Nat
  /\ list \in Seq(Waiters) /\ notified \subseteq Range(list)
  /\ \A i, j \in 1 .. Len(list) : list[i] = list[j] => i = j
  /\ pc \in [Waiters -> {"idle", "armed", "gen", "claim", "listen", "poll", "parked", "done"}]
  /\ observed \in [Waiters -> Nat] /\ seen \in [Waiters -> Nat]
  /\ waits \in [Waiters -> 0 .. MaxWaits]
  /\ npc \in [Producers -> {0, 1, All}] /\ sent \in [Producers -> 0 .. MaxNotifies]
  /\ doubled \in BOOLEAN

Waiting(w) == pc[w] \in {"gen", "claim", "listen", "poll", "parked"}

\* Nothing is on its way: no notification is half done, nobody is mid-poll and
\* no notified task has yet to run.
Quiet ==
  /\ \A n \in Producers : npc[n] = 0
  /\ \A w \in Waiters : pc[w] \in {"idle", "armed", "parked", "done"}
  /\ notified = {}

\* No permit is left in store beside a parked waiter.  The contract: a permit
\* is "handed to exactly one waiter", and a producer "releases a consumer
\* parked on another" processor.
NoStrandedPermit ==
  Quiet /\ permits > 0 => \A w \in Waiters : pc[w] # "parked"

\* As long as no permit joins another in store and nothing is broadcast, as in
\* the kernel's one-consumer and coalesced uses, no permit stays in store beside
\* a parked waiter, whichever waits are cancelled.  Each condition is needed: two
\* stored permits share one event notification, and a waiter woken for a permit
\* that finds a broadcast leaves the permit behind.
SinglePermitsReach == ~doubled /\ generation = 0 => NoStrandedPermit

\* No broadcast leaves behind a wait that was armed before it, at whatever
\* point between the arming and the park it came.
NoLostBroadcast ==
  Quiet => \A w \in Waiters : pc[w] = "parked" => observed[w] = generation

\* A wait armed before a broadcast completes.
BroadcastReleases ==
  \A w \in Waiters : Waiting(w) /\ observed[w] # generation ~> ~Waiting(w)
=============================================================================
