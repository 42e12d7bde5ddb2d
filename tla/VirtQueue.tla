------------------------------ MODULE VirtQueue ------------------------------
(***************************************************************************)
(* The virtqueue and its table of completions: the split ring with its     *)
(* pool of descriptors and the suppression of notifications                *)
(* (virtio/src/queue), the slots a completion is put in by whichever task  *)
(* drains the ring (virtio/src/inflight.rs), and the device's interrupt as *)
(* a broadcast (virtio/src/notify.rs).                                     *)
(*                                                                         *)
(* Each task submits its requests one after the other and awaits each.  A  *)
(* step of a task is the code between two accesses that another task, or   *)
(* the device, can come between.  What it waits with is the generation of  *)
(* a Notify it sampled: `moved` says that the counter has passed it.       *)
(*                                                                         *)
(* The device takes what is available, uses it in any order, and follows   *)
(* the suppression rules of the specification; it is external.             *)
(***************************************************************************)
EXTENDS Integers, Sequences, FiniteSets, SequencesExt

CONSTANTS
  Tasks,
  Loads,      \* what the tasks ask for: rounds[t] requests of buffers[t] buffers,
              \* a descriptor each
  Size,       \* the entries of the ring, a power of two
  Wrap,       \* the ring's indices count modulo Wrap
  MaxFaults   \* submissions that fail

Ids == 0 .. Size - 1
NoTask == "none"
NoId == -1

ASSUME RingAssumption == Size \in Nat \ {0} /\ Wrap \in Nat /\ Wrap > Size /\ Wrap % Size = 0
ASSUME RequestsAssumption ==
  /\ \A l \in Loads : l.buffers \in [Tasks -> 1 .. Size] /\ l.rounds \in [Tasks -> Nat \ {0}]
  /\ NoTask \notin Tasks /\ MaxFaults \in Nat

VARIABLES
  mode,      \* "event" or "flags": VIRTIO_F_EVENT_IDX was negotiated or not
  load,
  pc,        \* pc[t]: where t is
  round,     \* round[t]: the request t is at
  token,     \* token[t]: the identifier its request has, or NoId
  announced, \* announced[t]: counted in blocked
  freed,     \* freed[t]: the drain t is in found a completion
  moved,     \* moved[t]: the `available` counter passed what t sampled; FALSE
             \* when it has no such wait
  rang,      \* rang[t]: the interrupt counter passed what t sampled, likewise
  woken,     \* woken[t]: the waker t left in a slot was run
  got,       \* got[t]: the request whose reply t collected last
  lock,      \* the task that has the queue
  ids,       \* the free identifiers, in the order they will be handed out
  chain,     \* chain[i]: the descriptors and the request of the chain with head i
  avail, availIdx, lastUsed, usedEvent,   \* the driver's side of the ring
  used, usedIdx, availEvent, noNotify,    \* the device's side of the ring
  slots,     \* slots[i]: Idle, Pending with a waker, or Complete
  blocked,   \* submitters that are parked, or about to
  dev,       \* the device: its state, what it fetched up to and has signalled
  working,   \* the chains it has
  kicked, irq, faults,
  missed     \* a waiter left the ring to a task that leaves it too, and nobody has
             \* drained it since

taskVars == <<pc, round, token, announced, freed, moved, rang, woken, got>>
ringVars == <<lock, ids, chain, avail, availIdx, lastUsed, usedEvent>>
deviceVars == <<used, usedIdx, availEvent, noNotify, dev, working, irq>>
vars == <<mode, load, taskVars, ringVars, deviceVars, slots, blocked, kicked, faults, missed>>

Idle == [state |-> "idle", waker |-> NoTask, reply |-> <<NoTask, 0>>]
Pending(t) == [Idle EXCEPT !.state = "pending", !.waker = t]
Complete(request) == [Idle EXCEPT !.state = "complete", !.reply = request]

Plus(x, n) == (x + n) % Wrap
Minus(x, y) == (x - y + Wrap) % Wrap
NeedEvent(event, new, old) == Minus(new, Plus(event, 1)) < Minus(new, old)

Init ==
  /\ mode \in {"event", "flags"} /\ load \in Loads
  /\ pc = [t \in Tasks |-> "arm"]
  /\ round = [t \in Tasks |-> 1]
  /\ token = [t \in Tasks |-> NoId]
  /\ announced = [t \in Tasks |-> FALSE]
  /\ freed = [t \in Tasks |-> FALSE]
  /\ moved = [t \in Tasks |-> FALSE]
  /\ rang = [t \in Tasks |-> FALSE]
  /\ woken = [t \in Tasks |-> FALSE]
  /\ got = [t \in Tasks |-> <<t, 0>>]
  /\ lock = NoTask
  /\ ids = [i \in 1 .. Size |-> i - 1]
  /\ chain = [i \in Ids |-> [descriptors |-> <<>>, request |-> <<NoTask, 0>>]]
  /\ avail = [i \in Ids |-> 0] /\ availIdx = 0 /\ lastUsed = 0 /\ usedEvent = 0
  /\ used = [i \in Ids |-> 0] /\ usedIdx = 0 /\ availEvent = 0 /\ noNotify = FALSE
  /\ slots = [i \in Ids |-> Idle]
  /\ blocked = 0
  /\ dev = [state |-> "asleep", next |-> 0, signalled |-> 0]
  /\ working = {}
  /\ kicked = FALSE /\ irq = FALSE /\ faults = 0 /\ missed = FALSE

At(t, where) == pc[t] = where
Goes(t, where) == pc' = [pc EXCEPT ![t] = where]
Sets(v, t, x) == [v EXCEPT ![t] = x]

----------------------------------------------------------------------------
(* submit_chain_with_payload                                               *)

\* The notification is sampled before the ring is looked at.
ArmSubmit(t) ==
  /\ At(t, "arm") /\ Goes(t, "lock")
  /\ moved' = Sets(moved, t, FALSE)
  /\ UNCHANGED <<mode, load, round, token, announced, freed, rang, woken, got, ringVars, deviceVars, slots, blocked, kicked, faults, missed>>

HasRoomFor(t) == Len(ids) >= load.buffers[t]
IsIdle(id) == slots[id].state = "idle"
\* Mutant of CanSubmit: room is enough.
CanSubmitOver(t) == HasRoomFor(t)
CanSubmit(t) == HasRoomFor(t) /\ IsIdle(Head(ids))

\* Mutant of Submit: the queue is given back before the slot is claimed.
SubmitUnlocked(t) ==
  /\ At(t, "lock") /\ lock = NoTask /\ CanSubmit(t)
  /\ LET head == Head(ids)
     IN  /\ token' = Sets(token, t, head)
         /\ chain' = [chain EXCEPT ![head] =
              [descriptors |-> SubSeq(ids, 1, load.buffers[t]), request |-> <<t, round[t]>>]]
         /\ avail' = [avail EXCEPT ![availIdx % Size] = head]
  /\ moved' = Sets(moved, t, FALSE)
  /\ ids' = SubSeq(ids, load.buffers[t] + 1, Len(ids))
  /\ availIdx' = Plus(availIdx, 1)
  /\ UNCHANGED lock /\ Goes(t, "kick")
  /\ UNCHANGED <<mode, load, round, announced, freed, rang, woken, got, lastUsed, usedEvent, deviceVars, slots, blocked, kicked, faults, missed>>

\* The chain is written and published: the device may take it from here on.
Submit(t) ==
  /\ At(t, "lock") /\ lock = NoTask /\ CanSubmit(t)
  /\ LET head == Head(ids)
     IN  /\ token' = Sets(token, t, head)
         /\ chain' = [chain EXCEPT ![head] =
              [descriptors |-> SubSeq(ids, 1, load.buffers[t]), request |-> <<t, round[t]>>]]
         /\ avail' = [avail EXCEPT ![availIdx % Size] = head]
  /\ moved' = Sets(moved, t, FALSE)
  /\ ids' = SubSeq(ids, load.buffers[t] + 1, Len(ids))
  /\ availIdx' = Plus(availIdx, 1)
  /\ lock' = t /\ Goes(t, "kick")
  /\ UNCHANGED <<mode, load, round, announced, freed, rang, woken, got, lastUsed, usedEvent, deviceVars, slots, blocked, kicked, faults, missed>>

\* What follows a request, with or without a reply.
NextRequest(t) ==
  /\ round' = [round EXCEPT ![t] = @ + 1]
  /\ Goes(t, IF round[t] = load.rounds[t] THEN "done" ELSE "arm")

\* The buffers cannot be translated; nothing is written.  The queue is held while
\* that is found out, and given back without a drain.
SubmitFails(t) ==
  /\ At(t, "lock") /\ lock = NoTask /\ CanSubmit(t) /\ faults < MaxFaults
  /\ faults' = faults + 1
  /\ lock' = t /\ Goes(t, "failed")
  /\ UNCHANGED <<mode, load, round, token, announced, freed, moved, rang, woken, got, ids, chain, avail, availIdx, lastUsed, usedEvent, deviceVars, slots, blocked, kicked, missed>>

GiveUp(t) ==
  /\ At(t, "failed") /\ Goes(t, "error")
  /\ lock' = NoTask
  /\ UNCHANGED <<mode, load, round, token, announced, freed, moved, rang, woken, got, ids, chain, avail, availIdx, lastUsed, usedEvent, deviceVars, slots, blocked, kicked, faults, missed>>

ReturnError(t) ==
  /\ At(t, "error") /\ NextRequest(t)
  /\ got' = Sets(got, t, <<t, round[t]>>)
  /\ announced' = Sets(announced, t, FALSE)
  /\ blocked' = IF announced[t] THEN blocked - 1 ELSE blocked
  /\ UNCHANGED <<mode, load, token, freed, moved, rang, woken, ringVars, deviceVars, slots, kicked, faults, missed>>

ShouldNotify ==
  IF mode = "event" THEN NeedEvent(availEvent, availIdx, Minus(availIdx, 1)) ELSE ~noNotify

Notify == kicked' = (kicked \/ ShouldNotify)
Register(id) == slots' = [slots EXCEPT ![id] = Pending(NoTask)]

\* Both are done under the lock: the slot is there before any drain.
Kick(t) ==
  /\ At(t, "kick") /\ Notify /\ Register(token[t])
  /\ lock' = NoTask
  /\ Goes(t, IF announced[t] THEN "release" ELSE "look")
  /\ UNCHANGED <<mode, load, round, token, announced, freed, moved, rang, woken, got, ids, chain, avail, availIdx, lastUsed, usedEvent, deviceVars, blocked, faults, missed>>

ReleaseBlocked(t) ==
  /\ At(t, "release") /\ Goes(t, "look")
  /\ blocked' = blocked - 1
  /\ announced' = Sets(announced, t, FALSE)
  /\ UNCHANGED <<mode, load, round, token, freed, moved, rang, woken, got, ringVars, deviceVars, slots, kicked, faults, missed>>

CannotSubmit(t) ==
  /\ At(t, "lock") /\ lock = NoTask /\ ~CanSubmit(t)
  /\ lock' = t /\ Goes(t, "drain")
  /\ freed' = Sets(freed, t, FALSE)
  /\ UNCHANGED <<mode, load, round, token, announced, moved, rang, woken, got, ids, chain, avail, availIdx, lastUsed, usedEvent, deviceVars, slots, blocked, kicked, faults, missed>>

\* Mutant of AnnounceBlocked: the ring is not looked at again.
AnnounceBlockedParks(t) ==
  /\ At(t, "announce") /\ Goes(t, "parked")
  /\ blocked' = blocked + 1
  /\ announced' = Sets(announced, t, TRUE)
  /\ UNCHANGED <<mode, load, round, token, freed, moved, rang, woken, got, ringVars, deviceVars, slots, kicked, faults, missed>>

AnnounceBlocked(t) ==
  /\ At(t, "announce") /\ Goes(t, "arm")
  /\ blocked' = blocked + 1
  /\ announced' = Sets(announced, t, TRUE)
  /\ UNCHANGED <<mode, load, round, token, freed, moved, rang, woken, got, ringVars, deviceVars, slots, kicked, faults, missed>>

\* notified.await
Unpark(t) ==
  /\ At(t, "parked") /\ moved[t] /\ Goes(t, "arm")
  /\ UNCHANGED <<mode, load, round, token, announced, freed, moved, rang, woken, got, ringVars, deviceVars, slots, blocked, kicked, faults, missed>>

----------------------------------------------------------------------------
(* drain_used, for a submitter and for a waiter alike                      *)

Waits(t) == token[t] # NoId

\* Where t goes once the ring is empty: round again if there was something in it.
AfterDrain(t) ==
  IF Waits(t) THEN IF freed[t] THEN "look" ELSE "slot"
  ELSE IF freed[t] THEN "arm" ELSE IF announced[t] THEN "parked" ELSE "announce"

\* The used cursor moves on, the device is told, and the descriptors are free.
FinishCompletion(id) ==
  /\ lastUsed' = Plus(lastUsed, 1)
  /\ usedEvent' = IF mode = "event" THEN Plus(lastUsed, 1) ELSE usedEvent
  /\ ids' = ids \o chain[id].descriptors

\* The slot has the reply; the task that waits for it, if it left its waker, is
\* woken.
Completes(id) ==
  /\ slots' = [slots EXCEPT ![id] = Complete(chain[id].request)]
  /\ woken' = [t \in Tasks |-> woken[t] \/ slots[id].waker = t]

PopUsed(t) ==
  /\ At(t, "drain") /\ usedIdx # lastUsed
  /\ FinishCompletion(used[lastUsed % Size])
  /\ Completes(used[lastUsed % Size])
  /\ freed' = Sets(freed, t, TRUE)
  /\ UNCHANGED <<mode, load, pc, round, token, announced, moved, rang, got, lock, chain, avail, availIdx, deviceVars, blocked, kicked, faults, missed>>

\* The last read of the used index, under the lock still.
Drained(t) ==
  /\ At(t, "drain") /\ usedIdx = lastUsed
  /\ Goes(t, "unlock")
  /\ missed' = FALSE
  /\ UNCHANGED <<mode, load, round, token, announced, freed, moved, rang, woken, got, ringVars, deviceVars, slots, blocked, kicked, faults>>

Unlock(t) ==
  /\ At(t, "unlock") /\ lock' = NoTask
  /\ Goes(t, IF freed[t] THEN "freed" ELSE AfterDrain(t))
  /\ UNCHANGED <<mode, load, round, token, announced, freed, moved, rang, woken, got, ids, chain, avail, availIdx, lastUsed, usedEvent, deviceVars, slots, blocked, kicked, faults, missed>>

\* note_released: a broadcast to every wait there is, when anybody is blocked
Broadcast == moved' = [t \in Tasks |-> moved[t] \/ (blocked # 0 /\ ~Waits(t) /\ ~At(t, "done"))]

NoteReleased(t) ==
  /\ At(t, "freed") /\ Broadcast
  /\ Goes(t, AfterDrain(t))
  /\ freed' = Sets(freed, t, FALSE)
  /\ UNCHANGED <<mode, load, round, token, announced, rang, woken, got, ringVars, deviceVars, slots, blocked, kicked, faults, missed>>

----------------------------------------------------------------------------
(* await_completion                                                        *)

\* The device wait is created before the slot and the ring are looked at.
Look(t) ==
  /\ At(t, "look") /\ Goes(t, "take")
  /\ rang' = Sets(rang, t, FALSE)
  /\ UNCHANGED <<mode, load, round, token, announced, freed, moved, woken, got, ringVars, deviceVars, slots, blocked, kicked, faults, missed>>

Take(t) ==
  /\ At(t, "take")
  /\ IF slots[token[t]].state = "complete"
     THEN /\ got' = Sets(got, t, slots[token[t]].reply)
          /\ slots' = [slots EXCEPT ![token[t]] = Idle]
          /\ Goes(t, "collected")
     ELSE Goes(t, "try") /\ UNCHANGED <<got, slots>>
  /\ UNCHANGED <<mode, load, round, token, announced, freed, moved, rang, woken, ringVars, deviceVars, blocked, kicked, faults, missed>>

Collected(t) ==
  /\ At(t, "collected") /\ Broadcast
  /\ NextRequest(t)
  /\ token' = Sets(token, t, NoId)
  /\ rang' = Sets(rang, t, FALSE) /\ woken' = Sets(woken, t, FALSE)
  /\ UNCHANGED <<mode, load, announced, freed, got, ringVars, deviceVars, slots, blocked, kicked, faults, missed>>

\* u has the queue, has looked at the ring for the last time, and awaits nothing
\* that would make it look again: its submission failed, or it drains to submit,
\* or its own reply is there.
Leaving(u) == At(u, "failed") \/ (At(u, "unlock") /\ (~Waits(u) \/ slots[token[u]].state = "complete"))

\* try_lock: the drain is left to whoever has the queue.
TryDrain(t) ==
  /\ At(t, "try")
  /\ IF lock = NoTask THEN lock' = t /\ Goes(t, "drain") ELSE UNCHANGED lock /\ Goes(t, "slot")
  /\ missed' = (missed \/ \E u \in Tasks : lock = u /\ Leaving(u))
  /\ freed' = Sets(freed, t, FALSE)
  /\ UNCHANGED <<mode, load, round, token, announced, moved, rang, woken, got, ids, chain, avail, availIdx, lastUsed, usedEvent, deviceVars, slots, blocked, kicked, faults>>

\* The poll: the waker goes into the slot, then the device wait is polled.
Sleep(t) ==
  /\ At(t, "slot")
  /\ woken' = Sets(woken, t, FALSE)
  /\ IF slots[token[t]].state = "complete" THEN Goes(t, "look") /\ UNCHANGED slots
     ELSE /\ slots' = [slots EXCEPT ![token[t]] = Pending(t)]
          /\ Goes(t, IF rang[t] THEN "look" ELSE "asleep")
  /\ UNCHANGED <<mode, load, round, token, announced, freed, moved, rang, got, ringVars, deviceVars, blocked, kicked, faults, missed>>

Wake(t) ==
  /\ At(t, "asleep") /\ (woken[t] \/ rang[t]) /\ Goes(t, "slot")
  /\ UNCHANGED <<mode, load, round, token, announced, freed, moved, rang, woken, got, ringVars, deviceVars, slots, blocked, kicked, faults, missed>>

TaskStep(t) ==
  \/ ArmSubmit(t) \/ Submit(t) \/ SubmitFails(t) \/ GiveUp(t) \/ ReturnError(t)
  \/ Kick(t) \/ ReleaseBlocked(t)
  \/ CannotSubmit(t) \/ AnnounceBlocked(t) \/ Unpark(t)
  \/ PopUsed(t) \/ Drained(t) \/ Unlock(t) \/ NoteReleased(t)
  \/ Look(t) \/ Take(t) \/ Collected(t) \/ TryDrain(t) \/ Sleep(t) \/ Wake(t)

----------------------------------------------------------------------------
(* The device, and its interrupt.                                          *)

DeviceFetch ==
  /\ dev.state = "awake" /\ dev.next # availIdx
  /\ working' = working \cup {avail[dev.next % Size]}
  /\ dev' = [dev EXCEPT !.next = Plus(@, 1)]
  /\ UNCHANGED <<mode, load, taskVars, ringVars, used, usedIdx, availEvent, noNotify, irq, slots, blocked, kicked, faults, missed>>

\* It asks for a notification, looks once more, and only then sleeps.
DeviceOffers ==
  /\ dev.state = "awake" /\ dev.next = availIdx
  /\ dev' = [dev EXCEPT !.state = "offering"]
  /\ availEvent' = IF mode = "event" THEN dev.next ELSE availEvent
  /\ noNotify' = FALSE
  /\ UNCHANGED <<mode, load, taskVars, ringVars, used, usedIdx, working, irq, slots, blocked, kicked, faults, missed>>

DeviceLooksAgain ==
  /\ dev.state = "offering"
  /\ dev' = [dev EXCEPT !.state = IF dev.next = availIdx THEN "asleep" ELSE "awake"]
  /\ UNCHANGED <<mode, load, taskVars, ringVars, used, usedIdx, availEvent, noNotify, working, irq, slots, blocked, kicked, faults, missed>>

DeviceWakes ==
  /\ dev.state = "asleep" /\ kicked
  /\ kicked' = FALSE
  /\ dev' = [dev EXCEPT !.state = "awake"]
  /\ noNotify' = (mode = "flags")
  /\ UNCHANGED <<mode, load, taskVars, ringVars, used, usedIdx, availEvent, working, irq, slots, blocked, faults, missed>>

\* It has told of what it used before it has used a whole wrap of chains more.
DeviceUses(id) ==
  /\ id \in working /\ Plus(usedIdx, 1) # dev.signalled
  /\ working' = working \ {id}
  /\ used' = [used EXCEPT ![usedIdx % Size] = id]
  /\ usedIdx' = Plus(usedIdx, 1)
  /\ UNCHANGED <<mode, load, taskVars, ringVars, availEvent, noNotify, dev, irq, slots, blocked, kicked, faults, missed>>

DeviceSignals ==
  /\ usedIdx # dev.signalled
  /\ irq' = (irq \/ mode = "flags" \/ NeedEvent(usedEvent, usedIdx, dev.signalled))
  /\ dev' = [dev EXCEPT !.signalled = usedIdx]
  /\ UNCHANGED <<mode, load, taskVars, ringVars, used, usedIdx, availEvent, noNotify, working, slots, blocked, kicked, faults, missed>>

\* handle_interrupt: everybody that waits for the device looks
HandleInterrupt ==
  /\ irq /\ irq' = FALSE
  /\ rang' = [t \in Tasks |-> Waits(t)]
  /\ UNCHANGED <<mode, load, pc, round, token, announced, freed, moved, woken, got, ringVars, used, usedIdx, availEvent, noNotify, dev, working, slots, blocked, kicked, faults, missed>>

DeviceStep ==
  \/ DeviceFetch \/ DeviceOffers \/ DeviceLooksAgain \/ DeviceWakes
  \/ \E id \in Ids : DeviceUses(id)

Next == (\E t \in Tasks : TaskStep(t)) \/ DeviceStep \/ DeviceSignals \/ HandleInterrupt

Spec == Init /\ [][Next]_vars

----------------------------------------------------------------------------
(* Properties.                                                             *)

Pcs == {"arm", "lock", "kick", "release", "announce", "parked", "drain", "unlock", "freed",
        "failed", "error",
        "look", "take", "try", "slot", "asleep", "collected", "done"}
Indices == 0 .. Wrap - 1
Requests == (Tasks \cup {NoTask}) \X Nat
Slots == [state : {"idle", "pending", "complete"}, waker : Tasks \cup {NoTask}, reply : Requests]

TaskTypes ==
  /\ pc \in [Tasks -> Pcs] /\ round \in [Tasks -> Nat] /\ token \in [Tasks -> Ids \cup {NoId}]
  /\ announced \in [Tasks -> BOOLEAN] /\ freed \in [Tasks -> BOOLEAN]
  /\ moved \in [Tasks -> BOOLEAN] /\ rang \in [Tasks -> BOOLEAN] /\ woken \in [Tasks -> BOOLEAN]
  /\ got \in [Tasks -> Requests]
RingTypes ==
  /\ lock \in Tasks \cup {NoTask} /\ ids \in Seq(Ids)
  /\ chain \in [Ids -> [descriptors : Seq(Ids), request : Requests]]
  /\ avail \in [Ids -> Ids] /\ availIdx \in Indices /\ lastUsed \in Indices /\ usedEvent \in Indices
  /\ used \in [Ids -> Ids] /\ usedIdx \in Indices /\ availEvent \in Indices
  /\ slots \in [Ids -> Slots]
DeviceTypes ==
  /\ mode \in {"event", "flags"} /\ load \in Loads
  /\ dev \in [state : {"awake", "offering", "asleep"}, next : Indices, signalled : Indices]
  /\ working \subseteq Ids
  /\ noNotify \in BOOLEAN /\ kicked \in BOOLEAN /\ irq \in BOOLEAN /\ missed \in BOOLEAN /\ faults \in 0 .. MaxFaults

\* The count of blocked submitters, which is an unsigned one, never goes below 0.
TypeOK == TaskTypes /\ RingTypes /\ DeviceTypes /\ blocked \in Nat

\* The n entries of a ring that begin at an index.
Window(ring, from, n) == {ring[Plus(from, k) % Size] : k \in 0 .. n - 1}

\* The chains that are published and not drained: those the device has not
\* fetched, those it has, and those it has given back.
Offered == Window(avail, dev.next, Minus(availIdx, dev.next))
Returned == Window(used, lastUsed, Minus(usedIdx, lastUsed))
Published == Offered \cup working \cup Returned

\* A completion finds the slot of a request that waits for it: every chain the
\* device has is pending, but for one whose submitter still has the queue.
\* complete and register panic otherwise.
ChainsAreClaimed ==
  \A id \in Published :
    slots[id].state = "pending" \/ (\E t \in Tasks : lock = t /\ At(t, "kick") /\ token[t] = id)

\* No reply is lost, given twice, or given to another request, though an
\* identifier is free before its reply is collected.
RepliesAreOwn ==
  \A t \in Tasks : got[t] = <<t, IF At(t, "collected") THEN round[t] ELSE round[t] - 1>>

Stuck(t) ==
  \/ At(t, "done")
  \/ At(t, "parked") /\ ~moved[t]
  \/ At(t, "asleep") /\ ~woken[t] /\ ~rang[t]

AtRest ==
  /\ dev.state = "asleep" /\ ~kicked /\ working = {} /\ dev.signalled = usedIdx /\ ~irq
  /\ \A t \in Tasks : Stuck(t)

\* Neither the submitter that found no room, nor the waiter whose completion
\* another task drained, nor the device that was told not to interrupt is
\* forgotten: when the device has nothing to do or to say and no task can go on,
\* every request has been completed.  It does not hold: "a completion that arrives
\* in between is observed by this future rather than slept through" (inflight.rs)
\* is not so when the queue is held by a task that leaves.
NobodyIsForgotten == AtRest => \A t \in Tasks : At(t, "done")

\* That is the only way: whoever rests with a request open was left by a try_lock
\* that failed against a task leaving the queue, with no drain of the ring since.
OnlyTheMissedAreForgotten == AtRest /\ ~missed => \A t \in Tasks : At(t, "done")
=============================================================================
