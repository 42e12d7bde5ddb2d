--------------------------- MODULE InterruptRelay ---------------------------
(***************************************************************************)
(* One granted device: the relay its interrupts arrive on                  *)
(* (kernel/src/device/interrupt.rs), the claim that gives it to one driver *)
(* (registry.rs) and the lease the driver holds it by (lease.rs).          *)
(*                                                                         *)
(* The handler of a source runs in interrupt context on any processor and  *)
(* takes no lock, so each of its atomic accesses and controller calls is a *)
(* step, as is each of the driver's.  The driver's task polls, calls and   *)
(* is dropped in turn; it is an untrusted instance, so its calls come in   *)
(* any order and at any time.  The controller and the level-triggered      *)
(* device are external: a source is delivered while its line is asserted   *)
(* and the controller lets it through, and not again before its handler    *)
(* returns.  The statistics other than the deliveries are left out.        *)
(***************************************************************************)
EXTENDS Integers, Sequences, FiniteSets

CONSTANTS
  NumSources,     \* the grant's interrupts
  Drivers,        \* instances that may claim the device
  Mappings,       \* its regions, and the buffers a driver may pin
  MaxDeliveries,  \* bound: deliveries of each source
  MaxClaims       \* bound: claims of the device

ASSUME NumSourcesAssumption == NumSources \in Nat \ {0}
ASSUME BoundsAssumption == MaxDeliveries \in Nat /\ MaxClaims \in Nat

VARIABLES
  line,         \* line[s]: the device asserts the source
  through,      \* the sources the controller lets through
  masked,       \* the relay's masked flags
  outstanding,  \* the relay's outstanding flags
  pending,      \* the queued events, each its source
  permits,      \* the permits of the relay's Notify
  hpc,          \* hpc[s]: where the source's handler is in forward
  deliveries,   \* deliveries[s]: how often it has run
  claimed,      \* PublishedDevice::claimed
  claims,       \* how often it was claimed
  dpc,          \* dpc[d]: what the driver's task is at
  cur,          \* the source that task works on
  reach,        \* reach[d]: what the driver has mapped of the device
  full,         \* a handler found no room for its event: the kernel panics
  stage,        \* history: stage[s] is what the holder did last with the source
  overtaken,    \* history: quiesce has cleared a source whose handler was running
  crossed,      \* history: an unmask fell on a handler still to hold its source off
  hasty         \* history: an ack fell on an event its driver had not read

Sources == 1 .. NumSources

deviceVars == <<line, through>>
relayVars == <<masked, outstanding, pending, permits>>
handlerVars == <<hpc, deliveries, full>>
driverVars == <<dpc, cur, stage>>
leaseVars == <<claimed, claims, reach>>
history == <<overtaken, crossed, hasty>>
vars == <<line, through, masked, outstanding, pending, permits, hpc, deliveries, full, claimed,
          claims, dpc, cur, reach, stage, overtaken, crossed, hasty>>

Init ==
  /\ line = [s \in Sources |-> FALSE] /\ through = {}
  /\ masked = Sources /\ outstanding = {} /\ pending = <<>> /\ permits = 0
  /\ hpc = [s \in Sources |-> "idle"] /\ deliveries = [s \in Sources |-> 0] /\ full = FALSE
  /\ claimed = FALSE /\ claims = 0
  /\ dpc = [d \in Drivers |-> "out"] /\ cur = 1
  /\ reach = [d \in Drivers |-> {}]
  /\ stage = [s \in Sources |-> "rest"]
  /\ overtaken = FALSE /\ crossed = FALSE /\ hasty = FALSE

-----------------------------------------------------------------------------
(* The device and the controller                                           *)

RaiseLine(s) ==
  /\ ~line[s]
  /\ line' = [line EXCEPT ![s] = TRUE]
  /\ UNCHANGED <<through, relayVars, handlerVars, driverVars, leaseVars, history>>

Handler(s, here, there) == hpc[s] = here /\ hpc' = [hpc EXCEPT ![s] = there]

Deliver(s) ==
  /\ line[s] /\ s \in through
  /\ Handler(s, "idle", "flag")
  /\ deliveries[s] < MaxDeliveries
  /\ deliveries' = [deliveries EXCEPT ![s] = @ + 1]
  /\ UNCHANGED <<deviceVars, relayVars, full, driverVars, leaseVars, history>>

-----------------------------------------------------------------------------
(* InterruptRelay::forward                                                 *)

\* The swap in mask_index.
FlagMasked(s) ==
  /\ Handler(s, "flag", IF s \in masked THEN "swap" ELSE "hold")
  /\ masked' = masked \cup {s}
  /\ UNCHANGED <<deviceVars, outstanding, pending, permits, deliveries, full, driverVars, leaseVars, history>>

\* The controller call in mask_index.
HoldOff(s) ==
  /\ Handler(s, "hold", "swap")
  /\ through' = through \ {s}
  /\ UNCHANGED <<line, relayVars, deliveries, full, driverVars, leaseVars, history>>

\* A delivery that finds the last one outstanding is folded into it.
SwapOutstanding(s) ==
  /\ Handler(s, "swap", IF s \in outstanding THEN "idle" ELSE "push")
  /\ outstanding' = outstanding \cup {s}
  /\ UNCHANGED <<deviceVars, masked, pending, permits, deliveries, full, driverVars, leaseVars, history>>

Push(s) ==
  \/ /\ Len(pending) < NumSources
     /\ Handler(s, "push", "notify")
     /\ pending' = Append(pending, s)
     /\ UNCHANGED <<deviceVars, masked, outstanding, permits, deliveries, full, driverVars, leaseVars, history>>
  \/ /\ Len(pending) = NumSources
     /\ Handler(s, "push", "push")
     /\ full' = TRUE
     /\ UNCHANGED <<deviceVars, relayVars, deliveries, driverVars, leaseVars, history>>

\* Mutant of NotifyReady: nobody is told.
NotifyNobody(s) ==
  /\ Handler(s, "notify", "idle")
  /\ UNCHANGED <<deviceVars, relayVars, deliveries, full, driverVars, leaseVars, history>>

NotifyReady(s) ==
  /\ Handler(s, "notify", "idle")
  /\ permits' = permits + 1
  /\ UNCHANGED <<deviceVars, masked, outstanding, pending, deliveries, full, driverVars, leaseVars, history>>

-----------------------------------------------------------------------------
(* The claim and the lease                                                 *)

Task(d, here, there) == dpc[d] = here /\ dpc' = [dpc EXCEPT ![d] = there]

\* DeviceGrantRegistry::claim: the compare-exchange.
Claim(d) ==
  /\ Task(d, "out", "run")
  /\ ~claimed /\ claims < MaxClaims
  /\ claimed' = TRUE
  /\ claims' = claims + 1
  /\ stage' = [s \in Sources |-> "rest"]
  /\ UNCHANGED <<deviceVars, relayVars, handlerVars, cur, reach, history>>

\* GrantLease::map_region and dma_alloc, when they succeed.
Map(d, what) ==
  /\ Task(d, "run", "run")
  /\ what \notin reach[d]
  /\ reach' = [reach EXCEPT ![d] = @ \cup {what}]
  /\ UNCHANGED <<deviceVars, relayVars, handlerVars, claimed, claims, cur, stage, history>>

\* A register access that clears the condition the device asserts.
Service(d, s) ==
  /\ Task(d, "run", "run")
  /\ line[s]
  /\ line' = [line EXCEPT ![s] = FALSE]
  /\ UNCHANGED <<through, relayVars, handlerVars, cur, stage, leaseVars, history>>

InQueue(s) == \E i \in 1 .. Len(pending) : pending[i] = s

\* The event of a source that the driver has yet to read.
Waiting(s) == hpc[s] = "push" \/ InQueue(s)

\* The history of an acknowledge: the source's event is done with, or it was
\* acknowledged before it was read.
Acked(s) ==
  /\ stage' = [stage EXCEPT ![s] = IF @ = "armed" THEN @ ELSE "rest"]
  /\ hasty' = (hasty \/ Waiting(s))

\* Mutant of Ack: taken back.
AckKeeps(d, s) ==
  /\ Task(d, "run", "run")
  /\ Acked(s)
  /\ UNCHANGED <<deviceVars, relayVars, handlerVars, cur, leaseVars, overtaken, crossed>>

Ack(d, s) ==
  /\ Task(d, "run", "run")
  /\ outstanding' = outstanding \ {s}
  /\ Acked(s)
  /\ UNCHANGED <<deviceVars, masked, pending, permits, handlerVars, cur, leaseVars, overtaken, crossed>>

\* The swap in unmask, then the controller call.  A driver that unmasks a source
\* it has no event of is waiting on it.
Unmask(d, s) ==
  /\ Task(d, "run", IF s \in masked THEN "unmask" ELSE "run")
  /\ masked' = masked \ {s}
  /\ cur' = s
  /\ stage' = [stage EXCEPT ![s] = IF @ = "rest" THEN "armed" ELSE @]
  /\ crossed' = (crossed \/ (s \in masked /\ hpc[s] \in {"flag", "hold"}))
  /\ UNCHANGED <<deviceVars, outstanding, pending, permits, handlerVars, leaseVars, overtaken, hasty>>

LetThrough(d) ==
  /\ Task(d, "unmask", "run")
  /\ through' = through \cup {cur}
  /\ UNCHANGED <<line, relayVars, handlerVars, cur, stage, leaseVars, history>>

\* mask: the swap, then the controller call.  The driver no longer waits on the
\* source.
Mask(d, s) ==
  /\ Task(d, "run", IF s \in masked THEN "run" ELSE "mask")
  /\ masked' = masked \cup {s}
  /\ cur' = s
  /\ stage' = [stage EXCEPT ![s] = IF @ = "armed" THEN "rest" ELSE @]
  /\ UNCHANGED <<deviceVars, outstanding, pending, permits, handlerVars, leaseVars, history>>

HoldOffByDriver(d) ==
  /\ Task(d, "mask", "run")
  /\ through' = through \ {cur}
  /\ UNCHANGED <<line, relayVars, handlerVars, cur, stage, leaseVars, history>>

-----------------------------------------------------------------------------
(* poll_event, the stream's and next_event's loop                          *)

PollEvent(d) ==
  /\ Task(d, "run", "pop")
  /\ UNCHANGED <<deviceVars, relayVars, handlerVars, cur, stage, leaseVars, history>>

Pop(d) ==
  \/ /\ pending # <<>>
     /\ Task(d, "pop", "run")
     /\ pending' = Tail(pending)
     /\ stage' = [stage EXCEPT ![Head(pending)] = "event"]
     /\ UNCHANGED <<deviceVars, masked, outstanding, permits, handlerVars, cur, leaseVars, history>>
  \/ /\ pending = <<>>
     /\ Task(d, "pop", "wait")
     /\ UNCHANGED <<deviceVars, relayVars, handlerVars, cur, stage, leaseVars, history>>

\* poll_notified: a permit is claimed and the queue looked at again.
ClaimPermit(d) ==
  /\ Task(d, "wait", "pop")
  /\ permits > 0
  /\ permits' = permits - 1
  /\ UNCHANGED <<deviceVars, masked, outstanding, pending, handlerVars, cur, stage, leaseVars, history>>

\* The stream stays pending and the driver has other calls to make.
Resume(d) ==
  /\ Task(d, "wait", "run")
  /\ UNCHANGED <<deviceVars, relayVars, handlerVars, cur, stage, leaseVars, history>>

-----------------------------------------------------------------------------
(* GrantLease::drop: the driver released the grant, or died.               *)

\* Mutant of Drop: the device is offered again before it is taken back.
DropOffersFirst(d) ==
  /\ dpc[d] \in {"run", "wait"}
  /\ dpc' = [dpc EXCEPT ![d] = "q_flag"]
  /\ cur' = 1
  /\ claimed' = FALSE
  /\ UNCHANGED <<deviceVars, relayVars, handlerVars, stage, claims, reach, history>>

Drop(d) ==
  /\ dpc[d] \in {"run", "wait"}
  /\ dpc' = [dpc EXCEPT ![d] = "q_flag"]
  /\ cur' = 1
  /\ UNCHANGED <<deviceVars, relayVars, handlerVars, stage, leaseVars, history>>

\* quiesce: mask_index of each source, its flag, then the queue.
QuiesceFlag(d) ==
  /\ Task(d, "q_flag", IF cur \in masked THEN "q_clear" ELSE "q_hold")
  /\ masked' = masked \cup {cur}
  /\ UNCHANGED <<deviceVars, outstanding, pending, permits, handlerVars, cur, stage, leaseVars, history>>

QuiesceHold(d) ==
  /\ Task(d, "q_hold", "q_clear")
  /\ through' = through \ {cur}
  /\ UNCHANGED <<line, relayVars, handlerVars, cur, stage, leaseVars, history>>

QuiesceClear(d) ==
  /\ Task(d, "q_clear", IF cur = NumSources THEN "q_drain" ELSE "q_flag")
  /\ outstanding' = outstanding \ {cur}
  /\ cur' = IF cur = NumSources THEN cur ELSE cur + 1
  /\ overtaken' = (overtaken \/ hpc[cur] # "idle")
  /\ UNCHANGED <<deviceVars, masked, pending, permits, handlerVars, stage, leaseVars, crossed, hasty>>

\* Mutant of QuiesceDrain: the queue is left as it is.
QuiesceKeep(d) ==
  /\ Task(d, "q_drain", "unmap")
  /\ UNCHANGED <<deviceVars, relayVars, handlerVars, cur, stage, leaseVars, history>>

QuiesceDrain(d) ==
  /\ Task(d, "q_drain", IF pending = <<>> THEN "unmap" ELSE "q_drain")
  /\ pending' = IF pending = <<>> THEN pending ELSE Tail(pending)
  /\ UNCHANGED <<deviceVars, masked, outstanding, permits, handlerVars, cur, stage, leaseVars, history>>

\* Every mapping and every pinned buffer, one after the other.
Unmap(d) ==
  /\ \/ \E what \in reach[d] : reach' = [reach EXCEPT ![d] = @ \ {what}] /\ UNCHANGED dpc
     \/ reach[d] = {} /\ dpc' = [dpc EXCEPT ![d] = "return"] /\ UNCHANGED reach
  /\ dpc[d] = "unmap"
  /\ UNCHANGED <<deviceVars, relayVars, handlerVars, claimed, claims, cur, stage, history>>

ReturnDevice(d) ==
  /\ Task(d, "return", "out")
  /\ claimed' = FALSE
  /\ UNCHANGED <<deviceVars, relayVars, handlerVars, claims, cur, reach, stage, history>>

-----------------------------------------------------------------------------
HandlerStep(s) ==
  FlagMasked(s) \/ HoldOff(s) \/ SwapOutstanding(s) \/ Push(s) \/ NotifyReady(s)

Call(d) ==
  \/ \E what \in Mappings : Map(d, what)
  \/ \E s \in Sources : Service(d, s) \/ Ack(d, s) \/ Unmask(d, s) \/ Mask(d, s)

\* What follows by itself once the driver's task has begun it.
Continue(d) ==
  \/ LetThrough(d) \/ HoldOffByDriver(d) \/ Pop(d)
  \/ QuiesceFlag(d) \/ QuiesceHold(d) \/ QuiesceClear(d) \/ QuiesceDrain(d)
  \/ Unmap(d) \/ ReturnDevice(d)

Next ==
  /\ ~full
  /\ \/ \E s \in Sources : RaiseLine(s) \/ Deliver(s) \/ HandlerStep(s)
     \/ \E d \in Drivers :
          Claim(d) \/ Call(d) \/ PollEvent(d) \/ ClaimPermit(d) \/ Resume(d) \/ Drop(d) \/ Continue(d)

Spec == Init /\ [][Next]_vars

\* The controller delivers, handlers return, what a task has begun it goes on
\* with, and a driver keeps reading its stream.  It need not service, ack,
\* unmask or live on.
FairSpec ==
  /\ Spec
  /\ \A s \in Sources : WF_vars(~full /\ Deliver(s)) /\ WF_vars(~full /\ HandlerStep(s))
  /\ \A d \in Drivers : /\ WF_vars(~full /\ Continue(d))
                        /\ SF_vars(~full /\ PollEvent(d)) /\ SF_vars(~full /\ ClaimPermit(d))

-----------------------------------------------------------------------------
TypeOK ==
  /\ line \in [Sources -> BOOLEAN]
  /\ through \subseteq Sources /\ masked \subseteq Sources /\ outstanding \subseteq Sources
  /\ pending \in Seq(Sources) /\ permits \in Nat
  /\ hpc \in [Sources -> {"idle", "flag", "hold", "swap", "push", "notify"}]
  /\ deliveries \in [Sources -> 0 .. MaxDeliveries] /\ full \in BOOLEAN
  /\ claimed \in BOOLEAN /\ claims \in 0 .. MaxClaims
  /\ dpc \in [Drivers -> {"out", "run", "unmask", "mask", "pop", "wait", "q_flag", "q_hold",
                          "q_clear", "q_drain", "unmap", "return"}]
  /\ cur \in Sources
  /\ reach \in [Drivers -> SUBSET Mappings]
  /\ stage \in [Sources -> {"rest", "armed", "event"}]
  /\ overtaken \in BOOLEAN /\ crossed \in BOOLEAN /\ hasty \in BOOLEAN

\* "A relay that can hold one event per source can never fail to queue one": the
\* head of interrupt.rs, and the panic in forward that says masking on delivery
\* should have made it impossible.  A driver that acknowledges an event it has
\* not read, and unmasks, refutes it.
DeliveryHasRoom == ~full

\* forward has room for its event, whatever the driver calls and when, as long as
\* it acknowledges only events it has read, no unmask of it fell on a handler
\* that was still to hold the source off, and no quiesce cleared the flag of a
\* source whose handler was running.
RoomForEvents == ~overtaken /\ ~crossed /\ ~hasty => ~full

\* A driver that has unmasked a source, has no event of it in hand and waits on
\* its stream.
Armed(s) ==
  /\ stage[s] = "armed" /\ hpc[s] = "idle" /\ pending = <<>> /\ permits = 0
  /\ \E d \in Drivers : dpc[d] = "wait"

\* "Let the controller deliver `index` again": the comment on unmask.  After an
\* unmask between the masked flag and the controller call of a handler the source
\* stays held off, its flag says it is not, and no later unmask changes that.
UnmaskedIsOpen == \A s \in Sources : Armed(s) /\ ~overtaken => s \in through

\* But for that one place no interleaving of the handler's steps with the
\* driver's acknowledges, masks and unmasks, in whatever order it makes them,
\* leaves a source held off that its driver waits on with no event on the way.
ArmedSourceIsOpen == \A s \in Sources : Armed(s) /\ ~overtaken /\ ~crossed => s \in through

\* "Nothing in the kernel reacts to it until a new owner unmasks": the comment on
\* quiesce.  A handler that an unmask crossed can leave a source let through and
\* masked, which quiesce then does not hold off.
QuiescedIsHeldOff ==
  ~claimed /\ (\A s \in Sources : hpc[s] = "idle") => through = {}

\* Nothing of the device is mapped for anyone but the one driver it is claimed
\* by, at any step of a drop and of the claim that follows it.
OnlyHolderReaches ==
  /\ Cardinality({d \in Drivers : dpc[d] # "out"}) <= 1
  /\ \A d \in Drivers : reach[d] # {} => dpc[d] # "out" /\ claimed

\* A lease's drop takes back all of the device before the next claim gets it:
\* nobody reaches a device that is not claimed, all of its sources are masked,
\* and, but for an unmask or a quiesce that overtook a handler, held off.
TakenBack ==
  /\ OnlyHolderReaches
  /\ ~claimed => masked = Sources
  /\ ~claimed /\ ~overtaken /\ ~crossed => through = {}

\* An asserted line the holder waits on reaches it, or the holder lets go.
DeliveriesReach ==
  \A s \in Sources : line[s] /\ stage[s] = "armed" ~>
    \/ stage[s] # "armed" \/ ~line[s] \/ deliveries[s] = MaxDeliveries
    \/ full \/ overtaken \/ crossed
    \/ \A d \in Drivers : dpc[d] \notin {"run", "pop", "wait", "unmask", "mask"}
=============================================================================
