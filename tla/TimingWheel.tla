---------------------------- MODULE TimingWheel ----------------------------
(***************************************************************************)
(* The hierarchical timing wheel of kernel/src/exec/timer.rs: Levels rings *)
(* of RingSlots buckets, entries placed by how far ahead they are and      *)
(* cascaded towards level 0 as the current tick moves, and a cached        *)
(* earliest deadline that is rebuilt only when it may be wrong.            *)
(*                                                                         *)
(* The module asks whether that machinery is a priority queue: whether a   *)
(* pass up to a tick takes out exactly the live entries due by then, and   *)
(* whether it ends.  Time is counted in hardware ticks, Quantum of which   *)
(* make a wheel tick.                                                      *)
(***************************************************************************)
EXTENDS Integers, FiniteSets, FiniteSetsExt

CONSTANTS
  Levels,      \* TIMER_WHEEL_LEVELS
  RingSlots,   \* TIMER_WHEEL_SLOTS
  Quantum,     \* wheel_quantum_ticks
  Entries,     \* timer entries
  MaxStart,    \* bound: when the timer is built
  MaxNow,      \* bound: the clock stops here
  MaxDelay     \* bound: how many wheel ticks ahead of the wheel a sleep is

ASSUME WheelAssumption ==
  /\ Levels \in Nat \ {0} /\ RingSlots \in Nat \ {0, 1} /\ Quantum \in Nat \ {0}
  /\ MaxStart \in Nat /\ MaxNow \in Nat /\ MaxDelay \in Nat

None == -1                        \* Option::None, and "in no bucket"
LevelSet == 0 .. Levels - 1

VARIABLES
  clock,     \* Cpu::now
  deadline,  \* deadline[e], in hardware ticks
  entry,     \* entry[e]: "new", then where the entry is
  dead,      \* entries whose Sleep was dropped
  level,     \* level[e] and slot[e]: the bucket e is in
  slot,
  current,   \* current_tick
  cache,     \* next_deadline
  cacheTick, \* next_deadline_tick
  dirty,     \* next_deadline_dirty
  target,    \* now_tick of this pass
  lv,        \* the level cascade is at
  phase

bucketVars == <<entry, level, slot, cache, cacheTick, dirty>>
wheelVars == <<clock, deadline, dead, current, target, lv, phase, bucketVars>>

TickFloor(t) == t \div Quantum
\* Mutant of TickCeil: rounds down.
TickCeilDown(t) == t \div Quantum

TickCeil(t) == (t + Quantum - 1) \div Quantum
DeadlineTick(e) == TickCeil(deadline[e])

\* How many ticks a bucket of level l is wide.
Spans[l \in 0 .. Levels] == IF l = 0 THEN 1 ELSE RingSlots * Spans[l - 1]
Span(l) == Spans[l]

WheelLevel(delay) == Min({l \in LevelSet : delay < Span(l + 1)} \cup {Levels - 1})
WheelSlot(tick, l) == (tick \div Span(l)) % RingSlots
Bucket(l, s) == {e \in Entries : entry[e] = "wheel" /\ level[e] = l /\ slot[e] = s}
InWheel == {e \in Entries : entry[e] = "wheel"}
LiveInWheel == InWheel \ dead

WheelInit ==
  /\ clock \in 0 .. MaxStart
  /\ deadline = [e \in Entries |-> 0]
  /\ entry = [e \in Entries |-> "new"] /\ dead = {}
  /\ level = [e \in Entries |-> None] /\ slot = [e \in Entries |-> None]
  /\ current = TickFloor(clock) /\ target = current
  /\ cache = None /\ cacheTick = None /\ dirty = FALSE
  /\ lv = 0 /\ phase = "idle"

-----------------------------------------------------------------------------
(* Sleeps come and go, and the owner may be late by any amount.            *)

Register(e, d) ==
  /\ phase = "idle" /\ entry[e] = "new"
  /\ d > clock /\ TickCeil(d) - current <= MaxDelay
  /\ deadline' = [deadline EXCEPT ![e] = d]
  /\ entry' = [entry EXCEPT ![e] = "inbox"]
  /\ UNCHANGED <<clock, dead, level, slot, current, cache, cacheTick, dirty, target, lv, phase>>

Drop(e) ==
  /\ entry[e] \in {"inbox", "wheel", "popped", "ready"} /\ e \notin dead
  /\ dead' = dead \cup {e}
  /\ UNCHANGED <<clock, deadline, current, target, lv, phase, bucketVars>>

Elapse(t) ==
  /\ phase = "idle" /\ t > clock
  /\ clock' = t
  /\ UNCHANGED <<deadline, dead, current, target, lv, phase, bucketVars>>

-----------------------------------------------------------------------------
(* TimingWheel::insert, for an entry that is not dead.                     *)

\* observe_deadline: lower the cache, never raise it.
Observe(e) ==
  IF cache = None \/ deadline[e] < cache
  THEN cache' = deadline[e] /\ cacheTick' = DeadlineTick(e)
  ELSE UNCHANGED <<cache, cacheTick>>

\* Mutant of Place: the slot within the ring of the level below.
PlaceLow(e) ==
  LET t == Max({DeadlineTick(e), current})
      l == WheelLevel(t - current) IN
  /\ entry' = [entry EXCEPT ![e] = "wheel"]
  /\ level' = [level EXCEPT ![e] = l]
  /\ slot' = [slot EXCEPT ![e] = WheelSlot(t, Max({l - 1, 0}))]

Place(e) ==
  LET t == Max({DeadlineTick(e), current})
      l == WheelLevel(t - current) IN
  /\ entry' = [entry EXCEPT ![e] = "wheel"]
  /\ level' = [level EXCEPT ![e] = l]
  /\ slot' = [slot EXCEPT ![e] = WheelSlot(t, l)]

Discard(e, how) ==
  /\ entry' = [entry EXCEPT ![e] = how]
  /\ level' = [level EXCEPT ![e] = None]
  /\ slot' = [slot EXCEPT ![e] = None]

Insert(e) ==
  \/ e \in dead /\ Discard(e, "gone") /\ UNCHANGED <<cache, cacheTick>>
  \/ e \notin dead /\ Observe(e) /\ Place(e)

-----------------------------------------------------------------------------
(* One pass of Timer::fire_expired.                                        *)

\* Empty the inbox, then advance to the tick read at the start of the pass.
StartPass ==
  /\ phase = "idle"
  /\ target' = TickFloor(clock)
  /\ phase' = "inbox"
  /\ UNCHANGED <<clock, deadline, dead, current, lv, bucketVars>>

EmptyInbox ==
  /\ phase = "inbox"
  /\ \/ /\ \E e \in Entries : entry[e] = "inbox" /\ Insert(e)
        /\ UNCHANGED <<dirty, phase>>
     \/ /\ \A e \in Entries : entry[e] # "inbox"
        /\ phase' = "advance"
        /\ UNCHANGED bucketVars
  /\ UNCHANGED <<clock, deadline, dead, current, target, lv>>

\* drain_expired's loop: a tick at a time, and once more at the end.
Advance ==
  /\ phase = "advance"
  /\ \/ /\ current < target
        /\ current' = current + 1
        /\ lv' = Levels - 1
        /\ phase' = "cascade"
     \/ /\ current = target
        /\ phase' = "last"
        /\ UNCHANGED <<current, lv>>
  /\ UNCHANGED <<clock, deadline, dead, target, bucketVars>>

\* current_tick & lower_mask = 0.
CascadesAt(l) == current % Span(l) = 0

\* From the top level down, empty the bucket the current tick has reached: pop
\* an entry, and insert it again.
Cascade ==
  LET here == Bucket(lv, WheelSlot(current, lv))
      popped == {e \in Entries : entry[e] = "popped"} IN
  /\ phase = "cascade"
  /\ \/ (\E e \in popped : Insert(e)) /\ UNCHANGED <<dirty, lv, phase>>
     \/ /\ lv > 0 /\ CascadesAt(lv) /\ popped = {}
        /\ \E e \in here : Discard(e, "popped")
        /\ dirty' = TRUE
        /\ UNCHANGED <<cache, cacheTick, lv, phase>>
     \/ /\ lv > 0 /\ popped = {} /\ (CascadesAt(lv) => here = {})
        /\ lv' = lv - 1
        /\ UNCHANGED <<bucketVars, phase>>
     \/ /\ lv = 0 /\ popped = {}
        /\ phase' = "slot"
        /\ UNCHANGED <<bucketVars, lv>>
  /\ UNCHANGED <<clock, deadline, dead, current, target>>

\* Mutant of PopDue: an entry due exactly now is put back.
PopDueStrict(e) ==
  /\ dirty' = TRUE
  /\ \/ e \in dead /\ Discard(e, "gone") /\ UNCHANGED <<cache, cacheTick>>
     \/ /\ e \notin dead /\ DeadlineTick(e) < current
        /\ Discard(e, "ready") /\ UNCHANGED <<cache, cacheTick>>
     \/ e \notin dead /\ DeadlineTick(e) >= current /\ Insert(e)

\* One pop of drain_current_slot.
PopDue(e) ==
  /\ dirty' = TRUE
  /\ \/ e \in dead /\ Discard(e, "gone") /\ UNCHANGED <<cache, cacheTick>>
     \/ /\ e \notin dead /\ DeadlineTick(e) <= current
        /\ Discard(e, "ready") /\ UNCHANGED <<cache, cacheTick>>
     \/ e \notin dead /\ DeadlineTick(e) > current /\ Insert(e)

\* drain_current_slot, to the end of the bucket.
DrainSlot ==
  LET here == Bucket(0, WheelSlot(current, 0)) IN
  /\ phase \in {"slot", "last"}
  /\ \/ (\E e \in here : PopDue(e)) /\ UNCHANGED phase
     \/ /\ here = {}
        /\ phase' = IF phase = "slot" THEN "advance" ELSE "next"
        /\ UNCHANGED bucketVars
  /\ UNCHANGED <<clock, deadline, dead, current, target, lv>>

\* next_live_deadline: rebuild the cache if it may be wrong.
NextLiveDeadline ==
  /\ phase = "next"
  /\ IF dirty \/ (cache # None /\ cacheTick <= current)
     THEN /\ dirty' = FALSE
          /\ IF LiveInWheel = {}
             THEN cache' = None /\ cacheTick' = None
             ELSE \E e \in LiveInWheel :
                    /\ \A f \in LiveInWheel : deadline[e] <= deadline[f]
                    /\ cache' = deadline[e] /\ cacheTick' = DeadlineTick(e)
     ELSE UNCHANGED <<cache, cacheTick, dirty>>
  /\ phase' = "fire"
  /\ UNCHANGED <<clock, deadline, dead, current, target, lv, entry, level, slot>>

\* SleepHandle::fire, which passes over a sleep dropped in the meantime.
Fire ==
  /\ phase = "fire"
  /\ entry' = [e \in Entries |-> IF entry[e] # "ready" THEN entry[e]
                                 ELSE IF e \in dead THEN "gone" ELSE "fired"]
  /\ phase' = "idle"
  /\ UNCHANGED <<clock, deadline, dead, current, target, lv, level, slot, cache, cacheTick, dirty>>

-----------------------------------------------------------------------------
PassStep ==
  \/ EmptyInbox \/ Advance \/ Cascade \/ DrainSlot \/ NextLiveDeadline \/ Fire

WheelNext ==
  \/ StartPass \/ PassStep
  \/ \E e \in Entries : Drop(e) \/ \E d \in 1 .. MaxNow : Register(e, d)
  \/ \E t \in 1 .. MaxNow : Elapse(t)

WheelSpec == WheelInit /\ [][WheelNext]_wheelVars

\* fire_expired runs to its end once it has started.
FairWheelSpec == WheelSpec /\ WF_wheelVars(PassStep)

-----------------------------------------------------------------------------
WheelTypeOK ==
  /\ clock \in 0 .. Max({MaxNow, MaxStart}) /\ deadline \in [Entries -> 0 .. MaxNow]
  /\ entry \in [Entries -> {"new", "inbox", "wheel", "popped", "ready", "fired", "gone"}]
  /\ dead \subseteq Entries
  /\ level \in [Entries -> LevelSet \cup {None}]
  /\ slot \in [Entries -> (0 .. RingSlots - 1) \cup {None}]
  /\ current \in Nat /\ target \in Nat /\ current <= target
  /\ cache \in Nat \cup {None} /\ cacheTick \in Nat \cup {None} /\ dirty \in BOOLEAN
  /\ lv \in LevelSet
  /\ phase \in {"idle", "inbox", "advance", "cascade", "slot", "last", "next", "fire"}
  /\ \A e \in Entries : (entry[e] = "wheel") <=> (level[e] # None)

\* The wheel is a priority queue: when a pass is over no live entry that was
\* due at its tick is still in a bucket, and what it took out was due.
FiresOnTime ==
  /\ phase \in {"next", "fire"} => \A e \in LiveInWheel : DeadlineTick(e) > target
  /\ \A e \in Entries : entry[e] \in {"ready", "fired"} => deadline[e] <= clock

\* Between ticks every live entry is in a bucket that the current tick will
\* reach no later than the entry's own tick, and that insert chose for it.
Placed ==
  phase \in {"idle", "inbox", "advance"} =>
    \A e \in LiveInWheel :
      LET l == level[e]  t == DeadlineTick(e) IN
      /\ l = 0 /\ t > current => slot[e] = WheelSlot(t, 0) /\ t - current < RingSlots
      /\ l = 0 /\ t <= current => phase # "idle" /\ slot[e] = WheelSlot(current, 0)
      /\ l > 0 => /\ slot[e] = WheelSlot(t, l)
                  /\ t \div Span(l) > current \div Span(l)
                  /\ t \div Span(l) <= current \div Span(l) + RingSlots

\* What next_live_deadline publishes is no later than any live entry, and is
\* never a deadline this pass has already dealt with (a stale one would have
\* the loop spin on a timer that is always due).
CacheCovers ==
  phase \in {"fire", "idle"} =>
    /\ \A e \in LiveInWheel : cache # None /\ cache <= deadline[e]
    /\ cache # None => TickCeil(cache) > current

\* The wheel's two stores of where its entries are, buckets and cache, agree
\* with the live entries.
WheelAgrees == Placed /\ CacheCovers

\* A pass ends.
PassEnds == phase # "idle" ~> phase = "idle"
=============================================================================
