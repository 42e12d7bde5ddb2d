----------------------------- MODULE SleepPool -----------------------------
(***************************************************************************)
(* The slot pool behind kernel sleeps (SleepStatePool, SleepRef and        *)
(* SleepHandle in kernel/src/exec/timer.rs).  A Sleep owns a slot through  *)
(* a counted reference; the timer's inbox and wheel only hold weak         *)
(* handles, an index and a generation, which outlive the sleep and may     *)
(* name a slot that has been recycled for another one.  Firing a handle    *)
(* takes a temporary reference, and whoever drops the last reference tears *)
(* the cell down and returns the index to the freelist.                    *)
(*                                                                         *)
(* Every atomic access is a step.  The sleeps run on any processor, the    *)
(* firer is the event loop of the timer's owner, which is one processor.   *)
(***************************************************************************)
EXTENDS Integers, FiniteSets

CONSTANTS
  Futures, \* sleep futures; each acquires a slot once
  Slots,   \* slot indices
  NoSleep, \* an uninitialised cell, or no sleep
  NoSlot   \* a sleep that has no slot yet

ASSUME NoSleepAssumption == NoSleep \notin Futures
ASSUME NoSlotAssumption == NoSlot \notin Slots

NotQueued == -1  \* no handle has been made

VARIABLES
  refcount, gen, \* the slot's header
  cell,          \* cell[i]: the sleep whose state is in the slot's cell
  nfree,         \* how many times the index is in free_indices
  stage,         \* stage[s]: where the sleep is in acquire, in its life or in release
  idx,           \* idx[s]: the slot of the sleep and of its handle
  handles,       \* the sleeps that have a handle in the inbox or in the wheel
  hgen,          \* hgen[s]: the generation in its handle, once it has been queued
  fpc, fsleep,   \* the firer's place, and whose handle it is firing
  frc,           \* the reference count it has read
  fired          \* the sleeps whose state has been fired

slotVars == <<refcount, gen, cell, nfree>>
sleepVars == <<stage, idx, handles, hgen>>
firerVars == <<fpc, fsleep, frc>>
poolVars == <<refcount, gen, cell, nfree, stage, idx, handles, hgen, fpc, fsleep, frc, fired>>

PoolInit ==
  /\ refcount = [i \in Slots |-> 0] /\ gen = [i \in Slots |-> 0]
  /\ cell = [i \in Slots |-> NoSleep] /\ nfree = [i \in Slots |-> 1]
  /\ stage = [s \in Futures |-> "new"] /\ idx = [s \in Futures |-> NoSlot]
  /\ handles = {} /\ hgen = [s \in Futures |-> NotQueued]
  /\ fpc = "idle" /\ fsleep = NoSleep /\ frc = 0
  /\ fired = {}

-----------------------------------------------------------------------------
(* SleepStatePool::acquire                                                 *)

\* The freelist hands an index out; an exhausted pool panics.
PopFree(s, i) ==
  /\ stage[s] = "new" /\ nfree[i] > 0
  /\ nfree' = [nfree EXCEPT ![i] = @ - 1]
  /\ idx' = [idx EXCEPT ![s] = i]
  /\ stage' = [stage EXCEPT ![s] = "write"]
  /\ UNCHANGED <<refcount, gen, cell, handles, hgen, firerVars, fired>>

WriteCell(s) ==
  /\ stage[s] = "write"
  /\ cell' = [cell EXCEPT ![idx[s]] = s]
  /\ stage' = [stage EXCEPT ![s] = "publish"]
  /\ UNCHANGED <<refcount, gen, nfree, idx, handles, hgen, firerVars, fired>>

PublishRef(s) ==
  /\ stage[s] = "publish"
  /\ refcount' = [refcount EXCEPT ![idx[s]] = 1]
  /\ stage' = [stage EXCEPT ![s] = "live"]
  /\ UNCHANGED <<gen, cell, nfree, idx, handles, hgen, firerVars, fired>>

-----------------------------------------------------------------------------
(* The life of a Sleep                                                     *)

\* The first pending poll (SleepState::queued) enqueues a handle:
\* SleepRef::downgrade.
Downgrade(s) ==
  /\ stage[s] = "live" /\ hgen[s] = NotQueued
  /\ handles' = handles \cup {s}
  /\ hgen' = [hgen EXCEPT ![s] = gen[idx[s]]]
  /\ UNCHANGED <<slotVars, stage, idx, firerVars, fired>>

\* A poll past the deadline fires the state it holds.
FireSelf(s) ==
  /\ stage[s] = "live"
  /\ fired' = fired \cup {cell[idx[s]]}
  /\ UNCHANGED <<slotVars, sleepVars, firerVars>>

\* Mutant of LastAfter: one reference may be left over.
LastAfterTwo(i) == refcount[i] = 2

\* fetch_sub returned 1: the caller dropped the last reference.
LastAfter(i) == refcount[i] = 1

DropSleep(s) ==
  /\ stage[s] = "live"
  /\ refcount' = [refcount EXCEPT ![idx[s]] = @ - 1]
  /\ stage' = [stage EXCEPT ![s] = IF LastAfter(idx[s]) THEN "dropCell" ELSE "gone"]
  /\ UNCHANGED <<gen, cell, nfree, idx, handles, hgen, firerVars, fired>>

-----------------------------------------------------------------------------
(* The rest of SleepStatePool::release, for slot i                         *)

DropCell(i) == cell' = [cell EXCEPT ![i] = NoSleep] /\ UNCHANGED <<refcount, gen, nfree>>

\* Mutant of BumpGeneration: outstanding handles are not invalidated.
BumpNothing(i) == UNCHANGED <<refcount, gen, cell, nfree>>

BumpGeneration(i) == gen' = [gen EXCEPT ![i] = @ + 1] /\ UNCHANGED <<refcount, cell, nfree>>

PushFree(i) == nfree' = [nfree EXCEPT ![i] = @ + 1] /\ UNCHANGED <<refcount, gen, cell>>

SleepTeardown(s) ==
  /\ \/ stage[s] = "dropCell" /\ DropCell(idx[s]) /\ stage' = [stage EXCEPT ![s] = "bump"]
     \/ stage[s] = "bump" /\ BumpGeneration(idx[s]) /\ stage' = [stage EXCEPT ![s] = "push"]
     \/ stage[s] = "push" /\ PushFree(idx[s]) /\ stage' = [stage EXCEPT ![s] = "gone"]
  /\ UNCHANGED <<idx, handles, hgen, firerVars, fired>>

-----------------------------------------------------------------------------
(* SleepHandle, in the owner's event loop                                  *)

\* The slot the firer is at.
FSlot == idx[fsleep]

\* Mutant of IsDead: the comparison the wrong way round.
IsDeadInverted(s) == refcount[idx[s]] = 0 \/ gen[idx[s]] = hgen[s]

\* is_dead, which reads the slot's header only.
IsDead(s) == refcount[idx[s]] = 0 \/ gen[idx[s]] # hgen[s]

\* The wheel meets a handle whose sleep is dead, and forgets it.
Forget(s) ==
  /\ fpc = "idle" /\ s \in handles /\ IsDead(s)
  /\ handles' = handles \ {s}
  /\ UNCHANGED <<slotVars, stage, idx, hgen, firerVars, fired>>

\* The entry is due: it leaves the wheel and is fired.
StartFire(s) ==
  /\ fpc = "idle" /\ s \in handles
  /\ handles' = handles \ {s}
  /\ fsleep' = s
  /\ fpc' = "load"
  /\ UNCHANGED <<slotVars, stage, idx, hgen, frc, fired>>

FinishFire == fpc' = "idle" /\ fsleep' = NoSleep /\ frc' = 0

\* The first load, and the load of a failed exchange.
FireLoad ==
  /\ fpc = "load"
  /\ \/ refcount[FSlot] = 0 /\ FinishFire
     \/ /\ refcount[FSlot] # 0
        /\ frc' = refcount[FSlot]
        /\ fpc' = "cas"
        /\ UNCHANGED fsleep
  /\ UNCHANGED <<slotVars, sleepVars, fired>>

\* compare_exchange_weak: may also fail for no reason.
FireCas ==
  /\ fpc = "cas"
  /\ \/ /\ refcount[FSlot] = frc
        /\ refcount' = [refcount EXCEPT ![FSlot] = @ + 1]
        /\ fpc' = "check"
        /\ UNCHANGED <<fsleep, frc>>
     \/ /\ refcount[FSlot] = 0 /\ FinishFire
        /\ UNCHANGED refcount
     \/ /\ refcount[FSlot] # 0
        /\ frc' = refcount[FSlot]
        /\ UNCHANGED <<refcount, fpc, fsleep>>
  /\ UNCHANGED <<gen, cell, nfree, sleepVars, fired>>

FireCheck ==
  /\ fpc = "check"
  /\ fpc' = IF gen[FSlot] = hgen[fsleep] THEN "touch" ELSE "sub"
  /\ UNCHANGED <<slotVars, sleepVars, fsleep, frc, fired>>

\* SleepState::fire on whatever the cell holds.
FireTouch ==
  /\ fpc = "touch"
  /\ fired' = fired \cup {cell[FSlot]}
  /\ fpc' = "sub"
  /\ UNCHANGED <<slotVars, sleepVars, fsleep, frc>>

\* release of the temporary reference.
FireRelease ==
  /\ fpc = "sub"
  /\ refcount' = [refcount EXCEPT ![FSlot] = @ - 1]
  /\ \/ LastAfter(FSlot) /\ fpc' = "dropCell" /\ UNCHANGED <<fsleep, frc>>
     \/ ~LastAfter(FSlot) /\ FinishFire
  /\ UNCHANGED <<gen, cell, nfree, sleepVars, fired>>

FireTeardown ==
  /\ \/ fpc = "dropCell" /\ DropCell(FSlot) /\ fpc' = "bump" /\ UNCHANGED <<fsleep, frc>>
     \/ fpc = "bump" /\ BumpGeneration(FSlot) /\ fpc' = "push" /\ UNCHANGED <<fsleep, frc>>
     \/ fpc = "push" /\ PushFree(FSlot) /\ FinishFire
  /\ UNCHANGED <<sleepVars, fired>>

-----------------------------------------------------------------------------
SleepStep(s) ==
  \/ WriteCell(s) \/ PublishRef(s) \/ Downgrade(s) \/ FireSelf(s) \/ DropSleep(s)
  \/ SleepTeardown(s)
  \/ \E i \in Slots : PopFree(s, i)

FirerStep ==
  \/ FireLoad \/ FireCas \/ FireCheck \/ FireTouch \/ FireRelease \/ FireTeardown
  \/ \E s \in Futures : Forget(s) \/ StartFire(s)

PoolNext == FirerStep \/ \E s \in Futures : SleepStep(s)

PoolSpec == PoolInit /\ [][PoolNext]_poolVars

-----------------------------------------------------------------------------
SleepPcs == {"new", "write", "publish", "live", "dropCell", "bump", "push", "gone"}
FirerPcs == {"idle", "load", "cas", "check", "touch", "sub", "dropCell", "bump", "push"}

PoolTypeOK ==
  /\ refcount \in [Slots -> Nat] /\ gen \in [Slots -> Nat] /\ nfree \in [Slots -> Nat]
  /\ cell \in [Slots -> Futures \cup {NoSleep}]
  /\ stage \in [Futures -> SleepPcs] /\ idx \in [Futures -> Slots \cup {NoSlot}]
  /\ handles \subseteq Futures /\ hgen \in [Futures -> Nat \cup {NotQueued}]
  /\ fpc \in FirerPcs /\ fsleep \in Futures \cup {NoSleep} /\ frc \in Nat
  /\ fired \subseteq Futures \cup {NoSleep}

\* The sleep has, or is taking or tearing down, its slot.
Holds(s) == stage[s] \notin {"new", "gone"}
Acquiring(s) == stage[s] \in {"write", "publish"}
TearingDown(s) == stage[s] \in {"dropCell", "bump", "push"}

\* The firer has taken a reference, or is tearing a slot down.
FirerRefs == fpc \in {"check", "touch", "sub"}
FirerTearsDown == fpc \in {"dropCell", "bump", "push"}

\* The handle that passed the generation test reaches the state of its own
\* sleep: never a cell recycled for another, never an uninitialised one.
TouchesOwnSleep ==
  /\ fpc = "touch" => cell[FSlot] = fsleep
  /\ NoSleep \notin fired

\* A live sleep's slot stays its own (the cell is initialised with its state,
\* a reference is counted) and its handle stays valid, so is_dead never takes
\* a live sleep for a dead one.
LiveKeepsSlot ==
  \A s \in Futures : stage[s] = "live" =>
    /\ cell[idx[s]] = s /\ refcount[idx[s]] > 0
    /\ hgen[s] # NotQueued => hgen[s] = gen[idx[s]]

\* A slot is in one place at a time: in the freelist once, or with one sleep,
\* or with the firer that dropped the last reference to it; never lost.
OnePlace ==
  \A i \in Slots :
    /\ nfree[i] <= 1
    /\ nfree[i] = 1 => /\ refcount[i] = 0 /\ cell[i] = NoSleep
                       /\ \A s \in Futures : idx[s] = i => ~Holds(s)
    /\ nfree[i] = 0 => \/ \E s \in Futures : idx[s] = i /\ Holds(s)
                       \/ (FirerRefs \/ FirerTearsDown) /\ FSlot = i
    /\ \A s, t \in Futures : idx[s] = i /\ idx[t] = i /\ Holds(s) /\ Holds(t) => s = t

\* A cell is torn down once, by the one actor that has it to itself.
TearsDownAlone ==
  /\ \A s \in Futures : TearingDown(s) =>
       /\ refcount[idx[s]] = 0
       /\ stage[s] = "dropCell" => cell[idx[s]] # NoSleep
  /\ FirerTearsDown =>
       /\ refcount[FSlot] = 0
       /\ fpc = "dropCell" => cell[FSlot] # NoSleep
       /\ \A s \in Futures : idx[s] = FSlot => ~Holds(s)

\* A slot has one owner at a time, from its acquisition to its tear-down.
SlotsHaveOneOwner == OnePlace /\ TearsDownAlone

\* A handle the wheel forgets has no sleeper waiting on it.
NeverForgetsLive ==
  [][\A s \in handles \ handles' : stage[s] = "live" => fsleep' = s]_poolVars

-----------------------------------------------------------------------------
(* The inductive invariant behind them.                                    *)

FirerAt(i) == FirerRefs /\ FSlot = i
LiveOn(i) == \E s \in Futures : idx[s] = i /\ stage[s] = "live"

\* Who may have a slot, a handle or a handle in its hands.
Indexed ==
  /\ \A s \in Futures : stage[s] # "new" => idx[s] \in Slots
  /\ \A s \in Futures : hgen[s] # NotQueued => stage[s] \notin {"new", "write", "publish"}
  /\ \A s \in Futures : s \in handles \/ fsleep = s => hgen[s] # NotQueued
  /\ fpc # "idle" => fsleep \in Futures
  /\ fpc = "cas" => frc > 0

\* One sleep per slot; a free slot, and one the firer tears down, has none, and
\* the firer shares a slot only with a live sleep.
Exclusive ==
  /\ \A s, t \in Futures : Holds(s) /\ Holds(t) /\ idx[s] = idx[t] => s = t
  /\ \A s \in Futures : Holds(s) =>
       /\ nfree[idx[s]] = 0
       /\ ~(FirerTearsDown /\ FSlot = idx[s])
       /\ stage[s] # "live" => ~FirerAt(idx[s])
  /\ \A i \in Slots :
       /\ nfree[i] <= 1
       /\ nfree[i] = 1 => ~FirerAt(i) /\ ~(FirerTearsDown /\ FSlot = i)
       /\ nfree[i] = 0 => \/ \E s \in Futures : idx[s] = i /\ Holds(s)
                          \/ FirerAt(i) \/ (FirerTearsDown /\ FSlot = i)

\* The count is exact: one for a live sleep, one for the firer.
Counted ==
  \A i \in Slots :
    /\ LiveOn(i) /\ FirerAt(i) => refcount[i] = 2
    /\ LiveOn(i) /\ ~FirerAt(i) => refcount[i] = 1
    /\ ~LiveOn(i) /\ FirerAt(i) => refcount[i] = 1
    /\ ~LiveOn(i) /\ ~FirerAt(i) => refcount[i] = 0

\* What each cell holds.
Contents ==
  /\ \A s \in Futures :
       /\ stage[s] \in {"publish", "live", "dropCell"} => cell[idx[s]] = s
       /\ stage[s] \in {"write", "bump", "push"} => cell[idx[s]] = NoSleep
  /\ FirerRefs \/ fpc = "dropCell" => cell[FSlot] # NoSleep
  /\ fpc \in {"bump", "push"} => cell[FSlot] = NoSleep
  /\ \A i \in Slots : nfree[i] = 1 => cell[i] = NoSleep

\* While a slot has the generation of a handle, it is the handle's sleep's.
Generations ==
  \A s \in Futures : hgen[s] # NotQueued =>
    /\ hgen[s] <= gen[idx[s]]
    /\ stage[s] \in {"live", "dropCell", "bump"} => hgen[s] = gen[idx[s]]
    /\ hgen[s] = gen[idx[s]] =>
         /\ nfree[idx[s]] = 0
         /\ \A t \in Futures : Holds(t) /\ idx[t] = idx[s] => t = s
         /\ stage[s] # "push"
         /\ ~(fpc = "push" /\ FSlot = idx[s])
         /\ cell[idx[s]] \in {s, NoSleep}

Touching ==
  /\ fpc = "touch" => gen[FSlot] = hgen[fsleep]
  /\ NoSleep \notin fired

PoolInv ==
  Indexed /\ Exclusive /\ Counted /\ Contents /\ Generations /\ Touching
=============================================================================
