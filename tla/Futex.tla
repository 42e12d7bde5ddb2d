------------------------------- MODULE Futex -------------------------------
(***************************************************************************)
(* One key of the futex table (kernel/src/process/futex.rs) as the guest   *)
(* calls use it (futex_wait, futex_wake and futex_wake_all in              *)
(* wasmtime_adapter/component_host/service/wasix_thread.rs), composed with *)
(* the Notify each entry owns.                                             *)
(*                                                                         *)
(* The table is behind a lock, which a wake holds across both steps of its *)
(* notification; the waits themselves run outside it.  An entry lives      *)
(* while it has registered waiters, and the next one starts a fresh        *)
(* Notify.                                                                 *)
(***************************************************************************)
EXTENDS Notify

CONSTANTS MaxStores   \* bound: stores to the guest word

ASSUME StoresAssumption == MaxStores \in Nat

VARIABLES
  word,     \* the guest word; a waiter expects 0
  stores,   \* how many stores there have been
  waiters,  \* FutexEntry::waiters, 0 when the key has no entry
  stage,    \* stage[w]: where the thread is in futex_wait
  cleared   \* there was a futex_wake_all since the word became 1

tableVars == <<word, stores, waiters, stage, cleared>>
futexVars == <<vars, word, stores, waiters, stage, cleared>>

FutexInit ==
  /\ Init
  /\ word = 0 /\ stores = 0 /\ waiters = 0
  /\ stage = [w \in Waiters |-> "out"]
  /\ cleared = FALSE

\* The table's lock is held.
Locked == \E n \in Producers : npc[n] > 0

At(w, here, there) == stage[w] = here /\ stage' = [stage EXCEPT ![w] = there]

-----------------------------------------------------------------------------
(* futex_wait                                                              *)

\* prepare_futex_wait.
PrepareWait(w) ==
  /\ ~Locked /\ waits[w] < MaxWaits
  /\ At(w, "out", "registered")
  /\ waiters' = waiters + 1
  /\ UNCHANGED <<vars, word, stores, cleared>>

ArmWait(w) ==
  /\ Arm(w)
  /\ At(w, "registered", "armed")
  /\ UNCHANGED <<word, stores, waiters, cleared>>

\* Mutant of Compare: whatever the word is.
CompareNothing(w) ==
  /\ At(w, "armed", "waiting")
  /\ UNCHANGED <<vars, word, stores, waiters, cleared>>

\* The word is read; the wait is dropped unless it is the expected one.
Compare(w) ==
  \/ /\ word = 0
     /\ At(w, "armed", "waiting")
     /\ UNCHANGED <<vars, word, stores, waiters, cleared>>
  \/ /\ word # 0
     /\ At(w, "armed", "leaving")
     /\ Cancel(w)
     /\ UNCHANGED <<word, stores, waiters, cleared>>

PollWait(w) ==
  /\ stage[w] = "waiting"
  /\ Poll(w) \/ PollStep(w)
  /\ UNCHANGED tableVars

\* The wait completed.
Woken(w) ==
  /\ pc[w] = "done"
  /\ At(w, "waiting", "leaving")
  /\ Goto(w, "idle")
  /\ UNCHANGED <<permits, generation, eventVars, observed, seen, waits, producerVars,
                 word, stores, waiters, cleared>>

\* Mutant of TimeOut: the wait outlives the registration.
TimeOutOnly(w) ==
  /\ At(w, "waiting", "leaving")
  /\ pc[w] = "parked" /\ Goto(w, "idle")
  /\ UNCHANGED <<permits, generation, eventVars, observed, seen, waits, producerVars,
                 word, stores, waiters, cleared>>

\* The timeout won the select, or was zero.
TimeOut(w) ==
  /\ At(w, "waiting", "leaving")
  /\ Cancel(w)
  /\ UNCHANGED <<word, stores, waiters, cleared>>

\* complete_futex_wait: the last waiter takes the entry with it.
CompleteWait(w) ==
  /\ ~Locked
  /\ At(w, "leaving", "out")
  /\ waiters' = waiters - 1
  /\ IF waiters = 1 THEN permits' = 0 /\ generation' = 0
                    ELSE UNCHANGED <<permits, generation>>
  /\ UNCHANGED <<eventVars, waiterVars, producerVars, word, stores, cleared>>

-----------------------------------------------------------------------------
(* The other side                                                          *)

Store(v) ==
  /\ stores < MaxStores /\ v # word
  /\ stores' = stores + 1
  /\ word' = v
  /\ cleared' = FALSE
  /\ UNCHANGED <<vars, waiters, stage>>

\* futex_wake: one permit when the entry has a waiter.
FutexWake(n) ==
  /\ ~Locked /\ waiters > 0
  /\ NotifyOne(n)
  /\ UNCHANGED tableVars

\* futex_wake_all: a broadcast when there is an entry.
FutexWakeAll(n) ==
  /\ ~Locked
  /\ \/ waiters > 0 /\ NotifyAll(n)
     \/ waiters = 0 /\ "all" \in Kinds /\ UNCHANGED vars
  /\ cleared' = (word = 1)
  /\ UNCHANGED <<word, stores, waiters, stage>>

\* The event half of either, after which the lock is released.
FinishWake(n) == EventNotify(n) /\ UNCHANGED tableVars

-----------------------------------------------------------------------------
FutexNext ==
  \/ \E w \in Waiters :
       \/ PrepareWait(w) \/ ArmWait(w) \/ Compare(w) \/ PollWait(w) \/ Woken(w)
       \/ TimeOut(w) \/ CompleteWait(w)
  \/ \E n \in Producers : FutexWake(n) \/ FutexWakeAll(n) \/ FinishWake(n)
  \/ \E v \in {0, 1} : Store(v)

FutexSpec == FutexInit /\ [][FutexNext]_futexVars

-----------------------------------------------------------------------------
FutexTypeOK ==
  /\ TypeOK
  /\ word \in {0, 1} /\ stores \in 0 .. MaxStores /\ waiters \in Nat /\ cleared \in BOOLEAN
  /\ stage \in [Waiters -> {"out", "registered", "armed", "waiting", "leaving"}]

\* The entry counts its threads, so complete_wait neither underflows nor meets
\* an unknown key; and an entry that is gone has no wait left on its Notify.
EntryOutlivesWaits ==
  /\ waiters = Cardinality({w \in Waiters : stage[w] # "out"})
  /\ \A w \in Waiters : stage[w] \in {"out", "registered", "leaving"} =>
       pc[w] = "idle" /\ ~HasListener(w)

\* A thread that waits for the word to leave 0 is not left parked by the store
\* and the futex_wake_all that follow, wherever between its comparison and its
\* park they come.
NoSleeperAfterWakeAll ==
  Quiet /\ word = 1 /\ cleared =>
    \A w \in Waiters : stage[w] = "waiting" => pc[w] # "parked"
=============================================================================
