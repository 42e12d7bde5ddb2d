-------------------------------- MODULE Sync --------------------------------
(***************************************************************************)
(* A Notify in its two surroundings: used directly by waiters and          *)
(* producers, or as the Notify of a futex entry with guest threads and     *)
(* wakers.                                                                 *)
(***************************************************************************)
EXTENDS Futex

VARIABLE user   \* "plain" or "futex": who uses it in this behaviour

syncVars == <<futexVars, user>>

SyncInit == FutexInit /\ user \in {"plain", "futex"}

SyncNext ==
  /\ UNCHANGED user
  /\ \/ user = "plain" /\ Next /\ UNCHANGED tableVars
     \/ user = "futex" /\ FutexNext

SyncSpec == SyncInit /\ [][SyncNext]_syncVars /\ Fairness

\* EntryOutlivesWaits where there is an entry: it counts its threads, and one
\* that is gone has left no wait on its Notify.
EntryOutlivesItsWaits == user = "futex" => EntryOutlivesWaits
=============================================================================
