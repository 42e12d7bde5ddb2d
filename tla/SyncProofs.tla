----------------------------- MODULE SyncProofs -----------------------------
(***************************************************************************)
(* For any waiters, producers and threads: a Notify loses no broadcast and *)
(* strands no lone permit, by itself or under the futex table, whose       *)
(* entries live as long as the waits on them.                              *)
(***************************************************************************)
EXTENDS Sync, FiniteSetTheorems, SequenceTheorems, TLAPS

-----------------------------------------------------------------------------
(* The event's list.                                                       *)

Distinct(l) == \A i, j \in 1 .. Len(l) : l[i] = l[j] => i = j

LEMMA RangeIs ==
  ASSUME NEW l \in Seq(Waiters)
  PROVE  /\ Range(l) = {l[i] : i \in 1 .. Len(l)}
         /\ Range(l) \subseteq Waiters
         /\ Len(l) \in Nat
         /\ l = << >> <=> Range(l) = {}
<1>1. Range(l) = {l[i] : i \in 1 .. Len(l)} /\ Len(l) \in Nat
  BY DEF Range
<1>2. Range(l) \subseteq Waiters
  BY <1>1
<1>3. l = << >> => Range(l) = {}
  BY <1>1
<1>4. l # << >> => l[1] \in Range(l)
  BY <1>1
<1> QED BY <1>1, <1>2, <1>3, <1>4

\* A listener's entry is unlinked and no other.
LEMMA Unlinked ==
  ASSUME NEW l \in Seq(Waiters), Distinct(l), NEW w \in Waiters
  PROVE  /\ Unlink(l, w) \in Seq(Waiters) /\ Distinct(Unlink(l, w))
         /\ Range(Unlink(l, w)) = Range(l) \ {w}
<1>1. CASE w \notin Range(l)
  BY <1>1 DEF Unlink
<1>2. CASE w \in Range(l)
  <2> DEFINE i == CHOOSE k \in 1 .. Len(l) : l[k] = w
             a == SubSeq(l, 1, i - 1)
             b == SubSeq(l, i + 1, Len(l))
             r == a \o b
  <2>1. i \in 1 .. Len(l) /\ l[i] = w /\ Len(l) \in Nat
    BY <1>2, RangeIs
  <2>2. Unlink(l, w) = r
    BY <1>2 DEF Unlink, RemoveAt
  <2> HIDE DEF i
  <2>3. /\ a \in Seq(Waiters) /\ Len(a) = i - 1
        /\ \A k \in 1 .. i - 1 : a[k] = l[k]
    <3>1. \A k \in 1 .. i - 1 : l[k] \in Waiters
      BY <2>1
    <3> QED BY <2>1, <3>1, SubSeqProperties
  <2>4. /\ b \in Seq(Waiters) /\ Len(b) = Len(l) - i
        /\ \A k \in 1 .. Len(l) - i : b[k] = l[i + k]
    <3>1. \A k \in i + 1 .. Len(l) : l[k] \in Waiters
      BY <2>1
    <3>2. /\ b \in Seq(Waiters)
          /\ Len(b) = IF i + 1 <= Len(l) THEN Len(l) - (i + 1) + 1 ELSE 0
          /\ \A k \in 1 .. Len(l) - (i + 1) + 1 : b[k] = l[(i + 1) + k - 1]
      BY <2>1, <3>1, SubSeqProperties
    <3>3. \A k \in 1 .. Len(l) - i : k \in 1 .. Len(l) - (i + 1) + 1 /\ (i + 1) + k - 1 = i + k
      BY <2>1
    <3> HIDE DEF b
    <3> QED BY <2>1, <3>2, <3>3
  <2> HIDE DEF a, b
  <2>5. /\ r \in Seq(Waiters) /\ Len(r) = Len(l) - 1
        /\ \A k \in 1 .. Len(l) - 1 : r[k] = IF k < i THEN l[k] ELSE l[k + 1]
    <3>1. /\ r \in Seq(Waiters) /\ Len(r) = Len(a) + Len(b)
          /\ \A k \in 1 .. Len(a) + Len(b) :
               r[k] = IF k <= Len(a) THEN a[k] ELSE b[k - Len(a)]
      BY <2>3, <2>4, ConcatProperties
    <3>2. Len(a) + Len(b) = Len(l) - 1
      BY <2>1, <2>3, <2>4
    <3>3. ASSUME NEW k \in 1 .. Len(l) - 1
          PROVE  r[k] = IF k < i THEN l[k] ELSE l[k + 1]
      <4>1. CASE k < i
        BY <2>1, <2>3, <3>1, <3>2, <4>1
      <4>2. CASE ~(k < i)
        <5>1. k - (i - 1) \in 1 .. Len(l) - i /\ i + (k - (i - 1)) = k + 1
          BY <2>1, <4>2
        <5>2. r[k] = b[k - (i - 1)]
          BY <2>1, <2>3, <3>1, <3>2, <4>2
        <5> QED BY <2>4, <4>2, <5>1, <5>2
      <4> QED BY <4>1, <4>2
    <3> QED BY <3>1, <3>2, <3>3
  <2> HIDE DEF r
  <2>6. Distinct(r)
    <3> SUFFICES ASSUME NEW j \in 1 .. Len(l) - 1, NEW k \in 1 .. Len(l) - 1, r[j] = r[k]
                 PROVE  j = k
      BY <2>5 DEF Distinct
    <3> QED BY <2>1, <2>5 DEF Distinct
  <2>7. Range(r) = Range(l) \ {w}
    <3>1. ASSUME NEW k \in 1 .. Len(l) - 1
          PROVE  r[k] \in Range(l) /\ r[k] # w
      <4>1. CASE k < i
        BY <2>1, <2>5, <4>1, RangeIs DEF Distinct
      <4>2. CASE ~(k < i)
        <5>1. k + 1 \in 1 .. Len(l) /\ k + 1 # i /\ r[k] = l[k + 1]
          BY <2>1, <2>5, <4>2
        <5> QED BY <2>1, <5>1, RangeIs DEF Distinct
      <4> QED BY <4>1, <4>2
    <3>2. ASSUME NEW k \in 1 .. Len(l), l[k] # w PROVE l[k] \in Range(r)
      <4>1. CASE k < i
        <5>1. k \in 1 .. Len(l) - 1 /\ r[k] = l[k]
          BY <2>1, <2>5, <4>1
        <5> QED BY <2>5, <5>1, RangeIs
      <4>2. CASE k > i
        <5>1. k - 1 \in 1 .. Len(l) - 1 /\ r[k - 1] = l[k]
          BY <2>1, <2>5, <4>2
        <5> QED BY <2>5, <5>1, RangeIs
      <4> QED BY <2>1, <3>2, <4>1, <4>2
    <3> QED BY <2>5, <3>1, <3>2, RangeIs
  <2> QED BY <2>2, <2>5, <2>6, <2>7
<1> QED BY <1>1, <1>2

\* notify(n) takes no notification back and notifies listeners only.
LEMMA ReachedBounds ==
  ASSUME NEW l \in Seq(Waiters), NEW already, NEW n
  PROVE  already \subseteq Reached(l, already, n) /\ Reached(l, already, n) \subseteq already \cup Range(l)
  BY RangeIs DEF Reached

\* notify(n) leaves somebody notified if there is a listener.
LEMMA ReachedSome ==
  ASSUME NEW l \in Seq(Waiters), l # << >>, NEW already, NEW n \in Nat, n # 0
  PROVE  Reached(l, already, n) # {}
<1>1. CASE already # {}
  BY <1>1, ReachedBounds
<1>2. CASE already = {}
  <2> DEFINE M == {m \in 1 .. 1 : l[m] \notin already}
  <2>1. M = {1}
    BY <1>2
  <2> HIDE DEF M
  <2>2. Cardinality(M) = 1
    BY <2>1, FS_Singleton
  <2>3. Cardinality(already) = 0
    BY <1>2, FS_EmptySet
  <2>4. Cardinality(M) <= n - Cardinality(already)
    BY <2>2, <2>3
  <2>5. 1 \in 1 .. Len(l)
    OBVIOUS
  <2>6. l[1] \in Reached(l, already, n)
    BY <1>2, <2>4, <2>5 DEF Reached, M
  <2> QED BY <2>6
<1> QED BY <1>1, <1>2

\* notify(usize::MAX) leaves every listener notified.
LEMMA ReachedAll ==
  ASSUME NEW l \in Seq(Waiters), Distinct(l), NEW already \in SUBSET Range(l)
  PROVE  Reached(l, already, All) = Range(l)
<1>1. ASSUME NEW k \in 1 .. Len(l), l[k] \notin already
      PROVE  l[k] \in Reached(l, already, All)
  <2> DEFINE M == {m \in 1 .. k : l[m] \notin already}
             f == [m \in M |-> l[m]]
  <2>1. already \subseteq Waiters /\ IsFiniteSet(already) /\ IsFiniteSet(Waiters \ already)
    BY RangeIs, WaitersAssumption, FS_Subset, FS_Difference
  <2>2. f \in Injection(M, Waiters \ already)
    BY RangeIs DEF Distinct, Injection, IsInjective
  <2>3. IsFiniteSet(M) /\ Cardinality(M) <= Cardinality(Waiters \ already)
    <3> HIDE DEF M, f
    <3> QED BY <2>1, <2>2, FS_Injection
  <2>4. Cardinality(Waiters \ already) = Cardinality(Waiters) - Cardinality(already)
    <3>1. Waiters \cap already = already
      BY <2>1
    <3> QED BY <3>1, WaitersAssumption, FS_Difference
  <2>5. Cardinality(M) <= All - Cardinality(already)
    BY <2>3, <2>4 DEF All
  <2> QED BY <1>1, <2>5 DEF Reached
<1>2. Range(l) \subseteq Reached(l, already, All)
  BY <1>1, ReachedBounds, RangeIs
<1> QED BY <1>2, ReachedBounds

-----------------------------------------------------------------------------
(* The inductive invariant of Notify.                                      *)

\* Who has a listener.
ListInv ==
  \A w \in Waiters :
    /\ pc[w] \in {"idle", "armed", "listen", "done"} => ~HasListener(w)
    /\ pc[w] \in {"poll", "parked"} => HasListener(w)

\* No wait is ahead of the generation.
GenInv ==
  \A w \in Waiters :
    /\ pc[w] # "idle" => observed[w] <= generation
    /\ pc[w] = "claim" => seen[w] <= generation

\* A wait that read an old generation after it registered is notified, or the
\* broadcast that made it old has yet to notify the event.
BroadcastInv ==
  \A w \in Waiters :
    pc[w] \in {"claim", "poll", "parked"} /\ HasListener(w) =>
      observed[w] = generation \/ w \in notified \/ \E n \in Producers : npc[n] = All

\* A lone permit in store has its notification to come, a notified listener, a
\* waiter about to look at it, or nobody registered.
PermitInv ==
  ~doubled =>
    /\ permits <= 1
    /\ generation = 0 /\ permits > 0 =>
         \/ \E n \in Producers : npc[n] > 0
         \/ notified # {} \/ list = << >>
         \/ \E w \in Waiters : pc[w] \in {"gen", "claim", "listen"}

NotifyInv == TypeOK /\ ListInv /\ GenInv /\ BroadcastInv /\ PermitInv

USE DEF eventVars, waiterVars, producerVars

LEMMA AllIsNat == All \in Nat
  BY WaitersAssumption, FS_CardinalityType DEF All

\* What is left when a listener is dropped: a notification it held goes on.
LEMMA Dropped ==
  ASSUME TypeOK, NEW w \in Waiters, DropListener(w)
  PROVE  /\ list' \in Seq(Waiters) /\ Distinct(list')
         /\ Range(list') = Range(list) \ {w} /\ notified' \subseteq Range(list')
         /\ notified \ {w} \subseteq notified'
         /\ w \in notified /\ list' # << >> => notified' # {}
<1>1. list \in Seq(Waiters) /\ Distinct(list) /\ notified \subseteq Range(list)
  BY DEF TypeOK, Distinct
<1>2. list' = Unlink(list, w)
  BY DEF DropListener
<1>3. /\ list' \in Seq(Waiters) /\ Distinct(list')
      /\ Range(list') = Range(list) \ {w}
  BY <1>1, <1>2, Unlinked
<1>4. CASE w \in notified
  <2>1. notified' = Reached(list', notified \ {w}, 1)
    BY <1>2, <1>4 DEF DropListener
  <2>2. notified \ {w} \subseteq notified' /\ notified' \subseteq (notified \ {w}) \cup Range(list')
    BY <1>3, <2>1, ReachedBounds
  <2>3. list' # << >> => notified' # {}
    BY <1>3, <2>1, ReachedSome
  <2> QED BY <1>1, <1>3, <2>2, <2>3
<1>5. CASE w \notin notified
  BY <1>1, <1>3, <1>5 DEF DropListener
<1> QED BY <1>4, <1>5

\* A listener whose notification is used up goes without passing it on.
LEMMA UsedUp ==
  ASSUME TypeOK, NEW w \in Waiters, list' = Unlink(list, w), notified' = notified \ {w}
  PROVE  /\ list' \in Seq(Waiters) /\ Distinct(list')
         /\ Range(list') = Range(list) \ {w} /\ notified' \subseteq Range(list')
<1>1. list \in Seq(Waiters) /\ Distinct(list) /\ notified \subseteq Range(list)
  BY DEF TypeOK, Distinct
<1> QED BY <1>1, Unlinked

\* A listener is appended.
LEMMA Registered ==
  ASSUME TypeOK, NEW w \in Waiters, ~HasListener(w), list' = Append(list, w)
  PROVE  /\ list' \in Seq(Waiters) /\ Distinct(list')
         /\ Range(list') = Range(list) \cup {w}
<1>1. list \in Seq(Waiters) /\ Len(list) \in Nat /\ Distinct(list)
  BY DEF TypeOK, Distinct
<1>2. /\ list' \in Seq(Waiters) /\ Len(list') = Len(list) + 1
      /\ \A i \in 1 .. Len(list) : list'[i] = list[i]
      /\ list'[Len(list) + 1] = w
  BY <1>1
<1>3. \A i \in 1 .. Len(list) + 1 : i \in 1 .. Len(list) \/ i = Len(list) + 1
  BY <1>1
<1>4. \A i \in 1 .. Len(list) : list[i] # w
  BY <1>1, RangeIs DEF HasListener
<1>5. Distinct(list')
  BY <1>1, <1>2, <1>3, <1>4 DEF Distinct
<1>6. Range(list') = {list'[i] : i \in 1 .. Len(list')} /\ Range(list) = {list[i] : i \in 1 .. Len(list)}
  BY <1>1, <1>2, RangeIs
<1>7. Range(list') \subseteq Range(list) \cup {w}
  BY <1>2, <1>3, <1>6
<1>8. Range(list) \subseteq Range(list') /\ w \in Range(list')
  BY <1>1, <1>2, <1>6
<1> QED BY <1>2, <1>5, <1>7, <1>8

-----------------------------------------------------------------------------
(* Types, and who has a listener.                                          *)

LEMMA NextList == TypeOK /\ ListInv /\ [Next]_vars => TypeOK' /\ ListInv'
<1> SUFFICES ASSUME TypeOK, ListInv, [Next]_vars PROVE TypeOK' /\ ListInv'
  OBVIOUS
<1> USE AllIsNat, BudgetAssumption DEF Goto
<1>1. ASSUME NEW w \in Waiters, Arm(w) \/ Poll(w) \/ TakeResult(w)
      PROVE  TypeOK' /\ ListInv'
  <2>1. TypeOK'
    <3>1. CASE Arm(w)
      <4>1. waits' \in [Waiters -> 0 .. MaxWaits] /\ observed' \in [Waiters -> Nat]
        BY <3>1 DEF Arm, TypeOK
      <4> QED BY <3>1, <4>1 DEF Arm, TypeOK
    <3>2. CASE Poll(w)
      BY <3>2 DEF Poll, TypeOK
    <3>3. CASE TakeResult(w)
      <4>1. \/ waits[w] < MaxWaits /\ waits' = [waits EXCEPT ![w] = @ + 1]
            \/ waits' = waits
        BY <3>3 DEF TakeResult
      <4>2. waits' \in [Waiters -> 0 .. MaxWaits]
        <5>1. waits \in [Waiters -> 0 .. MaxWaits]
          BY DEF TypeOK
        <5> QED BY <4>1, <5>1
      <4>3. pc' = [pc EXCEPT ![w] = "armed"] \/ pc' = [pc EXCEPT ![w] = "idle"]
        BY <3>3 DEF TakeResult
      <4> QED BY <3>3, <4>2, <4>3 DEF TakeResult, TypeOK
    <3> QED BY <1>1, <3>1, <3>2, <3>3
  <2>2. ListInv'
    BY <1>1 DEF Arm, Poll, TakeResult, TypeOK, ListInv, HasListener
  <2> QED BY <2>1, <2>2
<1>2. ASSUME NEW w \in Waiters, NEW g \in Nat, Complete(w, g)
      PROVE  /\ list' \in Seq(Waiters) /\ Distinct(list')
             /\ Range(list') = Range(list) \ {w} /\ notified' \subseteq Range(list')
             /\ pc' = [pc EXCEPT ![w] = "done"] /\ observed' \in [Waiters -> Nat]
  BY <1>2, Dropped DEF Complete, TypeOK
<1>3. ASSUME NEW w \in Waiters, LoadGeneration(w) PROVE TypeOK' /\ ListInv'
  <2>1. CASE Complete(w, generation)
    <3>1. TypeOK'
      BY <1>2, <1>3, <2>1 DEF LoadGeneration, TypeOK, Distinct
    <3>2. ListInv'
      BY <1>2, <2>1 DEF TypeOK, ListInv, HasListener
    <3> QED BY <3>1, <3>2
  <2>2. CASE ~Complete(w, generation)
    <3>1. TypeOK'
      BY <1>3, <2>2 DEF LoadGeneration, TypeOK
    <3>2. ListInv'
      BY <1>3, <2>2 DEF LoadGeneration, TypeOK, ListInv, HasListener
    <3> QED BY <3>1, <3>2
  <2> QED BY <2>1, <2>2
<1>4. ASSUME NEW w \in Waiters, TryClaimPermit(w) PROVE TypeOK' /\ ListInv'
  <2>1. CASE permits > 0
    <3>1. seen[w] \in Nat /\ Complete(w, seen[w])
      BY <1>4, <2>1 DEF TryClaimPermit, TypeOK
    <3>2. TypeOK'
      <4>1. permits' \in Nat
        BY <1>4, <2>1 DEF TryClaimPermit, TypeOK
      <4> QED BY <1>2, <1>4, <3>1, <4>1 DEF TryClaimPermit, TypeOK, Distinct
    <3>3. ListInv'
      BY <1>2, <3>1 DEF TypeOK, ListInv, HasListener
    <3> QED BY <3>2, <3>3
  <2>2. CASE permits = 0
    <3>1. TypeOK'
      <4>1. /\ UNCHANGED <<permits, generation, list, notified, observed, seen, waits, npc, sent,
                           doubled>>
            /\ pc' = [pc EXCEPT ![w] = IF HasListener(w) THEN "poll" ELSE "listen"]
        BY <1>4, <2>2 DEF TryClaimPermit, TypeOK
      <4> QED BY <4>1 DEF TypeOK
    <3>2. ListInv'
      BY <1>4, <2>2 DEF TryClaimPermit, TypeOK, ListInv, HasListener
    <3> QED BY <3>1, <3>2
  <2> QED BY <1>4, <2>1, <2>2 DEF TryClaimPermit
<1>5. ASSUME NEW w \in Waiters, Listen(w) PROVE TypeOK' /\ ListInv'
  <2>1. /\ list' \in Seq(Waiters) /\ Distinct(list') /\ Range(list') = Range(list) \cup {w}
    BY <1>5, Registered DEF Listen, ListInv
  <2>2. TypeOK'
    BY <1>5, <2>1 DEF Listen, TypeOK, Distinct
  <2>3. ListInv'
    BY <1>5, <2>1 DEF Listen, TypeOK, ListInv, HasListener
  <2> QED BY <2>2, <2>3
<1>6. ASSUME NEW w \in Waiters, PollListener(w) PROVE TypeOK' /\ ListInv'
  <2>1. CASE w \in notified
    <3>1. /\ list' \in Seq(Waiters) /\ Distinct(list')
          /\ Range(list') = Range(list) \ {w} /\ notified' \subseteq Range(list')
      BY <1>6, <2>1, UsedUp DEF PollListener
    <3>2. TypeOK'
      BY <1>6, <2>1, <3>1 DEF PollListener, TypeOK, Distinct
    <3>3. ListInv'
      BY <1>6, <2>1, <3>1 DEF PollListener, TypeOK, ListInv, HasListener
    <3> QED BY <3>2, <3>3
  <2>2. CASE w \notin notified
    <3>1. TypeOK'
      BY <1>6, <2>2 DEF PollListener, TypeOK
    <3>2. ListInv'
      BY <1>6, <2>2 DEF PollListener, TypeOK, ListInv, HasListener
    <3> QED BY <3>1, <3>2
  <2> QED BY <2>1, <2>2
<1>7. ASSUME NEW w \in Waiters, Cancel(w) PROVE TypeOK' /\ ListInv'
  <2>1. /\ list' \in Seq(Waiters) /\ Distinct(list')
        /\ Range(list') = Range(list) \ {w} /\ notified' \subseteq Range(list')
    BY <1>7, Dropped DEF Cancel
  <2>2. TypeOK'
    BY <1>7, <2>1 DEF Cancel, TypeOK, Distinct
  <2>3. ListInv'
    BY <1>7, <2>1 DEF Cancel, TypeOK, ListInv, HasListener
  <2> QED BY <2>2, <2>3
<1>8. ASSUME NEW n \in Producers, NotifyOne(n) \/ NotifyOneCoalesced(n) \/ NotifyAll(n)
      PROVE  TypeOK' /\ ListInv'
  <2>1. TypeOK'
    <3>1. sent' \in [Producers -> 0 .. MaxNotifies]
      BY <1>8 DEF NotifyOne, NotifyOneCoalesced, NotifyAll, Begin, TypeOK
    <3>2. CASE NotifyOne(n)
      <4>1. doubled' \in BOOLEAN
        BY <3>2 DEF NotifyOne
      <4> QED BY <3>1, <3>2, <4>1 DEF NotifyOne, TypeOK
    <3>3. CASE NotifyOneCoalesced(n)
      <4>1. \/ permits' = 1 /\ npc' = [npc EXCEPT ![n] = 1]
            \/ permits' = permits /\ npc' = npc
        BY <3>3 DEF NotifyOneCoalesced
      <4>2. permits' \in Nat /\ npc' \in [Producers -> {0, 1, All}]
        <5>1. permits \in Nat /\ npc \in [Producers -> {0, 1, All}]
          BY DEF TypeOK
        <5> QED BY <4>1, <5>1
      <4> QED BY <3>1, <3>3, <4>2 DEF NotifyOneCoalesced, TypeOK
    <3>4. CASE NotifyAll(n)
      BY <3>1, <3>4 DEF NotifyAll, TypeOK
    <3> QED BY <1>8, <3>2, <3>3, <3>4
  <2>2. ListInv'
    BY <1>8 DEF NotifyOne, NotifyOneCoalesced, NotifyAll, ListInv, HasListener
  <2> QED BY <2>1, <2>2
<1>9. ASSUME NEW n \in Producers, EventNotify(n) PROVE TypeOK' /\ ListInv'
  <2>1. notified' \subseteq Range(list)
    BY <1>9, ReachedBounds DEF EventNotify, TypeOK
  <2>2. TypeOK'
    BY <1>9, <2>1 DEF EventNotify, TypeOK
  <2>3. ListInv'
    BY <1>9 DEF EventNotify, ListInv, HasListener
  <2> QED BY <2>2, <2>3
<1>10. CASE UNCHANGED vars
  BY <1>10 DEF vars, TypeOK, ListInv, HasListener
<1> QED
  BY <1>1, <1>3, <1>4, <1>5, <1>6, <1>7, <1>8, <1>9, <1>10 DEF Next, PollStep

-----------------------------------------------------------------------------
(* Generations, broadcasts and permits.                                    *)

\* What each action does to the generations a wait has read.
LEMMA NextGen == TypeOK /\ GenInv /\ [Next]_vars => GenInv'
<1> SUFFICES ASSUME TypeOK, GenInv, [Next]_vars PROVE GenInv'
  OBVIOUS
<1> USE DEF Goto
<1>1. ASSUME NEW w \in Waiters, Arm(w) \/ Poll(w) \/ TakeResult(w) \/ Listen(w)
      PROVE  GenInv'
  <2>1. CASE Arm(w)
    BY <2>1 DEF Arm, TypeOK, GenInv
  <2>2. CASE Poll(w) \/ TakeResult(w) \/ Listen(w)
    BY <2>2 DEF Poll, TakeResult, Listen, TypeOK, GenInv
  <2> QED BY <1>1, <2>1, <2>2
<1>2. ASSUME NEW w \in Waiters, LoadGeneration(w) PROVE GenInv'
  BY <1>2 DEF LoadGeneration, Complete, TypeOK, GenInv
<1>3. ASSUME NEW w \in Waiters, TryClaimPermit(w) PROVE GenInv'
  BY <1>3 DEF TryClaimPermit, Complete, TypeOK, GenInv
<1>4. ASSUME NEW w \in Waiters, PollListener(w) \/ Cancel(w) PROVE GenInv'
  BY <1>4 DEF PollListener, Cancel, TypeOK, GenInv
<1>5. ASSUME NEW n \in Producers,
             NotifyOne(n) \/ NotifyOneCoalesced(n) \/ NotifyAll(n) \/ EventNotify(n)
      PROVE  GenInv'
  BY <1>5 DEF NotifyOne, NotifyOneCoalesced, NotifyAll, EventNotify, TypeOK, GenInv
<1>6. CASE UNCHANGED vars
  BY <1>6 DEF vars, GenInv
<1> QED BY <1>1, <1>2, <1>3, <1>4, <1>5, <1>6 DEF Next, PollStep

LEMMA NextBroadcast ==
  TypeOK /\ ListInv /\ BroadcastInv /\ [Next]_vars => BroadcastInv'
<1> SUFFICES ASSUME TypeOK, ListInv, BroadcastInv, [Next]_vars PROVE BroadcastInv'
  OBVIOUS
<1> USE DEF Goto
<1>1. ASSUME NEW w \in Waiters, pc'[w] \notin {"claim", "poll", "parked"},
             \A v \in Waiters \ {w} : /\ pc'[v] = pc[v] /\ observed'[v] = observed[v]
                                      /\ v \in Range(list') => v \in Range(list),
             notified \ {w} \subseteq notified', UNCHANGED <<generation, npc>>
      PROVE  BroadcastInv'
  BY <1>1 DEF BroadcastInv, HasListener
<1>2. ASSUME NEW w \in Waiters, Arm(w) \/ Poll(w) \/ TakeResult(w) PROVE BroadcastInv'
  BY <1>1, <1>2 DEF Arm, Poll, TakeResult, TypeOK
<1>3. ASSUME NEW w \in Waiters, Cancel(w) PROVE BroadcastInv'
  BY <1>1, <1>3, Dropped DEF Cancel, TypeOK
<1>4. ASSUME NEW w \in Waiters, Listen(w) PROVE BroadcastInv'
  BY <1>1, <1>4, Registered DEF Listen, ListInv, TypeOK
<1>5. ASSUME NEW w \in Waiters, NEW g, Complete(w, g), UNCHANGED <<generation, npc>>
      PROVE  BroadcastInv'
  BY <1>1, <1>5, Dropped DEF Complete, TypeOK
<1>6. ASSUME NEW w \in Waiters, LoadGeneration(w), ~Complete(w, generation)
      PROVE  BroadcastInv'
  BY <1>6 DEF LoadGeneration, TypeOK, BroadcastInv, HasListener
<1>7. ASSUME NEW w \in Waiters, TryClaimPermit(w), ~Complete(w, seen[w])
      PROVE  BroadcastInv'
  BY <1>7 DEF TryClaimPermit, TypeOK, BroadcastInv, HasListener
<1>8. ASSUME NEW w \in Waiters, PollListener(w) PROVE BroadcastInv'
  <2>1. CASE w \in notified
    BY <1>1, <1>8, <2>1, UsedUp DEF PollListener, TypeOK
  <2>2. CASE w \notin notified
    BY <1>8, <2>2 DEF PollListener, TypeOK, BroadcastInv, HasListener
  <2> QED BY <2>1, <2>2
<1>9. ASSUME NEW n \in Producers, NotifyOne(n) \/ NotifyOneCoalesced(n) PROVE BroadcastInv'
  <2>1. /\ UNCHANGED <<pc, observed, generation, list, notified>>
        /\ \A m \in Producers : npc[m] = All => m # n \/ All = 0 \/ npc'[m] = All
        /\ \A m \in Producers \ {n} : npc'[m] = npc[m]
    BY <1>9 DEF NotifyOne, NotifyOneCoalesced, Begin, TypeOK
  <2>2. All = 0 => Waiters = {}
    BY WaitersAssumption, FS_EmptySet DEF All
  <2> QED BY <2>1, <2>2 DEF BroadcastInv, HasListener
<1>10. ASSUME NEW n \in Producers, NotifyAll(n) PROVE BroadcastInv'
  BY <1>10 DEF NotifyAll, TypeOK, BroadcastInv
<1>11. ASSUME NEW n \in Producers, EventNotify(n) PROVE BroadcastInv'
  <2>1. /\ UNCHANGED <<pc, observed, generation, list>>
        /\ \A m \in Producers \ {n} : npc'[m] = npc[m]
        /\ notified' = Reached(list, notified, npc[n])
    BY <1>11 DEF EventNotify, TypeOK
  <2>2. list \in Seq(Waiters) /\ Distinct(list) /\ notified \in SUBSET Range(list)
    BY DEF TypeOK, Distinct
  <2>3. notified \subseteq notified'
    BY <2>1, <2>2, ReachedBounds
  <2>4. npc[n] = All => notified' = Range(list)
    BY <2>1, <2>2, ReachedAll
  <2> QED BY <2>1, <2>3, <2>4 DEF BroadcastInv, HasListener
<1>12. CASE UNCHANGED vars
  BY <1>12 DEF vars, BroadcastInv, HasListener
<1>13. ASSUME NEW w \in Waiters, LoadGeneration(w) \/ TryClaimPermit(w)
       PROVE  UNCHANGED <<generation, npc>>
  BY <1>13 DEF LoadGeneration, TryClaimPermit
<1> QED
  BY <1>2, <1>3, <1>4, <1>5, <1>6, <1>7, <1>8, <1>9, <1>10, <1>11, <1>12, <1>13
     DEF Next, PollStep

LEMMA NextPermit ==
  TypeOK /\ ListInv /\ GenInv /\ PermitInv /\ [Next]_vars => PermitInv'
<1> SUFFICES ASSUME TypeOK, ListInv, GenInv, PermitInv, [Next]_vars PROVE PermitInv'
  OBVIOUS
<1> USE AllIsNat DEF Goto
<1>1. ASSUME NEW w \in Waiters, Poll(w) \/ Listen(w) PROVE PermitInv'
  <2>1. UNCHANGED <<doubled, permits, generation>> /\ pc'[w] = "gen"
    BY <1>1 DEF Poll, Listen, TypeOK
  <2> QED BY <2>1 DEF PermitInv
<1>2. ASSUME NEW w \in Waiters, Arm(w) \/ TakeResult(w) PROVE PermitInv'
  <2>1. /\ UNCHANGED <<doubled, permits, generation, npc, notified, list>>
        /\ \A v \in Waiters : pc[v] \in {"gen", "claim", "listen"} => pc'[v] = pc[v]
    BY <1>2 DEF Arm, TakeResult, TypeOK
  <2> QED BY <2>1 DEF PermitInv
<1>3. ASSUME NEW w \in Waiters, LoadGeneration(w) PROVE PermitInv'
  <2>1. UNCHANGED <<doubled, permits, generation, npc>>
    BY <1>3 DEF LoadGeneration
  <2>2. CASE generation = 0
    <3>1. observed[w] = 0
      <4>1. pc[w] = "gen" /\ observed[w] \in Nat
        BY <1>3 DEF LoadGeneration, TypeOK
      <4>2. observed[w] <= generation
        BY <4>1 DEF GenInv
      <4> QED BY <2>2, <4>1, <4>2
    <3>2. pc'[w] = "claim"
      BY <1>3, <2>2, <3>1 DEF LoadGeneration, TypeOK
    <3> QED BY <2>1, <3>2 DEF PermitInv
  <2> QED BY <2>1, <2>2 DEF PermitInv
<1>4. ASSUME NEW w \in Waiters, TryClaimPermit(w) PROVE PermitInv'
  <2>1. doubled' = doubled /\ (permits' = permits - 1 \/ permits' = 0)
    BY <1>4 DEF TryClaimPermit
  <2> QED BY <2>1 DEF PermitInv, TypeOK
<1>5. ASSUME NEW w \in Waiters, PollListener(w) PROVE PermitInv'
  <2>1. CASE w \in notified
    <3>1. UNCHANGED <<doubled, permits, generation>> /\ pc'[w] = "gen"
      BY <1>5, <2>1 DEF PollListener, TypeOK
    <3> QED BY <3>1 DEF PermitInv
  <2>2. CASE w \notin notified
    <3>1. /\ UNCHANGED <<doubled, permits, generation, npc, notified, list>>
          /\ \A v \in Waiters : pc[v] \in {"gen", "claim", "listen"} => pc'[v] = pc[v]
      BY <1>5, <2>2 DEF PollListener, TypeOK
    <3> QED BY <3>1 DEF PermitInv
  <2> QED BY <2>1, <2>2
<1>6. ASSUME NEW w \in Waiters, Cancel(w) PROVE PermitInv'
  <2>1. /\ UNCHANGED <<doubled, permits, generation, npc>>
        /\ \A v \in Waiters : pc[v] \in {"gen", "claim", "listen"} => pc'[v] = pc[v]
    BY <1>6 DEF Cancel, TypeOK
  <2>2. /\ list' \in Seq(Waiters) /\ Range(list') = Range(list) \ {w}
        /\ notified \ {w} \subseteq notified'
        /\ w \in notified /\ list' # << >> => notified' # {}
    BY <1>6, Dropped DEF Cancel
  <2>3. list = << >> => list' = << >>
    BY <2>2, RangeIs DEF TypeOK
  <2>4. notified # {} => notified' # {} \/ list' = << >>
    BY <2>2
  <2> QED BY <2>1, <2>3, <2>4 DEF PermitInv
<1>7. ASSUME NEW n \in Producers, NotifyOne(n) PROVE PermitInv'
  <2>1. npc'[n] = 1 /\ permits' = permits + 1 /\ (~doubled' => permits = 0)
    BY <1>7 DEF NotifyOne, TypeOK
  <2> QED BY <2>1 DEF PermitInv
<1>8. ASSUME NEW n \in Producers, NotifyOneCoalesced(n) PROVE PermitInv'
  <2>1. CASE permits = 0
    <3>1. npc'[n] = 1 /\ permits' = 1 /\ doubled' = doubled
      BY <1>8, <2>1 DEF NotifyOneCoalesced, TypeOK
    <3> QED BY <3>1 DEF PermitInv
  <2>2. CASE permits # 0
    <3>1. UNCHANGED <<permits, npc, doubled, generation, list, notified, pc>>
      BY <1>8, <2>2 DEF NotifyOneCoalesced
    <3> QED BY <3>1 DEF PermitInv
  <2> QED BY <2>1, <2>2
<1>9. ASSUME NEW n \in Producers, NotifyAll(n) PROVE PermitInv'
  <2>1. generation' # 0 /\ permits' = permits /\ doubled' = doubled
    BY <1>9 DEF NotifyAll, TypeOK
  <2> QED BY <2>1 DEF PermitInv
<1>10. ASSUME NEW n \in Producers, EventNotify(n) PROVE PermitInv'
  <2>1. /\ UNCHANGED <<doubled, permits, generation, list, pc>>
        /\ notified' = Reached(list, notified, npc[n]) /\ npc[n] \in Nat /\ npc[n] # 0
    BY <1>10 DEF EventNotify, TypeOK
  <2>2. list # << >> => notified' # {}
    BY <2>1, ReachedSome DEF TypeOK
  <2> QED BY <2>1, <2>2 DEF PermitInv
<1>11. CASE UNCHANGED vars
  BY <1>11 DEF vars, PermitInv
<1> QED
  BY <1>1, <1>2, <1>3, <1>4, <1>5, <1>6, <1>7, <1>8, <1>9, <1>10, <1>11 DEF Next, PollStep

LEMMA InitNotify == Init => NotifyInv
<1> SUFFICES ASSUME Init PROVE NotifyInv
  OBVIOUS
<1>1. TypeOK
  <2>1. list \in Seq(Waiters) /\ Len(list) = 0 /\ notified \subseteq Range(list)
    BY DEF Init
  <2>2. pc \in [Waiters -> {"idle", "armed", "gen", "claim", "listen", "poll", "parked", "done"}]
    BY DEF Init
  <2>3. /\ permits \in Nat /\ generation \in Nat
        /\ observed \in [Waiters -> Nat] /\ seen \in [Waiters -> Nat]
        /\ waits \in [Waiters -> 0 .. MaxWaits]
    BY BudgetAssumption DEF Init
  <2>4. npc \in [Producers -> {0, 1, All}] /\ sent \in [Producers -> 0 .. MaxNotifies]
    BY BudgetAssumption DEF Init
  <2>5. doubled \in BOOLEAN
    BY DEF Init
  <2> QED BY <2>1, <2>2, <2>3, <2>4, <2>5 DEF TypeOK
<1>2. ListInv /\ GenInv /\ BroadcastInv /\ PermitInv
  BY DEF Init, ListInv, GenInv, BroadcastInv, PermitInv, HasListener, Range
<1> QED BY <1>1, <1>2 DEF NotifyInv

LEMMA NextNotify == NotifyInv /\ [Next]_vars => NotifyInv'
  BY NextList, NextGen, NextBroadcast, NextPermit DEF NotifyInv

-----------------------------------------------------------------------------
(* The futex table around it.                                              *)

Threads == {w \in Waiters : stage[w] # "out"}

\* A thread's place in futex_wait and its wait's place in poll_notified.
StageInv ==
  /\ waiters = Cardinality(Threads)
  /\ \A w \in Waiters :
       /\ stage[w] \in {"out", "registered", "leaving"} => pc[w] = "idle"
       /\ stage[w] = "armed" => pc[w] = "armed"
       /\ stage[w] = "waiting" => pc[w] # "idle"

\* Once a wake-all has followed the store, every wait that compared before it
\* is behind the generation.
SleeperInv ==
  /\ user = "plain" => word = 0
  /\ user = "futex" => StageInv
  /\ word = 1 /\ cleared =>
       \A w \in Waiters : stage[w] = "waiting" /\ pc[w] # "done" => observed[w] # generation

TableType ==
  /\ word \in {0, 1} /\ stores \in 0 .. MaxStores /\ waiters \in Nat /\ cleared \in BOOLEAN
  /\ stage \in [Waiters -> {"out", "registered", "armed", "waiting", "leaving"}]
  /\ user \in {"plain", "futex"}

SyncInv == NotifyInv /\ TableType /\ SleeperInv

USE DEF tableVars

LEMMA ThreadsFinite == IsFiniteSet(Threads) /\ Cardinality(Threads) \in Nat
<1>1. Threads \subseteq Waiters
  BY DEF Threads
<1> QED BY <1>1, WaitersAssumption, FS_Subset, FS_CardinalityType

\* All that the table does to its Notify, except for dropping the entry, is
\* one of Notify's own steps.
LEMMA FutexUsesNotify ==
  ASSUME FutexNext
  PROVE  [Next]_vars \/ \E w \in Waiters : CompleteWait(w)
<1>1. ASSUME NEW w \in Waiters, Woken(w) PROVE TakeResult(w)
  BY <1>1 DEF Woken, TakeResult
<1>2. ASSUME NEW w \in Waiters,
             PrepareWait(w) \/ ArmWait(w) \/ Compare(w) \/ PollWait(w) \/ Woken(w) \/ TimeOut(w)
      PROVE  [Next]_vars
  BY <1>1, <1>2 DEF PrepareWait, ArmWait, Compare, PollWait, TimeOut, Next
<1>3. ASSUME NEW n \in Producers, FutexWake(n) \/ FutexWakeAll(n) \/ FinishWake(n)
      PROVE  [Next]_vars
  BY <1>3 DEF FutexWake, FutexWakeAll, FinishWake, Next
<1>4. ASSUME NEW v, Store(v) PROVE [Next]_vars
  BY <1>4 DEF Store
<1> QED BY <1>2, <1>3, <1>4 DEF FutexNext

\* The last thread to leave is alone: nobody else has a wait on the entry.
LEMMA LastAlone ==
  ASSUME StageInv, NEW w \in Waiters, stage[w] = "leaving", waiters = 1
  PROVE  \A v \in Waiters : pc[v] = "idle" /\ (v # w => stage[v] = "out")
<1>1. Cardinality(Threads) = 1 /\ w \in Threads
  BY DEF StageInv, Threads
<1>2. PICK x : Threads = {x}
  BY <1>1, ThreadsFinite, FS_Singleton
<1>3. \A v \in Waiters : v # w => stage[v] = "out"
  BY <1>1, <1>2 DEF Threads
<1> QED BY <1>3 DEF StageInv

LEMMA CompleteWaitNotify ==
  ASSUME NotifyInv, StageInv, TableType, NEW w \in Waiters, CompleteWait(w)
  PROVE  NotifyInv'
<1>1. UNCHANGED <<list, notified, pc, observed, seen, waits, npc, sent, doubled>>
  BY DEF CompleteWait
<1>2. CASE waiters = 1
  <2>1. permits' = 0 /\ generation' = 0 /\ stage[w] = "leaving"
    BY <1>2 DEF CompleteWait, At
  <2>2. \A v \in Waiters : pc[v] = "idle"
    BY <1>2, <2>1, LastAlone
  <2>3. TypeOK'
    BY <1>1, <2>1 DEF NotifyInv, TypeOK
  <2>4. ListInv'
    BY <1>1 DEF NotifyInv, ListInv, HasListener
  <2>5. GenInv' /\ BroadcastInv' /\ PermitInv'
    BY <1>1, <2>1, <2>2 DEF GenInv, BroadcastInv, PermitInv
  <2> QED BY <2>3, <2>4, <2>5 DEF NotifyInv
<1>3. CASE waiters # 1
  <2>1. UNCHANGED vars
    BY <1>1, <1>3 DEF CompleteWait, vars
  <2> QED BY <2>1, NextNotify
<1> QED BY <1>2, <1>3

LEMMA TableTypeStep == NotifyInv /\ TableType /\ SleeperInv /\ [SyncNext]_syncVars => TableType'
<1> SUFFICES ASSUME TableType, SleeperInv, [SyncNext]_syncVars PROVE TableType'
  OBVIOUS
<1> USE StoresAssumption
<1>1. CASE UNCHANGED syncVars \/ (user = "plain" /\ UNCHANGED <<tableVars, user>>)
  BY <1>1 DEF syncVars, futexVars, TableType
<1>2. ASSUME NEW w \in Waiters, user = "futex", UNCHANGED user,
             PrepareWait(w) \/ ArmWait(w) \/ Compare(w) \/ PollWait(w) \/ Woken(w) \/ TimeOut(w)
      PROVE  TableType'
  BY <1>2 DEF PrepareWait, ArmWait, Compare, PollWait, Woken, TimeOut, At, TableType
<1>3. ASSUME NEW w \in Waiters, user = "futex", UNCHANGED user, CompleteWait(w)
      PROVE  TableType'
  <2>1. w \in Threads /\ waiters = Cardinality(Threads)
    BY <1>3 DEF CompleteWait, At, SleeperInv, StageInv, Threads
  <2>2. Cardinality(Threads) # 0
    BY <2>1, ThreadsFinite, FS_EmptySet
  <2>3. waiters' \in Nat
    BY <1>3, <2>1, <2>2, ThreadsFinite DEF CompleteWait
  <2> QED BY <1>3, <2>3 DEF CompleteWait, At, TableType
<1>4. ASSUME NEW n \in Producers, UNCHANGED user, FutexWake(n) \/ FutexWakeAll(n) \/ FinishWake(n)
      PROVE  TableType'
  <2>1. UNCHANGED <<word, stores, waiters, stage>>
    BY <1>4 DEF FutexWake, FutexWakeAll, FinishWake
  <2>2. cleared' \in BOOLEAN
    BY <1>4 DEF FutexWake, FutexWakeAll, FinishWake, TableType
  <2> QED BY <1>4, <2>1, <2>2 DEF TableType
<1>5. ASSUME NEW v \in {0, 1}, UNCHANGED user, Store(v) PROVE TableType'
  <2>1. word' \in {0, 1} /\ stores' \in 0 .. MaxStores
    BY <1>5 DEF Store, TableType
  <2>2. cleared' \in BOOLEAN
    BY <1>5 DEF Store
  <2>3. UNCHANGED <<waiters, stage>>
    BY <1>5 DEF Store
  <2> QED BY <1>5, <2>1, <2>2, <2>3 DEF TableType
<1> QED BY <1>1, <1>2, <1>3, <1>4, <1>5 DEF SyncNext, FutexNext

-----------------------------------------------------------------------------
(* Threads and sleepers.                                                   *)

\* A thread that moves from one place inside futex_wait to another is still
\* counted once.
LEMMA ThreadsStay ==
  ASSUME TableType, NEW w \in Waiters, NEW there \in {"registered", "armed", "waiting", "leaving"},
         stage[w] # "out", stage' = [stage EXCEPT ![w] = there]
  PROVE  Threads' = Threads
  BY DEF Threads, TableType

\* Steps of one wait: the others are where they were.
OthersStay(w) == \A v \in Waiters \ {w} : pc'[v] = pc[v] /\ observed'[v] = observed[v]

LEMMA WaitStaysItsOwn ==
  ASSUME TypeOK, NEW w \in Waiters,
         Arm(w) \/ Poll(w) \/ PollStep(w) \/ TakeResult(w) \/ Cancel(w)
  PROVE  OthersStay(w) /\ generation' = generation
<1> USE DEF Goto, TypeOK, OthersStay
<1>1. CASE Arm(w)
  BY <1>1 DEF Arm
<1>2. CASE Poll(w)
  BY <1>2 DEF Poll
<1>3. CASE LoadGeneration(w)
  BY <1>3 DEF LoadGeneration, Complete
<1>4. CASE TryClaimPermit(w)
  BY <1>4 DEF TryClaimPermit, Complete
<1>5. CASE Listen(w) \/ PollListener(w)
  BY <1>5 DEF Listen, PollListener
<1>6. CASE TakeResult(w)
  BY <1>6 DEF TakeResult
<1>7. CASE Cancel(w)
  BY <1>7 DEF Cancel
<1> QED BY <1>1, <1>2, <1>3, <1>4, <1>5, <1>6, <1>7 DEF PollStep

\* A poll keeps the generation its wait was armed at until it completes.
LEMMA PollKeepsArming ==
  ASSUME TypeOK, NEW w \in Waiters, Poll(w) \/ PollStep(w)
  PROVE  /\ pc[w] # "done" /\ pc'[w] # "idle"
         /\ pc'[w] # "done" => observed'[w] = observed[w]
<1> USE DEF Goto, TypeOK
<1>1. CASE Poll(w)
  BY <1>1 DEF Poll
<1>2. CASE LoadGeneration(w)
  BY <1>2 DEF LoadGeneration, Complete
<1>3. CASE TryClaimPermit(w)
  BY <1>3 DEF TryClaimPermit, Complete
<1>4. CASE Listen(w) \/ PollListener(w)
  BY <1>4 DEF Listen, PollListener
<1> QED BY <1>1, <1>2, <1>3, <1>4 DEF PollStep

LEMMA StageStep ==
  ASSUME NotifyInv, TableType, StageInv, FutexNext
  PROVE  StageInv'
<1> DEFINE Place(w) == /\ stage[w] \in {"out", "registered", "leaving"} => pc[w] = "idle"
                       /\ stage[w] = "armed" => pc[w] = "armed"
                       /\ stage[w] = "waiting" => pc[w] # "idle"
<1>0. TypeOK /\ waiters = Cardinality(Threads) /\ \A w \in Waiters : Place(w)
  BY DEF NotifyInv, StageInv
<1> SUFFICES waiters' = Cardinality(Threads') /\ \A w \in Waiters : Place(w)'
  BY DEF StageInv
<1>1. ASSUME NEW w \in Waiters, OthersStay(w), waiters' = waiters, Threads' = Threads,
             \A v \in Waiters \ {w} : stage'[v] = stage[v], Place(w)'
      PROVE  waiters' = Cardinality(Threads') /\ \A v \in Waiters : Place(v)'
  <2>1. waiters' = Cardinality(Threads')
    BY <1>0, <1>1, Zenon
  <2>2. ASSUME NEW v \in Waiters \ {w} PROVE Place(v)'
    BY <1>0, <1>1, <2>2 DEF OthersStay
  <2> QED BY <1>1, <2>1, <2>2
<1>2. ASSUME NEW w \in Waiters, PrepareWait(w)
      PROVE  waiters' = Cardinality(Threads') /\ \A v \in Waiters : Place(v)'
  <2>1. /\ UNCHANGED pc /\ stage[w] = "out" /\ stage' = [stage EXCEPT ![w] = "registered"]
        /\ waiters' = waiters + 1
    BY <1>2 DEF PrepareWait, At, vars
  <2>2. Threads' = Threads \cup {w} /\ w \notin Threads
    BY <2>1 DEF Threads, TableType
  <2>3. Cardinality(Threads \cup {w}) = Cardinality(Threads) + 1
    BY <2>2, ThreadsFinite, FS_AddElement
  <2>4. Cardinality(Threads') = Cardinality(Threads) + 1
    BY <2>2, <2>3, Zenon
  <2>5. \A v \in Waiters : Place(v)'
    BY <1>0, <2>1 DEF TableType
  <2> QED BY <1>0, <2>1, <2>4, <2>5
<1>3. ASSUME NEW w \in Waiters, ArmWait(w)
      PROVE  waiters' = Cardinality(Threads') /\ \A v \in Waiters : Place(v)'
  <2>1. /\ stage[w] = "registered" /\ stage' = [stage EXCEPT ![w] = "armed"]
        /\ waiters' = waiters /\ Arm(w)
    BY <1>3 DEF ArmWait, At
  <2>2. pc'[w] = "armed" /\ OthersStay(w)
    BY <1>0, <2>1, WaitStaysItsOwn DEF Arm, Goto, TypeOK
  <2>3. Threads' = Threads
    BY <2>1, ThreadsStay
  <2>4. Place(w)' /\ \A v \in Waiters \ {w} : stage'[v] = stage[v]
    BY <2>1, <2>2 DEF TableType
  <2> QED BY <1>1, <2>1, <2>2, <2>3, <2>4
<1>4. ASSUME NEW w \in Waiters, Compare(w), word = 0
      PROVE  waiters' = Cardinality(Threads') /\ \A v \in Waiters : Place(v)'
  <2>1. /\ stage[w] = "armed" /\ stage' = [stage EXCEPT ![w] = "waiting"]
        /\ waiters' = waiters /\ UNCHANGED <<pc, observed>>
    BY <1>4 DEF Compare, At, vars
  <2>2. Threads' = Threads
    BY <2>1, ThreadsStay
  <2>3. Place(w)' /\ \A v \in Waiters \ {w} : stage'[v] = stage[v]
    BY <1>0, <2>1 DEF TableType
  <2> QED BY <1>1, <2>1, <2>2, <2>3 DEF OthersStay
<1>5. ASSUME NEW w \in Waiters, (Compare(w) /\ word # 0) \/ Woken(w) \/ TimeOut(w)
      PROVE  waiters' = Cardinality(Threads') /\ \A v \in Waiters : Place(v)'
  <2>1. /\ stage[w] # "out" /\ stage' = [stage EXCEPT ![w] = "leaving"]
        /\ waiters' = waiters
    BY <1>5 DEF Compare, Woken, TimeOut, At
  <2>2. pc'[w] = "idle"
    BY <1>0, <1>5 DEF Compare, Woken, TimeOut, Cancel, Goto, TypeOK
  <2>3. OthersStay(w)
    <3>1. CASE Woken(w)
      BY <1>0, <3>1 DEF Woken, Goto, TypeOK, OthersStay
    <3>2. CASE Cancel(w)
      BY <1>0, <3>2, WaitStaysItsOwn
    <3> QED BY <1>5, <3>1, <3>2 DEF Compare, TimeOut
  <2>4. Threads' = Threads
    BY <2>1, ThreadsStay
  <2>5. Place(w)' /\ \A v \in Waiters \ {w} : stage'[v] = stage[v]
    BY <2>1, <2>2 DEF TableType
  <2> QED BY <1>1, <2>1, <2>3, <2>4, <2>5
<1>6. ASSUME NEW w \in Waiters, PollWait(w)
      PROVE  waiters' = Cardinality(Threads') /\ \A v \in Waiters : Place(v)'
  <2>1. stage[w] = "waiting" /\ UNCHANGED <<stage, waiters>> /\ (Poll(w) \/ PollStep(w))
    BY <1>6 DEF PollWait
  <2>2. OthersStay(w) /\ pc'[w] # "idle"
    BY <1>0, <2>1, WaitStaysItsOwn, PollKeepsArming
  <2>3. Threads' = Threads
    BY <2>1 DEF Threads
  <2> QED BY <1>1, <2>1, <2>2, <2>3
<1>7. ASSUME NEW w \in Waiters, CompleteWait(w)
      PROVE  waiters' = Cardinality(Threads') /\ \A v \in Waiters : Place(v)'
  <2>1. /\ UNCHANGED pc /\ stage[w] = "leaving" /\ stage' = [stage EXCEPT ![w] = "out"]
        /\ waiters' = waiters - 1
    BY <1>7 DEF CompleteWait, At, waiterVars
  <2>2. Threads' = Threads \ {w} /\ w \in Threads
    BY <2>1 DEF Threads, TableType
  <2>3. Cardinality(Threads \ {w}) = Cardinality(Threads) - 1
    BY <2>2, ThreadsFinite, FS_RemoveElement
  <2>4. Cardinality(Threads') = Cardinality(Threads) - 1
    BY <2>2, <2>3, Zenon
  <2>5. \A v \in Waiters : Place(v)'
    BY <1>0, <2>1 DEF TableType
  <2> QED BY <1>0, <2>1, <2>4, <2>5
<1>8. ASSUME NEW n \in Producers, FutexWake(n) \/ FutexWakeAll(n) \/ FinishWake(n)
      PROVE  UNCHANGED <<pc, stage, waiters>>
  BY <1>8 DEF FutexWake, FutexWakeAll, FinishWake, NotifyOne, NotifyAll, EventNotify, waiterVars, vars
<1>9. ASSUME NEW v, Store(v) PROVE UNCHANGED <<pc, stage, waiters>>
  BY <1>9 DEF Store, vars
<1>10. CASE UNCHANGED <<pc, stage, waiters>>
  <2>1. Threads' = Threads
    BY <1>10 DEF Threads
  <2>2. waiters' = Cardinality(Threads')
    BY <1>0, <1>10, <2>1, Zenon
  <2> QED BY <1>0, <1>10, <2>2
<1> QED BY <1>2, <1>3, <1>4, <1>5, <1>6, <1>7, <1>8, <1>9, <1>10 DEF FutexNext

\* With no thread in the table nobody waits.
LEMMA NobodyWaits ==
  ASSUME StageInv, waiters = 0, NEW w \in Waiters
  PROVE  stage[w] = "out"
<1>1. Threads = {}
  BY ThreadsFinite, FS_EmptySet DEF StageInv
<1> QED BY <1>1 DEF Threads

\* The wait of a thread that compared before the wake-all.
Behind(w) == stage[w] = "waiting" /\ pc[w] # "done" => observed[w] # generation

LEMMA SleeperStep ==
  ASSUME NotifyInv, TableType, StageInv, FutexNext,
         word = 1 /\ cleared => \A w \in Waiters : Behind(w)
  PROVE  (word = 1 /\ cleared)' => \A w \in Waiters : Behind(w)'
<1>0. TypeOK /\ GenInv
  BY DEF NotifyInv
<1> SUFFICES ASSUME word' = 1, cleared' PROVE \A w \in Waiters : Behind(w)'
  OBVIOUS
<1>1. ASSUME NEW w \in Waiters, OthersStay(w), UNCHANGED <<word, cleared, generation>>,
             \A v \in Waiters \ {w} : stage'[v] = stage[v], Behind(w)'
      PROVE  \A v \in Waiters : Behind(v)'
  <2>1. ASSUME NEW v \in Waiters \ {w} PROVE Behind(v)'
    BY <1>1, <2>1 DEF OthersStay, Behind
  <2> QED BY <1>1, <2>1
<1>2. ASSUME NEW w \in Waiters, NEW there, there # "waiting", stage' = [stage EXCEPT ![w] = there]
      PROVE  Behind(w)' /\ \A v \in Waiters \ {w} : stage'[v] = stage[v]
  BY <1>2 DEF TableType, Behind
<1>3. ASSUME NEW w \in Waiters, PrepareWait(w) PROVE \A v \in Waiters : Behind(v)'
  <2>1. /\ UNCHANGED <<pc, observed, generation, word, cleared>>
        /\ stage' = [stage EXCEPT ![w] = "registered"]
    BY <1>3 DEF PrepareWait, At, vars
  <2> QED BY <1>1, <1>2, <2>1 DEF OthersStay
<1>4. ASSUME NEW w \in Waiters, ArmWait(w) PROVE \A v \in Waiters : Behind(v)'
  <2>1. Arm(w) /\ UNCHANGED <<word, cleared>> /\ stage' = [stage EXCEPT ![w] = "armed"]
    BY <1>4 DEF ArmWait, At
  <2>2. OthersStay(w) /\ generation' = generation
    BY <1>0, <2>1, WaitStaysItsOwn
  <2> QED BY <1>1, <1>2, <2>1, <2>2
<1>5. ASSUME NEW w \in Waiters, Compare(w) PROVE \A v \in Waiters : Behind(v)'
  <2>1. UNCHANGED word /\ UNCHANGED cleared
    BY <1>5, Zenon DEF Compare
  <2>10. word # 0
    BY <2>1
  <2>2. Cancel(w) /\ stage' = [stage EXCEPT ![w] = "leaving"]
    BY <1>5, <2>10 DEF Compare, At
  <2>3. OthersStay(w) /\ generation' = generation
    BY <1>0, <2>2, WaitStaysItsOwn
  <2> QED BY <1>1, <1>2, <2>1, <2>2, <2>3
<1>6. ASSUME NEW w \in Waiters, PollWait(w) PROVE \A v \in Waiters : Behind(v)'
  <2>1. UNCHANGED <<word, cleared, stage>> /\ (Poll(w) \/ PollStep(w))
    BY <1>6 DEF PollWait
  <2>2. OthersStay(w) /\ generation' = generation
    BY <1>0, <2>1, WaitStaysItsOwn
  <2>3. pc[w] # "done" /\ (pc'[w] # "done" => observed'[w] = observed[w])
    BY <1>0, <2>1, PollKeepsArming
  <2>4. Behind(w)'
    BY <2>1, <2>2, <2>3 DEF Behind
  <2> QED BY <1>1, <2>1, <2>2, <2>4
<1>7. ASSUME NEW w \in Waiters, Woken(w) PROVE \A v \in Waiters : Behind(v)'
  <2>1. /\ UNCHANGED <<generation, word, cleared>> /\ stage' = [stage EXCEPT ![w] = "leaving"]
        /\ OthersStay(w)
    BY <1>0, <1>7 DEF Woken, At, Goto, OthersStay, TypeOK
  <2> QED BY <1>1, <1>2, <2>1
<1>8. ASSUME NEW w \in Waiters, TimeOut(w) PROVE \A v \in Waiters : Behind(v)'
  <2>1. Cancel(w) /\ UNCHANGED <<word, cleared>> /\ stage' = [stage EXCEPT ![w] = "leaving"]
    BY <1>8 DEF TimeOut, At
  <2>2. OthersStay(w) /\ generation' = generation
    BY <1>0, <2>1, WaitStaysItsOwn
  <2> QED BY <1>1, <1>2, <2>1, <2>2
<1>9. ASSUME NEW w \in Waiters, CompleteWait(w) PROVE \A v \in Waiters : Behind(v)'
  <2>1. /\ UNCHANGED <<pc, observed, word, cleared>> /\ stage[w] = "leaving"
        /\ stage' = [stage EXCEPT ![w] = "out"]
    BY <1>9 DEF CompleteWait, At, waiterVars
  <2>2. CASE waiters = 1
    <3>1. \A v \in Waiters : v # w => stage[v] = "out"
      BY <2>1, <2>2, LastAlone
    <3> QED BY <2>1, <3>1 DEF Behind, TableType
  <2>3. CASE waiters # 1
    <3>1. generation' = generation
      BY <1>9, <2>3 DEF CompleteWait
    <3> QED BY <1>1, <1>2, <2>1, <3>1 DEF OthersStay
  <2> QED BY <2>2, <2>3
<1>10. ASSUME NEW n \in Producers, FutexWake(n) \/ FinishWake(n)
       PROVE  \A v \in Waiters : Behind(v)'
  <2>1. UNCHANGED <<pc, observed, generation, word, cleared, stage>>
    BY <1>10 DEF FutexWake, FinishWake, NotifyOne, EventNotify, waiterVars
  <2> QED BY <2>1 DEF Behind
<1>11. ASSUME NEW n \in Producers, FutexWakeAll(n) PROVE \A v \in Waiters : Behind(v)'
  <2>1. CASE waiters > 0 /\ NotifyAll(n)
    <3>1. /\ UNCHANGED <<pc, observed, stage>> /\ generation' = generation + 1
      BY <1>11, <2>1 DEF FutexWakeAll, NotifyAll, waiterVars
    <3>2. ASSUME NEW v \in Waiters, stage[v] = "waiting" PROVE observed[v] # generation + 1
      <4>1. pc[v] # "idle"
        BY <3>2 DEF StageInv
      <4>2. observed[v] <= generation /\ observed[v] \in Nat /\ generation \in Nat
        BY <1>0, <4>1 DEF GenInv, TypeOK
      <4> QED BY <4>2
    <3> QED BY <3>1, <3>2 DEF Behind
  <2>2. CASE waiters = 0
    <3>1. UNCHANGED stage
      BY <1>11 DEF FutexWakeAll
    <3>2. \A v \in Waiters : stage[v] = "out"
      BY <2>2, NobodyWaits
    <3> QED BY <3>1, <3>2 DEF Behind
  <2> QED BY <1>11, <2>1, <2>2 DEF FutexWakeAll
<1>12. ASSUME NEW v, Store(v) PROVE FALSE
  BY <1>12 DEF Store
<1> QED
  BY <1>3, <1>4, <1>5, <1>6, <1>7, <1>8, <1>9, <1>10, <1>11, <1>12 DEF FutexNext

-----------------------------------------------------------------------------
LEMMA SyncInvStart == SyncInit => SyncInv
<1> SUFFICES ASSUME SyncInit PROVE SyncInv
  OBVIOUS
<1>1. NotifyInv
  BY InitNotify DEF SyncInit, FutexInit
<1>2. TableType
  <2>1. cleared \in BOOLEAN
    BY DEF SyncInit, FutexInit
  <2>2. 0 \in 0 .. MaxStores
    BY StoresAssumption
  <2>3. stage \in [Waiters -> {"out", "registered", "armed", "waiting", "leaving"}]
    BY DEF SyncInit, FutexInit
  <2> QED BY <2>1, <2>2, <2>3 DEF SyncInit, FutexInit, TableType
<1>3. word = 0 /\ waiters = 0 /\ \A w \in Waiters : stage[w] = "out" /\ pc[w] = "idle"
  BY DEF SyncInit, FutexInit, Init
<1>4. Threads = {}
  BY <1>3 DEF Threads
<1>5. Cardinality(Threads) = 0
  BY <1>4, FS_EmptySet, Zenon
<1>6. StageInv
  BY <1>3, <1>5 DEF StageInv
<1> QED BY <1>1, <1>2, <1>3, <1>6 DEF SyncInv, SleeperInv

LEMMA SyncInvStep == SyncInv /\ [SyncNext]_syncVars => SyncInv'
<1> SUFFICES ASSUME SyncInv, [SyncNext]_syncVars PROVE SyncInv'
  OBVIOUS
<1>0. NotifyInv /\ TableType /\ SleeperInv
  BY DEF SyncInv
<1>1. TableType'
  BY <1>0, TableTypeStep
<1>2. CASE user = "plain" /\ UNCHANGED user /\ Next /\ UNCHANGED tableVars
  <2>1. NotifyInv'
    BY <1>0, <1>2, NextNotify
  <2>2. SleeperInv'
    BY <1>0, <1>2 DEF SleeperInv
  <2> QED BY <1>1, <2>1, <2>2 DEF SyncInv
<1>3. CASE user = "futex" /\ UNCHANGED user /\ FutexNext
  <2>1. StageInv
    BY <1>0, <1>3 DEF SleeperInv
  <2>2. NotifyInv'
    <3>1. CASE [Next]_vars
      BY <1>0, <3>1, NextNotify
    <3>2. CASE \E w \in Waiters : CompleteWait(w)
      BY <1>0, <2>1, <3>2, CompleteWaitNotify
    <3> QED BY <1>3, <3>1, <3>2, FutexUsesNotify
  <2>3. StageInv'
    BY <1>0, <1>3, <2>1, StageStep
  <2>4. (word = 1 /\ cleared)' => \A w \in Waiters : Behind(w)'
    <3>1. word = 1 /\ cleared => \A w \in Waiters : Behind(w)
      BY <1>0 DEF SleeperInv, Behind
    <3> QED BY <1>0, <1>3, <2>1, <3>1, SleeperStep
  <2>5. SleeperInv'
    BY <1>3, <2>3, <2>4 DEF SleeperInv, Behind
  <2> QED BY <1>1, <2>2, <2>5 DEF SyncInv
<1>4. CASE UNCHANGED syncVars
  <2>1. UNCHANGED vars /\ UNCHANGED <<tableVars, user>>
    BY <1>4 DEF syncVars, futexVars
  <2>2. NotifyInv'
    BY <1>0, <2>1, NextNotify
  <2>3. Threads' = Threads /\ UNCHANGED <<pc, observed, generation>>
    BY <2>1 DEF Threads, vars
  <2>4. Cardinality(Threads') = Cardinality(Threads)
    BY <2>3, Zenon
  <2>5. StageInv => StageInv'
    BY <2>1, <2>3, <2>4 DEF StageInv
  <2>6. SleeperInv'
    BY <1>0, <2>1, <2>3, <2>5 DEF SleeperInv
  <2> QED BY <1>1, <2>2, <2>6 DEF SyncInv
<1> QED BY <1>2, <1>3, <1>4 DEF SyncNext

LEMMA SyncInvariance == SyncSpec => []SyncInv
  BY SyncInvStart, SyncInvStep, PTL DEF SyncSpec

LEMMA InvGivesBroadcast == SyncInv => NoLostBroadcast
<1> SUFFICES ASSUME SyncInv, Quiet, NEW w \in Waiters, pc[w] = "parked"
             PROVE  observed[w] = generation
  BY DEF NoLostBroadcast
<1>1. HasListener(w) /\ w \notin notified
  BY DEF SyncInv, NotifyInv, ListInv, Quiet
<1>2. All # 0
  BY WaitersAssumption, FS_EmptySet DEF All
<1>3. \A n \in Producers : npc[n] # All
  BY <1>2 DEF Quiet
<1> QED BY <1>1, <1>3 DEF SyncInv, NotifyInv, BroadcastInv

\* Whoever uses the Notify, no broadcast leaves behind a wait that was armed
\* before it.  BroadcastInv says why: a wait past its check of the generation
\* that has registered is behind only while it is notified or a notify_all is
\* between its atomic and its event.
THEOREM BroadcastsAreNotLost == SyncSpec => []NoLostBroadcast
  BY SyncInvariance, InvGivesBroadcast, PTL

LEMMA InvGivesPermits == SyncInv => SinglePermitsReach
<1> SUFFICES ASSUME SyncInv, ~doubled, generation = 0, Quiet, permits > 0,
                    NEW w \in Waiters, pc[w] = "parked"
             PROVE  FALSE
  BY DEF SinglePermitsReach, NoStrandedPermit
<1>1. list # << >>
  <2>1. w \in Range(list) /\ list \in Seq(Waiters)
    BY DEF SyncInv, NotifyInv, TypeOK, ListInv, HasListener
  <2> QED BY <2>1, RangeIs
<1>2. ~ \E n \in Producers : npc[n] > 0
  BY DEF Quiet
<1> QED BY <1>1, <1>2 DEF SyncInv, NotifyInv, PermitInv, Quiet

\* A permit that did not join another is not left in store beside a parked
\* waiter, however waits are cancelled and whoever the notification of a
\* dropped listener is passed to.
THEOREM LonePermitsReach == SyncSpec => []SinglePermitsReach
  BY SyncInvariance, InvGivesPermits, PTL

LEMMA InvGivesEntry == SyncInv => EntryOutlivesItsWaits
<1> SUFFICES ASSUME SyncInv, user = "futex" PROVE EntryOutlivesWaits
  BY DEF EntryOutlivesItsWaits
<1>1. StageInv /\ ListInv
  BY DEF SyncInv, SleeperInv, NotifyInv
<1> QED BY <1>1 DEF StageInv, ListInv, EntryOutlivesWaits, Threads

\* A futex entry counts the threads inside futex_wait, and outside the wait
\* itself none has a listener on its Notify: when complete_wait drops the
\* entry, nothing waits on it.
THEOREM EntriesOutliveTheirWaits == SyncSpec => []EntryOutlivesItsWaits
  BY SyncInvariance, InvGivesEntry, PTL

LEMMA InvGivesSleepers == SyncInv => NoSleeperAfterWakeAll
<1> SUFFICES ASSUME SyncInv, Quiet, word = 1, cleared,
                    NEW w \in Waiters, stage[w] = "waiting", pc[w] = "parked"
             PROVE  FALSE
  BY DEF NoSleeperAfterWakeAll
<1>1. observed[w] = generation
  BY InvGivesBroadcast DEF NoLostBroadcast
<1> QED BY <1>1 DEF SyncInv, SleeperInv

\* futex_wait and futex_wake_all: a store and the wake-all that follows it leave
\* no thread parked that compared the word before the store, for any number of
\* threads and wakers.
THEOREM SleepersAreWoken == SyncSpec => []NoSleeperAfterWakeAll
  BY SyncInvariance, InvGivesSleepers, PTL
=============================================================================
