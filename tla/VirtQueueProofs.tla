-------------------------- MODULE VirtQueueProofs --------------------------
(***************************************************************************)
(* For any tasks and requests, any size of the ring and any wrap of its    *)
(* indices that is a multiple of it: every chain in the ring has one task  *)
(* that claims it, every reply reaches its own request, and when driver    *)
(* and device come to rest nobody is left asleep.                          *)
(***************************************************************************)
EXTENDS VirtQueue, FiniteSetTheorems, NaturalsInduction, WellFoundedInduction, TLAPS

-----------------------------------------------------------------------------
(* The invariant: the rings, the descriptors and who owns a chain          *)

\* The chains the device has not fetched, the completions the driver has not
\* drained, and those the device has not signalled.
Waiting == Minus(availIdx, dev.next)
Unread == Minus(usedIdx, lastUsed)
Unsaid == Minus(usedIdx, dev.signalled)

Distinct(ring, from, n) ==
  \A j, k \in 0 .. n - 1 : ring[Plus(from, j) % Size] = ring[Plus(from, k) % Size] => j = k

\* A published chain is in one place: offered, at the device, or returned.
RingInv ==
  /\ Waiting <= Size /\ Distinct(avail, dev.next, Waiting)
  /\ Unread <= Size /\ Distinct(used, lastUsed, Unread)
  /\ Offered \cap working = {} /\ Offered \cap Returned = {} /\ working \cap Returned = {}

Members(s) == {s[i] : i \in 1 .. Len(s)}
OnceEach(s) == \A i, j \in 1 .. Len(s) : s[i] = s[j] => i = j
Has(links, id) == Members(links[id].descriptors)

\* The chains P and the free identifiers share out the descriptors, each to one.
Partition(P, links, free) ==
  /\ OnceEach(free)
  /\ \A id \in P :
       /\ links[id].descriptors # <<>> /\ Head(links[id].descriptors) = id
       /\ OnceEach(links[id].descriptors)
       /\ Has(links, id) \cap Members(free) = {}
       /\ \A other \in P : other # id => Has(links, id) \cap Has(links, other) = {}
  /\ \A i \in Ids : i \in Members(free) \/ \E id \in P : i \in Has(links, id)
DescInv == Partition(Published, chain, ids)

\* What t holds where it is; the queue is locked between publication and kick,
\* and for a drain.
PlaceOf(t) ==
  /\ round[t] > 0
  /\ pc[t] \in {"arm", "lock", "announce", "parked", "failed", "error", "done"} => token[t] = NoId
  /\ pc[t] \in {"kick", "release", "look", "take", "try", "slot", "asleep", "collected"} => token[t] # NoId
  /\ token[t] # NoId /\ pc[t] \notin {"kick", "release"} => ~announced[t]
  /\ pc[t] \in {"release", "parked"} => announced[t]
  /\ pc[t] \in {"announce", "done"} => ~announced[t]
  /\ pc[t] = "freed" => freed[t]
  /\ lock = t <=> pc[t] \in {"kick", "drain", "unlock", "failed"}

\* The request of t has an identifier whose reply is not taken yet.
Active(t) == token[t] # NoId /\ pc[t] # "collected"
SlotOf(t) == slots[token[t]]

\* The slot of t's identifier is t's: it goes from the publication over pending
\* to complete with t's own reply, and no other task has that identifier.
OwnerOf(t) ==
  Active(t) =>
    /\ IF pc[t] = "kick" THEN SlotOf(t).state = "idle" /\ token[t] \in Published
       ELSE \/ SlotOf(t).state = "pending" /\ token[t] \in Published /\ SlotOf(t).waker \in {NoTask, t}
            \/ SlotOf(t).state = "complete" /\ SlotOf(t).reply = <<t, round[t]>> /\ token[t] \notin Published
    /\ token[t] \in Published => chain[token[t]].request = <<t, round[t]>>
    /\ \A u \in Tasks : Active(u) /\ token[u] = token[t] => u = t

\* Every identifier in use has its task.
Owned(id) == \E t \in Tasks : Active(t) /\ token[t] = id

OwnInv ==
  /\ \A t \in Tasks : OwnerOf(t)
  /\ RepliesAreOwn
  /\ \A id \in Ids : id \in Published \/ slots[id].state # "idle" => Owned(id)

\* `blocked` counts the submitters that announced themselves.
CountInv == LET A == {t \in Tasks : announced[t]} IN IsFiniteSet(A) /\ blocked = Cardinality(A)

Types == TaskTypes /\ RingTypes /\ DeviceTypes
Placed == \A t \in Tasks : PlaceOf(t)
ControlInv == Types /\ CountInv /\ Placed
TableInv == RingInv /\ DescInv /\ OwnInv

-----------------------------------------------------------------------------
(* The invariant: nobody sleeps on a stale answer                          *)

\* A sleeper's waker is in its slot, or has been run.
SleepOf(t) == pc[t] = "asleep" =>
   \/ SlotOf(t).state = "pending" /\ SlotOf(t).waker = t
   \/ SlotOf(t).state = "complete" /\ woken[t]

\* A device that sleeps has asked to be told of the next chain, and is behind by
\* at most the chain whose kick is still to come.
Kicking == \E t \in Tasks : pc[t] = "kick"
DevTold == dev.state \in {"offering", "asleep"} => IF mode = "event" THEN availEvent = dev.next ELSE ~noNotify
DevWaits == dev.state = "asleep" /\ ~kicked => Waiting = 0 \/ (Waiting = 1 /\ Kicking)
UsedTold == mode = "event" => usedEvent = lastUsed
DevInv == DevTold /\ DevWaits /\ UsedTold

\* A task that will look at the used ring without an interrupt.
Looker(t) ==
  \/ pc[t] \in {"kick", "drain"}
  \/ Active(t) /\ SlotOf(t).state = "pending" /\ (pc[t] \in {"release", "look", "take", "try"} \/ rang[t])
\* A completion that was signalled and is not drained has an interrupt on its
\* way, or a task that will look.
SignalInv == ~missed /\ Unread > Unsaid => irq \/ \E t \in Tasks : Looker(t)

\* What comes between the last look of a waiter that drains and its unlock is
\* signalled to that waiter.
UnlockOf(t) == pc[t] = "unlock" /\ token[t] # NoId /\ Unread > Unsaid => irq \/ rang[t]

\* A task that has freed something and has yet to tell the parked submitters.
Freeing(u) == pc[u] \in {"collected", "freed"} \/ (pc[u] \in {"drain", "unlock"} /\ freed[u])
\* A submitter parks only while it cannot submit, or is about to be told.
ParkOf(t) ==
  announced[t] /\ ~moved[t] /\ token[t] = NoId /\ pc[t] \in {"drain", "unlock", "parked"}
   => ~CanSubmit(t) \/ \E u \in Tasks : Freeing(u)

Sleepers == \A t \in Tasks : SleepOf(t)
Parked == \A t \in Tasks : ParkOf(t)
Unlocking == \A t \in Tasks : UnlockOf(t)
WakeInv == Sleepers /\ Parked /\ DevInv /\ SignalInv /\ Unlocking

-----------------------------------------------------------------------------
(* The indices, modulo Wrap, and their places in the ring                  *)

LEMMA ModSmall == ASSUME NEW x \in Int, NEW w \in Nat \ {0}, 0 <= x, x < w PROVE x % w = x
  OBVIOUS
LEMMA ModOnce == ASSUME NEW x \in Int, NEW w \in Nat \ {0}, w <= x, x < 2 * w PROVE x % w = x - w
<1>1. x = w * 1 + (x - w) /\ x - w \in 0 .. w - 1
  OBVIOUS
<1> QED BY <1>1

\* Plus and Minus without the remainder.
LEMMA PlusIs ==
  ASSUME NEW x \in Indices, NEW n \in 0 .. Wrap
  PROVE  /\ Plus(x, n) \in Indices
         /\ Plus(x, n) = IF x + n < Wrap THEN x + n ELSE x + n - Wrap
<1>1. Wrap \in Nat \ {0} /\ x \in Int /\ n \in Int
  BY RingAssumption DEF Indices
<1>2. CASE x + n < Wrap
  BY <1>1, <1>2, ModSmall DEF Plus, Indices
<1>3. CASE ~(x + n < Wrap)
  <2>1. x + n \in Int /\ Wrap <= x + n /\ x + n < 2 * Wrap
    BY <1>1, <1>3 DEF Indices
  <2>2. (x + n) % Wrap = (x + n) - Wrap
    BY <1>1, <2>1, ModOnce
  <2> QED BY <1>1, <1>3, <2>2 DEF Plus, Indices
<1> QED BY <1>2, <1>3

LEMMA MinusIs ==
  ASSUME NEW x \in Indices, NEW y \in Indices
  PROVE  /\ Minus(x, y) \in Indices
         /\ Minus(x, y) = IF x >= y THEN x - y ELSE x - y + Wrap
<1>1. Wrap \in Nat \ {0} /\ x \in Int /\ y \in Int
  BY RingAssumption DEF Indices
<1>2. CASE x < y
  BY <1>1, <1>2, ModSmall DEF Minus, Indices
<1>3. CASE ~(x < y)
  <2>1. x - y + Wrap \in Int /\ Wrap <= x - y + Wrap /\ x - y + Wrap < 2 * Wrap
    BY <1>1, <1>3 DEF Indices
  <2>2. (x - y + Wrap) % Wrap = (x - y + Wrap) - Wrap
    BY <1>1, <2>1, ModOnce
  <2> QED BY <1>1, <1>3, <2>2 DEF Minus, Indices
<1> QED BY <1>2, <1>3

\* An index that moves on is one further from, or one nearer to, another.
LEMMA StepAhead ==
  ASSUME NEW x \in Indices, NEW y \in Indices, Minus(x, y) < Wrap - 1
  PROVE  Plus(x, 1) \in Indices /\ Minus(Plus(x, 1), y) = Minus(x, y) + 1
<1>1. 1 \in 0 .. Wrap /\ Wrap \in Nat
  BY RingAssumption
<1>2. Plus(x, 1) \in Indices /\ Plus(x, 1) = IF x + 1 < Wrap THEN x + 1 ELSE x + 1 - Wrap
  BY <1>1, PlusIs
<1>3. Minus(x, y) = IF x >= y THEN x - y ELSE x - y + Wrap
  BY MinusIs
<1>4. Minus(Plus(x, 1), y) = IF Plus(x, 1) >= y THEN Plus(x, 1) - y ELSE Plus(x, 1) - y + Wrap
  BY <1>2, MinusIs
<1> QED BY <1>1, <1>2, <1>3, <1>4 DEF Indices

LEMMA StepBehind ==
  ASSUME NEW x \in Indices, NEW y \in Indices, x # y
  PROVE  Plus(y, 1) \in Indices /\ Minus(x, Plus(y, 1)) = Minus(x, y) - 1 /\ Minus(x, y) > 0
<1>1. 1 \in 0 .. Wrap /\ Wrap \in Nat
  BY RingAssumption
<1>2. Plus(y, 1) \in Indices /\ Plus(y, 1) = IF y + 1 < Wrap THEN y + 1 ELSE y + 1 - Wrap
  BY <1>1, PlusIs
<1>3. Minus(x, y) = IF x >= y THEN x - y ELSE x - y + Wrap
  BY MinusIs
<1>4. Minus(x, Plus(y, 1)) = IF x >= Plus(y, 1) THEN x - Plus(y, 1) ELSE x - Plus(y, 1) + Wrap
  BY <1>2, MinusIs
<1> QED BY <1>1, <1>2, <1>3, <1>4 DEF Indices

LEMMA Apart ==
  ASSUME NEW x \in Indices, NEW y \in Indices
  PROVE  /\ Minus(x, y) \in Nat /\ Minus(x, y) < Wrap
         /\ Minus(x, y) = 0 <=> x = y
         /\ Plus(y, Minus(x, y)) = x
<1>1. Wrap \in Nat
  BY RingAssumption
<1>2. Minus(x, y) = (IF x >= y THEN x - y ELSE x - y + Wrap) /\ Minus(x, y) \in Indices
  BY MinusIs
<1>3. Minus(x, y) \in 0 .. Wrap
  BY <1>1, <1>2 DEF Indices
<1>4. Plus(y, Minus(x, y)) = IF y + Minus(x, y) < Wrap THEN y + Minus(x, y) ELSE y + Minus(x, y) - Wrap
  BY <1>3, PlusIs
<1> QED BY <1>1, <1>2, <1>4 DEF Indices

LEMMA PlusAgain ==
  ASSUME NEW x \in Indices, NEW n \in 0 .. Wrap - 1
  PROVE  Plus(Plus(x, 1), n) = Plus(x, n + 1)
<1>1. 1 \in 0 .. Wrap /\ n \in 0 .. Wrap /\ n + 1 \in 0 .. Wrap /\ Wrap \in Nat
  BY RingAssumption
<1>2. Plus(x, 1) \in Indices /\ Plus(x, 1) = IF x + 1 < Wrap THEN x + 1 ELSE x + 1 - Wrap
  BY <1>1, PlusIs
<1>3. Plus(Plus(x, 1), n) = IF Plus(x, 1) + n < Wrap THEN Plus(x, 1) + n ELSE Plus(x, 1) + n - Wrap
  BY <1>1, <1>2, PlusIs
<1>4. Plus(x, n + 1) = IF x + (n + 1) < Wrap THEN x + (n + 1) ELSE x + (n + 1) - Wrap
  BY <1>1, PlusIs
<1> QED BY <1>1, <1>2, <1>3, <1>4 DEF Indices

LEMMA PlusNothing == ASSUME NEW x \in Indices PROVE Plus(x, 0) = x
<1>1. 0 \in 0 .. Wrap /\ Wrap \in Nat
  BY RingAssumption
<1> QED BY <1>1, PlusIs DEF Indices

\* An index of the ring and its place.
LEMMA PlaceIsId == ASSUME NEW x \in Indices PROVE x % Size \in Ids
<1>1. Size \in Nat \ {0} /\ x \in Int
  BY RingAssumption DEF Indices
<1> QED BY <1>1 DEF Ids

LEMMA LeastOf ==
  ASSUME NEW T \in SUBSET Nat, T # {}
  PROVE  \E x \in T : \A y \in T : x <= y
<1> DEFINE R == {ss \in Nat \X Nat : ss[1] < ss[2]}
<1>1. IsWellFoundedOn(R, Nat)
  BY NatLessThanWellFounded, Zenon DEF OpToRel
<1> HIDE DEF R
<1>2. PICK x \in T : \A y \in T : ~(<<y, x>> \in R)
  BY <1>1, WFMin
<1>3. ASSUME NEW y \in T PROVE x <= y
  <2>1. x \in Nat /\ y \in Nat
    OBVIOUS
  <2>2. y < x => <<y, x>> \in R
    BY <2>1 DEF R
  <2> QED BY <1>2, <2>1, <2>2
<1> QED BY <1>3

LEMMA DivMod ==
  ASSUME NEW x \in Nat, NEW w \in Nat \ {0}
  PROVE  \E q \in Nat, r \in 0 .. w - 1 : x = w * q + r /\ x % w = r
<1> DEFINE T == {r \in Nat : \E q \in Nat : x = w * q + r}
<1>1. x = w * 0 + x /\ x \in T
  OBVIOUS
<1>2. PICK r \in T : \A y \in T : r <= y
  BY <1>1, LeastOf
<1>3. PICK q \in Nat : r \in Nat /\ x = w * q + r
  OBVIOUS
<1>4. r < w
  <2> SUFFICES ASSUME r >= w PROVE FALSE
    OBVIOUS
  <2>1. w * (q + 1) = w * q + w
    OBVIOUS
  <2>2. x = w * (q + 1) + (r - w) /\ r - w \in Nat /\ q + 1 \in Nat
    BY <1>3, <2>1
  <2>3. r - w \in T
    BY <2>2
  <2> HIDE DEF T
  <2> QED BY <1>2, <1>3, <2>3
<1>5. x % w = r /\ r \in 0 .. w - 1
  BY <1>3, <1>4
<1> HIDE DEF T
<1> QED BY <1>3, <1>5

LEMMA SameMultiple ==
  ASSUME NEW w \in Nat \ {0}, NEW q \in Int, NEW r \in Int, NEW a \in Int, NEW x \in Int, NEW y \in Int,
         x = w * q + a, y = w * r + a, x <= y, y - x < w
  PROVE  x = y
<1>1. CASE r >= q + 1
  <2>1. w * r >= w * (q + 1)
    BY <1>1
  <2> QED BY <2>1, <1>1
<1>2. CASE r <= q - 1
  <2>1. w * r <= w * (q - 1)
    BY <1>2
  <2> QED BY <2>1, <1>2
<1> QED BY <1>1, <1>2

LEMMA SamePlace ==
  ASSUME NEW x \in Nat, NEW y \in Nat, x <= y, y - x < Size, x % Size = y % Size
  PROVE  x = y
<1>1. Size \in Nat \ {0}
  BY RingAssumption
<1>2. PICK q \in Nat, a \in 0 .. Size - 1 : x = Size * q + a /\ x % Size = a
  BY <1>1, DivMod
<1>3. PICK r \in Nat, b \in 0 .. Size - 1 : y = Size * r + b /\ y % Size = b
  BY <1>1, DivMod
<1>4. y = Size * r + a /\ a \in Int
  BY <1>2, <1>3
<1> QED BY <1>1, <1>2, <1>4, SameMultiple

LEMMA ModShift ==
  ASSUME NEW y \in Nat, NEW m \in Nat, NEW w \in Nat \ {0}
  PROVE  (y + w * m) % w = y % w
<1>1. PICK q \in Nat, r \in 0 .. w - 1 : y = w * q + r /\ y % w = r
  BY DivMod
<1>3. w * (q + m) = w * q + w * m
  OBVIOUS
<1>4. PICK z \in Nat : z = y + w * m
  OBVIOUS
<1>5. z = w * (q + m) + r
  BY <1>1, <1>3, <1>4
<1>6. z % w = r
  BY <1>5
<1> QED BY <1>1, <1>4, <1>6

\* Wrap is a multiple of Size, so an index and its place agree across it.
LEMMA PlaceOfSum ==
  ASSUME NEW x \in Indices, NEW n \in 0 .. Wrap
  PROVE  Plus(x, n) % Size = (x + n) % Size
<1>1. Size \in Nat \ {0} /\ Wrap \in Nat /\ Wrap % Size = 0 /\ x \in Nat
  BY RingAssumption DEF Indices
<1>2. Plus(x, n) = (IF x + n < Wrap THEN x + n ELSE x + n - Wrap) /\ Plus(x, n) \in Nat
  BY PlusIs DEF Indices
<1>3. PICK m \in Nat : Wrap = Size * m
  <2>1. PICK m \in Nat, r \in 0 .. Size - 1 : Wrap = Size * m + r /\ Wrap % Size = r
    BY <1>1, DivMod
  <2>2. r = 0
    BY <1>1, <2>1
  <2>3. Size * m \in Nat
    BY <1>1
  <2>4. Wrap = Size * m
    BY <2>1, <2>2, <2>3
  <2> QED BY <2>4
<1>4. CASE x + n < Wrap
  BY <1>2, <1>4
<1>5. CASE ~(x + n < Wrap)
  <2>1. PICK y \in Nat : y = Plus(x, n)
    BY <1>2
  <2>2. x + n = y + Size * m
    BY <1>1, <1>2, <1>3, <1>5, <2>1
  <2>3. (y + Size * m) % Size = y % Size
    BY <1>1, ModShift
  <2> QED BY <2>1, <2>2, <2>3
<1> QED BY <1>4, <1>5

\* Two indices less than a ring apart have different places.
LEMMA PlacesDiffer ==
  ASSUME NEW x \in Indices, NEW j \in 0 .. Size - 1, NEW k \in 0 .. Size - 1,
         Plus(x, j) % Size = Plus(x, k) % Size
  PROVE  j = k
<1>1. Size \in Nat /\ x \in Nat /\ j \in 0 .. Wrap /\ k \in 0 .. Wrap
  BY RingAssumption DEF Indices
<1>2. (x + j) % Size = (x + k) % Size
  BY <1>1, PlaceOfSum
<1>3. CASE j <= k
  <2>1. x + j \in Nat /\ x + k \in Nat /\ x + j <= x + k /\ (x + k) - (x + j) < Size
    BY <1>1, <1>3
  <2>2. x + j = x + k
    BY <1>2, <2>1, SamePlace
  <2> QED BY <1>1, <2>2
<1>4. CASE k <= j
  <2>1. x + j \in Nat /\ x + k \in Nat /\ x + k <= x + j /\ (x + j) - (x + k) < Size
    BY <1>1, <1>4
  <2>2. x + j = x + k
    BY <1>2, <2>1, SamePlace
  <2> QED BY <1>1, <2>2
<1> QED BY <1>1, <1>3, <1>4
-----------------------------------------------------------------------------
(* The windows of the rings                                                *)

\* The k-th place of a window.
Place(from, k) == Plus(from, k) % Size

LEMMA PlaceType ==
  ASSUME NEW from \in Indices, NEW k \in 0 .. Size
  PROVE  Place(from, k) \in Ids
<1>1. k \in 0 .. Wrap
  BY RingAssumption
<1>2. Plus(from, k) \in Indices
  BY <1>1, PlusIs
<1> QED BY <1>2, PlaceIsId DEF Place

LEMMA PlaceInjective ==
  ASSUME NEW from \in Indices
  PROVE  \A j, k \in 0 .. Size - 1 : Place(from, j) = Place(from, k) => j = k
  BY PlacesDiffer DEF Place

LEMMA WindowPlaces ==
  \A ring, from, n :
    /\ Window(ring, from, n) = {ring[Place(from, k)] : k \in 0 .. n - 1}
    /\ Distinct(ring, from, n) <=>
         \A j, k \in 0 .. n - 1 : ring[Place(from, j)] = ring[Place(from, k)] => j = k
  BY DEF Window, Distinct, Place

LEMMA WindowType ==
  ASSUME NEW ring \in [Ids -> Ids], NEW from \in Indices, NEW n \in 0 .. Size
  PROVE  Window(ring, from, n) \subseteq Ids
<1>1. \A k \in 0 .. n - 1 : Place(from, k) \in Ids
  BY PlaceType, RingAssumption
<1> QED BY <1>1, WindowPlaces

Written(ring, at, x) == [ring EXCEPT ![at] = x]

\* The entry after the window is written, and the window grows.
LEMMA WindowPush ==
  ASSUME NEW ring \in [Ids -> Ids], NEW from \in Indices, NEW n \in 0 .. Size - 1, NEW x \in Ids,
         NEW end \in Indices, end = Plus(from, n), x \notin Window(ring, from, n),
         Distinct(ring, from, n), NEW new, new = Written(ring, end % Size, x)
  PROVE  /\ Window(new, from, n + 1) = Window(ring, from, n) \cup {x}
         /\ Distinct(new, from, n + 1)
<1>1. Size \in Nat /\ n \in Nat /\ n < Size
  BY RingAssumption
<1>2. end % Size = Place(from, n)
  BY DEF Place
<1>3. \A k \in 0 .. n : Place(from, k) \in Ids
  BY <1>1, PlaceType
<1>4. \A k \in 0 .. n - 1 : Place(from, k) # Place(from, n)
  BY <1>1, PlaceInjective
<1>5. \A k \in 0 .. n - 1 : new[Place(from, k)] = ring[Place(from, k)]
  BY <1>1, <1>2, <1>3, <1>4 DEF Written
<1>6. new[Place(from, n)] = x
  BY <1>1, <1>2, <1>3 DEF Written
<1>7. (n + 1) - 1 = n /\ 0 .. n = (0 .. n - 1) \cup {n}
  BY <1>1
<1>8. Window(new, from, n + 1) = {new[Place(from, k)] : k \in (0 .. n - 1) \cup {n}}
  BY <1>7, WindowPlaces
<1>9. Window(new, from, n + 1) = Window(ring, from, n) \cup {x}
  <2>1. Window(ring, from, n) = {ring[Place(from, k)] : k \in 0 .. n - 1}
    BY WindowPlaces
  <2> QED BY <1>5, <1>6, <1>8, <2>1
<1>10. Distinct(new, from, n + 1)
  <2>1. \A k \in 0 .. n - 1 : ring[Place(from, k)] # x
    BY WindowPlaces
  <2>2. \A j, k \in 0 .. n - 1 : ring[Place(from, j)] = ring[Place(from, k)] => j = k
    BY WindowPlaces
  <2>3. \A j, k \in (0 .. n - 1) \cup {n} : new[Place(from, j)] = new[Place(from, k)] => j = k
    BY <1>5, <1>6, <2>1, <2>2
  <2> QED BY <1>7, <2>3, WindowPlaces
<1> QED BY <1>9, <1>10

\* The first entry leaves the window.
LEMMA WindowPop ==
  ASSUME NEW ring \in [Ids -> Ids], NEW from \in Indices, NEW n \in 1 .. Size, Distinct(ring, from, n)
  PROVE  LET x == ring[from % Size]
             rest == Window(ring, Plus(from, 1), n - 1)
         IN  /\ x \in Ids
             /\ Window(ring, from, n) = {x} \cup rest /\ x \notin rest
             /\ Distinct(ring, Plus(from, 1), n - 1)
<1>1. Size \in Nat /\ n \in Nat /\ 0 < n /\ n <= Size /\ Size < Wrap /\ Wrap \in Nat
  BY RingAssumption
<1>2. Place(from, 0) = from % Size
  BY PlusNothing DEF Place
<1>3. \A k \in 0 .. n - 2 : Place(Plus(from, 1), k) = Place(from, k + 1)
  <2> TAKE k \in 0 .. n - 2
  <2>1. k \in 0 .. Wrap - 1
    BY <1>1
  <2> QED BY <2>1, PlusAgain DEF Place
<1>4. \A j, k \in 0 .. n - 1 : ring[Place(from, j)] = ring[Place(from, k)] => j = k
  BY WindowPlaces
<1>5. (n - 1) - 1 = n - 2 /\ 0 \in 0 .. n - 1 /\ (\A k \in 0 .. n - 2 : k + 1 \in 0 .. n - 1 /\ k + 1 # 0)
  BY <1>1
<1>6. \A k \in 0 .. n - 1 : k = 0 \/ \E j \in 0 .. n - 2 : k = j + 1
  <2> TAKE k \in 0 .. n - 1
  <2>1. k # 0 => k - 1 \in 0 .. n - 2 /\ k = (k - 1) + 1
    BY <1>1
  <2> QED BY <2>1
<1>7. Window(ring, from, n) = {ring[Place(from, k)] : k \in 0 .. n - 1}
  BY WindowPlaces
<1>8. Window(ring, Plus(from, 1), n - 1) = {ring[Place(from, k + 1)] : k \in 0 .. n - 2}
  <2>1. Window(ring, Plus(from, 1), n - 1) = {ring[Place(Plus(from, 1), k)] : k \in 0 .. n - 2}
    BY <1>5, WindowPlaces
  <2> QED BY <2>1, <1>3
<1>9. Window(ring, from, n) = {ring[from % Size]} \cup Window(ring, Plus(from, 1), n - 1)
  BY <1>2, <1>5, <1>6, <1>7, <1>8
<1>10. ring[from % Size] \notin Window(ring, Plus(from, 1), n - 1)
  BY <1>2, <1>4, <1>5, <1>8
<1>11. Distinct(ring, Plus(from, 1), n - 1)
  <2>1. \A j, k \in 0 .. n - 2 : ring[Place(from, j + 1)] = ring[Place(from, k + 1)] => j = k
    <3> TAKE j, k \in 0 .. n - 2
    <3>1. j + 1 = k + 1 => j = k
      OBVIOUS
    <3> QED BY <1>4, <1>5, <3>1
  <2>2. \A j, k \in 0 .. n - 2 : ring[Place(Plus(from, 1), j)] = ring[Place(Plus(from, 1), k)] => j = k
    BY <2>1, <1>3
  <2> QED BY <2>2, <1>5, WindowPlaces
<1>12. ring[from % Size] \in Ids
  BY PlaceIsId
<1> QED BY <1>9, <1>10, <1>11, <1>12

\* A window that leaves an identifier out is shorter than the ring.
LEMMA WindowShort ==
  ASSUME NEW ring \in [Ids -> Ids], NEW from \in Indices, NEW n \in 0 .. Size,
         Distinct(ring, from, n), NEW x \in Ids, x \notin Window(ring, from, n)
  PROVE  n < Size
<1> DEFINE f == [k \in 0 .. n - 1 |-> ring[Place(from, k)]]
<1>1. Size \in Nat \ {0} /\ n \in Nat
  BY RingAssumption
<1>2. \A k \in 0 .. n - 1 : Place(from, k) \in Ids
  BY PlaceType, <1>1
<1>3. f \in Injection(0 .. n - 1, Ids \ {x})
  BY <1>2, WindowPlaces DEF Injection, IsInjective
<1>4. IsFiniteSet(Ids) /\ Cardinality(Ids) = Size
  BY <1>1, FS_Interval DEF Ids
<1>5. IsFiniteSet(Ids \ {x}) /\ Cardinality(Ids \ {x}) = Size - 1
  BY <1>4, FS_RemoveElement
<1>6. Cardinality(0 .. n - 1) <= Size - 1
  BY <1>3, <1>5, FS_Injection
<1>7. Cardinality(0 .. n - 1) = n
  <2>1. n - 1 \in Int /\ 0 \in Int
    BY <1>1
  <2>2. Cardinality(0 .. n - 1) = IF 0 > n - 1 THEN 0 ELSE (n - 1) - 0 + 1
    BY <2>1, FS_Interval
  <2> QED BY <1>1, <2>2
<1> QED BY <1>1, <1>6, <1>7

-----------------------------------------------------------------------------
(* The pool of identifiers                                                 *)

FirstOf(s, n) == SubSeq(s, 1, n)
RestOf(s, n) == SubSeq(s, n + 1, Len(s))

\* A chain takes the first identifiers of the pool.
LEMMA TakeFree ==
  ASSUME NEW s \in Seq(Ids), OnceEach(s), NEW n \in 1 .. Len(s),
         NEW a, a = FirstOf(s, n), NEW b, b = RestOf(s, n)
  PROVE  /\ a \in Seq(Ids) /\ a # <<>> /\ Head(a) = Head(s) /\ Head(s) \in Ids
         /\ b \in Seq(Ids) /\ Len(b) <= Len(s)
         /\ OnceEach(a) /\ OnceEach(b) /\ Members(a) \cap Members(b) = {}
         /\ Members(s) = Members(a) \cup Members(b) /\ Head(s) \in Members(a)
<1>1. PICK l \in Nat : l = Len(s)
  OBVIOUS
<1>2. n \in Nat /\ 1 <= n /\ n <= l
  BY <1>1
<1>3. \A i \in 1 .. l : s[i] \in Ids
  BY <1>1
<1>5. a \in Seq(Ids) /\ Len(a) = n /\ \A i \in 1 .. n : a[i] = s[i]
  <2>1. \A i \in 1 .. n : i \in 1 .. l /\ 1 + i - 1 = i
    BY <1>2
  <2>2. SubSeq(s, 1, n) = [i \in 1 .. n |-> s[1 + i - 1]]
    BY <1>1, <1>2
  <2>3. a = [i \in 1 .. n |-> s[i]]
    BY <2>1, <2>2 DEF FirstOf
  <2>4. a \in Seq(Ids)
    BY <2>3, <2>1, <1>3, <1>2
  <2>5. Len(a) = n
    BY <2>3, <1>2
  <2> QED BY <2>3, <2>4, <2>5
<1>7. b \in Seq(Ids) /\ Len(b) = l - n /\ \A i \in 1 .. l - n : b[i] = s[n + i]
  <2>1. \A i \in 1 .. l - n : n + i \in 1 .. l /\ (n + 1) + i - 1 = n + i
    BY <1>2
  <2>2. l - (n + 1) + 1 = l - n /\ l - n \in Nat
    BY <1>2
  <2>3. SubSeq(s, n + 1, l) = [i \in 1 .. l - (n + 1) + 1 |-> s[(n + 1) + i - 1]]
    BY <1>1, <1>2
  <2>4. b = [i \in 1 .. l - n |-> s[n + i]]
    BY <2>1, <2>2, <2>3, <1>1 DEF RestOf
  <2>5. b \in Seq(Ids)
    BY <2>4, <2>2, <2>1, <1>3
  <2>6. Len(b) = l - n
    BY <2>4, <2>2
  <2> QED BY <2>4, <2>5, <2>6
<1>8. a # <<>> /\ Head(a) = Head(s) /\ Head(s) = s[1] /\ s[1] \in Ids
  <2>1. s # <<>> /\ a # <<>>
    BY <1>1, <1>2, <1>5
  <2>2. Head(s) = s[1] /\ Head(a) = a[1]
    BY <2>1, <1>5
  <2>3. 1 \in 1 .. n /\ 1 \in 1 .. l
    BY <1>2
  <2> QED BY <2>1, <2>2, <2>3, <1>3, <1>5
<1>9. \A i, j \in 1 .. l : s[i] = s[j] => i = j
  BY <1>1 DEF OnceEach
<1>10. OnceEach(a)
  <2>1. \A i \in 1 .. n : i \in 1 .. l
    BY <1>2
  <2> QED BY <2>1, <1>5, <1>9 DEF OnceEach
<1>11. \A i \in 1 .. l - n : n + i \in 1 .. l /\ n + i \notin 1 .. n
  BY <1>2
<1>12. OnceEach(b)
  <2> SUFFICES ASSUME NEW i \in 1 .. l - n, NEW j \in 1 .. l - n, b[i] = b[j] PROVE i = j
    BY <1>7 DEF OnceEach
  <2>1. n + i = n + j
    BY <1>7, <1>9, <1>11
  <2> QED BY <2>1, <1>2
<1>13. Members(a) = {s[i] : i \in 1 .. n}
  BY <1>5 DEF Members
<1>14. Members(b) = {s[n + i] : i \in 1 .. l - n}
  BY <1>7 DEF Members
<1>15. Members(s) = {s[i] : i \in 1 .. l}
  BY <1>1 DEF Members
<1>16. Members(a) \cap Members(b) = {}
  <2> SUFFICES ASSUME NEW i \in 1 .. n, NEW j \in 1 .. l - n, s[i] = s[n + j] PROVE FALSE
    BY <1>13, <1>14
  <2>1. i \in 1 .. l
    BY <1>2
  <2>2. i = n + j
    BY <2>1, <1>9, <1>11
  <2> QED BY <2>2, <1>11
<1>17. Members(s) = Members(a) \cup Members(b)
  <2>1. \A i \in 1 .. l : i \in 1 .. n \/ \E j \in 1 .. l - n : i = n + j
    <3> TAKE i \in 1 .. l
    <3>1. i > n => i - n \in 1 .. l - n /\ i = n + (i - n)
      BY <1>2
    <3> QED BY <3>1, <1>2
  <2>2. \A i \in 1 .. n : i \in 1 .. l
    BY <1>2
  <2> QED BY <2>1, <2>2, <1>11, <1>13, <1>14, <1>15
<1>18. Head(s) \in Members(a)
  <2>1. 1 \in 1 .. n
    BY <1>2
  <2> QED BY <2>1, <1>8, <1>13
<1>19. Len(b) <= Len(s)
  BY <1>1, <1>2, <1>7
<1> QED BY <1>5, <1>7, <1>8, <1>10, <1>12, <1>16, <1>17, <1>18, <1>19

\* A finished chain gives its own back.
LEMMA GiveBack ==
  ASSUME NEW s \in Seq(Ids), NEW d \in Seq(Ids), OnceEach(s), OnceEach(d),
         Members(s) \cap Members(d) = {}
  PROVE  /\ s \o d \in Seq(Ids) /\ OnceEach(s \o d)
         /\ Members(s \o d) = Members(s) \cup Members(d)
<1>1. PICK l \in Nat : l = Len(s)
  OBVIOUS
<1>2. PICK m \in Nat : m = Len(d)
  OBVIOUS
<1>3. PICK c : c = s \o d
  OBVIOUS
<1>4. c \in Seq(Ids) /\ Len(c) = l + m
  BY <1>1, <1>2, <1>3
<1>5. \A i \in 1 .. l : c[i] = s[i]
  BY <1>1, <1>2, <1>3
<1>6. \A i \in 1 .. m : c[l + i] = d[i] /\ l + i \in 1 .. l + m
  <2> TAKE i \in 1 .. m
  <2>1. l + i \in 1 .. l + m /\ l + i > l /\ (l + i) - l = i
    OBVIOUS
  <2> QED BY <1>1, <1>2, <1>3, <2>1
<1>7. \A k \in 1 .. l + m : k \in 1 .. l \/ \E i \in 1 .. m : k = l + i
  <2> TAKE k \in 1 .. l + m
  <2>1. k > l => k - l \in 1 .. m /\ k = l + (k - l)
    OBVIOUS
  <2> QED BY <2>1
<1>8. \A i \in 1 .. l, j \in 1 .. m : s[i] # d[j]
  BY <1>1, <1>2 DEF Members
<1>9. OnceEach(c)
  <2> SUFFICES ASSUME NEW i \in 1 .. l + m, NEW j \in 1 .. l + m, c[i] = c[j] PROVE i = j
    BY <1>4 DEF OnceEach
  <2>1. CASE i \in 1 .. l /\ j \in 1 .. l
    BY <2>1, <1>1, <1>5 DEF OnceEach
  <2>2. CASE i \in 1 .. l /\ \E k \in 1 .. m : j = l + k
    BY <2>2, <1>5, <1>6, <1>8
  <2>3. ASSUME j \in 1 .. l, NEW k \in 1 .. m, i = l + k PROVE i = j
    <3>1. c[j] = s[j] /\ c[i] = d[k] /\ s[j] # d[k]
      BY <2>3, <1>5, <1>6, <1>8
    <3> QED BY <3>1
  <2>4. ASSUME NEW x \in 1 .. m, NEW y \in 1 .. m, i = l + x, j = l + y PROVE i = j
    BY <2>4, <1>2, <1>6 DEF OnceEach
  <2> QED BY <2>1, <2>2, <2>3, <2>4, <1>7
<1>10. Members(c) = Members(s) \cup Members(d)
  <2>1. Members(c) = {c[i] : i \in 1 .. l + m}
    BY <1>4 DEF Members
  <2>2. \A i \in 1 .. l : i \in 1 .. l + m
    OBVIOUS
  <2>3. Members(s) = {s[i] : i \in 1 .. l} /\ Members(d) = {d[i] : i \in 1 .. m}
    BY <1>1, <1>2 DEF Members
  <2>4. ASSUME NEW k \in 1 .. l + m PROVE c[k] \in Members(s) \cup Members(d)
    BY <2>3, <1>5, <1>6, <1>7
  <2>5. \A i \in 1 .. l : s[i] \in Members(c)
    BY <2>1, <2>2, <1>5
  <2>6. \A i \in 1 .. m : d[i] \in Members(c)
    BY <2>1, <1>6
  <2>7. Members(c) \subseteq Members(s) \cup Members(d)
    BY <2>1, <2>4
  <2>8. Members(s) \subseteq Members(c) /\ Members(d) \subseteq Members(c)
    BY <2>3, <2>5, <2>6
  <2> QED BY <2>7, <2>8
<1> QED BY <1>3, <1>4, <1>9, <1>10

\* A pool with every identifier in it is as long as the ring.
LEMMA AllFree ==
  ASSUME NEW s \in Seq(Ids), Ids \subseteq Members(s)
  PROVE  Len(s) >= Size /\ Head(s) \in Ids
<1>1. PICK l \in Nat : l = Len(s)
  OBVIOUS
<1>2. Size \in Nat \ {0}
  BY RingAssumption
<1> DEFINE f == [i \in 1 .. l |-> s[i]]
<1>3. f \in Surjection(1 .. l, Ids)
  <2>1. \A i \in 1 .. l : s[i] \in Ids
    BY <1>1
  <2>2. f \in [1 .. l -> Ids]
    BY <2>1
  <2>3. \A x \in Ids : \E i \in 1 .. l : f[i] = x
    BY <1>1 DEF Members
  <2> QED BY <2>2, <2>3 DEF Surjection
<1>4. IsFiniteSet(1 .. l) /\ Cardinality(1 .. l) = l
  BY FS_Interval
<1>5. Cardinality(Ids) <= l
  BY <1>3, <1>4, FS_Surjection
<1>6. Cardinality(Ids) = Size
  BY <1>2, FS_Interval DEF Ids
<1>7. l >= Size
  BY <1>5, <1>6, <1>2
<1>8. Head(s) \in Ids
  <2>1. s # <<>> /\ 1 \in 1 .. l
    BY <1>1, <1>2, <1>7
  <2>2. Head(s) = s[1]
    BY <2>1
  <2> QED BY <2>1, <2>2, <1>1
<1> QED BY <1>1, <1>7, <1>8

-----------------------------------------------------------------------------
(* Types and the places of the tasks                                       *)

USE DEF taskVars, ringVars, deviceVars, At, Goes, Sets

\* A load asks for between one buffer and a whole ring of them.
LEMMA Room ==
  ASSUME Types, NEW t \in Tasks
  PROVE  /\ load.buffers[t] \in 1 .. Size /\ load.rounds[t] \in Nat \ {0}
         /\ HasRoomFor(t) => load.buffers[t] \in 1 .. Len(ids)
<1>1. load.buffers[t] \in 1 .. Size /\ load.rounds[t] \in Nat \ {0}
  BY RequestsAssumption DEF Types, DeviceTypes
<1>2. Size \in Nat /\ Len(ids) \in Nat
  BY RingAssumption DEF Types, RingTypes
<1> QED BY <1>1, <1>2 DEF HasRoomFor

LEMMA TakeTypes ==
  ASSUME NEW s \in Seq(Ids), NEW n \in 1 .. Len(s)
  PROVE  /\ SubSeq(s, 1, n) \in Seq(Ids) /\ SubSeq(s, n + 1, Len(s)) \in Seq(Ids)
         /\ Head(s) \in Ids
<1>1. s # <<>> /\ Head(s) = s[1]
  OBVIOUS
<1> QED BY <1>1

LEMMA NextIndex == \A x \in Indices : Plus(x, 1) \in Indices
<1>1. 1 \in 0 .. Wrap
  BY RingAssumption
<1> QED BY <1>1, PlusIs

LEMMA DeviceIs ==
  ASSUME Types
  PROVE  dev.next \in Indices /\ dev.signalled \in Indices
  BY DEF Types, DeviceTypes

LEMMA TaskTypesStep ==
  ASSUME Types, \A u \in Tasks : PlaceOf(u), NEW t \in Tasks, TaskStep(t)
  PROVE  TaskTypes'
<1> USE DEF Types, TaskTypes, Pcs
<1>1. CASE ArmSubmit(t)
  BY <1>1 DEF ArmSubmit
<1>2. CASE Submit(t)
  <2>1. Head(ids) \in Ids
    BY Room, TakeTypes, <1>2 DEF Submit, CanSubmit, RingTypes
  <2> QED BY <2>1, <1>2 DEF Submit
<1>3. CASE SubmitFails(t)
  BY <1>3 DEF SubmitFails
<1>4. CASE Kick(t)
  BY <1>4 DEF Kick, Register, Notify
<1>5. CASE ReleaseBlocked(t)
  BY <1>5 DEF ReleaseBlocked
<1>6. CASE CannotSubmit(t)
  BY <1>6 DEF CannotSubmit
<1>7. CASE AnnounceBlocked(t)
  BY <1>7 DEF AnnounceBlocked
<1>8. CASE Unpark(t)
  BY <1>8 DEF Unpark
<1>9. CASE PopUsed(t)
  BY <1>9 DEF PopUsed, FinishCompletion, Completes
<1>10. CASE Drained(t)
  BY <1>10 DEF Drained
<1>11. CASE NoteReleased(t)
  BY <1>11 DEF NoteReleased, AfterDrain, Broadcast, Waits
<1>12. CASE Look(t)
  BY <1>12 DEF Look
<1>13. CASE Take(t)
  <2>1. token[t] \in Ids
    BY <1>13 DEF Take, PlaceOf
  <2>2. slots[token[t]].reply \in Requests
    BY <2>1 DEF RingTypes, Slots
  <2> QED BY <2>2, <1>13 DEF Take
<1>14. CASE Collected(t)
  BY <1>14 DEF Collected, Broadcast, NextRequest, Waits
<1>15. CASE TryDrain(t)
  BY <1>15 DEF TryDrain
<1>16. CASE Sleep(t)
  BY <1>16 DEF Sleep
<1>17. CASE Wake(t)
  BY <1>17 DEF Wake
<1>18. CASE GiveUp(t)
  BY <1>18 DEF GiveUp
<1>19. CASE ReturnError(t)
  <2>1. <<t, round[t]>> \in Requests
    BY DEF Requests
  <2> QED BY <2>1, <1>19 DEF ReturnError, NextRequest
<1>20. CASE Unlock(t)
  BY <1>20 DEF Unlock, AfterDrain, Waits
<1> QED BY <1>1, <1>2, <1>3, <1>4, <1>5, <1>6, <1>7, <1>8, <1>9, <1>10, <1>11, <1>12, <1>13, <1>14, <1>15, <1>16, <1>17,
           <1>18, <1>19, <1>20 DEF TaskStep

LEMMA RingTypesStep ==
  ASSUME Types, \A u \in Tasks : PlaceOf(u), NEW t \in Tasks, TaskStep(t)
  PROVE  RingTypes'
<1> USE DEF Types, RingTypes
<1>1. CASE ArmSubmit(t)
  BY <1>1 DEF ArmSubmit
<1>2. CASE Submit(t)
  <2>1. load.buffers[t] \in 1 .. Len(ids)
    BY Room, <1>2 DEF Submit, CanSubmit
  <2>2. /\ SubSeq(ids, 1, load.buffers[t]) \in Seq(Ids)
        /\ SubSeq(ids, load.buffers[t] + 1, Len(ids)) \in Seq(Ids) /\ Head(ids) \in Ids
    BY <2>1, TakeTypes
  <2>3. <<t, round[t]>> \in Requests
    BY DEF Requests, TaskTypes
  <2>4. Plus(availIdx, 1) \in Indices
    BY NextIndex
  <2> QED BY <2>2, <2>3, <2>4, <1>2 DEF Submit
<1>3. CASE SubmitFails(t)
  BY <1>3 DEF SubmitFails
<1>4. CASE Kick(t)
  <2>1. Pending(NoTask) \in Slots
    BY DEF Pending, Idle, Slots, Requests
  <2> QED BY <2>1, <1>4 DEF Kick, Register
<1>5. CASE ReleaseBlocked(t)
  BY <1>5 DEF ReleaseBlocked
<1>6. CASE CannotSubmit(t)
  BY <1>6 DEF CannotSubmit
<1>7. CASE AnnounceBlocked(t)
  BY <1>7 DEF AnnounceBlocked
<1>8. CASE Unpark(t)
  BY <1>8 DEF Unpark
<1>9. CASE PopUsed(t)
  <2>1. used[lastUsed % Size] \in Ids
    BY PlaceIsId
  <2>2. chain[used[lastUsed % Size]].descriptors \in Seq(Ids) /\ chain[used[lastUsed % Size]].request \in Requests
    BY <2>1
  <2>3. ids \o chain[used[lastUsed % Size]].descriptors \in Seq(Ids)
    BY <2>2
  <2>4. Complete(chain[used[lastUsed % Size]].request) \in Slots
    BY <2>2 DEF Complete, Idle, Slots, Requests
  <2>5. Plus(lastUsed, 1) \in Indices
    BY NextIndex
  <2> QED BY <2>3, <2>4, <2>5, <1>9 DEF PopUsed, FinishCompletion, Completes
<1>10. CASE Drained(t)
  BY <1>10 DEF Drained
<1>11. CASE NoteReleased(t)
  BY <1>11 DEF NoteReleased, AfterDrain, Broadcast, Waits
<1>12. CASE Look(t)
  BY <1>12 DEF Look
<1>13. CASE Take(t)
  <2>1. Idle \in Slots
    BY DEF Pending, Idle, Slots, Requests
  <2> QED BY <2>1, <1>13 DEF Take
<1>14. CASE Collected(t)
  BY <1>14 DEF Collected, Broadcast, NextRequest, Waits
<1>15. CASE TryDrain(t)
  BY <1>15 DEF TryDrain
<1>16. CASE Sleep(t)
  <2>1. Pending(t) \in Slots
    BY DEF Pending, Idle, Slots, Requests
  <2> QED BY <2>1, <1>16 DEF Sleep
<1>17. CASE Wake(t)
  BY <1>17 DEF Wake
<1>18. CASE GiveUp(t)
  BY <1>18 DEF GiveUp
<1>19. CASE ReturnError(t)
  BY <1>19 DEF ReturnError
<1>20. CASE Unlock(t)
  BY <1>20 DEF Unlock
<1> QED BY <1>1, <1>2, <1>3, <1>4, <1>5, <1>6, <1>7, <1>8, <1>9, <1>10, <1>11, <1>12, <1>13, <1>14, <1>15, <1>16, <1>17,
           <1>18, <1>19, <1>20 DEF TaskStep

LEMMA DeviceTypesStep ==
  ASSUME Types, NEW t \in Tasks, TaskStep(t)
  PROVE  DeviceTypes'
<1> USE DEF Types, DeviceTypes
<1>1. CASE ArmSubmit(t)
  BY <1>1 DEF ArmSubmit
<1>2. CASE Submit(t)
  BY <1>2 DEF Submit, CanSubmit, HasRoomFor, IsIdle
<1>3. CASE SubmitFails(t)
  <2>1. faults + 1 \in 0 .. MaxFaults
    BY <1>3, RequestsAssumption DEF SubmitFails
  <2> QED BY <2>1, <1>3 DEF SubmitFails
<1>4. CASE Kick(t)
  BY <1>4 DEF Kick, Register, Notify
<1>5. CASE ReleaseBlocked(t)
  BY <1>5 DEF ReleaseBlocked
<1>6. CASE CannotSubmit(t)
  BY <1>6 DEF CannotSubmit
<1>7. CASE AnnounceBlocked(t)
  BY <1>7 DEF AnnounceBlocked
<1>8. CASE Unpark(t)
  BY <1>8 DEF Unpark
<1>9. CASE PopUsed(t)
  BY <1>9 DEF PopUsed, FinishCompletion, Completes
<1>10. CASE Drained(t)
  BY <1>10 DEF Drained
<1>11. CASE NoteReleased(t)
  BY <1>11 DEF NoteReleased, AfterDrain, Broadcast, Waits
<1>12. CASE Look(t)
  BY <1>12 DEF Look
<1>13. CASE Take(t)
  BY <1>13 DEF Take
<1>14. CASE Collected(t)
  BY <1>14 DEF Collected, Broadcast, NextRequest, Waits
<1>15. CASE TryDrain(t)
  BY <1>15 DEF TryDrain
<1>16. CASE Sleep(t)
  BY <1>16 DEF Sleep
<1>17. CASE Wake(t)
  BY <1>17 DEF Wake
<1>18. CASE GiveUp(t)
  BY <1>18 DEF GiveUp
<1>19. CASE ReturnError(t)
  BY <1>19 DEF ReturnError
<1>20. CASE Unlock(t)
  BY <1>20 DEF Unlock
<1> QED BY <1>1, <1>2, <1>3, <1>4, <1>5, <1>6, <1>7, <1>8, <1>9, <1>10, <1>11, <1>12, <1>13, <1>14, <1>15, <1>16, <1>17,
           <1>18, <1>19, <1>20 DEF TaskStep

LEMMA DeviceStepTypes ==
  ASSUME Types, DeviceStep \/ DeviceSignals \/ HandleInterrupt
  PROVE  Types'
<1> USE DEF Types
<1>1. CASE DeviceFetch
  <2>1. avail[dev.next % Size] \in Ids /\ Plus(dev.next, 1) \in Indices
    BY PlaceIsId, NextIndex, DeviceIs DEF RingTypes
  <2> QED BY <2>1, <1>1 DEF DeviceFetch, TaskTypes, RingTypes, DeviceTypes
<1>2. CASE DeviceOffers
  BY <1>2 DEF DeviceOffers, TaskTypes, RingTypes, DeviceTypes
<1>3. CASE DeviceLooksAgain
  BY <1>3 DEF DeviceLooksAgain, TaskTypes, RingTypes, DeviceTypes
<1>4. CASE DeviceWakes
  BY <1>4 DEF DeviceWakes, TaskTypes, RingTypes, DeviceTypes
<1>5. ASSUME NEW id \in Ids, DeviceUses(id) PROVE Types'
  <2>1. Plus(usedIdx, 1) \in Indices
    BY NextIndex DEF RingTypes
  <2> QED BY <2>1, <1>5 DEF DeviceUses, TaskTypes, RingTypes, DeviceTypes
<1>6. CASE DeviceSignals
  BY <1>6 DEF DeviceSignals, TaskTypes, RingTypes, DeviceTypes
<1>7. CASE HandleInterrupt
  BY <1>7 DEF HandleInterrupt, TaskTypes, RingTypes, DeviceTypes, Waits
<1> QED BY <1>1, <1>2, <1>3, <1>4, <1>5, <1>6, <1>7 DEF DeviceStep

LEMMA TypesStep ==
  ASSUME Types, \A u \in Tasks : PlaceOf(u), [Next]_vars
  PROVE  Types'
<1>1. ASSUME NEW t \in Tasks, TaskStep(t) PROVE Types'
  <2>1. TaskTypes' /\ RingTypes' /\ DeviceTypes'
    BY <1>1, TaskTypesStep, RingTypesStep, DeviceTypesStep
  <2> QED BY <2>1 DEF Types
<1>2. CASE DeviceStep \/ DeviceSignals \/ HandleInterrupt
  BY <1>2, DeviceStepTypes
<1>3. CASE UNCHANGED vars
  BY <1>3 DEF vars, Types, TaskTypes, RingTypes, DeviceTypes
<1> QED BY <1>1, <1>2, <1>3 DEF Next

LEMMA NoIdIsNone == NoId \notin Ids
  BY RingAssumption DEF NoId, Ids

\* Each task's place, one step of some task at a time.
LEMMA PlaceStep ==
  ASSUME Types, \A u \in Tasks : PlaceOf(u), NEW t \in Tasks, TaskStep(t), NEW u \in Tasks
  PROVE  PlaceOf(u)'
<1>0. PlaceOf(u) /\ PlaceOf(t) /\ NoTask \notin Tasks
  BY RequestsAssumption
<1> USE DEF Types, TaskTypes, PlaceOf, Pcs
<1>1. CASE ArmSubmit(t)
  BY <1>0, <1>1 DEF ArmSubmit
<1>2. CASE Submit(t)
  <2>1. Head(ids) \in Ids
    BY Room, TakeTypes, <1>2 DEF Submit, CanSubmit, RingTypes
  <2>2. Head(ids) # NoId
    BY <2>1, NoIdIsNone
  <2> QED BY <2>2, <1>0, <1>2 DEF Submit
<1>3. CASE SubmitFails(t)
  BY <1>0, <1>3 DEF SubmitFails
<1>4. CASE Kick(t)
  BY <1>0, <1>4 DEF Kick, Register, Notify
<1>5. CASE ReleaseBlocked(t)
  BY <1>0, <1>5 DEF ReleaseBlocked
<1>6. CASE CannotSubmit(t)
  BY <1>0, <1>6 DEF CannotSubmit
<1>7. CASE AnnounceBlocked(t)
  BY <1>0, <1>7 DEF AnnounceBlocked
<1>8. CASE Unpark(t)
  BY <1>0, <1>8 DEF Unpark
<1>9. CASE PopUsed(t)
  BY <1>0, <1>9 DEF PopUsed, FinishCompletion, Completes
<1>10. CASE Drained(t)
  BY <1>0, <1>10 DEF Drained
<1>11. CASE NoteReleased(t)
  BY <1>0, <1>11 DEF NoteReleased, AfterDrain, Broadcast, Waits
<1>12. CASE Look(t)
  BY <1>0, <1>12 DEF Look
<1>13. CASE Take(t)
  BY <1>0, <1>13 DEF Take
<1>14. CASE Collected(t)
  BY <1>0, <1>14 DEF Collected, Broadcast, NextRequest, Waits
<1>15. CASE TryDrain(t)
  BY <1>0, <1>15 DEF TryDrain
<1>16. CASE Sleep(t)
  BY <1>0, <1>16 DEF Sleep
<1>17. CASE Wake(t)
  BY <1>0, <1>17 DEF Wake
<1>18. CASE GiveUp(t)
  BY <1>0, <1>18 DEF GiveUp
<1>19. CASE ReturnError(t)
  BY <1>0, <1>19 DEF ReturnError, NextRequest
<1>20. CASE Unlock(t)
  BY <1>0, <1>20 DEF Unlock, AfterDrain, Waits
<1> QED BY <1>1, <1>2, <1>3, <1>4, <1>5, <1>6, <1>7, <1>8, <1>9, <1>10, <1>11, <1>12, <1>13, <1>14, <1>15, <1>16, <1>17,
           <1>18, <1>19, <1>20 DEF TaskStep

Announcing == {t \in Tasks : announced[t]}

\* The count moves with the announcements.
LEMMA CountStep ==
  ASSUME Types, CountInv, \A u \in Tasks : PlaceOf(u), NEW t \in Tasks, TaskStep(t)
  PROVE  CountInv'
<1>1. IsFiniteSet(Announcing) /\ blocked = Cardinality(Announcing)
  BY DEF CountInv, Announcing
<1>2. ASSUME IsFiniteSet(Announcing)', blocked' = Cardinality(Announcing)'
      PROVE  CountInv'
  BY <1>2 DEF CountInv, Announcing
<1>3. ASSUME announced' = [announced EXCEPT ![t] = FALSE], announced[t], blocked' = blocked - 1
      PROVE  CountInv'
  <2>1. Announcing' = Announcing \ {t} /\ t \in Announcing
    BY <1>3 DEF Announcing, Types, TaskTypes
  <2> QED BY <1>1, <1>2, <1>3, <2>1, FS_RemoveElement
<1>4. ASSUME announced' = [announced EXCEPT ![t] = TRUE], ~announced[t], blocked' = blocked + 1
      PROVE  CountInv'
  <2>1. Announcing' = Announcing \cup {t} /\ t \notin Announcing
    BY <1>4 DEF Announcing, Types, TaskTypes
  <2> QED BY <1>1, <1>2, <1>4, <2>1, FS_AddElement
<1>5. ASSUME announced' = announced, blocked' = blocked PROVE CountInv'
  BY <1>1, <1>2, <1>5 DEF Announcing
<1>6. CASE ReturnError(t)
  <2>1. CASE announced[t]
    BY <1>3, <1>6, <2>1 DEF ReturnError
  <2>2. CASE ~announced[t]
    <3>1. [announced EXCEPT ![t] = FALSE] = announced
      BY <2>2 DEF Types, TaskTypes
    <3> QED BY <1>5, <1>6, <2>2, <3>1 DEF ReturnError
  <2> QED BY <2>1, <2>2
<1>7. CASE ReleaseBlocked(t)
  BY <1>3, <1>7 DEF ReleaseBlocked, PlaceOf
<1>8. CASE AnnounceBlocked(t)
  BY <1>4, <1>8 DEF AnnounceBlocked, PlaceOf
<1>9. CASE ~(ReturnError(t) \/ ReleaseBlocked(t) \/ AnnounceBlocked(t))
  <2>1. announced' = announced /\ blocked' = blocked
    BY <1>9 DEF TaskStep, ArmSubmit, Submit, SubmitFails, GiveUp, Kick, CannotSubmit, Unpark, PopUsed, Drained, Unlock, NoteReleased, Look, Take, Collected, TryDrain, Sleep, Wake
  <2> QED BY <1>5, <2>1
<1> QED BY <1>6, <1>7, <1>8, <1>9

LEMMA ControlStep ==
  ASSUME ControlInv, [Next]_vars
  PROVE  ControlInv'
<1>1. Types /\ CountInv /\ Placed
  BY DEF ControlInv
<1>2. Types'
  BY <1>1, TypesStep DEF Placed
<1>3. ASSUME NEW t \in Tasks, TaskStep(t) PROVE CountInv' /\ Placed'
  BY <1>1, <1>3, CountStep, PlaceStep DEF Placed
<1>4. ASSUME UNCHANGED <<pc, round, token, announced, freed, lock, blocked>>
      PROVE  CountInv' /\ Placed'
  BY <1>1, <1>4 DEF CountInv, PlaceOf, Placed
<1>5. ASSUME DeviceStep \/ DeviceSignals \/ HandleInterrupt PROVE CountInv' /\ Placed'
  <2>1. UNCHANGED <<pc, round, token, announced, freed, lock, blocked>>
    BY <1>5 DEF DeviceStep, DeviceFetch, DeviceOffers, DeviceLooksAgain, DeviceWakes, DeviceUses, DeviceSignals, HandleInterrupt
  <2> QED BY <1>4, <2>1
<1>6. ASSUME UNCHANGED vars PROVE CountInv' /\ Placed'
  BY <1>4, <1>6 DEF vars
<1>7. CountInv' /\ Placed'
  BY <1>3, <1>5, <1>6 DEF Next
<1> QED BY <1>2, <1>7 DEF ControlInv

LEMMA ControlInit == Init => ControlInv
<1> SUFFICES ASSUME Init PROVE ControlInv
  OBVIOUS
<1>1. Size \in Nat \ {0} /\ Wrap \in Nat \ {0} /\ 0 \in Ids /\ 0 \in Indices /\ MaxFaults \in Nat
  BY RingAssumption, RequestsAssumption DEF Ids, Indices
<1>2. TaskTypes
  BY <1>1 DEF Init, TaskTypes, Pcs, Requests
<1>3. ids \in Seq(Ids)
  <2>1. ids = [i \in 1 .. Size |-> i - 1] /\ \A i \in 1 .. Size : i - 1 \in Ids
    BY <1>1 DEF Init, Ids
  <2> QED BY <1>1, <2>1
<1>4. RingTypes
  <2>1. Idle \in Slots /\ <<NoTask, 0>> \in Requests /\ <<>> \in Seq(Ids)
    BY DEF Idle, Slots, Requests
  <2> QED BY <1>1, <1>3, <2>1 DEF Init, RingTypes
<1>5. DeviceTypes
  <2>1. faults \in 0 .. MaxFaults
    BY <1>1 DEF Init
  <2>2. dev \in [state : {"awake", "offering", "asleep"}, next : Indices, signalled : Indices]
    BY <1>1 DEF Init
  <2> QED BY <2>1, <2>2 DEF Init, DeviceTypes
<1>6. CountInv
  <2>1. {t \in Tasks : announced[t]} = {}
    BY DEF Init
  <2> QED BY <2>1, FS_EmptySet DEF CountInv, Init
<1>7. ASSUME NEW t \in Tasks PROVE PlaceOf(t)
  BY <1>7, RequestsAssumption DEF Init, PlaceOf
<1> QED BY <1>2, <1>4, <1>5, <1>6, <1>7 DEF ControlInv, Types, Placed

-----------------------------------------------------------------------------
(* What moves a chain                                                      *)

LEMMA RingFacts ==
  ASSUME Types, RingInv
  PROVE  /\ Waiting \in 0 .. Size /\ Unread \in 0 .. Size
         /\ Offered \subseteq Ids /\ Returned \subseteq Ids /\ Published \subseteq Ids
<1>1. Size \in Nat
  BY RingAssumption
<1>2. Waiting \in Nat /\ Unread \in Nat
  BY Apart, DeviceIs DEF Types, RingTypes, Waiting, Unread
<1>3. Waiting \in 0 .. Size /\ Unread \in 0 .. Size
  BY <1>1, <1>2 DEF RingInv
<1>4. Offered \subseteq Ids
  BY <1>3, WindowType, DeviceIs DEF Offered, Waiting, Types, RingTypes
<1>5. Returned \subseteq Ids
  BY <1>3, WindowType DEF Returned, Unread, Types, RingTypes
<1> QED BY <1>3, <1>4, <1>5 DEF Published, Types, DeviceTypes

\* The chain of a submission is offered.
LEMMA SubmitOffers ==
  ASSUME Types, RingInv, NEW t \in Tasks, Submit(t), Head(ids) \in Ids, Head(ids) \notin Published
  PROVE  /\ RingInv' /\ Waiting' = Waiting + 1
         /\ Published' = Published \cup {Head(ids)}
<1>1. Size \in Nat \ {0} /\ Wrap \in Nat /\ Size < Wrap
  BY RingAssumption
<1>2. /\ avail \in [Ids -> Ids] /\ availIdx \in Indices /\ dev.next \in Indices
  BY DeviceIs DEF Types, RingTypes
<1>3. Waiting \in 0 .. Size /\ Distinct(avail, dev.next, Waiting) /\ Head(ids) \notin Window(avail, dev.next, Waiting)
  BY RingFacts DEF RingInv, Published, Offered, Waiting
<1>4. Waiting < Size
  BY <1>2, <1>3, WindowShort
<1>5. availIdx = Plus(dev.next, Waiting)
  BY <1>2, Apart DEF Waiting
<1>6. Waiting' = Waiting + 1
  <2>1. Minus(availIdx, dev.next) < Wrap - 1
    BY <1>1, <1>3, <1>4 DEF Waiting
  <2>2. availIdx' = Plus(availIdx, 1) /\ dev' = dev
    BY DEF Submit
  <2> QED BY <2>1, <2>2, <1>2, StepAhead DEF Waiting
<1>7. Waiting \in 0 .. Size - 1
  BY <1>1, <1>3, <1>4
<1>8. /\ Window(avail', dev.next, Waiting + 1) = Window(avail, dev.next, Waiting) \cup {Head(ids)}
      /\ Distinct(avail', dev.next, Waiting + 1)
  <2>1. avail' = Written(avail, availIdx % Size, Head(ids))
    BY DEF Submit, Written
  <2> QED BY <1>2, <1>3, <1>5, <1>7, <2>1, WindowPush
<1>9. UNCHANGED <<dev, working, used, usedIdx, lastUsed>>
  BY DEF Submit
<1>10. Offered' = Offered \cup {Head(ids)} /\ Distinct(avail, dev.next, Waiting)'
  BY <1>6, <1>8, <1>9 DEF Offered, Waiting
<1>11. Returned' = Returned /\ Unread' = Unread /\ Distinct(used, lastUsed, Unread)' = Distinct(used, lastUsed, Unread)
  BY <1>9 DEF Returned, Unread
<1>12. Waiting' <= Size
  BY <1>1, <1>3, <1>4, <1>6
<1> QED BY <1>6, <1>9, <1>10, <1>11, <1>12 DEF RingInv, Published

\* It goes to the device.
LEMMA FetchMoves ==
  ASSUME Types, RingInv, DeviceFetch
  PROVE  RingInv' /\ Waiting' = Waiting - 1 /\ Waiting > 0 /\ Published' = Published
<1>1. Size \in Nat \ {0} /\ Wrap \in Nat /\ Size < Wrap
  BY RingAssumption
<1>2. /\ avail \in [Ids -> Ids] /\ availIdx \in Indices /\ dev.next \in Indices
  BY DeviceIs DEF Types, RingTypes
<1>3. Waiting \in 0 .. Size /\ Distinct(avail, dev.next, Waiting)
  BY RingFacts DEF RingInv
<1>4. dev'.next = Plus(dev.next, 1) /\ availIdx # dev.next /\ UNCHANGED <<avail, availIdx, used, usedIdx, lastUsed>>
  BY DEF DeviceFetch, Types, DeviceTypes
<1>5. Waiting' = Waiting - 1 /\ Waiting > 0
  BY <1>2, <1>4, StepBehind DEF Waiting
<1>6. Waiting \in 1 .. Size
  BY <1>1, <1>3, <1>5
<1> DEFINE x == avail[dev.next % Size]
<1>7. /\ Window(avail, dev.next, Waiting) = {x} \cup Window(avail, Plus(dev.next, 1), Waiting - 1)
      /\ x \notin Window(avail, Plus(dev.next, 1), Waiting - 1)
      /\ Distinct(avail, Plus(dev.next, 1), Waiting - 1)
  BY <1>2, <1>3, <1>6, WindowPop
<1>8. Offered = {x} \cup Offered' /\ x \notin Offered' /\ Distinct(avail, dev.next, Waiting)'
  BY <1>4, <1>5, <1>7 DEF Offered, Waiting
<1>9. working' = working \cup {x}
  BY DEF DeviceFetch
<1>10. Returned' = Returned /\ Unread' = Unread /\ Distinct(used, lastUsed, Unread)' = Distinct(used, lastUsed, Unread)
  BY <1>4 DEF Returned, Unread
<1>11. Waiting' <= Size
  BY <1>1, <1>3, <1>5
<1> HIDE DEF x
<1> QED BY <1>5, <1>8, <1>9, <1>10, <1>11 DEF RingInv, Published

\* The device gives it back.
LEMMA UsesReturns ==
  ASSUME Types, RingInv, NEW id \in Ids, DeviceUses(id)
  PROVE  RingInv' /\ Unread' = Unread + 1 /\ Published' = Published
<1>1. Size \in Nat \ {0} /\ Wrap \in Nat /\ Size < Wrap
  BY RingAssumption
<1>2. used \in [Ids -> Ids] /\ usedIdx \in Indices /\ lastUsed \in Indices
  BY DEF Types, RingTypes
<1>3. Unread \in 0 .. Size /\ Distinct(used, lastUsed, Unread) /\ id \notin Window(used, lastUsed, Unread)
  BY RingFacts DEF RingInv, Returned, Unread, DeviceUses
<1>4. Unread < Size
  BY <1>2, <1>3, WindowShort
<1>5. usedIdx = Plus(lastUsed, Unread)
  BY <1>2, Apart DEF Unread
<1>6. Unread' = Unread + 1
  <2>1. Minus(usedIdx, lastUsed) < Wrap - 1
    BY <1>1, <1>3, <1>4 DEF Unread
  <2>2. usedIdx' = Plus(usedIdx, 1) /\ lastUsed' = lastUsed
    BY DEF DeviceUses
  <2> QED BY <2>1, <2>2, <1>2, StepAhead DEF Unread
<1>7. Unread \in 0 .. Size - 1
  BY <1>1, <1>3, <1>4
<1>8. /\ Window(used', lastUsed, Unread + 1) = Window(used, lastUsed, Unread) \cup {id}
      /\ Distinct(used', lastUsed, Unread + 1)
  <2>1. used' = Written(used, usedIdx % Size, id)
    BY DEF DeviceUses, Written
  <2> QED BY <1>2, <1>3, <1>5, <1>7, <2>1, WindowPush
<1>9. UNCHANGED <<dev, avail, availIdx, lastUsed>> /\ working' = working \ {id} /\ id \in working
  BY DEF DeviceUses
<1>10. Returned' = Returned \cup {id} /\ Distinct(used, lastUsed, Unread)'
  BY <1>6, <1>8, <1>9 DEF Returned, Unread
<1>11. Offered' = Offered /\ Waiting' = Waiting /\ Distinct(avail, dev.next, Waiting)' = Distinct(avail, dev.next, Waiting)
  BY <1>9 DEF Offered, Waiting
<1>12. Unread' <= Size
  BY <1>1, <1>3, <1>4, <1>6
<1> QED BY <1>6, <1>9, <1>10, <1>11, <1>12 DEF RingInv, Published

\* The chain that the task drains next.
Drains == used[lastUsed % Size]

\* A drain takes it.
LEMMA PopTakes ==
  ASSUME Types, RingInv, NEW t \in Tasks, PopUsed(t)
  PROVE  /\ RingInv' /\ Unread' = Unread - 1 /\ Unread > 0 /\ Waiting' = Waiting
         /\ Drains \in Ids /\ Drains \in Published /\ Published' = Published \ {Drains}
<1>1. Size \in Nat \ {0} /\ Wrap \in Nat /\ Size < Wrap
  BY RingAssumption
<1>2. used \in [Ids -> Ids] /\ usedIdx \in Indices /\ lastUsed \in Indices
  BY DEF Types, RingTypes
<1>3. Unread \in 0 .. Size /\ Distinct(used, lastUsed, Unread)
  BY RingFacts DEF RingInv
<1>4. lastUsed' = Plus(lastUsed, 1) /\ usedIdx # lastUsed /\ UNCHANGED <<avail, availIdx, used, usedIdx, dev, working>>
  BY DEF PopUsed, FinishCompletion
<1>5. Unread' = Unread - 1 /\ Unread > 0
  BY <1>2, <1>4, StepBehind DEF Unread
<1>6. Unread \in 1 .. Size
  BY <1>1, <1>3, <1>5
<1>7. /\ Drains \in Ids
      /\ Window(used, lastUsed, Unread) = {Drains} \cup Window(used, Plus(lastUsed, 1), Unread - 1)
      /\ Drains \notin Window(used, Plus(lastUsed, 1), Unread - 1)
      /\ Distinct(used, Plus(lastUsed, 1), Unread - 1)
  BY <1>2, <1>3, <1>6, WindowPop DEF Drains
<1>8. Returned = {Drains} \cup Returned' /\ Drains \notin Returned' /\ Distinct(used, lastUsed, Unread)'
  BY <1>4, <1>5, <1>7 DEF Returned, Unread
<1>9. Offered' = Offered /\ Waiting' = Waiting /\ Distinct(avail, dev.next, Waiting)' = Distinct(avail, dev.next, Waiting)
  BY <1>4 DEF Offered, Waiting
<1>10. Unread' <= Size
  BY <1>1, <1>3, <1>5
<1> HIDE DEF Drains
<1> QED BY <1>4, <1>5, <1>7, <1>8, <1>9, <1>10 DEF RingInv, Published

\* Nothing else moves a chain.
LEMMA RingQuiet ==
  ASSUME RingInv, UNCHANGED <<avail, availIdx, used, usedIdx, lastUsed, working>>, dev'.next = dev.next
  PROVE  /\ RingInv' /\ Waiting' = Waiting /\ Unread' = Unread
         /\ Published' = Published
  BY DEF RingInv, Waiting, Unread, Offered, Returned, Published

-----------------------------------------------------------------------------
(* The descriptors                                                         *)

Links == [Ids -> [descriptors : Seq(Ids), request : Requests]]

LEMMA HeadIsMember == ASSUME NEW s \in Seq(Ids), s # <<>> PROVE Head(s) \in Members(s) /\ Head(s) \in Ids
<1>1. Len(s) \in Nat /\ Len(s) # 0
  OBVIOUS
<1>2. Head(s) = s[1] /\ 1 \in 1 .. Len(s)
  BY <1>1
<1> QED BY <1>2 DEF Members

\* No free identifier is the head of a published chain.
LEMMA FreeIsFree ==
  ASSUME NEW P \in SUBSET Ids, NEW links \in Links, NEW free \in Seq(Ids), Partition(P, links, free),
         NEW x \in Members(free)
  PROVE  x \notin P
<1> SUFFICES ASSUME x \in P PROVE FALSE
  OBVIOUS
<1>1. links[x].descriptors \in Seq(Ids) /\ links[x].descriptors # <<>> /\ Head(links[x].descriptors) = x
  BY DEF Links, Partition
<1>2. x \in Has(links, x)
  BY <1>1, HeadIsMember DEF Has
<1> QED BY <1>2 DEF Partition

\* The submission of a chain, and its end.
LEMMA PartitionSubmit ==
  ASSUME NEW P \in SUBSET Ids, NEW links \in Links, NEW free \in Seq(Ids), Partition(P, links, free),
         NEW n \in 1 .. Len(free), NEW r, NEW new,
         new = Written(links, Head(free), [descriptors |-> FirstOf(free, n), request |-> r])
  PROVE  /\ Head(free) \in Ids /\ Head(free) \notin P
         /\ Partition(P \cup {Head(free)}, new, RestOf(free, n))
<1>1. PICK h : h = Head(free)
  OBVIOUS
<1>2. PICK a : a = FirstOf(free, n)
  OBVIOUS
<1>3. PICK b : b = RestOf(free, n)
  OBVIOUS
<1>4. OnceEach(free)
  BY DEF Partition
<1>5. /\ a \in Seq(Ids) /\ a # <<>> /\ Head(a) = h /\ h \in Ids
      /\ OnceEach(a) /\ OnceEach(b) /\ Members(a) \cap Members(b) = {}
      /\ Members(free) = Members(a) \cup Members(b) /\ h \in Members(a)
  BY <1>1, <1>2, <1>3, <1>4, TakeFree
<1>6. h \notin P
  BY <1>5, FreeIsFree
<1>7. new[h].descriptors = a /\ \A id \in P : new[id] = links[id]
  BY <1>1, <1>2, <1>5, <1>6 DEF Written, Links
<1>8. Has(new, h) = Members(a) /\ \A id \in P : Has(new, id) = Has(links, id)
  BY <1>7 DEF Has
<1>9. \A id \in P : /\ links[id].descriptors # <<>> /\ Head(links[id].descriptors) = id
                    /\ OnceEach(links[id].descriptors)
                    /\ Has(links, id) \cap Members(free) = {}
                    /\ \A other \in P : other # id => Has(links, id) \cap Has(links, other) = {}
  BY DEF Partition
<1>10. ASSUME NEW id \in P \cup {h}
       PROVE  /\ new[id].descriptors # <<>> /\ Head(new[id].descriptors) = id
              /\ OnceEach(new[id].descriptors)
              /\ Has(new, id) \cap Members(b) = {}
              /\ \A other \in P \cup {h} : other # id => Has(new, id) \cap Has(new, other) = {}
  <2>1. CASE id = h
    BY <2>1, <1>5, <1>7, <1>8, <1>9
  <2>2. CASE id \in P
    <3>1. new[id] = links[id]
      BY <2>2, <1>7
    <3>2. Has(links, id) \cap Members(a) = {} /\ Has(links, id) \cap Members(b) = {}
      BY <2>2, <1>5, <1>9
    <3> QED BY <2>2, <3>1, <3>2, <1>8, <1>9
  <2> QED BY <2>1, <2>2
<1>11. ASSUME NEW i \in Ids PROVE i \in Members(b) \/ \E id \in P \cup {h} : i \in Has(new, id)
  <2>1. i \in Members(free) \/ \E id \in P : i \in Has(links, id)
    BY DEF Partition
  <2> QED BY <2>1, <1>5, <1>8
<1>12. Partition(P \cup {h}, new, b)
  BY <1>5, <1>10, <1>11 DEF Partition
<1> QED BY <1>1, <1>3, <1>5, <1>6, <1>12

LEMMA PartitionPop ==
  ASSUME NEW P \in SUBSET Ids, NEW links \in Links, NEW free \in Seq(Ids), Partition(P, links, free),
         NEW x \in P
  PROVE  Partition(P \ {x}, links, free \o links[x].descriptors)
<1>1. PICK d : d = links[x].descriptors
  OBVIOUS
<1>2. d \in Seq(Ids) /\ OnceEach(d) /\ OnceEach(free) /\ Members(d) = Has(links, x) /\ Members(free) \cap Members(d) = {}
  BY <1>1 DEF Partition, Links, Has
<1>3. PICK f : f = free \o d
  OBVIOUS
<1>4. OnceEach(f) /\ Members(f) = Members(free) \cup Has(links, x)
  BY <1>2, <1>3, GiveBack
<1>5. ASSUME NEW id \in P \ {x} PROVE Has(links, id) \cap Members(f) = {}
  BY <1>4 DEF Partition
<1>6. ASSUME NEW i \in Ids PROVE i \in Members(f) \/ \E id \in P \ {x} : i \in Has(links, id)
  BY <1>4 DEF Partition
<1>7. Partition(P \ {x}, links, f)
  BY <1>4, <1>5, <1>6 DEF Partition
<1> QED BY <1>1, <1>3, <1>7

LEMMA LinksType == Types => chain \in Links
  BY DEF Types, RingTypes, Links

\* What a submission does to the ring and to the descriptors.
LEMMA SubmitTable ==
  ASSUME Types, RingInv, DescInv, NEW t \in Tasks, Submit(t)
  PROVE  /\ Head(ids) \in Ids /\ Head(ids) \notin Published /\ Waiting' = Waiting + 1
         /\ RingInv' /\ DescInv' /\ Published' = Published \cup {Head(ids)}
<1>1. load.buffers[t] \in 1 .. Len(ids)
  BY Room DEF Submit, CanSubmit
<1>2. Published \in SUBSET Ids /\ chain \in Links /\ ids \in Seq(Ids)
  BY RingFacts, LinksType DEF Types, RingTypes
<1>3. chain' = Written(chain, Head(ids), [descriptors |-> FirstOf(ids, load.buffers[t]), request |-> <<t, round[t]>>])
  BY DEF Submit, Written, FirstOf
<1>4. /\ Head(ids) \in Ids /\ Head(ids) \notin Published
      /\ Partition(Published \cup {Head(ids)}, chain', RestOf(ids, load.buffers[t]))
  BY <1>1, <1>2, <1>3, PartitionSubmit DEF DescInv
<1>5. RingInv' /\ Published' = Published \cup {Head(ids)} /\ Waiting' = Waiting + 1
  BY <1>4, SubmitOffers
<1>6. ids' = RestOf(ids, load.buffers[t])
  BY DEF Submit, RestOf
<1> QED BY <1>4, <1>5, <1>6 DEF DescInv

LEMMA PopTable ==
  ASSUME Types, RingInv, DescInv, NEW t \in Tasks, PopUsed(t)
  PROVE  RingInv' /\ DescInv'
<1>1. RingInv' /\ Drains \in Published /\ Published' = Published \ {Drains}
  BY PopTakes
<1>2. Published \in SUBSET Ids /\ chain \in Links /\ ids \in Seq(Ids)
  BY RingFacts, LinksType DEF Types, RingTypes
<1>3. Partition(Published \ {Drains}, chain, ids \o chain[Drains].descriptors)
  BY <1>1, <1>2, PartitionPop DEF DescInv
<1>4. chain' = chain /\ ids' = ids \o chain[Drains].descriptors
  BY DEF PopUsed, FinishCompletion, Drains
<1> QED BY <1>1, <1>3, <1>4 DEF DescInv

-----------------------------------------------------------------------------
(* Who owns a chain                                                        *)

OwnedAll == \A id \in Ids : id \in Published \/ slots[id].state # "idle" => Owned(id)
Owners == \A t \in Tasks : OwnerOf(t)

LEMMA OwnParts == OwnInv <=> Owners /\ OwnedAll /\ RepliesAreOwn
  BY DEF OwnInv, Owners, OwnedAll

LEMMA TokenType ==
  ASSUME Types, NEW t \in Tasks, token[t] # NoId
  PROVE  token[t] \in Ids
  BY DEF Types, TaskTypes

LEMMA OnlyHolder ==
  ASSUME Placed, NEW t \in Tasks, lock = NoTask \/ lock = t, pc[t] # "kick", NEW u \in Tasks
  PROVE  pc[u] # "kick"
  BY RequestsAssumption DEF Placed, PlaceOf

LEMMA OwnSubmit ==
  ASSUME Types, Placed, RingInv, DescInv, OwnInv, NEW t \in Tasks, Submit(t)
  PROVE  OwnInv'
<1>1. PICK h \in Ids : h = Head(ids)
  BY SubmitTable
<1>2. h \notin Published /\ Published' = Published \cup {h}
  BY <1>1, SubmitTable
<1>3. /\ At(t, "lock") /\ lock = NoTask /\ slots[h].state = "idle"
      /\ pc' = [pc EXCEPT ![t] = "kick"] /\ token' = [token EXCEPT ![t] = h]
      /\ UNCHANGED <<round, slots, got>>
  BY <1>1 DEF Submit, CanSubmit, IsIdle
<1>4. chain'[h].request = <<t, round[t]>> /\ \A id \in Ids : id # h => chain'[id] = chain[id]
  BY <1>1 DEF Submit, Types, RingTypes
<1>5. token[t] = NoId /\ \A u \in Tasks : pc[u] # "kick"
  BY <1>3, OnlyHolder DEF Placed, PlaceOf
<1>6. \A u \in Tasks : Active(u) => token[u] # h
  BY <1>2, <1>3, <1>5, OwnParts DEF Owners, OwnerOf, SlotOf
<1>7. h # NoId
  BY NoIdIsNone
<1>8. \A u \in Tasks : u # t => token'[u] = token[u] /\ pc'[u] = pc[u] /\ (Active(u)' <=> Active(u))
  BY <1>3 DEF Active, Types, TaskTypes
<1>9. token'[t] = h /\ pc'[t] = "kick" /\ Active(t)'
  BY <1>3, <1>7 DEF Active, Types, TaskTypes
<1>10. ASSUME NEW u \in Tasks PROVE OwnerOf(u)'
  <2>1. CASE u = t
    <3>1. \A v \in Tasks : Active(v)' /\ token'[v] = h => v = t
      BY <1>6, <1>8
    <3> QED BY <2>1, <3>1, <1>2, <1>3, <1>4, <1>9 DEF OwnerOf, SlotOf
  <2>2. CASE u # t /\ Active(u)
    <3>1. token[u] \in Ids /\ token[u] # h
      BY <2>2, <1>6, TokenType DEF Active
    <3>2. \A v \in Tasks : Active(v)' /\ token'[v] = token[u] => v = u
      BY <2>2, <3>1, <1>8, <1>9, OwnParts DEF Owners, OwnerOf
    <3>3. OwnerOf(u)
      BY OwnParts DEF Owners
    <3> QED BY <2>2, <3>1, <3>2, <3>3, <1>2, <1>3, <1>4, <1>5, <1>8 DEF OwnerOf, SlotOf
  <2>3. CASE u # t /\ ~Active(u)
    BY <2>3, <1>8 DEF OwnerOf
  <2> QED BY <2>1, <2>2, <2>3
<1>11. OwnedAll'
  <2> SUFFICES ASSUME NEW id \in Ids, id \in Published' \/ slots'[id].state # "idle" PROVE Owned(id)'
    BY DEF OwnedAll
  <2>1. CASE id = h
    BY <2>1, <1>9 DEF Owned
  <2>2. CASE id # h
    <3>1. PICK u \in Tasks : Active(u) /\ token[u] = id
      BY <2>2, <1>2, <1>3, OwnParts DEF OwnedAll, Owned
    <3>2. u # t
      BY <3>1, <1>5 DEF Active
    <3> QED BY <3>1, <3>2, <1>8 DEF Owned
  <2> QED BY <2>1, <2>2
<1>12. RepliesAreOwn'
  BY <1>3, OwnParts DEF RepliesAreOwn, Types, TaskTypes
<1> QED BY <1>10, <1>11, <1>12 DEF OwnInv, OwnedAll

LEMMA OwnKick ==
  ASSUME Types, Placed, RingInv, OwnInv, NEW t \in Tasks, Kick(t)
  PROVE  OwnInv'
<1>1. /\ pc[t] = "kick" /\ slots' = [slots EXCEPT ![token[t]] = Pending(NoTask)]
      /\ UNCHANGED <<token, chain, round, got>>
  BY DEF Kick, Register
<1>2. Published' = Published
  BY RingQuiet DEF Kick
<1>3. pc'[t] \in {"release", "look"} /\ \A u \in Tasks : u # t => pc'[u] = pc[u]
  BY DEF Kick, Types, TaskTypes
<1>4. token[t] # NoId /\ token[t] \in Ids /\ Active(t)
  BY <1>1, TokenType DEF Placed, PlaceOf, Active
<1>5. \A u \in Tasks : Active(u)' <=> Active(u)
  BY <1>1, <1>3 DEF Active
<1>6. slots'[token[t]] = Pending(NoTask) /\ \A id \in Ids : id # token[t] => slots'[id] = slots[id]
  BY <1>1, <1>4 DEF Types, RingTypes
<1>7. Pending(NoTask).state = "pending" /\ Pending(NoTask).waker = NoTask
  BY DEF Pending, Idle
<1>8. OwnerOf(t) /\ \A u \in Tasks : u # t /\ Active(u) => token[u] # token[t]
  BY <1>4, OwnParts DEF Owners, OwnerOf
<1>9. ASSUME NEW u \in Tasks PROVE OwnerOf(u)'
  <2>0. OwnerOf(u)
    BY OwnParts DEF Owners
  <2>1. CASE u = t
    BY <2>0, <2>1, <1>1, <1>2, <1>3, <1>4, <1>5, <1>6, <1>7 DEF OwnerOf, SlotOf
  <2>2. CASE u # t /\ Active(u)
    <3>1. token[u] \in Ids /\ token[u] # token[t]
      BY <2>2, <1>8, TokenType DEF Active
    <3> QED BY <2>0, <2>2, <3>1, <1>1, <1>2, <1>3, <1>5, <1>6 DEF OwnerOf, SlotOf
  <2>3. CASE ~Active(u)
    BY <2>3, <1>5 DEF OwnerOf
  <2> QED BY <2>1, <2>2, <2>3
<1>10. OwnedAll'
  <2> SUFFICES ASSUME NEW id \in Ids, id \in Published' \/ slots'[id].state # "idle" PROVE Owned(id)'
    BY DEF OwnedAll
  <2>1. Owned(id)
    BY <1>2, <1>4, <1>6, OwnParts DEF OwnedAll, Owned
  <2> QED BY <2>1, <1>1, <1>5 DEF Owned
<1>11. RepliesAreOwn'
  BY <1>1, <1>3, OwnParts DEF RepliesAreOwn, Types, TaskTypes
<1> QED BY <1>9, <1>10, <1>11 DEF OwnInv, OwnedAll

\* A completion is given to the task that waits for it.
LEMMA OwnPop ==
  ASSUME Types, Placed, RingInv, OwnInv, NEW t \in Tasks, PopUsed(t)
  PROVE  OwnInv'
<1>1. Drains \in Ids /\ Drains \in Published /\ Published' = Published \ {Drains}
  BY PopTakes
<1>2. /\ pc[t] = "drain" /\ slots' = [slots EXCEPT ![Drains] = Complete(chain[Drains].request)]
      /\ UNCHANGED <<pc, token, chain, round, got>>
  BY DEF PopUsed, Completes, Drains
<1>3. lock = t
  BY <1>2 DEF Placed, PlaceOf
<1>4. \A u \in Tasks : pc[u] # "kick"
  BY <1>2, <1>3, OnlyHolder
<1>5. PICK w \in Tasks : Active(w) /\ token[w] = Drains
  BY <1>1, OwnParts DEF OwnedAll, Owned
<1>6. chain[Drains].request = <<w, round[w]>> /\ \A u \in Tasks : Active(u) /\ token[u] = Drains => u = w
  BY <1>1, <1>5, OwnParts DEF Owners, OwnerOf
<1>7. slots'[Drains] = Complete(<<w, round[w]>>) /\ \A id \in Ids : id # Drains => slots'[id] = slots[id]
  BY <1>1, <1>2, <1>6 DEF Types, RingTypes
<1>8. Complete(<<w, round[w]>>).state = "complete" /\ Complete(<<w, round[w]>>).reply = <<w, round[w]>>
  BY DEF Complete, Idle
<1>9. \A u \in Tasks : Active(u)' <=> Active(u)
  BY <1>2 DEF Active
<1>10. ASSUME NEW u \in Tasks PROVE OwnerOf(u)'
  <2>0. OwnerOf(u)
    BY OwnParts DEF Owners
  <2>1. CASE u = w
    BY <2>0, <2>1, <1>1, <1>2, <1>4, <1>5, <1>7, <1>8, <1>9 DEF OwnerOf, SlotOf
  <2>2. CASE u # w /\ Active(u)
    <3>1. token[u] \in Ids /\ token[u] # Drains
      BY <2>2, <1>6, TokenType DEF Active
    <3> QED BY <2>0, <2>2, <3>1, <1>1, <1>2, <1>7, <1>9 DEF OwnerOf, SlotOf
  <2>3. CASE ~Active(u)
    BY <2>3, <1>9 DEF OwnerOf
  <2> QED BY <2>1, <2>2, <2>3
<1>11. OwnedAll'
  <2> SUFFICES ASSUME NEW id \in Ids, id \in Published' \/ slots'[id].state # "idle" PROVE Owned(id)'
    BY DEF OwnedAll
  <2>1. Owned(id)
    BY <1>1, <1>5, <1>7, OwnParts DEF OwnedAll, Owned
  <2> QED BY <2>1, <1>2, <1>9 DEF Owned
<1>12. RepliesAreOwn'
  BY <1>2, OwnParts DEF RepliesAreOwn
<1> QED BY <1>10, <1>11, <1>12 DEF OwnInv, OwnedAll

LEMMA OwnTake ==
  ASSUME Types, Placed, RingInv, OwnInv, NEW t \in Tasks, Take(t), slots[token[t]].state = "complete"
  PROVE  OwnInv'
<1>1. /\ pc[t] = "take" /\ slots' = [slots EXCEPT ![token[t]] = Idle]
      /\ pc' = [pc EXCEPT ![t] = "collected"] /\ got' = [got EXCEPT ![t] = slots[token[t]].reply]
      /\ UNCHANGED <<token, chain, round>>
  BY DEF Take
<1>2. Published' = Published
  BY RingQuiet DEF Take
<1>3. token[t] # NoId /\ token[t] \in Ids /\ Active(t)
  BY <1>1, TokenType DEF Placed, PlaceOf, Active
<1>4. /\ SlotOf(t).reply = <<t, round[t]>> /\ token[t] \notin Published
      /\ \A u \in Tasks : u # t /\ Active(u) => token[u] # token[t]
  BY <1>1, <1>3, OwnParts DEF Owners, OwnerOf, SlotOf
<1>5. pc'[t] = "collected" /\ ~Active(t)' /\ \A u \in Tasks : u # t => pc'[u] = pc[u] /\ (Active(u)' <=> Active(u))
  BY <1>1 DEF Active, Types, TaskTypes
<1>6. slots'[token[t]].state = "idle" /\ \A id \in Ids : id # token[t] => slots'[id] = slots[id]
  BY <1>1, <1>3 DEF Types, RingTypes, Idle
<1>7. ASSUME NEW u \in Tasks PROVE OwnerOf(u)'
  <2>0. OwnerOf(u)
    BY OwnParts DEF Owners
  <2>1. CASE u # t /\ Active(u)
    <3>1. token[u] \in Ids /\ token[u] # token[t]
      BY <2>1, <1>4, TokenType DEF Active
    <3>2. \A v \in Tasks : Active(v)' /\ token'[v] = token'[u] => v = u
      BY <2>0, <2>1, <1>1, <1>5 DEF OwnerOf
    <3> QED BY <2>0, <2>1, <3>1, <3>2, <1>1, <1>2, <1>5, <1>6 DEF OwnerOf, SlotOf
  <2>2. CASE u = t \/ ~Active(u)
    BY <2>2, <1>5 DEF OwnerOf
  <2> QED BY <2>1, <2>2
<1>8. OwnedAll'
  <2> SUFFICES ASSUME NEW id \in Ids, id \in Published' \/ slots'[id].state # "idle" PROVE Owned(id)'
    BY DEF OwnedAll
  <2>1. id # token[t]
    BY <1>2, <1>4, <1>6
  <2>2. PICK u \in Tasks : Active(u) /\ token[u] = id
    BY <2>1, <1>2, <1>6, OwnParts DEF OwnedAll, Owned
  <2> QED BY <2>1, <2>2, <1>1, <1>5 DEF Owned
<1>9. RepliesAreOwn'
  BY <1>1, <1>4, <1>5, OwnParts DEF RepliesAreOwn, SlotOf, Types, TaskTypes
<1> QED BY <1>7, <1>8, <1>9 DEF OwnInv, OwnedAll

LEMMA OwnCollected ==
  ASSUME Types, Placed, RingInv, OwnInv, NEW t \in Tasks, Collected(t)
  PROVE  OwnInv'
<1>1. /\ pc[t] = "collected" /\ token' = [token EXCEPT ![t] = NoId] /\ round' = [round EXCEPT ![t] = @ + 1]
      /\ UNCHANGED <<chain, slots, got>>
  BY DEF Collected, NextRequest
<1>2. Published' = Published
  BY RingQuiet DEF Collected
<1>3. /\ pc'[t] # "collected" /\ token'[t] = NoId /\ round'[t] = round[t] + 1 /\ ~Active(t) /\ ~Active(t)'
      /\ \A u \in Tasks : u # t => pc'[u] = pc[u] /\ token'[u] = token[u] /\ round'[u] = round[u] /\ (Active(u)' <=> Active(u))
  BY <1>1 DEF Collected, NextRequest, Active, Types, TaskTypes
<1>4. ASSUME NEW u \in Tasks PROVE OwnerOf(u)'
  <2>0. OwnerOf(u)
    BY OwnParts DEF Owners
  <2>1. CASE u # t /\ Active(u)
    <3>1. \A v \in Tasks : Active(v)' /\ token'[v] = token'[u] => v = u
      BY <2>0, <2>1, <1>3 DEF OwnerOf
    <3> QED BY <2>0, <2>1, <3>1, <1>1, <1>2, <1>3 DEF OwnerOf, SlotOf
  <2>2. CASE u = t \/ ~Active(u)
    BY <2>2, <1>3 DEF OwnerOf
  <2> QED BY <2>1, <2>2
<1>5. OwnedAll'
  <2> SUFFICES ASSUME NEW id \in Ids, id \in Published' \/ slots'[id].state # "idle" PROVE Owned(id)'
    BY DEF OwnedAll
  <2>1. PICK u \in Tasks : Active(u) /\ token[u] = id
    BY <1>1, <1>2, OwnParts DEF OwnedAll, Owned
  <2> QED BY <2>1, <1>3 DEF Owned
<1>6. RepliesAreOwn'
  <2> SUFFICES ASSUME NEW u \in Tasks
               PROVE  got'[u] = <<u, IF pc'[u] = "collected" THEN round'[u] ELSE round'[u] - 1>>
    BY DEF RepliesAreOwn
  <2>1. got'[u] = <<u, IF pc[u] = "collected" THEN round[u] ELSE round[u] - 1>>
    BY <1>1, OwnParts DEF RepliesAreOwn
  <2>2. CASE u = t
    <3>1. round[t] \in Nat
      BY DEF Types, TaskTypes
    <3>2. round'[t] - 1 = round[t]
      BY <3>1, <1>3
    <3> QED BY <2>1, <2>2, <3>2, <1>1, <1>3
  <2>3. CASE u # t
    BY <2>1, <2>3, <1>3
  <2> QED BY <2>2, <2>3
<1> QED BY <1>4, <1>5, <1>6 DEF OwnInv, OwnedAll

LEMMA OwnReturnError ==
  ASSUME Types, Placed, RingInv, OwnInv, NEW t \in Tasks, ReturnError(t)
  PROVE  OwnInv'
<1>1. /\ pc[t] = "error" /\ got' = [got EXCEPT ![t] = <<t, round[t]>>] /\ round' = [round EXCEPT ![t] = @ + 1]
      /\ UNCHANGED <<token, chain, slots>>
  BY DEF ReturnError, NextRequest
<1>2. Published' = Published
  BY RingQuiet DEF ReturnError
<1>3. token[t] = NoId
  BY <1>1 DEF Placed, PlaceOf
<1>4. /\ pc'[t] # "collected" /\ got'[t] = <<t, round[t]>> /\ round'[t] = round[t] + 1 /\ ~Active(t) /\ ~Active(t)'
      /\ \A u \in Tasks : u # t => pc'[u] = pc[u] /\ got'[u] = got[u] /\ round'[u] = round[u] /\ (Active(u)' <=> Active(u))
  BY <1>1, <1>3 DEF ReturnError, NextRequest, Active, Types, TaskTypes
<1>5. ASSUME NEW u \in Tasks PROVE OwnerOf(u)'
  <2>0. OwnerOf(u)
    BY OwnParts DEF Owners
  <2>1. CASE u # t /\ Active(u)
    <3>1. \A v \in Tasks : Active(v)' /\ token'[v] = token'[u] => v = u
      BY <2>0, <2>1, <1>1, <1>4 DEF OwnerOf
    <3> QED BY <2>0, <2>1, <3>1, <1>1, <1>2, <1>4 DEF OwnerOf, SlotOf
  <2>2. CASE u = t \/ ~Active(u)
    BY <2>2, <1>4 DEF OwnerOf
  <2> QED BY <2>1, <2>2
<1>6. OwnedAll'
  <2> SUFFICES ASSUME NEW id \in Ids, id \in Published' \/ slots'[id].state # "idle" PROVE Owned(id)'
    BY DEF OwnedAll
  <2>1. PICK u \in Tasks : Active(u) /\ token[u] = id
    BY <1>1, <1>2, OwnParts DEF OwnedAll, Owned
  <2> QED BY <2>1, <1>1, <1>4 DEF Owned
<1>7. RepliesAreOwn'
  <2> SUFFICES ASSUME NEW u \in Tasks
               PROVE  got'[u] = <<u, IF pc'[u] = "collected" THEN round'[u] ELSE round'[u] - 1>>
    BY DEF RepliesAreOwn
  <2>1. CASE u = t
    <3>1. round[t] \in Nat
      BY DEF Types, TaskTypes
    <3>2. round'[t] - 1 = round[t]
      BY <3>1, <1>4
    <3> QED BY <2>1, <3>2, <1>4
  <2>2. CASE u # t
    BY <2>2, <1>4, OwnParts DEF RepliesAreOwn
  <2> QED BY <2>1, <2>2
<1> QED BY <1>5, <1>6, <1>7 DEF OwnInv, OwnedAll

LEMMA OwnSleep ==
  ASSUME Types, Placed, RingInv, OwnInv, NEW t \in Tasks, Sleep(t), slots[token[t]].state # "complete"
  PROVE  OwnInv'
<1>1. /\ pc[t] = "slot" /\ slots' = [slots EXCEPT ![token[t]] = Pending(t)]
      /\ UNCHANGED <<token, chain, round, got>>
  BY DEF Sleep
<1>2. Published' = Published
  BY RingQuiet DEF Sleep
<1>3. pc'[t] \in {"asleep", "look"} /\ \A u \in Tasks : u # t => pc'[u] = pc[u]
  BY DEF Sleep, Types, TaskTypes
<1>4. token[t] # NoId /\ token[t] \in Ids /\ Active(t)
  BY <1>1, TokenType DEF Placed, PlaceOf, Active
<1>5. \A u \in Tasks : Active(u)' <=> Active(u)
  BY <1>1, <1>3 DEF Active
<1>6. slots'[token[t]] = Pending(t) /\ \A id \in Ids : id # token[t] => slots'[id] = slots[id]
  BY <1>1, <1>4 DEF Types, RingTypes
<1>7. Pending(t).state = "pending" /\ Pending(t).waker = t
  BY DEF Pending, Idle
<1>8. OwnerOf(t) /\ \A u \in Tasks : u # t /\ Active(u) => token[u] # token[t]
  BY <1>4, OwnParts DEF Owners, OwnerOf
<1>9. ASSUME NEW u \in Tasks PROVE OwnerOf(u)'
  <2>0. OwnerOf(u)
    BY OwnParts DEF Owners
  <2>1. CASE u = t
    BY <2>0, <2>1, <1>1, <1>2, <1>3, <1>4, <1>5, <1>6, <1>7 DEF OwnerOf, SlotOf
  <2>2. CASE u # t /\ Active(u)
    <3>1. token[u] \in Ids /\ token[u] # token[t]
      BY <2>2, <1>8, TokenType DEF Active
    <3> QED BY <2>0, <2>2, <3>1, <1>1, <1>2, <1>3, <1>5, <1>6 DEF OwnerOf, SlotOf
  <2>3. CASE ~Active(u)
    BY <2>3, <1>5 DEF OwnerOf
  <2> QED BY <2>1, <2>2, <2>3
<1>10. OwnedAll'
  <2> SUFFICES ASSUME NEW id \in Ids, id \in Published' \/ slots'[id].state # "idle" PROVE Owned(id)'
    BY DEF OwnedAll
  <2>1. Owned(id)
    BY <1>2, <1>4, <1>6, OwnParts DEF OwnedAll, Owned
  <2> QED BY <2>1, <1>1, <1>5 DEF Owned
<1>11. RepliesAreOwn'
  BY <1>1, <1>3, OwnParts DEF RepliesAreOwn, Types, TaskTypes
<1> QED BY <1>9, <1>10, <1>11 DEF OwnInv, OwnedAll

\* Every other step leaves requests, slots and chains alone.
SameClaims ==
  /\ UNCHANGED <<token, slots, chain, round, got>>
  /\ \A u \in Tasks : (pc'[u] = "kick" <=> pc[u] = "kick") /\ (pc'[u] = "collected" <=> pc[u] = "collected")

LEMMA OwnQuiet ==
  ASSUME OwnInv, SameClaims, Published' = Published
  PROVE  OwnInv'
<1>1. \A u \in Tasks : Active(u)' <=> Active(u)
  BY DEF SameClaims, Active
<1>2. ASSUME NEW u \in Tasks PROVE OwnerOf(u)'
  <2>1. OwnerOf(u)
    BY OwnParts DEF Owners
  <2>2. CASE Active(u)
    BY <2>1, <2>2, <1>1 DEF SameClaims, OwnerOf, SlotOf
  <2>3. CASE ~Active(u)
    BY <2>3, <1>1 DEF OwnerOf
  <2> QED BY <2>2, <2>3
<1>3. OwnedAll'
  BY <1>1, OwnParts DEF OwnedAll, Owned, SameClaims
<1>4. RepliesAreOwn'
  BY OwnParts DEF SameClaims, RepliesAreOwn
<1> QED BY <1>2, <1>3, <1>4 DEF OwnInv, OwnedAll

\* Steps that leave the ring, the descriptors and the claims alone.
LEMMA QuietTask ==
  ASSUME Types, NEW t \in Tasks,
         \/ ArmSubmit(t) \/ SubmitFails(t) \/ GiveUp(t) \/ ReleaseBlocked(t) \/ CannotSubmit(t) \/ AnnounceBlocked(t) \/ Unpark(t)
         \/ Drained(t) \/ Unlock(t) \/ NoteReleased(t) \/ Look(t) \/ TryDrain(t) \/ Wake(t)
  PROVE  SameClaims /\ UNCHANGED <<avail, availIdx, used, usedIdx, lastUsed, working, dev, ids>>
<1> USE DEF SameClaims, Types, TaskTypes
<1>1. CASE ArmSubmit(t) BY <1>1 DEF ArmSubmit
<1>2. CASE ReleaseBlocked(t) BY <1>2 DEF ReleaseBlocked
<1>3. CASE CannotSubmit(t) BY <1>3 DEF CannotSubmit
<1>4. CASE AnnounceBlocked(t) BY <1>4 DEF AnnounceBlocked
<1>5. CASE Unpark(t) BY <1>5 DEF Unpark
<1>6. CASE Drained(t) BY <1>6 DEF Drained
<1>7. CASE NoteReleased(t) BY <1>7 DEF NoteReleased, AfterDrain, Waits
<1>8. CASE Look(t) BY <1>8 DEF Look
<1>9. CASE TryDrain(t) BY <1>9 DEF TryDrain
<1>10. CASE Wake(t) BY <1>10 DEF Wake
<1>11. CASE SubmitFails(t) BY <1>11 DEF SubmitFails
<1>12. CASE GiveUp(t) BY <1>12 DEF GiveUp
<1>13. CASE Unlock(t) BY <1>13 DEF Unlock, AfterDrain, Waits
<1> QED BY <1>1, <1>2, <1>3, <1>4, <1>5, <1>6, <1>7, <1>8, <1>9, <1>10, <1>11, <1>12, <1>13

LEMMA TaskTable ==
  ASSUME Types, Placed, TableInv, NEW t \in Tasks, TaskStep(t)
  PROVE  TableInv'
<1>0. RingInv /\ DescInv /\ OwnInv
  BY DEF TableInv
<1>1. ASSUME SameClaims, UNCHANGED <<avail, availIdx, used, usedIdx, lastUsed, working, dev, ids>> PROVE TableInv'
  <2>1. RingInv' /\ Published' = Published
    BY <1>0, <1>1, RingQuiet
  <2>2. OwnInv'
    BY <1>0, <1>1, <2>1, OwnQuiet
  <2>3. DescInv'
    BY <1>0, <1>1, <2>1 DEF DescInv, SameClaims
  <2> QED BY <2>1, <2>2, <2>3 DEF TableInv
<1>2. ASSUME UNCHANGED <<avail, availIdx, used, usedIdx, lastUsed, working, dev, ids, chain>>, OwnInv' PROVE TableInv'
  <2>1. RingInv' /\ Published' = Published
    BY <1>0, <1>2, RingQuiet
  <2>2. DescInv'
    BY <1>0, <1>2, <2>1 DEF DescInv
  <2> QED BY <1>2, <2>1, <2>2 DEF TableInv
<1>3. CASE Submit(t)
  BY <1>0, <1>3, SubmitTable, OwnSubmit DEF TableInv
<1>4. CASE PopUsed(t)
  BY <1>0, <1>4, PopTable, OwnPop DEF TableInv
<1>5. CASE ReturnError(t)
  BY <1>0, <1>2, <1>5, OwnReturnError DEF ReturnError
<1>6. CASE Kick(t)
  BY <1>0, <1>2, <1>6, OwnKick DEF Kick
<1>7. CASE Collected(t)
  BY <1>0, <1>2, <1>7, OwnCollected DEF Collected
<1>8. CASE Take(t)
  <2>1. CASE slots[token[t]].state = "complete"
    BY <1>0, <1>2, <1>8, <2>1, OwnTake DEF Take
  <2>2. CASE slots[token[t]].state # "complete"
    <3>1. SameClaims /\ UNCHANGED <<avail, availIdx, used, usedIdx, lastUsed, working, dev, ids>>
      BY <1>8, <2>2 DEF Take, SameClaims, Types, TaskTypes
    <3> QED BY <3>1, <1>1
  <2> QED BY <2>1, <2>2
<1>9. CASE Sleep(t)
  <2>1. CASE slots[token[t]].state # "complete"
    BY <1>0, <1>2, <1>9, <2>1, OwnSleep DEF Sleep
  <2>2. CASE slots[token[t]].state = "complete"
    <3>1. SameClaims /\ UNCHANGED <<avail, availIdx, used, usedIdx, lastUsed, working, dev, ids>>
      BY <1>9, <2>2 DEF Sleep, SameClaims, Types, TaskTypes
    <3> QED BY <3>1, <1>1
  <2> QED BY <2>1, <2>2
<1>10. CASE \/ ArmSubmit(t) \/ SubmitFails(t) \/ GiveUp(t) \/ ReleaseBlocked(t) \/ CannotSubmit(t) \/ AnnounceBlocked(t) \/ Unpark(t)
            \/ Drained(t) \/ Unlock(t) \/ NoteReleased(t) \/ Look(t) \/ TryDrain(t) \/ Wake(t)
  BY <1>1, <1>10, QuietTask
<1> QED BY <1>3, <1>4, <1>5, <1>6, <1>7, <1>8, <1>9, <1>10 DEF TaskStep

LEMMA DeviceTable ==
  ASSUME Types, TableInv, DeviceStep \/ DeviceSignals \/ HandleInterrupt
  PROVE  TableInv'
<1>0. RingInv /\ DescInv /\ OwnInv
  BY DEF TableInv
<1>1. SameClaims /\ ids' = ids
  BY DEF SameClaims, DeviceStep, DeviceFetch, DeviceOffers, DeviceLooksAgain, DeviceWakes, DeviceUses,
         DeviceSignals, HandleInterrupt
<1>2. RingInv' /\ Published' = Published
  <2>1. CASE DeviceFetch
    BY <1>0, <2>1, FetchMoves
  <2>2. ASSUME NEW id \in Ids, DeviceUses(id) PROVE RingInv' /\ Published' = Published
    BY <1>0, <2>2, UsesReturns
  <2>3. ASSUME DeviceOffers \/ DeviceLooksAgain \/ DeviceWakes \/ DeviceSignals \/ HandleInterrupt
        PROVE  RingInv' /\ Published' = Published
    <3>1. UNCHANGED <<avail, availIdx, used, usedIdx, lastUsed, working>> /\ dev'.next = dev.next
      BY <2>3 DEF DeviceOffers, DeviceLooksAgain, DeviceWakes, DeviceSignals, HandleInterrupt, Types, DeviceTypes
    <3> QED BY <1>0, <3>1, RingQuiet
  <2> QED BY <2>1, <2>2, <2>3 DEF DeviceStep
<1>3. OwnInv'
  BY <1>0, <1>1, <1>2, OwnQuiet
<1>4. DescInv'
  BY <1>0, <1>1, <1>2 DEF DescInv, SameClaims
<1> QED BY <1>2, <1>3, <1>4 DEF TableInv

LEMMA TableStep ==
  ASSUME ControlInv, TableInv, [Next]_vars
  PROVE  TableInv'
<1>0. Types /\ Placed
  BY DEF ControlInv
<1>1. ASSUME NEW t \in Tasks, TaskStep(t) PROVE TableInv'
  BY <1>0, <1>1, TaskTable
<1>2. CASE DeviceStep \/ DeviceSignals \/ HandleInterrupt
  BY <1>0, <1>2, DeviceTable
<1>3. CASE UNCHANGED vars
  <2>1. RingInv' /\ Published' = Published
    BY <1>3, RingQuiet DEF vars, TableInv
  <2>2. OwnInv'
    BY <1>3, <2>1, OwnQuiet DEF vars, TableInv, SameClaims
  <2>3. DescInv'
    BY <1>3, <2>1 DEF vars, TableInv, DescInv
  <2> QED BY <2>1, <2>2, <2>3 DEF TableInv
<1> QED BY <1>1, <1>2, <1>3 DEF Next

LEMMA TableInit == Init => TableInv
<1> SUFFICES ASSUME Init PROVE TableInv
  OBVIOUS
<1>0. Types
  BY ControlInit DEF ControlInv
<1>1. Size \in Nat \ {0} /\ Wrap \in Nat \ {0} /\ 0 \in Indices
  BY RingAssumption DEF Indices
<1>2. Minus(0, 0) = 0
  BY <1>1, Apart
<1>3. Waiting = 0 /\ Unread = 0
  BY <1>2 DEF Init, Waiting, Unread
<1>4. Offered = {} /\ Returned = {} /\ Published = {}
  BY <1>2 DEF Init, Offered, Returned, Published, Window
<1>5. RingInv
  <2>1. Distinct(avail, dev.next, 0) /\ Distinct(used, lastUsed, 0)
    BY DEF Distinct
  <2> QED BY <1>1, <1>3, <1>4, <2>1 DEF RingInv
<1>6. DescInv
  <2>1. ids = [i \in 1 .. Size |-> i - 1]
    BY DEF Init
  <2>2. Len(ids) = Size /\ \A i \in 1 .. Size : ids[i] = i - 1
    BY <2>1, <1>1
  <2>3. OnceEach(ids)
    BY <2>2, <1>1 DEF OnceEach
  <2>4. \A i \in Ids : i \in Members(ids)
    <3> TAKE i \in Ids
    <3>1. i + 1 \in 1 .. Size /\ (i + 1) - 1 = i
      BY <1>1 DEF Ids
    <3> QED BY <3>1, <2>2 DEF Members
  <2> QED BY <1>4, <2>3, <2>4 DEF DescInv, Partition
<1>7. OwnInv
  <2>1. \A t \in Tasks : ~Active(t)
    BY DEF Init, Active
  <2>2. \A id \in Ids : slots[id].state = "idle"
    BY DEF Init, Idle
  <2>3. RepliesAreOwn
    BY DEF Init, RepliesAreOwn
  <2> QED BY <1>4, <2>1, <2>2, <2>3 DEF OwnInv, OwnerOf
<1> QED BY <1>5, <1>6, <1>7 DEF TableInv


LEMMA TableIsClaimed == ControlInv /\ TableInv => ChainsAreClaimed
<1> SUFFICES ASSUME ControlInv, TableInv, NEW id \in Published
             PROVE  \/ slots[id].state = "pending"
                    \/ \E t \in Tasks : lock = t /\ At(t, "kick") /\ token[t] = id
  BY DEF ChainsAreClaimed
<1>1. id \in Ids
  BY RingFacts DEF ControlInv, TableInv
<1>2. PICK t \in Tasks : Active(t) /\ token[t] = id
  BY <1>1 DEF TableInv, OwnInv, Owned
<1>3. OwnerOf(t) /\ PlaceOf(t)
  BY DEF ControlInv, Placed, TableInv, OwnInv
<1> QED BY <1>2, <1>3 DEF OwnerOf, PlaceOf, SlotOf

LEMMA ActiveApart ==
  ASSUME OwnInv, NEW t \in Tasks, NEW u \in Tasks, Active(t), Active(u), t # u
  PROVE  token[t] # token[u]
  BY DEF OwnInv, OwnerOf

LEMMA ActiveWhere ==
  ASSUME Types, Placed, NEW t \in Tasks,
         pc[t] \in {"kick", "release", "look", "take", "try", "slot", "asleep"}
  PROVE  Active(t) /\ token[t] \in Ids
  BY TokenType DEF Placed, PlaceOf, Active

-----------------------------------------------------------------------------
(* The waiters                                                             *)

\* A step that leaves the slot and the token of a sleeper alone.
LEMMA SleepQuiet ==
  ASSUME NEW u \in Tasks, SleepOf(u), pc'[u] = "asleep" => pc[u] = "asleep",
         pc[u] = "asleep" => token'[u] = token[u] /\ slots'[token[u]] = slots[token[u]] /\ (woken[u] => woken'[u])
  PROVE  SleepOf(u)'
  BY DEF SleepOf, SlotOf

\* A waiter is woken by whoever completes its slot.
LEMMA SleepersStep ==
  ASSUME Types, Placed, TableInv, Sleepers, NEW t \in Tasks, TaskStep(t)
  PROVE  Sleepers'
<1> SUFFICES ASSUME NEW u \in Tasks PROVE SleepOf(u)'
  BY DEF Sleepers
<1>0. SleepOf(u) /\ OwnInv /\ RingInv
  BY DEF Sleepers, TableInv
<1>1. ASSUME pc[u] = "asleep" PROVE Active(u) /\ token[u] \in Ids
  BY <1>1, ActiveWhere
<1>2. ASSUME u # t, pc[u] = "asleep", Active(t) PROVE token[u] # token[t]
  BY <1>0, <1>1, <1>2, ActiveApart
<1>3. CASE Kick(t)
  <2>1. Active(t) /\ token[t] \in Ids
    BY <1>3, ActiveWhere DEF Kick
  <2>2. pc'[u] = "asleep" => pc[u] = "asleep" /\ u # t
    BY <1>3 DEF Kick, Types, TaskTypes
  <2>3. pc[u] = "asleep" => u # t /\ token'[u] = token[u] /\ woken' = woken /\ slots'[token[u]] = slots[token[u]]
    BY <1>1, <1>2, <1>3, <2>1 DEF Kick, Register, Types, RingTypes
  <2> QED BY <1>0, <2>2, <2>3, SleepQuiet
<1>4. CASE Take(t)
  <2>1. Active(t) /\ token[t] \in Ids
    BY <1>4, ActiveWhere DEF Take
  <2>2. pc'[u] = "asleep" => pc[u] = "asleep" /\ u # t
    BY <1>4 DEF Take, Types, TaskTypes
  <2>3. pc[u] = "asleep" => u # t /\ token'[u] = token[u] /\ woken' = woken /\ slots'[token[u]] = slots[token[u]]
    BY <1>1, <1>2, <1>4, <2>1 DEF Take, Types, RingTypes
  <2> QED BY <1>0, <2>2, <2>3, SleepQuiet
<1>5. CASE Sleep(t)
  <2>1. Active(t) /\ token[t] \in Ids
    BY <1>5, ActiveWhere DEF Sleep
  <2>2. CASE u # t
    <3>1. pc'[u] = "asleep" => pc[u] = "asleep"
      BY <1>5, <2>2 DEF Sleep, Types, TaskTypes
    <3>2. pc[u] = "asleep" => token'[u] = token[u] /\ woken'[u] = woken[u] /\ slots'[token[u]] = slots[token[u]]
      BY <1>1, <1>2, <1>5, <2>1, <2>2 DEF Sleep, Types, RingTypes, TaskTypes
    <3> QED BY <1>0, <3>1, <3>2, SleepQuiet
  <2>3. CASE u = t
    <3>1. pc'[t] = "asleep" => slots' = [slots EXCEPT ![token[t]] = Pending(t)] /\ token' = token
      BY <1>5 DEF Sleep, Types, TaskTypes
    <3>2. Pending(t).state = "pending" /\ Pending(t).waker = t
      BY DEF Pending, Idle
    <3>3. pc'[t] = "asleep" => slots'[token'[t]] = Pending(t)
      BY <2>1, <3>1 DEF Types, RingTypes
    <3> QED BY <2>3, <3>2, <3>3 DEF SleepOf, SlotOf
  <2> QED BY <2>2, <2>3
<1>6. CASE PopUsed(t)
  <2>1. UNCHANGED <<pc, token>> /\ woken' = [w \in Tasks |-> woken[w] \/ slots[Drains].waker = w]
        /\ slots' = [slots EXCEPT ![Drains] = Complete(chain[Drains].request)]
    BY <1>6 DEF PopUsed, Completes, Drains
  <2>2. Drains \in Ids
    BY <1>0, <1>6, PopTakes
  <2>3. CASE token[u] # Drains
    <3>1. pc[u] = "asleep" => slots'[token[u]] = slots[token[u]] /\ (woken[u] => woken'[u])
      BY <1>1, <2>1, <2>2, <2>3 DEF Types, RingTypes
    <3> QED BY <1>0, <2>1, <3>1, SleepQuiet
  <2>4. CASE token[u] = Drains
    <3>1. slots'[token[u]].state = "complete"
      BY <2>1, <2>2, <2>4 DEF Types, RingTypes, Complete, Idle
    <3>2. pc[u] = "asleep" => woken'[u]
      BY <1>0, <2>1, <2>4 DEF SleepOf, SlotOf
    <3> QED BY <2>1, <3>1, <3>2 DEF SleepOf, SlotOf
  <2> QED BY <2>3, <2>4
<1>7. CASE Collected(t)
  <2>1. pc'[u] = "asleep" => pc[u] = "asleep" /\ u # t
    BY <1>7 DEF Collected, NextRequest, Types, TaskTypes
  <2>2. pc[u] = "asleep" => u # t /\ token'[u] = token[u] /\ woken'[u] = woken[u] /\ slots' = slots
    BY <1>7 DEF Collected, Types, TaskTypes
  <2> QED BY <1>0, <2>1, <2>2, SleepQuiet
<1>8. CASE Submit(t)
  <2>1. pc'[u] = "asleep" => pc[u] = "asleep"
    BY <1>8 DEF Submit, Types, TaskTypes
  <2>2. pc[u] = "asleep" => u # t /\ token'[u] = token[u] /\ woken' = woken /\ slots' = slots
    BY <1>8 DEF Submit, Types, TaskTypes
  <2> QED BY <1>0, <2>1, <2>2, SleepQuiet
<1>9. CASE \/ ArmSubmit(t) \/ SubmitFails(t) \/ GiveUp(t) \/ ReturnError(t) \/ ReleaseBlocked(t) \/ CannotSubmit(t) \/ AnnounceBlocked(t) \/ Unpark(t)
           \/ Drained(t) \/ Unlock(t) \/ NoteReleased(t) \/ Look(t) \/ TryDrain(t) \/ Wake(t)
  <2>1. UNCHANGED <<token, slots, woken>>
    BY <1>9 DEF ArmSubmit, SubmitFails, GiveUp, ReturnError, ReleaseBlocked, CannotSubmit, AnnounceBlocked, Unpark,
                Drained, Unlock, NoteReleased, Look, TryDrain, Wake
  <2>2. pc'[u] = "asleep" => pc[u] = "asleep"
    BY <1>9 DEF ArmSubmit, SubmitFails, GiveUp, ReturnError, NextRequest, ReleaseBlocked, CannotSubmit, AnnounceBlocked, Unpark,
                Drained, Unlock, NoteReleased, AfterDrain, Waits, Look, TryDrain, Wake, Types, TaskTypes
  <2> QED BY <1>0, <2>1, <2>2, SleepQuiet
<1> QED BY <1>3, <1>4, <1>5, <1>6, <1>7, <1>8, <1>9 DEF TaskStep

-----------------------------------------------------------------------------
(* What the device is told                                                 *)

\* A kick that finds one chain waiting is not suppressed.
LEMMA KickIsHeard ==
  ASSUME Types, DevTold, dev.state = "asleep", Waiting = 1
  PROVE  ShouldNotify
<1>1. CASE mode = "event"
  <2>1. availEvent = dev.next
    BY <1>1 DEF DevTold
  <2>2. availIdx \in Indices /\ dev.next \in Indices /\ Wrap \in Nat /\ Wrap > 1
    BY DeviceIs, RingAssumption DEF Types, RingTypes
  <2>3. availIdx # dev.next
    BY <2>2, Apart DEF Waiting
  <2>4. Minus(availIdx, Plus(dev.next, 1)) = 0
    BY <2>2, <2>3, StepBehind DEF Waiting
  <2>5. 1 \in Indices
    BY <2>2 DEF Indices
  <2>6. Minus(availIdx, 1) \in Indices /\ Minus(availIdx, 1) # availIdx
    <3>1. Minus(availIdx, 1) \in Indices /\ Minus(availIdx, 1) = IF availIdx >= 1 THEN availIdx - 1 ELSE availIdx - 1 + Wrap
      BY <2>2, <2>5, MinusIs
    <3> QED BY <3>1, <2>2 DEF Indices
  <2>7. Minus(availIdx, Minus(availIdx, 1)) > 0
    BY <2>2, <2>6, Apart
  <2> QED BY <1>1, <2>1, <2>4, <2>7 DEF ShouldNotify, NeedEvent
<1>2. CASE mode # "event"
  BY <1>2 DEF ShouldNotify, DevTold
<1> QED BY <1>1, <1>2

LEMMA DevTaskStep ==
  ASSUME Types, Placed, TableInv, DevInv, NEW t \in Tasks, TaskStep(t)
  PROVE  DevInv'
<1>0. DevTold /\ DevWaits /\ UsedTold /\ RingInv /\ DescInv
  BY DEF TableInv, DevInv
<1>1. UNCHANGED <<dev, availEvent, noNotify, mode>>
  BY DEF TaskStep, ArmSubmit, Submit, SubmitFails, GiveUp, ReturnError, Kick, ReleaseBlocked, CannotSubmit, AnnounceBlocked, Unpark, PopUsed,
         Drained, Unlock, NoteReleased, Look, Take, Collected, TryDrain, Sleep, Wake
<1>2. DevTold'
  BY <1>0, <1>1 DEF DevTold
<1>3. ASSUME UNCHANGED <<usedEvent, lastUsed, kicked, availIdx>>, \A u \in Tasks : pc[u] = "kick" => pc'[u] = "kick"
      PROVE DevInv'
  BY <1>0, <1>1, <1>2, <1>3 DEF DevInv, DevWaits, UsedTold, Waiting, Kicking
<1>4. CASE Submit(t)
  <2>1. Waiting' = Waiting + 1
    BY <1>0, <1>4, SubmitTable
  <2>2. ~Kicking
    BY <1>4, OnlyHolder DEF Submit, Kicking
  <2>3. Kicking' /\ kicked' = kicked /\ UNCHANGED <<usedEvent, lastUsed>>
    BY <1>4 DEF Submit, Kicking, Types, TaskTypes
  <2>4. DevWaits'
    BY <1>0, <1>1, <2>1, <2>2, <2>3 DEF DevWaits
  <2> QED BY <1>0, <1>1, <1>2, <2>3, <2>4 DEF DevInv, UsedTold
<1>5. CASE Kick(t)
  <2>1. Waiting' = Waiting /\ UNCHANGED <<usedEvent, lastUsed>> /\ kicked' = (kicked \/ ShouldNotify)
    BY <1>0, <1>5, RingQuiet DEF Kick, Notify
  <2>2. DevWaits'
    <3> SUFFICES ASSUME dev'.state = "asleep", ~kicked' PROVE Waiting' = 0
      BY DEF DevWaits
    <3>1. dev.state = "asleep" /\ ~kicked /\ ~ShouldNotify
      BY <1>1, <2>1
    <3>2. Waiting # 1
      BY <1>0, <3>1, KickIsHeard
    <3> QED BY <1>0, <2>1, <3>1, <3>2 DEF DevWaits
  <2> QED BY <1>0, <1>1, <1>2, <2>1, <2>2 DEF DevInv, UsedTold
<1>6. CASE PopUsed(t)
  <2>1. Waiting' = Waiting /\ kicked' = kicked /\ pc' = pc
    BY <1>0, <1>6, PopTakes DEF PopUsed
  <2>2. DevWaits'
    BY <1>0, <1>1, <2>1 DEF DevWaits, Kicking
  <2>3. UsedTold'
    BY <1>0, <1>1, <1>6 DEF UsedTold, PopUsed, FinishCompletion
  <2> QED BY <1>2, <2>2, <2>3 DEF DevInv
<1>7. CASE ~(Submit(t) \/ Kick(t) \/ PopUsed(t))
  <2>1. UNCHANGED <<usedEvent, lastUsed, kicked, availIdx>>
    BY <1>7 DEF TaskStep, ArmSubmit, SubmitFails, GiveUp, ReturnError, ReleaseBlocked, CannotSubmit, AnnounceBlocked, Unpark,
         Drained, Unlock, NoteReleased, Look, Take, Collected, TryDrain, Sleep, Wake
  <2>2. pc[t] # "kick" /\ \A u \in Tasks : u # t => pc'[u] = pc[u]
    BY <1>7 DEF TaskStep, ArmSubmit, SubmitFails, GiveUp, ReturnError, NextRequest, ReleaseBlocked, CannotSubmit, AnnounceBlocked, Unpark,
         Drained, Unlock, NoteReleased, Look, Take, Collected, TryDrain, Sleep, Wake, Types, TaskTypes
  <2> QED BY <1>3, <2>1, <2>2
<1> QED BY <1>4, <1>5, <1>6, <1>7

LEMMA DevDeviceStep ==
  ASSUME Types, TableInv, DevInv, DeviceStep \/ DeviceSignals \/ HandleInterrupt
  PROVE  DevInv'
<1>0. DevTold /\ DevWaits /\ UsedTold /\ RingInv
  BY DEF TableInv, DevInv
<1>1. UNCHANGED <<mode, usedEvent, lastUsed, pc, availIdx>>
  BY DEF DeviceStep, DeviceFetch, DeviceOffers, DeviceLooksAgain, DeviceWakes, DeviceUses, DeviceSignals, HandleInterrupt
<1>2. UsedTold' /\ Kicking' = Kicking
  BY <1>0, <1>1 DEF UsedTold, Kicking
<1>3. ASSUME dev' = dev \/ dev' = [dev EXCEPT !.signalled = usedIdx], UNCHANGED <<availEvent, noNotify, kicked>> PROVE DevInv'
  <2>1. dev'.state = dev.state /\ dev'.next = dev.next
    BY <1>3 DEF Types, DeviceTypes
  <2> QED BY <1>0, <1>1, <1>2, <1>3, <2>1 DEF DevInv, DevTold, DevWaits, Waiting
<1>4. CASE DeviceFetch
  <2>1. dev'.state = "awake"
    BY <1>4 DEF DeviceFetch, Types, DeviceTypes
  <2> QED BY <1>2, <2>1 DEF DevInv, DevTold, DevWaits
<1>5. CASE DeviceOffers
  <2>1. /\ dev'.state = "offering" /\ dev'.next = dev.next /\ noNotify' = FALSE
        /\ availEvent' = IF mode = "event" THEN dev.next ELSE availEvent
    BY <1>5 DEF DeviceOffers, Types, DeviceTypes
  <2> QED BY <1>1, <1>2, <2>1 DEF DevInv, DevTold, DevWaits
<1>6. CASE DeviceLooksAgain
  <2>1. /\ dev.state = "offering" /\ dev'.next = dev.next /\ UNCHANGED <<availEvent, noNotify>>
        /\ dev'.state = "asleep" => dev.next = availIdx
    BY <1>6 DEF DeviceLooksAgain, Types, DeviceTypes
  <2>2. DevTold'
    BY <1>0, <1>1, <2>1 DEF DevTold
  <2>3. dev'.state = "asleep" => Waiting' = 0
    BY <1>1, <2>1, Apart, DeviceIs DEF Waiting
  <2> QED BY <1>2, <2>2, <2>3 DEF DevInv, DevWaits
<1>7. CASE DeviceWakes
  <2>1. dev'.state = "awake"
    BY <1>7 DEF DeviceWakes, Types, DeviceTypes
  <2> QED BY <1>2, <2>1 DEF DevInv, DevTold, DevWaits
<1>8. CASE DeviceSignals \/ HandleInterrupt \/ \E id \in Ids : DeviceUses(id)
  BY <1>3, <1>8 DEF DeviceSignals, HandleInterrupt, DeviceUses
<1> QED BY <1>4, <1>5, <1>6, <1>7, <1>8 DEF DeviceStep

-----------------------------------------------------------------------------
(* The interrupt                                                           *)

SomeoneLooks == \E t \in Tasks : Looker(t)

\* A task that looks is not stopped by another's step.
LEMMA OtherLooks ==
  ASSUME Types, Placed, TableInv, NEW t \in Tasks, TaskStep(t), ~PopUsed(t),
         NEW w \in Tasks, w # t, Looker(w)
  PROVE  Looker(w)'
<1>0. OwnInv
  BY DEF TableInv
<1>1. pc'[w] = pc[w] /\ token'[w] = token[w] /\ rang'[w] = rang[w]
  BY DEF TaskStep, ArmSubmit, Submit, SubmitFails, GiveUp, ReturnError, NextRequest, Kick, ReleaseBlocked, CannotSubmit, AnnounceBlocked, Unpark,
         Drained, Unlock, NoteReleased, Look, Take, Collected, TryDrain, Sleep, Wake, Types, TaskTypes
<1>2. CASE pc[w] \in {"kick", "drain"}
  BY <1>1, <1>2 DEF Looker
<1>3. CASE pc[w] \notin {"kick", "drain"}
  <2>1. Active(w) /\ slots[token[w]].state = "pending" /\ (pc[w] \in {"release", "look", "take", "try"} \/ rang[w])
    BY <1>3 DEF Looker, SlotOf
  <2>2. token[w] \in Ids
    BY <2>1, TokenType DEF Active
  <2>3. slots'[token[w]].state = "pending"
    <3>1. CASE Kick(t)
      BY <2>1, <2>2, <3>1 DEF Kick, Register, Pending, Idle, Types, RingTypes
    <3>2. CASE Take(t)
      <4>1. Active(t)
        BY <3>2, ActiveWhere DEF Take
      <4>2. token[w] # token[t]
        BY <1>0, <2>1, <4>1, ActiveApart
      <4> QED BY <2>1, <2>2, <3>2, <4>2 DEF Take, Types, RingTypes
    <3>3. CASE Sleep(t)
      <4>1. slots' = slots \/ slots' = [slots EXCEPT ![token[t]] = Pending(t)]
        BY <3>3 DEF Sleep
      <4>2. Pending(t).state = "pending"
        BY DEF Pending, Idle
      <4> QED BY <2>1, <2>2, <4>1, <4>2 DEF Types, RingTypes
    <3>4. CASE ~(Kick(t) \/ Take(t) \/ Sleep(t))
      <4>1. slots' = slots
        BY <3>4 DEF TaskStep, ArmSubmit, Submit, SubmitFails, GiveUp, ReturnError, ReleaseBlocked, CannotSubmit, AnnounceBlocked, Unpark,
             Drained, Unlock, NoteReleased, Look, Collected, TryDrain, Wake
      <4> QED BY <2>1, <4>1
    <3> QED BY <3>1, <3>2, <3>3, <3>4
  <2> QED BY <1>1, <2>1, <2>3 DEF Looker, SlotOf, Active
<1> QED BY <1>2, <1>3

\* It stops looking only when it has seen the ring empty, or leaves it to a task
\* that will look; the one it may leave it to in vain is recorded as missed.
LEMMA SelfLooks ==
  ASSUME Types, Placed, TableInv, Unlocking, Unread > Unsaid, ~irq,
         NEW t \in Tasks, TaskStep(t), ~PopUsed(t), ~Drained(t), Looker(t)
  PROVE  SomeoneLooks' \/ missed'
<1>0. PlaceOf(t)
  BY DEF Placed
<1>1. CASE pc[t] \in {"arm", "lock", "announce", "parked", "failed", "error", "done", "collected"}
  BY <1>0, <1>1 DEF Looker, PlaceOf, Active
<1>2. CASE Kick(t)
  <2>1. Active(t) /\ token[t] \in Ids
    BY <1>2, ActiveWhere DEF Kick
  <2>2. slots'[token[t]].state = "pending" /\ token' = token /\ pc'[t] \in {"release", "look"}
    BY <1>2, <2>1 DEF Kick, Register, Pending, Idle, Types, RingTypes, TaskTypes
  <2> QED BY <2>1, <2>2 DEF SomeoneLooks, Looker, SlotOf, Active
<1>3. ASSUME pc[t] \notin {"kick", "drain"}
      PROVE  Active(t) /\ slots[token[t]].state = "pending" /\ token[t] # NoId
  BY <1>3 DEF Looker, SlotOf, Active
<1>4. CASE ReleaseBlocked(t) \/ NoteReleased(t) \/ Look(t)
  <2>1. Active(t) /\ slots[token[t]].state = "pending" /\ token[t] # NoId
    BY <1>3, <1>4 DEF ReleaseBlocked, NoteReleased, Look
  <2>2. pc'[t] \in {"look", "take"} /\ UNCHANGED <<slots, token>>
    BY <1>0, <1>4, <2>1 DEF ReleaseBlocked, NoteReleased, Look, AfterDrain, Waits, PlaceOf, Types, TaskTypes
  <2> QED BY <2>1, <2>2 DEF SomeoneLooks, Looker, SlotOf, Active
<1>5. CASE Take(t)
  <2>1. Active(t) /\ slots[token[t]].state = "pending" /\ token[t] # NoId
    BY <1>3, <1>5 DEF Take
  <2>2. pc'[t] = "try" /\ UNCHANGED <<slots, token>>
    BY <1>5, <2>1 DEF Take, Types, TaskTypes
  <2> QED BY <2>1, <2>2 DEF SomeoneLooks, Looker, SlotOf, Active
<1>6. CASE TryDrain(t)
  <2>1. CASE lock = NoTask
    BY <1>6, <2>1 DEF TryDrain, SomeoneLooks, Looker, Types, TaskTypes
  <2>2. CASE lock # NoTask
    <3>1. PICK u \in Tasks : lock = u
      BY <2>2 DEF Types, RingTypes
    <3>2. pc[u] \in {"kick", "drain", "unlock", "failed"} /\ u # t
      BY <1>6, <3>1 DEF TryDrain, Placed, PlaceOf
    <3>3. pc'[u] = pc[u] /\ UNCHANGED <<token, slots, rang>> /\ (Leaving(u) => missed')
      BY <1>6, <2>2, <3>1, <3>2 DEF TryDrain, Types, TaskTypes
    <3>4. CASE pc[u] \in {"kick", "drain"}
      BY <3>3, <3>4 DEF SomeoneLooks, Looker
    <3>5. CASE Leaving(u)
      BY <3>3, <3>5
    <3>6. CASE pc[u] = "unlock" /\ ~Leaving(u)
      <4>1. Active(u) /\ slots[token[u]].state # "complete"
        BY <3>6 DEF Leaving, Waits, Active
      <4>2. SlotOf(u).state = "pending"
        BY <3>6, <4>1 DEF TableInv, OwnInv, OwnerOf, SlotOf
      <4>3. rang[u]
        BY <3>6, <4>1 DEF Unlocking, UnlockOf, Active
      <4>4. Looker(u)'
        BY <3>3, <4>1, <4>2, <4>3 DEF Looker, SlotOf, Active
      <4> QED BY <4>4 DEF SomeoneLooks
    <3> QED BY <3>2, <3>4, <3>5, <3>6 DEF Leaving
  <2> QED BY <2>1, <2>2
<1>7. CASE Sleep(t)
  <2>1. Active(t) /\ slots[token[t]].state = "pending" /\ token[t] # NoId /\ rang[t] /\ token[t] \in Ids
    BY <1>3, <1>7, TokenType DEF Sleep, Looker
  <2>2. pc'[t] = "look" /\ slots' = [slots EXCEPT ![token[t]] = Pending(t)] /\ token' = token
    BY <1>7, <2>1 DEF Sleep, Types, TaskTypes
  <2>3. Pending(t).state = "pending"
    BY DEF Pending, Idle
  <2>4. slots'[token[t]].state = "pending"
    BY <2>1, <2>2, <2>3 DEF Types, RingTypes
  <2> QED BY <2>1, <2>2, <2>4 DEF SomeoneLooks, Looker, SlotOf, Active
<1>8. CASE Wake(t)
  <2>1. Active(t) /\ slots[token[t]].state = "pending" /\ token[t] # NoId /\ rang[t]
    BY <1>3, <1>8 DEF Wake, Looker
  <2>2. pc'[t] = "slot" /\ UNCHANGED <<slots, token, rang>>
    BY <1>8 DEF Wake, Types, TaskTypes
  <2> QED BY <2>1, <2>2 DEF SomeoneLooks, Looker, SlotOf, Active
<1>9. pc[t] \in {"arm", "lock", "announce", "parked", "failed", "error", "done", "collected"}
      \/ Unlock(t) \/ Kick(t) \/ ReleaseBlocked(t) \/ NoteReleased(t) \/ Look(t) \/ Take(t) \/ TryDrain(t) \/ Sleep(t) \/ Wake(t)
  BY DEF TaskStep, ArmSubmit, Submit, SubmitFails, GiveUp, ReturnError, CannotSubmit, AnnounceBlocked, Unpark, Collected
<1>10. CASE Unlock(t)
  <2>1. Active(t) /\ slots[token[t]].state = "pending" /\ token[t] # NoId /\ rang[t]
    BY <1>3, <1>10 DEF Unlock, Looker
  <2>2. pc'[t] \in {"freed", "look", "slot"} /\ UNCHANGED <<slots, token, rang>>
    BY <1>10, <2>1 DEF Unlock, AfterDrain, Waits, Types, TaskTypes
  <2> QED BY <2>1, <2>2 DEF SomeoneLooks, Looker, SlotOf, Active
<1> QED BY <1>1, <1>2, <1>4, <1>5, <1>6, <1>7, <1>8, <1>9, <1>10

LEMMA UnsaidType == Types => Unread \in Nat /\ Unsaid \in Nat
  BY Apart, DeviceIs DEF Types, RingTypes, Unread, Unsaid

LEMMA SignalTaskStep ==
  ASSUME Types, Placed, TableInv, SignalInv, Unlocking, NEW t \in Tasks, TaskStep(t)
  PROVE  SignalInv'
<1>0. UNCHANGED <<irq, usedIdx, dev>> /\ Unsaid' = Unsaid
  BY DEF Unsaid, TaskStep, ArmSubmit, Submit, SubmitFails, GiveUp, ReturnError, Kick, ReleaseBlocked, CannotSubmit, AnnounceBlocked, Unpark, PopUsed,
         Drained, Unlock, NoteReleased, Look, Take, Collected, TryDrain, Sleep, Wake
<1>1. CASE PopUsed(t)
  <2>1. Looker(t)'
    BY <1>1 DEF PopUsed, Looker
  <2> QED BY <2>1 DEF SignalInv
<1>2. CASE Drained(t)
  <2>1. usedIdx' = lastUsed' /\ lastUsed \in Indices /\ lastUsed' = lastUsed
    BY <1>2 DEF Drained, Types, RingTypes
  <2>2. Unread' = 0
    BY <2>1, Apart DEF Unread
  <2> QED BY <1>0, <2>2, UnsaidType DEF SignalInv
<1>3. CASE ~PopUsed(t) /\ ~Drained(t)
  <2>0. missed' = missed \/ TryDrain(t)
    BY <1>3 DEF TaskStep, ArmSubmit, Submit, SubmitFails, GiveUp, ReturnError, Kick, ReleaseBlocked, CannotSubmit, AnnounceBlocked, Unpark,
         Unlock, NoteReleased, Look, Take, Collected, Sleep, Wake
  <2>00. missed => missed'
    BY <2>0 DEF TryDrain
  <2>1. Unread' = Unread
    BY <1>3, <1>0 DEF Unread, TaskStep, ArmSubmit, Submit, SubmitFails, GiveUp, ReturnError, Kick, ReleaseBlocked, CannotSubmit, AnnounceBlocked, Unpark,
         Unlock, NoteReleased, Look, Take, Collected, TryDrain, Sleep, Wake
  <2> SUFFICES ASSUME ~missed', Unread > Unsaid, ~irq PROVE SomeoneLooks'
    BY <1>0, <2>1, <2>00 DEF SignalInv, SomeoneLooks
  <2>2. PICK w \in Tasks : Looker(w)
    BY <2>00 DEF SignalInv
  <2>3. CASE w = t
    BY <1>3, <2>2, <2>3, SelfLooks
  <2>4. CASE w # t
    BY <1>3, <2>2, <2>4, OtherLooks DEF SomeoneLooks
  <2> QED BY <2>3, <2>4
<1> QED BY <1>1, <1>2, <1>3

\* A waiter that drains and has not unlocked the queue is told like the others.
LEMMA UnlockTaskStep ==
  ASSUME Types, Placed, Unlocking, NEW t \in Tasks, TaskStep(t)
  PROVE  Unlocking'
<1> SUFFICES ASSUME NEW u \in Tasks, pc'[u] = "unlock", token'[u] # NoId, Unread' > Unsaid'
             PROVE  irq' \/ rang'[u]
  BY DEF Unlocking, UnlockOf
<1>0. UNCHANGED <<irq, usedIdx, dev>> /\ Unsaid' = Unsaid
  BY DEF Unsaid, TaskStep, ArmSubmit, Submit, SubmitFails, GiveUp, ReturnError, Kick, ReleaseBlocked, CannotSubmit, AnnounceBlocked, Unpark, PopUsed,
         Drained, Unlock, NoteReleased, Look, Take, Collected, TryDrain, Sleep, Wake
<1>1. CASE Drained(t)
  <2>1. usedIdx' = lastUsed' /\ lastUsed \in Indices /\ lastUsed' = lastUsed
    BY <1>1 DEF Drained, Types, RingTypes
  <2>2. Unread' = 0
    BY <2>1, Apart DEF Unread
  <2> QED BY <1>0, <2>2, UnsaidType
<1>2. CASE PopUsed(t)
  <2>1. pc[u] = "unlock" /\ pc[t] = "drain"
    BY <1>2 DEF PopUsed
  <2> QED BY <2>1 DEF Placed, PlaceOf
<1>3. CASE ~Drained(t) /\ ~PopUsed(t)
  <2>1. Unread' = Unread
    BY <1>3, <1>0 DEF Unread, TaskStep, ArmSubmit, Submit, SubmitFails, GiveUp, ReturnError, Kick, ReleaseBlocked, CannotSubmit, AnnounceBlocked, Unpark,
         Unlock, NoteReleased, Look, Take, Collected, TryDrain, Sleep, Wake
  <2>2. pc[u] = "unlock" /\ token'[u] = token[u] /\ rang'[u] = rang[u]
    BY <1>3 DEF TaskStep, ArmSubmit, Submit, SubmitFails, GiveUp, ReturnError, NextRequest, Kick, ReleaseBlocked, CannotSubmit, AnnounceBlocked, Unpark,
         Unlock, AfterDrain, NoteReleased, Look, Take, Collected, TryDrain, Sleep, Wake, Types, TaskTypes
  <2> QED BY <1>0, <2>1, <2>2 DEF Unlocking, UnlockOf
<1> QED BY <1>1, <1>2, <1>3

LEMMA SignalDeviceStep ==
  ASSUME Types, Placed, TableInv, SignalInv, Unlocking, DevInv, DeviceStep \/ DeviceSignals \/ HandleInterrupt
  PROVE  SignalInv' /\ Unlocking'
<1>0. /\ usedIdx \in Indices /\ lastUsed \in Indices /\ dev.signalled \in Indices /\ RingInv
      /\ Unread \in Nat /\ Unsaid \in Nat
  BY DeviceIs, UnsaidType DEF Types, RingTypes, TableInv
<1>00. missed' = missed
  BY DEF DeviceStep, DeviceFetch, DeviceOffers, DeviceLooksAgain, DeviceWakes, DeviceUses, DeviceSignals, HandleInterrupt
<1>1. ASSUME UNCHANGED <<pc, token, slots, rang, irq>>, Unread' > Unsaid' => Unread > Unsaid
      PROVE  SignalInv' /\ Unlocking'
  BY <1>00, <1>1 DEF SignalInv, Looker, Active, SlotOf, Unlocking, UnlockOf
<1>2. ~missed /\ Unread > Unsaid => SomeoneLooks \/ irq
  BY DEF SignalInv, SomeoneLooks
<1>3. CASE DeviceFetch \/ DeviceOffers \/ DeviceLooksAgain \/ DeviceWakes
  <2>1. UNCHANGED <<pc, token, slots, rang, irq, usedIdx, lastUsed>> /\ dev'.signalled = dev.signalled
    BY <1>3 DEF DeviceFetch, DeviceOffers, DeviceLooksAgain, DeviceWakes, Types, DeviceTypes
  <2>2. Unread' = Unread /\ Unsaid' = Unsaid
    BY <2>1 DEF Unread, Unsaid
  <2> QED BY <1>1, <2>1, <2>2
<1>4. ASSUME NEW id \in Ids, DeviceUses(id) PROVE SignalInv' /\ Unlocking'
  <2>1. Unread' = Unread + 1
    BY <1>0, <1>4, UsesReturns
  <2>2. UNCHANGED <<pc, token, slots, rang, irq, dev>> /\ usedIdx' = Plus(usedIdx, 1) /\ Plus(usedIdx, 1) # dev.signalled
    BY <1>4 DEF DeviceUses
  <2>3. Wrap \in Nat /\ 1 \in 0 .. Wrap
    BY RingAssumption
  <2>4. Plus(usedIdx, 1) = IF usedIdx + 1 < Wrap THEN usedIdx + 1 ELSE usedIdx + 1 - Wrap
    BY <1>0, <2>3, PlusIs
  <2>5. Unsaid = IF usedIdx >= dev.signalled THEN usedIdx - dev.signalled ELSE usedIdx - dev.signalled + Wrap
    BY <1>0, MinusIs DEF Unsaid
  <2>6. Unsaid < Wrap - 1
    BY <1>0, <2>2, <2>3, <2>4, <2>5 DEF Indices
  <2>7. Unsaid' = Unsaid + 1
    BY <1>0, <2>2, <2>6, StepAhead DEF Unsaid
  <2>8. Unread' > Unsaid' => Unread > Unsaid
    BY <1>0, <2>1, <2>7
  <2> QED BY <1>1, <2>2, <2>8
<1>5. CASE DeviceSignals
  <2>1. /\ UNCHANGED <<pc, token, slots, rang, usedIdx, lastUsed>> /\ dev'.signalled = usedIdx
        /\ irq' = (irq \/ mode = "flags" \/ NeedEvent(usedEvent, usedIdx, dev.signalled))
    BY <1>5 DEF DeviceSignals, Types, DeviceTypes
  <2>2. Unread' = Unread /\ Unsaid' = 0
    BY <1>0, <2>1, Apart DEF Unread, Unsaid
  <2> SUFFICES ASSUME Unread > 0, ~irq'
               PROVE  /\ ~missed => SomeoneLooks'
                      /\ \A u \in Tasks : pc[u] = "unlock" /\ token[u] # NoId => rang[u]
    BY <1>00, <2>1, <2>2 DEF SignalInv, SomeoneLooks, Unlocking, UnlockOf
  <2>3. ~irq /\ mode = "event" /\ ~NeedEvent(lastUsed, usedIdx, dev.signalled)
    BY <2>1 DEF DevInv, UsedTold, Types, DeviceTypes
  <2>4. usedIdx # lastUsed
    BY <1>0, Apart DEF Unread
  <2>5. Minus(usedIdx, Plus(lastUsed, 1)) = Unread - 1
    BY <1>0, <2>4, StepBehind DEF Unread
  <2>6. Unread > Unsaid
    BY <1>0, <2>3, <2>5 DEF NeedEvent, Unsaid
  <2>7. ~missed => SomeoneLooks
    BY <1>2, <2>3, <2>6
  <2>8. ~missed => SomeoneLooks'
    BY <2>1, <2>7 DEF SomeoneLooks, Looker, Active, SlotOf
  <2> QED BY <2>3, <2>6, <2>8 DEF Unlocking, UnlockOf
<1>6. CASE HandleInterrupt
  <2>1. UNCHANGED <<pc, token, slots, usedIdx, lastUsed, dev>> /\ rang' = [t \in Tasks |-> Waits(t)]
    BY <1>6 DEF HandleInterrupt
  <2>2. Unread' = Unread /\ Unsaid' = Unsaid
    BY <2>1 DEF Unread, Unsaid
  <2>0. Unlocking'
    BY <2>1 DEF Unlocking, UnlockOf, Waits
  <2> SUFFICES ASSUME Unread > 0 PROVE SomeoneLooks'
    BY <1>0, <2>0, <2>2 DEF SignalInv, SomeoneLooks
  <2>3. Drains \in Ids /\ Drains \in Published
    <3>1. Plus(lastUsed, 0) = lastUsed
      BY <1>0, PlusNothing
    <3>2. 0 \in 0 .. Unread - 1
      BY <1>0
    <3>3. Drains \in Returned
      BY <3>1, <3>2 DEF Returned, Unread, Window, Drains
    <3> QED BY <1>0, <3>3, RingFacts DEF Published
  <2>4. PICK w \in Tasks : Active(w) /\ token[w] = Drains
    BY <2>3 DEF TableInv, OwnInv, Owned
  <2>5. pc[w] = "kick" \/ slots[token[w]].state = "pending"
    BY <2>3, <2>4 DEF TableInv, OwnInv, OwnerOf, SlotOf
  <2>6. rang'[w]
    BY <2>1, <2>4 DEF Waits, Active
  <2>7. Looker(w)'
    BY <2>1, <2>4, <2>5, <2>6 DEF Looker, Active, SlotOf
  <2> QED BY <2>7 DEF SomeoneLooks
<1> QED BY <1>3, <1>4, <1>5, <1>6 DEF DeviceStep

-----------------------------------------------------------------------------
(* The parked submitters                                                   *)

\* t waits for a release that it has not been told of.
IsParked(t) == announced[t] /\ ~moved[t] /\ token[t] = NoId /\ pc[t] \in {"drain", "unlock", "parked"}
SomeoneFrees == \E u \in Tasks : Freeing(u)

\* A free slot and room for it, in other words.
LEMMA CanSubmitKept ==
  ASSUME Types, NEW u \in Tasks, UNCHANGED <<load, ids>>, CanSubmit(u)',
         \A id \in Ids : slots'[id].state = "idle" => slots[id].state = "idle"
  PROVE  CanSubmit(u)
<1>1. HasRoomFor(u)
  BY DEF CanSubmit, HasRoomFor
<1>2. Head(ids) \in Ids
  BY <1>1, Room, TakeTypes DEF Types, RingTypes
<1> QED BY <1>1, <1>2 DEF CanSubmit, IsIdle

LEMMA ParkKept ==
  ASSUME NEW u \in Tasks, ParkOf(u), IsParked(u)' => IsParked(u), CanSubmit(u)' => CanSubmit(u),
         SomeoneFrees => SomeoneFrees'
  PROVE  ParkOf(u)'
  BY DEF ParkOf, IsParked, SomeoneFrees

LEMMA FreeingKept ==
  ASSUME NEW t \in Tasks, SomeoneFrees, ~Freeing(t), \A w \in Tasks : w # t => pc'[w] = pc[w] /\ freed'[w] = freed[w]
  PROVE  SomeoneFrees'
  BY DEF SomeoneFrees, Freeing

\* A submitter parks, or a slot comes free, in whatever order.
LEMMA ParkedStep ==
  ASSUME ControlInv, TableInv, Parked, NEW t \in Tasks, TaskStep(t)
  PROVE  Parked'
<1> SUFFICES ASSUME NEW u \in Tasks PROVE ParkOf(u)'
  BY DEF Parked
<1>0. ParkOf(u) /\ Types /\ Placed /\ CountInv /\ PlaceOf(t) /\ PlaceOf(u) /\ NoTask \notin Tasks
  BY RequestsAssumption DEF Parked, ControlInv, Placed
<1>00. ASSUME SomeoneFrees' PROVE ParkOf(u)'
  BY <1>00 DEF ParkOf, SomeoneFrees
<1>1. load' = load /\ \A w \in Tasks : w # t => pc'[w] = pc[w] /\ freed'[w] = freed[w]
  BY <1>0 DEF TaskStep, ArmSubmit, Submit, SubmitFails, GiveUp, ReturnError, NextRequest, Kick, ReleaseBlocked, CannotSubmit, AnnounceBlocked, Unpark, PopUsed,
         Drained, Unlock, NoteReleased, Look, Take, Collected, TryDrain, Sleep, Wake, Types, TaskTypes
<1>2. CASE PopUsed(t)
  <2>1. Freeing(t)'
    BY <1>0, <1>2 DEF PopUsed, Freeing, Types, TaskTypes
  <2> QED BY <1>00, <2>1 DEF SomeoneFrees
<1>3. ASSUME blocked # 0, \A w \in Tasks : moved'[w] = (moved[w] \/ (blocked # 0 /\ ~Waits(w) /\ ~At(w, "done"))),
             u # t, UNCHANGED <<announced, slots, ids>>, token'[u] = token[u]
      PROVE  ParkOf(u)'
  <2>1. ~IsParked(u)'
    BY <1>1, <1>3 DEF IsParked, Waits
  <2> QED BY <2>1 DEF ParkOf, IsParked
<1>4. ASSUME IsParked(u)', UNCHANGED <<announced, blocked>> PROVE blocked # 0
  <2>1. u \in Announcing /\ IsFiniteSet(Announcing) /\ blocked = Cardinality(Announcing)
    BY <1>0, <1>4 DEF IsParked, Announcing, CountInv
  <2> QED BY <2>1, FS_EmptySet
<1>5. CASE NoteReleased(t)
  <2>1. CASE u = t
    <3>1. pc'[t] \in {"look", "arm"}
      BY <1>0, <1>5 DEF NoteReleased, AfterDrain, Waits, PlaceOf, Types, TaskTypes
    <3> QED BY <2>1, <3>1 DEF ParkOf
  <2>2. CASE u # t /\ IsParked(u)'
    <3>1. /\ UNCHANGED <<announced, blocked, slots, ids, token>>
          /\ \A w \in Tasks : moved'[w] = (moved[w] \/ (blocked # 0 /\ ~Waits(w) /\ ~At(w, "done")))
      BY <1>5 DEF NoteReleased, Broadcast
    <3> QED BY <1>3, <1>4, <2>2, <3>1
  <2>3. CASE ~IsParked(u)'
    BY <2>3 DEF ParkOf, IsParked
  <2> QED BY <2>1, <2>2, <2>3
<1>6. CASE Collected(t)
  <2>1. CASE u = t
    <3>1. pc'[t] \in {"done", "arm"}
      BY <1>0, <1>6 DEF Collected, NextRequest, Types, TaskTypes
    <3> QED BY <2>1, <3>1 DEF ParkOf
  <2>2. CASE u # t /\ IsParked(u)'
    <3>1. /\ UNCHANGED <<announced, blocked, slots, ids>> /\ token'[u] = token[u]
          /\ \A w \in Tasks : moved'[w] = (moved[w] \/ (blocked # 0 /\ ~Waits(w) /\ ~At(w, "done")))
      BY <1>0, <1>6, <2>2 DEF Collected, Broadcast, Types, TaskTypes
    <3> QED BY <1>3, <1>4, <2>2, <3>1
  <2>3. CASE ~IsParked(u)'
    BY <2>3 DEF ParkOf, IsParked
  <2> QED BY <2>1, <2>2, <2>3
<1>7. CASE Submit(t)
  <2>1. pc'[t] = "kick" /\ pc[t] = "lock" /\ UNCHANGED announced /\ CanSubmit(t) /\ ids' = RestOf(ids, load.buffers[t])
    BY <1>0, <1>7 DEF Submit, RestOf, Types, TaskTypes
  <2>2. CASE u = t
    BY <2>1, <2>2 DEF ParkOf
  <2>3. CASE u # t
    <3>1. IsParked(u)' => IsParked(u)
      BY <1>0, <1>1, <1>7, <2>3 DEF IsParked, Submit, Types, TaskTypes
    <3>2. SomeoneFrees => SomeoneFrees'
      BY <1>1, <2>1, FreeingKept DEF Freeing
    <3>3. CanSubmit(u)' => CanSubmit(u)
      <4>1. load.buffers[t] \in 1 .. Len(ids) /\ ids \in Seq(Ids) /\ OnceEach(ids)
        BY <1>0, <2>1, Room DEF CanSubmit, TableInv, DescInv, Partition, Types, RingTypes
      <4>2. Len(ids') <= Len(ids) /\ ids' \in Seq(Ids)
        BY <2>1, <4>1, TakeFree
      <4>3. load.buffers[u] \in Int /\ Len(ids) \in Int /\ Len(ids') \in Int
        BY <1>0, <4>1, <4>2, Room
      <4>4. CanSubmit(u)' => HasRoomFor(u)
        BY <1>1, <4>2, <4>3 DEF CanSubmit, HasRoomFor
      <4> QED BY <2>1, <4>4 DEF CanSubmit
    <3> QED BY <1>0, <3>1, <3>2, <3>3, ParkKept
  <2> QED BY <2>2, <2>3
<1>8. ASSUME IsParked(u)' => IsParked(u), ids' = ids, SomeoneFrees => SomeoneFrees',
             \A id \in Ids : slots'[id].state = "idle" => slots[id].state = "idle"
      PROVE  ParkOf(u)'
  BY <1>0, <1>1, <1>8, ParkKept, CanSubmitKept
<1>9. CASE Kick(t)
  <2>1. IsParked(u)' => IsParked(u)
    BY <1>0, <1>9 DEF IsParked, Kick, Types, TaskTypes
  <2>2. SomeoneFrees => SomeoneFrees'
    BY <1>1, <1>9, FreeingKept DEF Freeing, Kick
  <2>3. slots' = [slots EXCEPT ![token[t]] = Pending(NoTask)] /\ ids' = ids
    BY <1>9 DEF Kick, Register
  <2>4. Pending(NoTask).state = "pending"
    BY DEF Pending, Idle
  <2>5. \A id \in Ids : slots'[id].state = "idle" => slots[id].state = "idle"
    BY <1>0, <2>3, <2>4 DEF Types, RingTypes
  <2> QED BY <1>8, <2>1, <2>2, <2>3, <2>5
<1>10. CASE Sleep(t)
  <2>1. IsParked(u)' => IsParked(u)
    BY <1>0, <1>10 DEF IsParked, Sleep, Types, TaskTypes
  <2>2. SomeoneFrees => SomeoneFrees'
    BY <1>1, <1>10, FreeingKept DEF Freeing, Sleep
  <2>3. (slots' = slots \/ slots' = [slots EXCEPT ![token[t]] = Pending(t)]) /\ ids' = ids
    BY <1>10 DEF Sleep
  <2>4. Pending(t).state = "pending"
    BY DEF Pending, Idle
  <2>5. \A id \in Ids : slots'[id].state = "idle" => slots[id].state = "idle"
    BY <1>0, <2>3, <2>4 DEF Types, RingTypes
  <2> QED BY <1>8, <2>1, <2>2, <2>3, <2>5
<1>11. CASE Take(t)
  <2>1. CASE slots[token[t]].state = "complete"
    <3>1. Freeing(t)'
      BY <1>0, <1>11, <2>1 DEF Take, Freeing, Types, TaskTypes
    <3> QED BY <1>00, <3>1 DEF SomeoneFrees
  <2>2. CASE slots[token[t]].state # "complete"
    <3>1. IsParked(u)' => IsParked(u)
      BY <1>0, <1>11, <2>2 DEF IsParked, Take, Types, TaskTypes
    <3>2. SomeoneFrees => SomeoneFrees'
      BY <1>1, <1>11, FreeingKept DEF Freeing, Take
    <3> QED BY <1>8, <1>11, <2>2, <3>1, <3>2 DEF Take
  <2> QED BY <2>1, <2>2
<1>12. CASE CannotSubmit(t)
  <2>1. ~CanSubmit(t) /\ UNCHANGED <<slots, ids>>
    BY <1>12 DEF CannotSubmit
  <2>2. CASE u = t
    <3>1. ~CanSubmit(u)'
      BY <1>1, <2>1, <2>2 DEF CanSubmit, HasRoomFor, IsIdle
    <3> QED BY <3>1 DEF ParkOf
  <2>3. CASE u # t
    <3>1. IsParked(u)' => IsParked(u)
      BY <1>0, <1>12, <2>3 DEF IsParked, CannotSubmit, Types, TaskTypes
    <3>2. SomeoneFrees => SomeoneFrees'
      BY <1>1, <1>12, FreeingKept DEF Freeing, CannotSubmit
    <3> QED BY <1>8, <2>1, <3>1, <3>2
  <2> QED BY <2>2, <2>3
<1>13. CASE Drained(t) \/ Unlock(t)
  <2>1. UNCHANGED <<slots, ids, announced, moved, token, freed>> /\ pc[t] \in {"drain", "unlock"}
    BY <1>13 DEF Drained, Unlock
  <2>2. IsParked(u)' => IsParked(u)
    BY <1>1, <2>1 DEF IsParked
  <2>3. SomeoneFrees => SomeoneFrees'
    <3>1. CASE Freeing(t)
      <4>1. freed[t]
        BY <2>1, <3>1 DEF Freeing
      <4>2. pc'[t] \in {"unlock", "freed"} /\ freed'[t]
        BY <1>0, <1>13, <2>1, <4>1 DEF Drained, Unlock, Types, TaskTypes
      <4> QED BY <4>2 DEF SomeoneFrees, Freeing
    <3>2. CASE ~Freeing(t)
      BY <1>1, <3>2, FreeingKept
    <3> QED BY <3>1, <3>2
  <2> QED BY <1>8, <2>1, <2>2, <2>3
<1>14. CASE \/ ArmSubmit(t) \/ SubmitFails(t) \/ GiveUp(t) \/ ReturnError(t) \/ ReleaseBlocked(t) \/ AnnounceBlocked(t) \/ Unpark(t)
            \/ Look(t) \/ TryDrain(t) \/ Wake(t)
  <2>1. UNCHANGED <<slots, ids, token>> /\ ~Freeing(t)
    BY <1>14 DEF Freeing, ArmSubmit, SubmitFails, GiveUp, ReturnError, ReleaseBlocked, AnnounceBlocked, Unpark, Look, TryDrain, Wake
  <2>2. CASE u # t
    <3>1. announced'[u] = announced[u] /\ moved'[u] = moved[u]
      BY <1>0, <1>14, <2>2 DEF ArmSubmit, SubmitFails, GiveUp, ReturnError, ReleaseBlocked, AnnounceBlocked, Unpark, Look, TryDrain, Wake, Types, TaskTypes
    <3>2. IsParked(u)' => IsParked(u)
      BY <1>1, <2>1, <2>2, <3>1 DEF IsParked
    <3>3. SomeoneFrees => SomeoneFrees'
      BY <1>1, <2>1, FreeingKept
    <3> QED BY <1>8, <2>1, <3>2, <3>3
  <2>3. CASE u = t
    <3>1. pc'[t] \notin {"drain", "unlock", "parked"} \/ token'[t] # NoId
      BY <1>0, <1>14 DEF ArmSubmit, SubmitFails, GiveUp, ReturnError, NextRequest, ReleaseBlocked, AnnounceBlocked, Unpark, Look, TryDrain, Wake, PlaceOf,
            Types, TaskTypes
    <3> QED BY <2>3, <3>1 DEF ParkOf
  <2> QED BY <2>2, <2>3
<1> QED BY <1>2, <1>5, <1>6, <1>7, <1>9, <1>10, <1>11, <1>12, <1>13, <1>14 DEF TaskStep

-----------------------------------------------------------------------------
(* The invariant and its theorems                                          *)

VirtQueueInv == ControlInv /\ TableInv /\ WakeInv

LEMMA WakeStep ==
  ASSUME VirtQueueInv, [Next]_vars
  PROVE  WakeInv'
<1>0. ControlInv /\ Types /\ Placed /\ TableInv /\ Sleepers /\ Parked /\ DevInv /\ SignalInv /\ Unlocking
  BY DEF VirtQueueInv, ControlInv, WakeInv
<1>1. ASSUME NEW t \in Tasks, TaskStep(t) PROVE WakeInv'
  <2>1. Sleepers' BY <1>0, <1>1, SleepersStep
  <2>2. Parked' BY <1>0, <1>1, ParkedStep
  <2>3. DevInv' BY <1>0, <1>1, DevTaskStep
  <2>4. SignalInv' BY <1>0, <1>1, SignalTaskStep
  <2>5. Unlocking' BY <1>0, <1>1, UnlockTaskStep
  <2> QED BY <2>1, <2>2, <2>3, <2>4, <2>5 DEF WakeInv
<1>2. ASSUME UNCHANGED <<load, pc, token, announced, freed, moved, woken, ids, slots>> PROVE Sleepers' /\ Parked'
  BY <1>0, <1>2 DEF Sleepers, SleepOf, SlotOf, Parked, ParkOf, Freeing, CanSubmit, HasRoomFor, IsIdle
<1>3. CASE DeviceStep \/ DeviceSignals \/ HandleInterrupt
  <2>1. UNCHANGED <<load, pc, token, announced, freed, moved, woken, ids, slots>>
    BY <1>3 DEF DeviceStep, DeviceFetch, DeviceOffers, DeviceLooksAgain, DeviceWakes, DeviceUses, DeviceSignals, HandleInterrupt
  <2>2. DevInv' /\ SignalInv' /\ Unlocking'
    BY <1>0, <1>3, DevDeviceStep, SignalDeviceStep
  <2> QED BY <1>2, <2>1, <2>2 DEF WakeInv
<1>4. CASE UNCHANGED vars
  <2>1. DevInv'
    BY <1>0, <1>4 DEF vars, DevInv, DevTold, DevWaits, UsedTold, Waiting, Kicking
  <2>2. SignalInv' /\ Unlocking'
    BY <1>0, <1>4 DEF vars, SignalInv, Unlocking, UnlockOf, Unread, Unsaid, Looker, Active, SlotOf
  <2> QED BY <1>2, <1>4, <2>1, <2>2 DEF vars, WakeInv
<1> QED BY <1>1, <1>3, <1>4 DEF Next

LEMMA WakeInit == Init => WakeInv
<1> SUFFICES ASSUME Init PROVE WakeInv
  OBVIOUS
<1>1. Minus(0, 0) = 0
  <2>1. 0 \in Indices
    BY RingAssumption DEF Indices
  <2> QED BY <2>1, Apart
<1>2. Waiting = 0 /\ Unread = 0 /\ Unsaid = 0
  BY <1>1 DEF Init, Waiting, Unread, Unsaid
<1> QED BY <1>2 DEF Init, WakeInv, Sleepers, SleepOf, Parked, ParkOf, DevInv, DevTold, DevWaits, UsedTold, SignalInv, Unlocking, UnlockOf

\* At rest nothing waits in either ring.
LEMMA RestIsEmpty ==
  ASSUME VirtQueueInv, AtRest, ~missed
  PROVE  Published = {}
<1> USE DEF AtRest
<1>0. Types /\ Placed /\ TableInv /\ DevInv /\ SignalInv
  BY DEF VirtQueueInv, ControlInv, WakeInv
<1>1. Waiting = 0
  <2>1. ~Kicking
    BY DEF Kicking, Stuck
  <2> QED BY <1>0, <2>1 DEF DevInv, DevWaits
<1>2. Unread = 0
  <2>1. Unsaid = 0
    BY <1>0, Apart DEF Unsaid, Types, RingTypes
  <2>2. Unread \in Nat
    BY <1>0, UnsaidType
  <2>3. \A t \in Tasks : ~Looker(t)
    BY <1>0 DEF Looker, Stuck, Placed, PlaceOf, Active
  <2> QED BY <1>0, <2>1, <2>2, <2>3 DEF SignalInv
<1> QED BY <1>1, <1>2 DEF Published, Offered, Returned, Window, Waiting, Unread

\* Then no task sleeps or is parked either.
LEMMA RestIsDone == VirtQueueInv => OnlyTheMissedAreForgotten
<1> SUFFICES ASSUME VirtQueueInv, AtRest, ~missed, NEW t \in Tasks
             PROVE  At(t, "done")
  BY DEF OnlyTheMissedAreForgotten
<1>00. \A u \in Tasks : Stuck(u)
  BY DEF AtRest
<1>0. Types /\ Placed /\ DescInv /\ OwnInv /\ Sleepers /\ Parked
  BY DEF VirtQueueInv, ControlInv, WakeInv, TableInv
<1>1. Published = {}
  BY RestIsEmpty
<1>2. ASSUME NEW u \in Tasks PROVE pc[u] # "asleep"
  <2> SUFFICES ASSUME pc[u] = "asleep" PROVE FALSE
    OBVIOUS
  <2>1. Active(u)
    BY <1>0, ActiveWhere
  <2>2. ~woken[u]
    BY <1>00 DEF Stuck
  <2>3. slots[token[u]].state = "pending"
    BY <1>0, <2>2 DEF Sleepers, SleepOf, SlotOf
  <2>4. token[u] \in Published
    BY <1>0, <2>1, <2>3 DEF OwnInv, OwnerOf, SlotOf
  <2> QED BY <1>1, <2>4
<1>3. \A u \in Tasks : pc[u] \in {"done", "parked"}
  BY <1>00, <1>2 DEF Stuck
<1>4. \A u \in Tasks : ~Active(u)
  BY <1>0, <1>3 DEF Placed, PlaceOf, Active
<1>5. \A id \in Ids : slots[id].state = "idle"
  BY <1>0, <1>4 DEF OwnInv, Owned
<1>6. Ids \subseteq Members(ids)
  BY <1>0, <1>1 DEF DescInv, Partition
<1>7. Len(ids) >= Size /\ Head(ids) \in Ids
  BY <1>0, <1>6, AllFree DEF Types, RingTypes
<1>8. CanSubmit(t)
  <2>1. load.buffers[t] \in 1 .. Size /\ Size \in Nat /\ Len(ids) \in Nat
    BY <1>0, Room, RingAssumption DEF Types, RingTypes
  <2>2. HasRoomFor(t)
    BY <1>7, <2>1 DEF HasRoomFor
  <2> QED BY <1>5, <1>7, <2>2 DEF CanSubmit, IsIdle
<1>9. ~SomeoneFrees
  BY <1>3 DEF SomeoneFrees, Freeing
<1>10. CASE pc[t] = "parked"
  <2>1. announced[t] /\ ~moved[t] /\ token[t] = NoId
    BY <1>0, <1>00, <1>10 DEF Placed, PlaceOf, Stuck
  <2> QED BY <1>0, <1>8, <1>9, <1>10, <2>1 DEF Parked, ParkOf, SomeoneFrees
<1> QED BY <1>3, <1>10

\* The invariant holds in every state: submissions, drains, sleeps and parkings
\* of InFlight, the ring's moves and the device's steps keep it.
THEOREM VirtQueueInvariant == Spec => []VirtQueueInv
<1>1. Init => VirtQueueInv
  BY ControlInit, TableInit, WakeInit DEF VirtQueueInv
<1>2. VirtQueueInv /\ [Next]_vars => VirtQueueInv'
  BY ControlStep, TableStep, WakeStep DEF VirtQueueInv
<1> QED BY <1>1, <1>2, PTL DEF Spec

\* Every variable keeps its type; the count of blocked submitters, an unsigned
\* atomic that release_blocked takes one from, never goes below zero.
THEOREM VirtQueueTypeCorrect == Spec => []TypeOK
<1>1. VirtQueueInv => TypeOK
  <2> SUFFICES ASSUME VirtQueueInv PROVE TypeOK
    OBVIOUS
  <2>1. IsFiniteSet(Announcing) /\ blocked = Cardinality(Announcing)
    BY DEF VirtQueueInv, ControlInv, CountInv, Announcing
  <2>2. blocked \in Nat
    BY <2>1, FS_CardinalityType
  <2> QED BY <2>2 DEF VirtQueueInv, ControlInv, Types, TypeOK
<1> QED BY <1>1, VirtQueueInvariant, PTL

\* No drain finds a completion whose slot is not pending: what submit_chain
\* publishes is registered before anyone can pop it, though the device may be
\* faster than the registration.
THEOREM EveryChainIsClaimed == Spec => []ChainsAreClaimed
<1>1. VirtQueueInv => ChainsAreClaimed
  BY TableIsClaimed DEF VirtQueueInv
<1> QED BY <1>1, VirtQueueInvariant, PTL

\* Whichever task drains the ring, and though an identifier is free again as soon
\* as its completion is popped, the reply a task takes is that of its request.
THEOREM EveryReplyIsOwn == Spec => []RepliesAreOwn
<1>1. VirtQueueInv => RepliesAreOwn
  BY DEF VirtQueueInv, TableInv, OwnInv
<1> QED BY <1>1, VirtQueueInvariant, PTL

\* When the device sleeps, nothing is signalled and every task waits, all requests
\* are done: neither a suppressed kick or interrupt, nor a waker left too late,
\* nor a submitter that parked as a slot came free is slept through.  What is left
\* is the completion await_completion leaves to a task that leaves the queue.
THEOREM NobodySleepsForever == Spec => []OnlyTheMissedAreForgotten
<1>1. VirtQueueInv => OnlyTheMissedAreForgotten
  BY RestIsDone
<1> QED BY <1>1, VirtQueueInvariant, PTL
=============================================================================
