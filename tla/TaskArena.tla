----------------------------- MODULE TaskArena -----------------------------
(***************************************************************************)
(* One processor's task arena (kernel/src/exec/executor.rs): two buddy     *)
(* trees, the instance share and the kernel reserve, that only the owner   *)
(* touches, and the stack onto which a task's block is pushed from         *)
(* whichever processor the task ends on.                                   *)
(*                                                                         *)
(* Offsets count granules (TASK_ARENA_ALIGN bytes), so a block of class c  *)
(* is 2^c of them.  The trees' free lists and free bits are the set of     *)
(* free blocks; which block of a class a list has at its head is left      *)
(* open.  The owner's steps interleave with releases by other processors,  *)
(* whose accesses to the stack are one step each.                          *)
(***************************************************************************)
EXTENDS Integers, FiniteSets, FiniteSetsExt

CONSTANTS
  Futures,      \* futures that may be alive at once
  ClassCount,   \* TASK_ARENA_CLASS_COUNT
  ShareTops,    \* top blocks of the instance share
  ReserveTops,  \* top blocks of the kernel reserve
  Null,         \* TASK_ARENA_BLOCK_NULL
  NoFuture

Classes == 0 .. ClassCount - 1
Sizes[c \in Classes] == IF c = 0 THEN 1 ELSE 2 * Sizes[c - 1]
ClassSize(c) == Sizes[c]
TopSize == ClassSize(ClassCount - 1)
ShareSize == ShareTops * TopSize
GranuleCount == (ShareTops + ReserveTops) * TopSize
Granules == 0 .. GranuleCount - 1
Share == 0 .. ShareSize - 1
Reserve == Granules \ Share
Regions == {"Share", "Reserve"}
Span(r) == IF r = "Share" THEN Share ELSE Reserve

ASSUME ArenaAssumption ==
  /\ {ClassCount, ShareTops, ReserveTops} \subseteq Nat \ {0}
  /\ Null \notin Granules /\ NoFuture \notin Futures

Fundings == {"Instance", "Kernel"}
NoNode == [next |-> Null, class |-> 0]
NoRequest == [task |-> NoFuture, class |-> 0, funding |-> "Kernel"]

VARIABLES
  free,      \* free[r]: the free blocks of region r's tree, <<offset, class>>
  head,      \* SharedCells::remote_free
  node,      \* node[o]: the RemoteFreeNode in a block on its way to the owner
  active, instanceActive,
  opc,       \* where the owner is in allocate
  request,   \* what it was asked for
  draining,  \* drain_remote_frees' place in the chain it took
  life,      \* life[t]: where the task's future is
  block,     \* block[t]: its block, <<offset, class>>
  funding,   \* funding[t]
  seen       \* seen[t]: the head its release last read

ownerVars == <<free, opc, request, draining>>
countVars == <<active, instanceActive>>
taskVars == <<life, block, funding, seen>>
arenaVars == <<free, head, node, active, instanceActive, opc, request, draining,
          life, block, funding, seen>>

NoBlock == <<Null, 0>>

ArenaInit ==
  /\ free = [r \in Regions |->
               { <<o, ClassCount - 1>> : o \in {g \in Span(r) : g % TopSize = 0} }]
  /\ head = Null /\ node = [o \in Granules |-> NoNode]
  /\ active = 0 /\ instanceActive = 0
  /\ opc = "idle" /\ request = NoRequest /\ draining = Null
  /\ life = [t \in Futures |-> "none"]
  /\ block = [t \in Futures |-> NoBlock]
  /\ funding = [t \in Futures |-> "Kernel"]
  /\ seen = [t \in Futures |-> Null]

-----------------------------------------------------------------------------
(* BuddyRegion                                                             *)

\* The block of class c around offset o: where merging up to c ends.
Around(o, c) == o - (o % ClassSize(c))

\* A region starts on a top block, so offsets in the arena do for offsets in it.
Buddy(o, c) ==
  IF (o \div ClassSize(c)) % 2 = 0 THEN o + ClassSize(c) ELSE o - ClassSize(c)

\* The blocks allocate may split for class c: r's free ones of the smallest
\* class that has any.
Sources(r, c) ==
  { b \in free[r] : b[2] >= c /\ \A d \in free[r] : d[2] >= c => b[2] <= d[2] }

\* What is free in r once b was split for a block of class c at its start.
Split(r, b, c) ==
  (free[r] \ {b}) \cup { <<b[1] + ClassSize(k), k>> : k \in c .. b[2] - 1 }

\* The class a freed block of class c at o merges up to: as far as every buddy
\* on the way is free.
MergedClass(r, o, c) ==
  Max({ k \in c .. ClassCount - 1 :
          \A j \in c .. k - 1 : <<Buddy(Around(o, j), j), j>> \in free[r] })

\* Mutant of Freed: no merging.
FreedAsIs(r, o, c) == free[r] \cup {<<o, c>>}

\* What is free in r once the block was returned.
Freed(r, o, c) ==
  LET m == MergedClass(r, o, c) IN
  (free[r] \ { <<Buddy(Around(o, j), j), j>> : j \in c .. m - 1 })
    \cup {<<Around(o, m), m>>}

RegionOf(o) == IF o < ShareSize THEN "Share" ELSE "Reserve"

-----------------------------------------------------------------------------
(* TaskArena::allocate, on the owner                                       *)

Spawn(t, c, f) ==
  /\ opc = "idle" /\ life[t] = "none"
  /\ opc' = "swap"
  /\ request' = [task |-> t, class |-> c, funding |-> f]
  /\ UNCHANGED <<free, head, node, countVars, draining, taskVars>>

\* drain_remote_frees: the swap.
TakeChain ==
  /\ opc = "swap"
  /\ draining' = head /\ head' = Null
  /\ opc' = "drain"
  /\ UNCHANGED <<free, node, countVars, request, taskVars>>

\* A turn of its loop.  The block's bytes then hold list headers, and are no
\* longer a node.
DrainOne ==
  /\ opc = "drain" /\ draining # Null
  /\ LET r == RegionOf(draining) IN
     free' = [free EXCEPT ![r] = Freed(r, draining, node[draining].class)]
  /\ draining' = node[draining].next
  /\ node' = [node EXCEPT ![draining] = NoNode]
  /\ UNCHANGED <<head, countVars, opc, request, taskVars>>

\* The regions this funding may be served from, in the order they are tried.
RegionsFor(f) == IF f = "Instance" THEN <<"Share">> ELSE <<"Share", "Reserve">>

Place(r, b) ==
  LET t == request.task IN
  /\ free' = [free EXCEPT ![r] = Split(r, b, request.class)]
  /\ block' = [block EXCEPT ![t] = <<b[1], request.class>>]
  /\ funding' = [funding EXCEPT ![t] = request.funding]
  /\ life' = [life EXCEPT ![t] = "placed"]
  /\ opc' = "active"
  /\ UNCHANGED <<head, node, countVars, request, draining, seen>>

\* take_block: the first region that has a source serves the request.  With
\* none an instance is refused, and the kernel panics.
TakeBlock ==
  /\ opc = "drain" /\ draining = Null
  /\ LET regions == RegionsFor(request.funding)
         serving == { i \in DOMAIN regions : Sources(regions[i], request.class) # {} } IN
     \/ \E i \in serving :
          /\ \A j \in serving : i <= j
          /\ \E b \in Sources(regions[i], request.class) : Place(regions[i], b)
     \/ /\ serving = {}
        /\ opc' = IF request.funding = "Instance" THEN "idle" ELSE "panic"
        /\ request' = NoRequest
        /\ UNCHANGED <<free, head, node, countVars, draining, taskVars>>

HandOver ==
  /\ life' = [life EXCEPT ![request.task] = "live"]
  /\ opc' = "idle" /\ request' = NoRequest

CountActive ==
  /\ opc = "active"
  /\ active' = active + 1
  /\ \/ request.funding = "Instance" /\ opc' = "instance" /\ UNCHANGED <<life, request>>
     \/ request.funding = "Kernel" /\ HandOver
  /\ UNCHANGED <<free, head, node, instanceActive, draining, block, funding, seen>>

CountInstance ==
  /\ opc = "instance"
  /\ instanceActive' = instanceActive + 1
  /\ HandOver
  /\ UNCHANGED <<free, head, node, active, draining, block, funding, seen>>

-----------------------------------------------------------------------------
(* TaskArena::release, wherever the task ends                              *)

\* The head is read and the node written, which nobody else reads yet.
Link(t) ==
  /\ seen' = [seen EXCEPT ![t] = head]
  /\ node' = [node EXCEPT ![block[t][1]] = [next |-> head, class |-> block[t][2]]]

\* The future was dropped.
Release(t) ==
  /\ life[t] = "live"
  /\ Link(t)
  /\ life' = [life EXCEPT ![t] = "publish"]
  /\ UNCHANGED <<ownerVars, head, countVars, block, funding>>

Pushed(t) ==
  /\ head' = block[t][1]
  /\ block' = [block EXCEPT ![t] = NoBlock]
  /\ life' = [life EXCEPT ![t] = IF funding[t] = "Instance" THEN "subInstance" ELSE "subActive"]
  /\ UNCHANGED <<ownerVars, node, countVars, funding, seen>>

\* Mutant of PushRemote: a store in place of the exchange.
PushBlindly(t) ==
  /\ life[t] = "publish"
  /\ Pushed(t)

\* compare_exchange_weak, which may also fail for no reason.
PushRemote(t) ==
  /\ life[t] = "publish"
  /\ \/ head = seen[t] /\ Pushed(t)
     \/ Link(t) /\ UNCHANGED <<ownerVars, head, countVars, life, block, funding>>

SubInstance(t) ==
  /\ life[t] = "subInstance"
  /\ instanceActive' = instanceActive - 1
  /\ life' = [life EXCEPT ![t] = "subActive"]
  /\ UNCHANGED <<ownerVars, head, node, active, block, funding, seen>>

SubActive(t) ==
  /\ life[t] = "subActive"
  /\ active' = active - 1
  /\ life' = [life EXCEPT ![t] = "none"]
  /\ funding' = [funding EXCEPT ![t] = "Kernel"]
  /\ seen' = [seen EXCEPT ![t] = Null]
  /\ UNCHANGED <<ownerVars, head, node, instanceActive, block>>

-----------------------------------------------------------------------------
ArenaNext ==
  \/ \E t \in Futures, c \in Classes, f \in Fundings : Spawn(t, c, f)
  \/ TakeChain \/ DrainOne \/ TakeBlock \/ CountActive \/ CountInstance
  \/ \E t \in Futures : Release(t) \/ PushRemote(t) \/ SubInstance(t) \/ SubActive(t)

\* A panic stops the machine.
ArenaSpec == ArenaInit /\ [][opc # "panic" /\ ArenaNext]_arenaVars

-----------------------------------------------------------------------------
ArenaTypeOK ==
  /\ free \in [Regions -> SUBSET (Granules \X Classes)]
  /\ head \in Granules \cup {Null} /\ draining \in Granules \cup {Null}
  /\ node \in [Granules -> [next : Granules \cup {Null}, class : Classes]]
  /\ active \in Nat /\ instanceActive \in Nat
  /\ opc \in {"idle", "swap", "drain", "active", "instance", "panic"}
  /\ request \in [task : Futures \cup {NoFuture}, class : Classes, funding : Fundings]
  /\ life \in [Futures -> {"none", "placed", "live", "publish", "subInstance", "subActive"}]
  /\ block \in [Futures -> (Granules \X Classes) \cup {NoBlock}]
  /\ funding \in [Futures -> Fundings] /\ seen \in [Futures -> Granules \cup {Null}]

Extent(b) == b[1] .. b[1] + ClassSize(b[2]) - 1

\* The offsets on the chain that starts at o, with Null if the chain ends.
Onward(nodes, from) == from \cup { nodes[x].next : x \in from \ {Null} }
Reach(nodes, o) ==
  LET steps[n \in 0 .. GranuleCount] == IF n = 0 THEN {o} ELSE Onward(nodes, steps[n - 1])
  IN  steps[GranuleCount]

OnChain(o) == { <<x, node[x].class>> : x \in Reach(node, o) \ {Null} }

\* Who has which block: the trees, the futures, the stack and the drain.
Holdings ==
  (UNION { {r} \X free[r] : r \in Regions })
    \cup { <<t, block[t]>> : t \in {u \in Futures : block[u] # NoBlock} }
    \cup ({"stack"} \X OnChain(head)) \cup ({"drain"} \X OnChain(draining))

\* The arena is partitioned: a granule is in one free block, one future's
\* block, or one block on its way back, so no two futures overlap, no block is
\* freed twice and none is lost, whatever releases race the owner's drain.
\* Each tree keeps to its own region, as the assertion in free says.
BlocksPartition ==
  /\ \A r \in Regions : \A b \in free[r] : Extent(b) \subseteq Span(r)
  /\ Null \in Reach(node, head) /\ Null \in Reach(node, draining)
  /\ UNION { Extent(h[2]) : h \in Holdings } = Granules
  /\ \A h, k \in Holdings : h # k => Extent(h[2]) \cap Extent(k[2]) = {}

\* "An instance share that is full can never take from" the reserve: no part of
\* it is ever an instance-funded future's, however it was split and merged.
ReserveIsKernels ==
  \A t \in Futures : funding[t] = "Instance" /\ block[t] # NoBlock =>
    Extent(block[t]) \subseteq Share

\* Region r has an aligned run of free granules for a block of class c.
Fits(r, c) ==
  \E o \in Span(r) : o % ClassSize(c) = 0 /\
    Extent(<<o, c>>) \subseteq UNION { Extent(b) : b \in free[r] }

\* "Freed bytes are fungible across size classes": a spawn is refused only if
\* no aligned run of free granules of its size is left in what it may use.
HonestRefusal ==
  [][ opc = "drain" /\ opc' \in {"idle", "panic"} =>
        /\ ~ Fits("Share", request.class)
        /\ request.funding = "Kernel" => ~ Fits("Reserve", request.class) ]_arenaVars

\* The live counts are what the refusal reports and the release asserts on:
\* they count the futures handed out whose release has not got to them yet.
CountsExact ==
  /\ active = Cardinality({t \in Futures : life[t] \notin {"none", "placed"}})
                + (IF opc = "instance" THEN 1 ELSE 0)
  /\ instanceActive = Cardinality({t \in Futures : funding[t] = "Instance" /\
                        life[t] \in {"live", "publish", "subInstance"}})

\* Who has which bytes, and how many futures there are, is never in doubt.
ArenaAccounted == BlocksPartition /\ ReserveIsKernels /\ CountsExact
=============================================================================
