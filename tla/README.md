# A verification project for the Helios kernel

Helios is a Rust kernel that runs WebAssembly components: one image per
machine, a cooperative async executor on every processor, devices owned by
kernel futures or granted to user-mode drivers, and a capability model around
component instances. This directory keeps TLA+ models of its concurrent core,
the TLC configurations that check them on small instances, and TLAPS proofs of
the results that should hold on every machine.

## 1. The system

| Part | Sources | State it keeps | Operations and interactions |
|---|---|---|---|
| Executor and idle handshake | `kernel/src/exec/executor.rs`, `idle.rs`, run loop in `kernel/src/lib.rs`, `park_current`/`wake_processor` in `x86`, `aarch64`, `riscv` | one ready queue and ready count per processor and a global pair, the published idle state, the wake cursor, the backend's wake latch | schedule (from tasks, sleeps and interrupt handlers of any processor), pop and poll, poll window, park, wake IPI |
| Timer | `kernel/src/exec/timer.rs` | per processor: inbox of new sleeps, timing wheel, published deadline, armed deadline, pool of sleep states | register a sleep from any processor, fire expired, re-arm from the interrupt, arm before a park, cancel |
| Synchronisation | `kernel/src/exec/sync.rs`, `in_flight.rs` | permits and generation of a `Notify`, the listener list of `event_listener`, progress marks, async mutex and rwlock | wait, notify one, notify all, cancel a wait |
| Futex | `kernel/src/process/futex.rs` | per key: waiter count and a `Notify` | wait, wake n, leave |
| Task arena | `kernel/src/exec/executor.rs` 110-650 | buddy trees, live counts, a remote-free stack | allocate (owner), release (any processor), drain |
| Process model | `kernel/src/process/`, `kernel/src/instance.rs` | process table, authority, descriptors, threads | launch, exit, join, grant, revoke |
| Component lifecycle | `kernel/src/component/` | turns, retirement list, code cache | enter, leave, retire, evict |
| Memory | `kernel/src/memory/` | frame pool and per-processor reserves, reservations, balloon, swap, fiber stacks | take and return frames, top up, inflate, commit |
| Devices and grants | `kernel/src/device/` | registry, leases, interrupt routes, owner tasks | lease, raise, acknowledge, release on owner death |
| I/O | `kernel/src/io/` | child pipes, poll registry, block queue, debug serial | read, write, close, register, wake |
| Vsock, surface, display, audio, gpu, input, host-fs, network services | directories of those names under `kernel/src/` | connection tables, credits, surfaces, caches, shards | requests over kernel channels |
| Virtio | `virtio/` | split and packed rings, in-flight tokens, notification suppression | add, kick, pop used, reset |
| Network stack | `netstack/` | TCP, congestion, DHCP, DNS, NDP | segments, timers |
| Hardware abstraction | `hal/`, `x86/`, `aarch64/`, `riscv/`, `hosted/` | critical sections, interrupt controllers, boot | |
| Tooling | `cli/`, `compiler-*`, `inspector*`, `api*`, `programs/`, `wit/`, `artifact/` | | build, AOT compilation, inspection protocol |

What is hard in this code is concurrency without locks: handshakes between a
processor that is about to halt and one that hands it work, counters that
bracket a lock-free queue, interrupt handlers that preempt the code they
signal, weak handles to recycled slots, and wakes that must reach exactly one
waiter. Most of it cannot be tested deterministically; PROJECT.json lists each
such place as a hazard with the property that watches it.

The properties that make each part correct:

- executor: whatever the interleaving, scheduled work has somebody responsible
  for it, counts bracket queues exactly, and every scheduled task is polled;
- timer: no live sleep is without an armed deadline while its owner is halted,
  none fires early, none is forgotten; a slot handle reaches its own sleep or
  nothing; the wheel hands out what is due at its tick, and ends;
- synchronisation: a broadcast releases every wait armed before it, a permit
  reaches a waiter, a dropped wait passes its notification on;
- futex: no thread sleeps through a store and the wake-all that follows;
- task arena: blocks partition the arena, the reserve stays the kernel's, and
  a spawn is refused only when it has to be;
- device grants: a driver that waits on a source is not left with the source
  held off, and a dropped lease takes back everything the driver held;
- guest threads: a stop reaches its guest wherever the guest is in its turn, and
  a process that ends takes all its threads with it;
- vsock and TCP: each direction is a byte stream, neither side overruns the
  other's window, and nobody waits for what cannot come;
- virtqueue: a chain belongs to one request, a completion reaches the task that
  asked for it whoever drains the ring, and no notification is slept through;
- memory: a frame has one owner (not modelled yet).

## 2. The plan

Built, in this order, because each rests on those before it: `Executor`,
`Timer`, `TimingWheel`, `SleepPool`, `Notify`, `Futex`, `TaskArena`; then the
users of that core: `InterruptRelay`, `ByteStream` with `Vsock` and `Tcp`,
`VirtQueue`, `GuestThreads`.

Next, most important first:

1. The slots of running stores (`wasmtime_adapter/preemption.rs`): the count of
   readers that lets a slot be reclaimed without a lock, nested publication and
   withdrawal, and the rule about a full slice. `GuestThreads` takes its result
   (an interruption reaches the store that runs) for granted.
2. The frame pool and `FrameReserve`, then reservations and swap.
3. The poll registry and child pipes; the process table.
4. The packed ring, in-order batches, and the reset of a queue.

Abstract specifications: `ByteStream` is stated, and `Vsock` and `Tcp` are
checked against it. Still to state: a wake protocol in which a task is
scheduled or idle (for `Executor`), a set of deadlines (for `TimingWheel`), a
free set of granules (for `TaskArena`).

Theorems worth proving next: that `Tcp` implements `ByteStream`, as `Vsock` is
proved to. Its buffers would first have to be restated by the place of each
byte, without folds.

## 3. The modules

In every module an atomic access of the code is a step of its own, and a
sequence that nothing else can observe (a processor's private state, code under
a lock or a mask) is one step. Memory is sequentially consistent: the code's
handshakes are built on SeqCst accesses and fences, and its acquire/release
pairs publish data the models keep private until then.

**Executor.** `queue`/`ready` are the ready queues and their counts, one per
processor and a global one; `idle` is the published `ProcessorIdle`; `latch`
and `ipi` the backend's wake latch and pending interrupt. `pc[p]` walks
`run_until_stalled_with_stats` and `park_until_work`; `stage[a]` walks
`push_ready` and the two scheduler closures for an actor, which is a processor
or the interrupt handler preempting it. A poll is `TaskWakes`/`TaskReturns`.
Left open: how many polls a batch makes, the length of the poll window. Left
out: the watchdog's progress notification, the root future's flag, the
queue-full panic.

**Timer.** One owner and other processors that register with it. `inbox`,
`wheel` and `ready` are sets of sleeps; `published` and `armed` the two
deadlines; `pc` walks `fire_expired`, the tasks, and the park with its
arm-before-halt; `reg[a]` a registration. The wheel is a set here: what it
returns is `TimingWheel`'s subject. A tick of the clock is one wheel quantum.

**TimingWheel.** `level`/`slot` say where an entry is; `current` and `target`
are the pass's ticks; `cache` the cached deadline; `Span(l)` is how many ticks a
bucket of level `l` is wide, `RingSlots` to the power `l`. One step per bucket pop, so
that an endless cascade is an endless behaviour. Within a bucket any entry may
be popped first.

**SleepPool.** One action per atomic access of `acquire`, `release`,
`downgrade`, `is_dead` and `fire`; slots carry a reference count, a generation
and a cell that is initialised or not. A completed sleep counts as dropped.

**Notify.** `permits`, `generation`, and event-listener's list with its
notified members. `pc[w]` walks `poll_notified`; a notification is two steps,
its atomic and its event. The list's operations are one step each, as its
internal lock makes them. `doubled` is a history variable.

**Futex** extends `Notify` with one key of the table: the waiter count, the
guest word and the stages of `futex_wait`. The table's lock is held across both
halves of a wake.

**Sync** composes the two: in a behaviour the `Notify` is used directly, or is
that of a futex entry.

**TaskArena.** `free[r]` is a region's buddy tree as its set of free blocks,
`head`/`node` the remote-free stack in the freed blocks' own bytes, `opc` the
owner in `allocate`, `life[t]` a future and its `release`. The merge loop is
written as the class it stops at, and the sizes of the classes as a function
that doubles.

**InterruptRelay.** One granted device. `hpc[s]` walks `forward` in interrupt
context, one access or controller call per step; `dpc[d]` the driver's task
through its polls, its calls on the grant, and the drop of its lease. `line`
and `through` are the level-triggered device and the controller, which are
external. A driver is an untrusted instance, so its acks, masks and unmasks come
in any order and at any time, an unmask between the two accesses of a running
handler included. `stage[s]` records what the holder did last with a source and
guards nothing; `hasty`, `crossed` and `overtaken` record the three races that
section 6 describes. The wait is a count of permits: how a permit reaches a
parked waiter is checked in `Notify`.

**ByteStream.** The abstract specification of a direction of a connection: the
bytes sent are handed over once and in order, and the end comes after the last.

**Vsock.** The table and the service at both ends of one link. A table method is
one step under the table's lock; what it decides to send is sent in a later step
of the same task, so packets reach the wire in another order than they were
decided in. The wire keeps order and loses nothing. Any number of tasks may
write to a connection; `crowded` records the ones whose last look at the table
found another's packet on its way out. A call of `write` may end after any of
its packets. Each behaviour follows a plan: how much the programs write, whether
they shut down, drop, or meet a failing device. `listen` is not an action: the
one listener is bound from the start.

**Tcp.** Both ends of one connection. A method of the socket is an operator on
its record, and an entry point of the stack one step. The network loses,
duplicates and reorders within the budgets of a plan. Of the timers
a socket has armed, the delayed acknowledgement may fire at any time, TIME-WAIT
ends once the network is empty, and a retransmission or a probe fires when
nothing is on its way, or at any other time within the plan's budget of early
ones. The reader may be as slow as it likes. Windows
are scaled as two ends of this stack always agree to: `Unit` is 2 to the scale,
a window is shown in whole units and `MaxField` is what the header's field
holds. The assertion on a probed byte that is no longer queued is a panic, which
ends the behaviour. The congestion window is open, and no other option is
negotiated.

**VirtQueue.** The split ring with its descriptor pool, the completion table and
the suppression of notifications, with and without `VIRTIO_F_EVENT_IDX`. The
device is external: it completes in any order and follows the rules of the
specification. It signals before it has used a whole wrap of chains since the
last signal, as devices that keep a valid bit beside their last index do;
without that a driver whose event index is a wrap behind is not told
(`OnlyTheMissedAreForgotten` fails). A task waits with a generation it sampled, kept as
`moved`. The queue lock is held across the steps that the code holds it across:
a failing submission takes it and gives it back without a drain, and between the
last read of the used index and the release the device may go on. `missed`
records that a waiter's `try_lock` failed against a holder that drains no more.

**GuestThreads.** Main and its threads, each in a turn (`component/turn.rs`) that
reads four marks one after the other. A stop is raised in three steps: the mark
is stored, the waiting turns are woken, the running stores interrupted. `woken`
abstracts the three generations a turn samples. `Reads` skips a mark that the
behaviour's plan never stores, since reading it changes nothing. Plans: a
process on its own, one that is killed, one that is signalled, and one whose two
threads spawn, join and end one another.

**MC modules.** Each gives the constants of its module values; nothing is
composed or redefined there. **Proof modules** (`...Proofs`) extend the modules
they are about and hold their theorems: `ExecutorProofs` is about `Executor` and
`TaskArena`, which model one source file, `TimerProofs` about `Timer`,
`TimingWheel` and `SleepPool`, which model another. Beside some definitions a
module holds the form they would take if the code had a plausible bug, marked as
such; each property of a run is broken by one of them (PROJECT.json, "mutants").

## 4. The runs

| Run | Properties | What it shows | States |
|---|---|---|---|
| `executor_safety` | `RunnablesAccounted`, `NoLocalWakeIsLost`, `NoGlobalWakeIsLost` | Two processors, a local task on processor 1 and a global one, device interrupts on processor 0: counts are exact, a task has one runnable in one place, and neither processor 1 nor the pair of them is left halted on work without a wake under way. | 950,068 |
| `executor_liveness` | `ScheduledTasksRun` | Without devices and without the timer's help, every scheduled task is polled. | 164,528 |
| `timer` | `DeadlinesCovered`, `NotForgotten`, `OnlyInterruptMovesLater`, `SleepsFire` | The published deadline covers the registered live sleeps between passes, a halted owner is armed for it, nothing fires early or is forgotten, only the interrupt moves the comparator later, and every sleep fires or is dropped. | 481,958 |
| `wheel` | `FiresOnTime`, `WheelAgrees`, `PassEnds` | A pass takes out exactly what is due, entries sit in the slot of their level, the cached deadline covers the rest, and the pass ends. | 989,270 |
| `sleep_pool` | `TouchesOwnSleep`, `SlotsHaveOneOwner`, `NeverForgetsLive` | A handle reaches its own sleep or nothing; a slot has one owner and is never lost; a live sleep is never taken for dead. | 361,643 |
| `sync` | `NoLostBroadcast`, `SinglePermitsReach`, `EntryOutlivesItsWaits`, `NoSleeperAfterWakeAll`, `BroadcastReleases` | No broadcast is lost, a lone permit reaches a parked waiter, broadcasts release; a futex entry outlives the waits on it and no thread sleeps through a store and a wake-all. | 335,679 |
| `task_arena` | `ArenaAccounted`, `HonestRefusal` | The arena is partitioned, the reserve is the kernel's, counts never underflow, refusals are honest. | 1,986,172 |
| `relay` | `RoomForEvents`, `ArmedSourceIsOpen`, `TakenBack`, `DeliveriesReach` | Whatever a driver calls and when: deliveries have room, an awaited source is open, a dropped lease is taken back step by step, and asserted lines reach the driver, up to the races of the `Relay...` configurations below. | 425,236 |
| `vsock` | `NoOverrun`, `UpHasPeer`, `SlotsOwned`, `NobodyWaitsInVain`, `IsByteStream` | Credit is sound across the wrap of its counters, connections and slots agree, nobody waits for nothing at rest but a writer that found the connection busy, and both directions implement `ByteStream`. | 413,706 |
| `tcp` | `NothingForgotten`, `NobodyWaitsInVain`, `IsByteStream`, `EdgeHoldsToTheUnit` | Over a network that loses, duplicates and reorders: no byte is given up, the advertised edge moves back by less than a unit, nobody waits for nothing at rest unless its close was overtaken, and both directions implement `ByteStream`. | 388,884 |
| `virtqueue` | `ChainsAreClaimed`, `RepliesAreOwn`, `OnlyTheMissedAreForgotten` | Whoever drains the ring and whatever order the device uses, replies reach their request and no task sleeps through its completion, unless its `try_lock` fell into the window of `VirtQueueMissed.cfg`. | 4,485,538 |
| `guest_threads` | `EndsWhole`, `StopsAreComing`, `StopsEnd` | A stop is never slept through or outrun, a stopped process is reported ended, and no thread outlives it. | 557,789 |

All runs pass. The configurations below are kept beside them. Each states what a
line of the repository says of the code, and TLC finds it violated; section 6
describes the traces. Where one of them bounds a passing run, the exception is
named. In `relay`, `vsock`, `sync` and `virtqueue` the property refers to a history
variable that only the race itself sets; in `tcp` it excepts an overtaken close,
and the run follows a behaviour until a probe outlives its window; in
`executor_safety` it speaks of the processors without device interrupts; the
shutdowns of the `vsock` plans come between writes.

| Configuration (module) | Property | What the trace shows |
|---|---|---|
| `ExecutorDevice.cfg` (`MCExecutor`) | `NoWakeIsLost` | a device interrupt between the last test and the halt queues work on its own processor, and nobody wakes it |
| `SyncStranded.cfg` (`MCSync`) | `NoStrandedPermit` | two permits share one event notification; the second waiter stays parked beside a permit |
| `RelayRoom.cfg` (`MCInterruptRelay`) | `DeliveryHasRoom` | a driver acknowledges an event it has not read and unmasks; the next delivery finds the queue full |
| `RelayUnmask.cfg` (`MCInterruptRelay`) | `UnmaskedIsOpen` | an unmask between a handler's flag and its controller call leaves the source shut for good |
| `RelayQuiesce.cfg` (`MCInterruptRelay`) | `QuiescedIsHeldOff` | the same crossing the other way round leaves a source let through after its owner has gone |
| `VsockLeft.cfg` (`MCVsock`) | `NoWriterIsLeftBehind` | `finish_write` frees the connection and signals nobody; the other writer sleeps on |
| `VsockEof.cfg` (`MCVsock`) | `EofIsTheEnd` | a shutdown overtakes data decided before it, which arrives after the end of file |
| `VsockSlots.cfg` (`MCVsock`) | `EverySlotIsSomeones` | a closed listener leaves the connection in its queue with a slot and no handle |
| `TcpEdge.cfg` (`MCTcp`) | `EdgeNeverRetracts` | in-order data that is no multiple of the unit moves the advertised edge left |
| `TcpProbe.cfg` (`MCTcp`) | `ProbedBytesAreQueued` | a probe outlives its closed window, and its acknowledgement discards from an empty queue |
| `TcpClose.cfg` (`MCTcp`) | `CloseRunsToItsEnd` | a FIN that comes before the own one leaves a closed socket in CLOSING for ever |
| `VirtQueueMissed.cfg` (`MCVirtQueue`) | `NobodyIsForgotten` | a waiter leaves the ring to a lock holder that drains no more |

**Refinement.** `IsByteStream` is the specification of `ByteStream`,
instantiated with one stream per direction and connection (`Vsock`) or one per
end (`Tcp`), under the mapping given beside it.

**Bounds.** Two processors are enough for every handshake of the executor: it
always has one owner and one other party, and the global wake tries a single
victim. One task per queue suffices for a lost wake; a second local task (`l0`)
is in the liveness run. In `timer` a deadline below `MaxTime` lets the idle
interval reach past it, which is where arming matters; two sleeps give the
registration that races a pass. In `wheel` two slots and three levels reach
every case of the ring arithmetic within six ticks, and a quantum of two the
rounding; delays stay below `Span(Levels)`, all that the levels hold. In `sleep_pool` three sleeps over
two slots recycle a slot under a stale handle. In `sync` two waits each reach
the re-armed waiter and two producers the merge of their events. In `task_arena`
three classes need two splits and two merges in a row, and three futures
fragment a top block of four granules; a kernel request that cannot be served
panics, and the model stops there, as the machine does.

In `relay` two drivers hold the device in turn (`MaxClaims = 2`), and one source
is delivered three times, which is enough for an event to be queued, read and
acknowledged out of turn and for the next to meet what that left. In `vsock` the
window is 4, the counters wrap at 12, and a backlog of one and two slots fill
up; the plans cover handshakes, trickling and long writers, an exchange,
shutdowns between writes, drops, a failing device, and two writers with more to
say on one connection than its window holds, so that a writer meets both a busy
connection and an empty credit. In `tcp` the window is 4 in units of
2 and the header's field holds 3 of them, with segments of 2 and writes of 3, so
that a window closes, a segment is split and an odd byte truncates the window; sequence numbers wrap at 24
within a transfer; one segment may wait out of order, two be in flight, and two
retransmissions exhaust the tries; the plans are a calm, a lossy, a tangled, a
hasty (early timeouts), a two-way and a dropped connection. The run follows a
behaviour until a probe outlives its closed window (`FreshSpec`), since after
that the code does lose bytes (`TcpProbe.cfg`). In `virtqueue` two
tasks share two descriptors, indices wrap at 4, and one submission fails, under
two loads and in both modes. In `guest_threads` one thread beside main is enough
for a stop to race a turn, and two for threads that end and join one another.
Deadlock checking is off where the bounds on operations, or a panic, let a
system come to rest.

**Fairness.** `Executor`: a processor keeps executing its loop, strongly fair
because interrupts preempt it again and again; a started scheduler closure
runs on; a pending IPI is taken. Kernel futures are cooperative and guests
preempted at their time slice, so a poll returns. Nothing is assumed of timers
and devices. `Timer`: the loop, interrupts, started registrations and the
clock go on. `TimingWheel`: a started pass continues. `Notify`: a poll runs to
its end, a task whose listener was notified is polled, a begun notification
finishes. `InterruptRelay`: the controller delivers, handlers return, begun
tasks go on, and a driver keeps reading its events (strongly fair, because other
calls come between). `GuestThreads`: a processor goes on with what it runs, a
running guest meets its interruption, a woken task is polled; nothing is assumed
of guests or host calls. Nobody is assumed to wait, notify, register or cancel.
`Vsock`, `Tcp` and `VirtQueue` assume none: `NobodyWaitsInVain` and
`OnlyTheMissedAreForgotten` are about the states in which nothing more is under way.

## 5. What is proved

Each invariant below was checked with TLC on the instance of its run before it
was proved; each proof has a lemma per action, and under it a step per conjunct
the action can disturb.

**`ExecutorProofs`**, for any number of processors and any finite set of tasks.
`TypeCorrect` is type correctness. `LocalWakesAreNotLost` and
`GlobalWakesAreNotLost` prove `NoLocalWakeIsLost` and `NoGlobalWakeIsLost` for
two processors or more on a backend with a wake latch (`WakeLatch`).
`NoLocalWakeIsLost` speaks of halted processors only and is not inductive;
`WakeInv` adds where a wake can be at every point before: a processor past its
retest has published Parked (`PublishedParked`); work counted after the retest
is answered by the latch or by a scheduler that has yet to look at the idle
state (`LocalRescue`); a latch set under a halted processor is followed by its
interrupt (`HaltRescue`); and with global work outstanding some processor has
yet to look (`GlobalRescue`). `LoopQuiet` says which actors can be in a
scheduler when. Processors in `DeviceProcs` are excluded from the local claim;
section 6 says why. `RunnablesAreAccounted` proves `RunnablesAccounted`, a
count over sets of actors: `HolderInv` says that a task's runnable is with one
holder, so that a step moves one actor in or out of the sets counted.

The second half is about `TaskArena`, for any futures, any number of classes and
any share and reserve. `ArenaIsAccounted` proves `ArenaAccounted`,
`RefusalsAreHonest` the action property `HonestRefusal`, `ArenaTypeCorrect` the
types. `ArenaInv` says where the owner and each future are (`PlaceInv`), that
instances have blocks of the share (`ReserveInv`), what is counted (`CountInv`),
and two things the code never computes. `PartsInv`: there are offsets that the
stack and the drain have (`Linked`: a chain without repetition that ends), and
with them every block is aligned and in one region, has one holder, and all of
them cover the arena without overlap (`Parts`). A release writes its node before
its exchange, and what makes that harmless is `Separate`: the node is in a block
that is nobody else's. `NoBuddies`: two free buddies are never left unmerged,
which makes a free run of the size of a class lie inside one free block
(`FitsInOne`), so that the absence of a source is the absence of room. The
arithmetic rests on induction: `LeastOf` and `Induct` get it for sets of numbers
from the library's well-founded order, `Recursion` shows that a function defined
by recursion exists, and from there on a class is twice the one below
(`SizesAre`), rounding down composes (`AroundUp`, `AroundFurther`) and a block
and the partners with which it merges tile the merged one (`PiecesMerge`).
`LinkedReach` ties the chains of the invariant to the offsets that the run's
`BlocksPartition` computes.

**`TimerProofs`**, for any sleeps (at least one), deadlines and registering
processors. `DeadlinesAreCovered`, `SleepsAreNotForgotten` and
`ArmedOnlyMovesEarlier` prove the three safety properties of the run,
`TimerTypeCorrect` the types. `TimerInv` adds to them what a pass holds
(`PassInv`), that the deadline a pass is about to publish covers the wheel
(`StoreInv`), and that from the load on which an arming rests to the halt, the
published deadline is what was armed or somebody who lowered it will still wake
the owner (`ArmInv`).

Its second part is about `TimingWheel`, for any levels, slots, quantum and
entries, any lateness of the owner and every delay the wheel has a level for
(`MaxDelay < Span(Levels)`; in the code 256^4 ticks, and section 6 says what
happens beyond). `TheWheelFiresOnTime` proves `FiresOnTime`,
`BucketsAndCacheAgree` proves `WheelAgrees`, `WheelTypeCorrect` the types. What
`FiresOnTime` says of the end of a pass follows from what is so at every pop of
it, `WheelInv`: a live entry is less than a turn of its level's ring ahead, in
the slot of its tick (`Home`), and that slot is either ahead of the current tick
(`Ahead`) or has been reached exactly at its first tick (`Due`) by a pass that
has yet to come down to its level (`Reaching`); a popped entry fits in a level
below the one being emptied, so that a cascade never puts an entry back where it
was (`EntryOf`); ticks of a pass have begun on the clock (`TickInv`); and the
cache covers every live entry at all times (`CacheOf`). The rest is division:
`Turns` (quotient and remainder exist, from the least element of a set of
numbers), `NextTick` (a tick later the turn is the same or has just begun),
`FewerTurns` and `SameSlot` (within one turn of a ring a slot names one tick),
and `SpansAre`, that the recursively defined widths are what they are meant to
be.

Its third part is about `SleepPool`, for any sleeps and slots.
`HandlesTouchTheirOwn` proves `TouchesOwnSleep` (and `LiveKeepsSlot`), `SlotsAreOwned` proves
`SlotsHaveOneOwner`, `PoolTypeCorrect` the types, and `LiveHandlesAreKept` the
action property `NeverForgetsLive`. The inductive
invariant `PoolInv` says that references and free indices partition the slots
among actors (`Indexed`, `Exclusive`), that a slot's count is the number of its
holders (`Counted`), that its cell holds the sleep they belong to (`Contents`),
that a handle with the current generation names the sleep now in the slot
(`Generations`), and what the firer holds between its test and its use
(`Touching`).

**`SyncProofs`**, for any finite set of waiters or threads and any producers,
in both uses of a `Notify`. `BroadcastsAreNotLost` and `LonePermitsReach` prove
`NoLostBroadcast` and `SinglePermitsReach`; `EntriesOutliveTheirWaits` and
`SleepersAreWoken` prove `EntryOutlivesItsWaits` and `NoSleeperAfterWakeAll`.
`SyncInv` says that the listeners in the list are distinct and belong to polls
that registered (`ListInv`), that no wait has seen a later generation than the
current one (`GenInv`), that a registered wait is behind it only while it
is notified or a `notify_all` is between its two halves (`BroadcastInv`), where a
lone permit can be (`PermitInv`, under `~doubled`), and ties a thread's stage in
`futex_wait` to its wait and to the entry's count (`StageInv`, `SleeperInv`).

**`InterruptRelayProofs`**, for any drivers, sources and mappings.
Nothing is assumed of what a driver calls and when. `HoldersReachAlone`: one
driver at most is between its claim and the end of its drop, and only it has
anything mapped. `RoomIsKept`, `ArmedSourcesAreOpen` and `DeviceIsTakenBack` prove
`RoomForEvents`, `ArmedSourceIsOpen` and `TakenBack`. `RelayInv` holds up to the
races that `overtaken` and `crossed` record. It says that a source's flag and the
controller agree unless one of the two calls that make them agree is under way
(`GateInv`), that an outstanding source has an event the driver will read or has
in hand and a masked one it waits on has an event coming (`StageInv`), and, as
long as no event was acknowledged unread (`hasty`), that a queued event's source
is outstanding, so that no second one is queued (`EventInv`). `FlagInv` follows
the flags through a drop and holds whatever raced with what.

**`VsockProofs`**, for any connections, writers, window, wrap and plans.
`VsockTypeCorrect` gives the types and `TableSlotsAreOwned` proves `SlotsOwned`,
from `TableInv`: the steps a task can be at and the packet it then holds
(`TaskOf`), who owns a slot (`SlotOf`), that nothing is done with a connection
before its request is handled (`BirthOf`), and that the request comes first and
the response once (`OrderOf`). `UpIsKnown` proves `UpHasPeer` with `PeerInv`,
which adds that an end the handshake is about to tell of the connection still
has its peer or a reset coming, and that whoever sent a reset has given the
connection up (`PeerOf`). `CreditIsNeverOverspent` proves
`NoOverrun` for streams shorter than the wrap of the counters (`Short`: 4 GiB in
the code; the run crosses the wrap, and section 6 says what the hypothesis is
for). `StreamInv` is an account of the bytes: one writer holds the packet that
comes next, within the credit (`WriteOf`); what has arrived and what the wire
spells is what was sent (`ReadOf`); an entry's own counters are the true ones
(`EntryOf`); and no counter that is remembered, decided, in the pump or on the
wire is ahead of what the reader took (`EntryOf`, `NewsOf`). That they may be
behind in any order is what makes the bound hold whichever arrives last.

**`VsockStreamProofs`** proves `IsByteStream` (`StreamsAreByteStreams`): `Vsock`
implements `ByteStream` under the mapping of the run, for any connections,
writers and limits. The hypotheses are `Short` and `Orderly`: no program shuts a
stream down under its own write, and none that shuts one down meets a fault.
Without either part the code does not keep the promise, as section 6 shows.
`ByteInv` adds two things to the invariants above. `PlaceOf` numbers the bytes
that the reader was handed, has drained and has in its ring, one after the
other. `EndOf` says what must be so before an end of file is told: a shutdown is
decided only when no writer of that end holds data; while it is on its way no
data is behind it on the wire; and where it has arrived, all that was sent has.
It speaks of reset connections too, because a shutdown that finds a connection
reset makes it a closed one. The steps are then sorted: at most one end of one
connection moves, and it sends, is handed the next bytes, hears of the end, or
does nothing that `ByteStream` sees (`StepShape`).

The second half of the module proves `NobodyWaitsInVain` of `Vsock`
(`NobodyIsLeftWaiting`), for any number of writers on a connection. The property
speaks of states at rest and is not inductive; `RestInv` says why each sleeper
will be woken. A writer asks for credit once, and `asked` keeps it from asking
again: as long as that is set, the request, its answer or a reset is under way
(`PromiseOf`), and so is the answer to a connect. A writer that tests the table,
finds no credit and goes to sleep in several steps, with no signal since its
mark, still has none or has that answer coming (`SleepOf`): whatever the pump of
its end takes in between signals the mark (`Heard`). The busy flag belongs to the
one writer that has a packet out (`WritingOf`); a writer that found it set is in
`crowded`, and for that one nothing is claimed, since nothing wakes it
(section 6). `RestInv` was checked with TLC on the plans of the run first.

**`VirtQueueProofs`**, for any tasks, loads and ring size, any wrap of the
indices that is a multiple of the size, and both modes. `EveryChainIsClaimed`,
`EveryReplyIsOwn` and `NobodySleepsForever` prove `ChainsAreClaimed`,
`RepliesAreOwn` and `OnlyTheMissedAreForgotten`, `VirtQueueTypeCorrect` the types.
`ControlInv` says where a task can be and what it then holds, and that `blocked`
is the number of announced submitters. `TableInv` is about the ring: the offered,
the taken and the used chains follow one another within the size, so that no
index modulo the wrap is ambiguous and no entry of a ring is overwritten before
it is read (`RingInv`); published chains, chains being built and the free list
partition the descriptors (`DescInv`); and a chain's identifier leads to the task
whose request it is (`OwnInv`). `OnlyTheMissedAreForgotten` speaks of states at
rest and is not inductive; `WakeInv` says what is under way before. A sleeper's waker is
in its slot or has been run, and a task about to sleep has sampled the generation
that the next completion moves (`Sleepers`, `Parked`); a device that sleeps asked
to be told and is behind by no more than a chain whose kick is coming (`DevInv`);
a completion that was signalled and is not drained has an interrupt or a task
that looks (`SignalInv`), however stale the event index that suppressed others.
`SignalInv` is claimed under `~missed`; what a lock holder owes between its last
read of the used index and its release is a conjunct of its own (`Unlocking`).

**`GuestThreadsProofs`**, for any threads and any plan. `StopsArrive` proves
`StopsAreComing`, `EndsAreWhole` proves `EndsWhole`. `StopsAreComing` speaks of
guests that are parked or running and is not inductive: what keeps it true is
what a turn has already read when the mark is stored. `Inv` therefore says that
a mark a turn's reads have passed has a wake (`WakesAreComing`) or an
interruption (`InterruptsAreComing`) behind it; that a turn looks at one of its
own marks (`LooksInside`); that who brings what is tied to where its task is
(`JobsAre`); that marks are ones the plan stores (`MarksPlanned`), spawned
threads are distinct (`SpawnsApart`), and a store is registered and named while
it is driven (`StoresReached`); and, for the end of the process, that an end is
recorded before main is told (`EndRecorded`) and that the table and what main
awaits cover the threads alive (`ThreadsKept`). `EndsMarked` is added for
`EndsWhole`. The proof has one lemma per action over five general ones, which
say what a step of a turn, of a thread's life, of a spawn, of a beginning and of
main can disturb. `Inv` was checked with TLC on the instance of the run first.

The assumptions are those the modules name, on the constants only, and the
hypotheses said above: `WakeLatch`, `MaxDelay < Span(Levels)`, `Short` and
`Orderly`.

Only model-checked:
- liveness (`ScheduledTasksRun`, `SleepsFire`, `PassEnds`, `BroadcastReleases`,
  `DeliveriesReach`, `StopsEnd`), which is out of the prover's reach;
- `Tcp`, all of it, its refinement of `ByteStream` included: what the sender
  keeps and what the receiver buffers are folds over sequences and sets (`Kept`,
  `Buffered`) and a least number (`ContiguousOutOfOrder`), and what these compute
  takes an induction over data that the installed provers cannot do.

## 6. Observations

Places where modelling met code that does something other than its comments,
assertions or the property one would want say. Those with a setting can be
reproduced by changing the configuration named; the rest were met by reading.

Executor and timer
- An interrupt that a processor takes between its retest and its halt may queue
  work for that processor without a wake (`executor.rs:1321`, `960`), although
  `idle.rs:19` says "No wake is lost.": `NoWakeIsLost` fails in
  `ExecutorDevice.cfg`. The next timer interrupt ends the halt.
- riscv has no wake latch (`riscv/src/lib.rs:449`): with `WakeLatch = FALSE`,
  `NoLocalWakeIsLost` fails, as `x86/src/lib.rs:832` predicts.
- Local work has strict priority (`executor.rs:869`): with `l0` and `l1` both in
  `ExecutorLiveness.cfg`, `ScheduledTasksRun` fails.
- A timer interrupt between the arming and the halt leaves a due sleep for the
  next idle interval (`timer.rs:399`), although it does fire.
- A sleep a full turn of the top ring ahead (more than about two and a half
  days) is cascaded into its own bucket for ever (`timer.rs:846`, `1045`):
  `PassEnds` fails with `Levels = 2`, `RingSlots = 2`, `Quantum = 1`, one entry,
  `MaxStart = 2`, `MaxNow = 9`, `MaxDelay = 7`.
- Dropped sleeps stay in their buckets until the wheel reaches them
  (`timer.rs:782`).

Synchronisation
- Two `notify_one` calls in one window wake one waiter and leave a permit in
  store beside the other (`sync.rs:275`, against `sync.rs:25` and `71`):
  `NoStrandedPermit` fails in `SyncStranded.cfg`.
- `FutexTable::wake` stores permits for waiters that already have one
  (`futex.rs:133`), so a later wait may return at once.

Interrupt relay
- A driver that acknowledges an event it has not read, and unmasks, lets the next
  delivery find the queue full, and `forward` panics (`interrupt.rs:150`, against
  "no interrupt is ever dropped for want of room" at `21`); so does a lease dropped
  while a handler runs (`246`): `DeliveryHasRoom` fails in `RelayRoom.cfg`.
- An unmask that falls between a handler's `masked` flag and its controller call
  clears the flag, lets the source through, and has it held off afterwards; every
  later unmask finds the flag clear and does nothing (`interrupt.rs:232`, against
  `229`): `UnmaskedIsOpen` fails in `RelayUnmask.cfg`. When the two controller
  calls fall the other way round the flag says masked and the source is let
  through, and the quiesce of a dropped lease skips it (`265`, against `241`):
  `QuiescedIsHeldOff` fails in `RelayQuiesce.cfg`.

Vsock
- Two writers on one connection may both wait with nothing under way
  (`table.rs:486`, against `vsock/mod.rs:13`): `NoWriterIsLeftBehind` fails in
  `VsockLeft.cfg`.
- A shutdown may overtake data that was decided before it, and the reader is
  told of the end early (`table.rs:566`, against `267`): `EofIsTheEnd` fails in
  `VsockEof.cfg`, and so does `IsByteStream` with its plans.
- A listener that is closed leaves the connections in its queue in the table, with
  no handle to close them by (`table.rs:405`, against `400`):
  `EverySlotIsSomeones` fails in `VsockSlots.cfg`.
- A shutdown that arrives after the transport was reset turns a reset connection
  into a closed one (`table.rs:698`), and the reader is told of the end of the
  file although bytes were lost: `IsByteStream` fails in a plan that shuts down
  with `faults` 1.
- A packet is decided with a counter and may be transmitted after nearly 4 GiB
  more have gone the other way; the wrapping difference then takes the old
  counter for a new one and the writer overspends: `NoOverrun` fails in a plan
  of `Bytes(Wrap + 4, 1)`. This is why `CreditIsNeverOverspent` asks for `Short`.
- By reading: `reset_all` does not give back those slots either;
  `handle_reset` overwrites a close that was already reported; a dropped write
  leaves `transmitting` set; `read` loses the bytes it drained when its credit
  update fails; two ends without credit answer each other's requests for ever
  (`table.rs:495`).

TCP
- The advertised window is shifted by `local_window_scale` and back
  (`tcp.rs:2549`-`2568`), so in-order data that is no multiple of the unit (16
  bytes between two ends of this stack) moves the right edge left by up to a unit
  less one byte, against "without ever moving the window's right edge left"
  (`2536`): `EdgeNeverRetracts` fails in `TcpEdge.cfg`. The run checks that it is
  never more (`EdgeHoldsToTheUnit`).
- A window that reopens by an update that acknowledges nothing new leaves the
  persist probe set (`tcp.rs:2362`): its byte is sent again as ordinary data and
  its acknowledgement drops one byte too many (`2271`), or finds the queue empty
  and panics with "TCP transmit queue lost persist-probed bytes" (`468`):
  `ProbedBytesAreQueued` fails in `TcpProbe.cfg`.
- An end that is closed and takes its peer's FIN before it has sent its own
  waits for ever in CLOSING (`tcp.rs:2835`, against `918`): `CloseRunsToItsEnd`
  fails in `TcpClose.cfg`.
- By reading: TIME-WAIT does not acknowledge a repeated FIN (`tcp.rs:2141`,
  against `889`); `highest_sent_sequence` is a plain maximum across the wrap
  (`2287`); a socket closed by the retransmission limit is never retired
  (`1806`, `stack.rs:5715`); the window of a reordered old segment is applied;
  data with the handshake's ACK is dropped; a repeated SYN for a connection in
  SynReceived is ignored.

Virtqueue
- A waiter whose `try_lock` fails leaves the drain to the holder
  (`inflight.rs:313`). The holder may be an announced submitter that has read the
  used index for the last time (`queue/mod.rs:775`) and parks after its release,
  or a submission that fails under the lock and drains nothing (`256`); the waiter
  then sleeps with its completion in the ring, against `300` ("observed by this
  future rather than slept through"): `NobodyIsForgotten` fails in
  `VirtQueueMissed.cfg`.
- By reading: a dropped wait leaves its slot occupied (`inflight.rs:324`), and the
  split ring's in-order mode may trust a stale used entry (`split.rs:273`).

Guest threads, by reading
- A thread-directed signal that arrives during a thread's instantiation fails
  the whole process (`wasix_thread.rs`, `call_wasix_thread`), although
  `descriptor.rs:982` says that a spawned thread ends alone.
- A process signal taken in the interrupt callback is lost when the second read,
  at the completion, finds a thread-directed one; and one taken at the
  completion of an asyncify unwind is dropped when the unwind is handled.
- Main completing between the record of an end by a thread and the mark that
  tells main reports its own end, against "The first end wins"
  (`wasix_thread.rs:110`).

## 7. Not modelled

The repository has some 244,000 lines, most of them device commands, register
layouts, host functions, protocol parsing and tooling: data and I/O, which a
state model would only repeat. The components without a module are listed in
PROJECT.json with their reasons. The ones worth a model of their own are in the
plan above; everything else with concurrency of its own rests on `Notify`, the
executor and the queues that are modelled.

Within the modelled parts:

- the capacity panics of the ready queues (`executor.rs:1418`), the timer inbox
  (`timer.rs:417`) and the sleep pool, which are deliberate stops at bounds no
  small instance reaches; the saturation of permits;
- a thread killed inside a futex wait, whose entry keeps its waiter
  (`wasix_thread.rs:967`);
- the interrupt that pops the frame reserve under a pop (`frame_reserve.rs:125`);
- TCP's congestion control, pacing, round-trip estimation, selective
  acknowledgement, a peer that does not scale its window, and path MTU;
- the packed ring, in-order batches, deferred publication and reset of a queue;
- fork, the image an exec runs next, main's own instantiation, the memory ledger
  of a condemnation, and the slots of running stores;
- weak memory.
