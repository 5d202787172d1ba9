# TLA+ models of the Astrid runtime

Astrid is a kernel for sandboxed agents: a daemon that routes IPC events
between capsules (WebAssembly components), checks capabilities, keeps per-principal
state and writes an audit chain. Four paths carry its guarantees and are modelled:
the event bus with the dispatcher behind it, the invocation of a capsule, the audit
chain, and the durable store. All paths below are relative to `crates/`.

## 1. The system

### Components, their state and operations

| Component | State | Operations | Hard because |
|---|---|---|---|
| Event bus (`astrid-events/src/bus.rs`, `admission.rs`, `ordered_delivery.rs`) | sequence number, `publish_order` mutex, ordered inbox, admitter, broadcast senders, route table | `publish`, `reserve_publication`, commit, cancel, subscribe, drop of the inbox | two-phase publication across an await; reentrant observers; retirement racing a commit |
| Routed subscription (`route/entry.rs`, `receiver.rs`, `bus/dispatch.rs`) | buckets per principal, rotation, byte totals, deficits, a `Notify` | push with eviction, pop one, drain, `recv` with timeout, drop | concurrent publishers, eviction of other principals' heads, parking |
| Admission gate (`route/gate.rs`) | staged, published or retired, commit mutex | publish, retire, commit guard, wait | moves while routes, commits and consumers use it |
| Delivery admission (`astrid-capsule/src/dispatcher/admission.rs`, `wait_graph.rs`) | permits held, graph of waits | reserve, refuse, wait, cancel, commit | hold and wait over several bounded queues |
| Consumer queues (`dispatcher.rs`, `dispatcher/consumer.rs`, `queues.rs`) | map of senders, channels, consumer tasks | get or spawn, send, respawn, evict idle, close, drain, stop | a sender cloned while its consumer leaves |
| Chain locks (`dispatcher/locks.rs`) | map of mutexes, reference counts | acquire, unlock, prune | pruning by reference count while others are about to lock |
| Interceptor matching, access, failure receipts | none of their own | | pure selection over the registry |
| Capsule invocation (`astrid-capsule/src/engine/wasm/mod.rs`, `pool.rs`, `user_cpu/execution.rs`, `astrid-capsule-types/src/fuel_ledger.rs`) | fuel windows, reservations, pool permits, warm and leased instances | admit, reserve, check out, call, settle, return, evict, commit a workspace | the future may be dropped at any await; window roll-over; waiters parked beside settlements |
| Capsule registry, loader | generations | stage, publish, replace, remove | replacement under load |
| Memory ledger, IPC rate limiter | peaks, windows | record, evict | |
| Approval, capabilities | allowances, budgets, deferred queue, tokens | check, reserve, use, revoke | check then act, persistence in two steps |
| Audit (`astrid-audit`) | entries, session index, heads, chain and global metadata, segments, intents, prune plans, receipts, watermarks | append, append batch, recover, prune, archive, mark anchored, hold | every write is a separate durable step; scans and verification hold no lock |
| Storage (`astrid-storage/src/engine/durable`) | object arena, root journal, transaction log, published roots, commit group | stage, commit, flush, checkpoint, recover, open | fsync order, leader hand-off, in-doubt commits |
| Kernel (`astrid-kernel`) | admitted work, pairing tokens, invites, connections | admit, close, reserve, consume, shutdown | durable reservations, shutdown order |
| Uplinks, gateway, CLI, MCP, hooks, VFS, providers, configuration, cryptography | clients and platform code | | I/O |

How they meet: a publisher (uplink, guest host call, kernel) reserves consumer
capacity through the admitter, then an inbox slot, and commits. Commit stamps the
event, hands it to the dispatcher's ordered inbox, broadcasts it, notifies the
synchronous observers and feeds the matching routes. The dispatch loop takes the
inbox in order: reserved deliveries send through their permits, ordinary events
are matched and sent to the consumer of (runtime, principal), or run as a
middleware chain under chain locks. Gates fence a runtime generation: retiring it
rejects new pushes and commits and makes its consumers drain and exit.

### What makes each part correct

* **Route**: no event lost, duplicated or reordered within a principal except by
  counted eviction; every queued event reachable; bytes and counts exact; nothing
  enters once the generation has retired and the push in progress is over; fair
  rotation; no lost wakeup; drains end.
* **Bus**: one order on every transport; a failed or cancelled publication has no
  effect; a commit never passes a retired generation; slots never leak; committed
  publications are delivered once, in order; observers cannot deadlock a commit.
* **Admission**: no oversubscription; the wait graph is acyclic and is exactly the
  waits whose source is known; waits it can see end.
* **Consumers**: one consumer per key; nothing left in a dead queue; acknowledged
  work reaches the capsule; stop ends everything.
* **Chains**: handlers of one key exclude each other; chains end.
* **Invocation**: no principal's settled and promised fuel exceeds its budget; no
  waiter sleeps through a settlement; never more instances than the ceiling; no
  lease sees what an earlier call left; a workspace is committed only when the
  capsule is idle.
* **Audit**: a chain never forks, has no gap and never moves back; positions,
  receipts and watermarks agree with it; a prune removes nothing past a watermark
  and nothing unarchived.
* **Storage**: an acknowledged commit survives any power loss and is served
  afterwards; no update is lost; a refused one leaves nothing; every root is whole;
  a fault does not disable the store.

The hazards of the modelled parts, each at its line, are in `PROJECT.json`; those of
parts without a module are in section 6.

## 2. Modules

| Module | Models | State |
|---|---|---|
| `RouteEntry` | `route/entry.rs`, `receiver.rs`, `bus/dispatch.rs`, gate | `fanout`, `active`, `principal_order`, `total_bytes` are the entry's fields; `lock` is its mutex; `pub` and `rx` are program counters; `permit` is the `Notify`'s |
| `EventBus` | `bus.rs`, `admission.rs`, `ordered_delivery.rs`, commit guards | `stack` holds, per thread, the publications in progress (nested ones on top), with the gates a commit holds and the gate an observer retires; logs record what each transport saw |
| `ReliableLog` | what a reservation promises | `committed`, `delivered` |
| `WaitGraph` | `wait_graph.rs` as operators on a counted edge relation | |
| `DeliveryAdmission` | `Admitter::reserve` with its queues; extends `WaitGraph` | `queued`, `got`, `waiters`, `edges`; `sourced`: the source key resolved |
| `Dispatcher` | `get_or_spawn_consumer`, `dispatch_single`, `run_consumer`, `evict_idle`, `stop`, and the inbox | `map`, `chan`, `loop`, `res`, the two gates |
| `ChainLocks` | `locks.rs` and the chain task | `map`, `line` (holder and waiters of a mutex), program counters |
| `CapsuleInvocation` | `invoke_interceptor`, `FuelRateLimiter`, `ExecutionAllocation`, `CapsuleInstancePool`, `commit_workspace` | `win`, `stale`, `reserved` are a principal's window; `permits`, `available`, `inst` the pool; `pc` each caller's place; `resv`, `reuse` what its destructors will find |
| `AuditChain` | `astrid-audit`: `log*`, `prune.rs`, `storage/*` | one variable per key space of the store; `job` is the operation under `DURABLE_APPEND_LOCK` between two writes, `pruner` the prune under `PRUNE_LOCK`, `marker` a `mark_anchored` call, `wr` the appending tasks |
| `DurableEngine` | `engine/durable`: group commit, log, checkpoint, recovery | each file is what is written (`cache`) and what is on the medium (`disk`); `mem` is `DurableInner`, `job` the holder of the engine mutex between two file operations |
| `RouteEntry_proofs`, `EventBus_proofs`, `DeliveryAdmission_proofs`, `Dispatcher_proofs`, `ChainLocks_proofs`, `CapsuleInvocation_proofs`, `AuditChain_proofs`, `DurableEngine_proofs` | proofs (section 4) | |
| `MC*` | instances for TLC | |

`EventBus`, `Dispatcher` and `DeliveryAdmission` cut the same path at different
places. In `EventBus` a reservation is the set of gates it captured and consumers
are a hand-over; `DeliveryAdmission` opens the reservation and keeps consumers
alive; `Dispatcher` opens the consumers' lives with one target per reservation, and
leaves the inbox's own capacity to `EventBus`.

The three other modules stand alone. `CapsuleInvocation` is what `Dispatcher` and
`ChainLocks` call an invocation; `DurableEngine` is a store of the kind `AuditChain`
writes to, but the audit log sees it through the key-value interface, where a write
or a batch is durable when it returns, so the two are not composed.

What is abstracted: an event is its principal, size, owner and receipt kind (route)
or an identifier (bus, dispatcher); topics are already matched; instants are
numbers, and two consecutive readings may be equal, so `oldest_head_key` may tie
and the scan of the hash map picks either; metrics and logs are left out. Code
outside the repository is modelled from its use: the tokio `Notify` stores one
permit, a tokio `mpsc` counts permits against its capacity and grants waiters in
arrival order, a closed channel still receives what permits send, `parking_lot`
locks exclude each other.

A loop that runs under the entry mutex (eviction, pop, drain) is several steps,
because the gate moves without that mutex. A map access under the map lock is one
step, because nothing it reads can move. The decision of `evict_idle` is one
step for the same reason: senders are cloned only under the map lock. The drain of a
dropped inbox receiver (`OrderedDeliveryReceiver::drop`) takes one publication per
step, in `EventBus` under `publish_order` and in `Dispatcher` (`LoopDrain`) behind the
closed inbox: consumers run between two of its steps.

`source_keys` is what `Admitter::reserve` may find for a publication made inside a
consumer: its key, or none, when the event has no valid principal, or the registry does
not resolve the source for that principal, or resolves it to another runtime than the
one executing. The registry's contents are not modelled, so both outcomes are always
possible; a publisher outside a consumer has none. A consumer without a key is blocked
all the same.

In `AuditChain` an entry is its identifier, which stands for its content hash, and
all entries have the same size, so caps are entry counts; both kinds of store (with
and without atomic batches) are behaviours of one specification. A mark that clears the
retention hold keeps `DURABLE_APPEND_LOCK` while it first recovers an interrupted
append (`RecoverForClear`). In
`DurableEngine` a transaction is its number, which is its root and its commit
object; it may refer to one blob, staged before or carried along. A power loss keeps
what was flushed and any prefix (journal, log) or subset (arena frames) of the rest;
recovery of torn frames is the truncation this leaves. A recovery that replays the log
writes back and flushes the objects of a record in one step: they stay in the log, which
is retired last, so a fault between the two leaves what the log holds already. In `CapsuleInvocation` every
principal has one finite budget and no user limit, so a call burns at most its
share. A checkout that times out first drops its future, with the instance it was
building and the permit, and then settles its reservation to zero.

Mutation operators (`..._late`, `..._always` and the like, marked `Mutation:`) are
plausible mistakes in a definition; each property is known to fail when one of
them replaces the definition it stands beside.

## 3. Runs

| Run | Distinct states | Shows |
|---|---|---|
| `RouteEntryQueues` | 2,657,222 | exact rotation, conservation with byte accounting, bounded bypass |
| `RouteEntryScopes` | 378,387 | with two publishers, three scopes, request owners, timeouts and a gate that retires at any step: at most one push gets past a retirement, and none after it; no lost wakeup, a parked receiver is woken, drains terminate |
| `EventBus` | 387,412 | one order on every transport and observer, exact permits, the commit fence over two gates; refinement of `ReliableLog` with its delivery promise; `publish_order` is released although observers publish, or retire the gates of the commit they observe |
| `Admission` | 142,668 | one- and two-target publications, with and without a source key: an acyclic wait graph, exact for those with one; a circular wait needs a publication that holds a slot while it waits or a consumer without a source key, and every other wait ends |
| `Dispatcher` | 187,064 | eviction, respawn, the queue cap, retirement and stop: single consumer, nothing dropped on a closed queue, publish order through the queues of each key, acknowledged work invoked, stop complete |
| `ChainLocksTasks` | 47,728 | mutual exclusion through pruning and reuse; chains end |
| `Audit` | 3,362,890 | no fork, no gap, exact positions, watermark and receipt links, monotone heads, with a fault at any write |
| `Durable` | 2,738,769 | acknowledged commits are durable and served, no lost update, refusals leave nothing, no dangling root, with two faults of any kind |
| `Invocation` | 939,488 | fuel budget, wakeup after settlement, instance ceiling, clean leases, exclusive workspace commit; no deadlock |

Three further runs state what a comment says and find a behaviour of the code that
does otherwise:

* `AdmissionHoldAndWait`: slots of earlier targets are held while waiting for
  later ones; the graph does not contain these dependencies. Every consumer's source
  resolves in this run (`Resolves = {TRUE}`), so the held slots alone close the circle.
  A consumer whose source does not resolve is the second way to one, with no slot held
  (`unseen` in `DeliveryAdmission`).
* `AuditUnarchived`: a prune that meets a pending plan does not archive, finishes that
  plan and then, when its own receipt follows the installed one (the interruption
  came between the receipt and the removal of the plan), deletes entries nobody
  archived.
* `DurableReopen`: a fault between folding two logged transactions of one principal
  and truncating the log makes recovery meet a transaction whose expected and new
  roots are both behind the journal; it returns `RootConflict` each time. The log
  is a policy that is off by default, so this concerns stores opened with it.

Other places where a comment and the code were found to disagree, none of which a
property rests on:

* `route/entry.rs:96`, "Queued events in publish order": routes are fed after
  `publish_order` is released (`bus.rs:378`), so two publishers may enqueue in the
  reverse of their sequence numbers.
* `dispatcher.rs:359`, events of a principal "in publish order": a principal beyond the
  cap of queues uses the shared one and gets its own once a queue is evicted, while its
  earlier event still waits in the shared one. The smallest instance found has three
  principals, a cap of two queues and four events. `PublishOrder` is therefore stated
  per queue key, which the code does keep (`OrderTheorem`).
* `prune.rs:286`, a crash "simply leaves the cursor": `delete_pruned_entry` deletes the
  entry before its index key, and a stop between the two leaves a key without an
  entry that the next page read reports as an error.
* `prepare_global_accounting` (`storage/prune_finish.rs:151`) guards only the segment
  counters with the plan's `segment_accounted` flag: a prune resumed after its global
  accounting subtracts its entries from the total again, which then undercounts.
* A prune does not replay a pending append intent, and changes the global record that
  the intent expects: `recover_cas` (`storage/append.rs:169`) then refuses the intent.
* `storage/metadata.rs:6`, `OMITTED_TOTAL_UNKNOWN` is for a chain "pruned more than once
  before the counter existed": a chain pruned twice while it has no entries gets receipts
  but no metadata, and the next `count_prune` (line 88), which finds no counted generation
  and a receipt beyond the second, records an unknown total. `PositionsExact` says
  nothing of such a chain, which takes three generations and is beyond the run's bound.
* `pool.rs:187`, at most `max` instances: Stores that `drain_excess` took out are dropped
  after the lock is released, so for a moment they exist beside new ones.
  `InstancesBounded` counts warm, leased and building instances.
* `user_cpu/execution.rs:125`: a window that another caller rolls between a denial and
  the reading of `replenishment_delay` costs the waiter one window. `SettlementSeen`
  leaves this case out by asking for a window with settled fuel (`win > 0`), which
  also leaves out a fresh window that nobody has settled in.
* `mod.rs:3575`: when the overlay or the build fails, no guest ran and the full
  reservation is charged all the same.
* `wal/replay.rs:241`: the log is retired by `replay_transaction_wal` before
  `recover_roots` validates the closures, not after.
* Opening a store does not flush what it reads; a root journal tail that was written
  and not flushed before a process crash is served, and a later power loss may take
  it back. It was never acknowledged.
* `route.rs:49`: terminators are not always preserved; the head of a one-event
  bucket is its tail, and eviction may take it.
* `route.rs:38`: the deficit is not bounded by `DRR_QUANTUM_MIN_BYTES`; each visit
  adds the quantum, which is at least that floor.
* `route.rs:42`: a round may serve nothing although a head fits the drain budget,
  when it is larger than the quantum; the drain then ends.
* `bus/dispatch.rs:39`: a gate that retires between `enqueue_routes`' check and that
  of `push_with_eviction` lets the rejected push notify. The receiver finds the
  route empty and parks again.
* `dispatcher.rs:648`: the consumer respawned for a retired runtime closes at once,
  so the retry may meet a closed queue too.
* `dispatcher.rs:457`: of two chain guards that end together each counts the other's
  reference, so neither prunes the entry; the next chain with that key does.

### Bounds

Every bound is a constant named in the module (`MaxEvents`, `MaxPubs`, `MaxWork`,
`MaxInboxes`, `MaxNested`), used only in guards that start new work; deadlock is
not checked where a run may stop because that work is used up. `ChainLocks` has no
bound on work and is checked for deadlock.

* Route: three principals, budget 3, sizes 1 and 2, count cap 2: an append can
  evict one or two heads of other buckets, overflow the cap, and drains take
  several rounds. Two publishers where a race between them matters.
* Bus: two threads, one nested publication, capacity 1, up to two inboxes, two gates:
  the full inbox, the closed inbox and its replacement, a commit that locks one gate and
  finds the other retired, and an observer that retires a gate of its own commit all
  occur. Queues longer than one are left to the theorems.
* Admission: three consumers and one external publisher with capacity 1: a cycle
  of three is the smallest that a check of direct cycles misses. Edges are counted, as
  in the code, but no count exceeds one: `publish` borrows its invocation's host state
  exclusively (`host/ipc.rs:364`) and a consumer runs one invocation at a time.
* Dispatcher: capacity 1, two principals besides the shared key under a cap of one
  queue, two pieces of work, both gates moving: eviction, respawn, retry,
  degradation, drain and stop all occur.
* Chains: two tasks over two keys, both orders and a repeated key, four mutexes:
  one task can hold or wait for an old mutex while the other finds no entry. The
  theorem covers any number of tasks.
* Audit: one chain, one single and one batch writer, segments of two entries, a cap of
  two, three entries, two prune generations, one fault. The cap makes every third
  append prune or set the hold, two generations are needed for receipts to link, and
  a second fault only repeats a recovery that starts from the same stored records.
  There is one `mark_anchored` call at a time: it races appends and prunes, and two
  marks racing each other (`storage/anchor_marks.rs:123`) are outside the model.
* Durable: two callers, two principals, one blob, three transactions, two faults:
  groups of two, two transactions on one root, and a second fault during recovery.
* Invocation: three callers of two principals, a budget of two shares, a pool of two
  with one warm: waiting for fuel, waiting for a permit, lazy growth and eviction, and
  the single-Store capsule with children. There is no bound on work, and deadlock is
  checked.

Symmetry is used for callers and principals, in safety runs only (`Durable`,
`DurableReopen`, `Invocation`). The type invariants are checked by hand with the same
configurations and are not listed among the runs' properties.

### Fairness

Weak fairness is put on steps the program takes without waiting for a caller: a
thread inside `publish`, a spawned task, a consumer with work, an `mpsc` that has a
slot and a waiter, a guest invocation that is not waiting (invocations run under a
fuel and time limit), the destructor of an inbox receiver, which runs to its end. `AuditChain`, `DurableEngine` and `CapsuleInvocation` state no
fairness: their properties are safety. Nothing is assumed of callers: new publications, receives,
timeouts, cancellation, retirement, stop and idle eviction may never happen.

## 4. Proofs

The theorems hold for every value of the constants that satisfies the modules' named
assumptions: sets of tasks, threads, callers and keys are finite (a running program has
finitely many; the counting lemmas need it), capacities, pools and budgets are positive,
and the null values are not members of the sets they extend (in `AuditChain` one value
stands for every absent record); a blob of the durable store
is not a number, because numbers are its transactions and commit objects. Each inductive invariant
was checked by TLC on the instance of its run first.

* **`RouteEntry_proofs`**. `IInv` is `TypeOK /\ HeadAge /\ LockOwner /\ RotationExact`,
  preserved by every action. `RotationExact` alone is not inductive: that a served
  or visited bucket belongs to the key at the front needs the types, and that no
  publisher appends while a drain has a key off the rotation needs `LockOwner`.
  `HeadAge` (a bucket has a head age exactly when it holds an event) gives the
  eviction a victim with a head. `TypeCorrect`, `MutexCorrect` and `RotationCorrect`
  are its parts. `FenceCorrect` is proved relative to `LockOwner`: a publisher past the
  check under the entry mutex holds that mutex, so there is at most one of them when the
  gate retires; its append leaves the state, and a retired gate never opens again.
  `WakeupCorrect` is inductive relative to `IInv`: an append moves its publisher to
  the notification, and `PopNone` parks only on an empty rotation, which by
  `RotationExact` means no queued event.
* **`EventBus_proofs`**. Only the top publication of one thread's stack is between lock
  and release of `publish_order`, so what the transports saw is a prefix of one order
  that the holder extends; with the count of live reservations per inbox this gives
  `PermitsTheorem`, `CommitFenceTheorem` and `TransportTheorem`. `LogRefinement` shows
  that every step of the bus is a step of `ReliableLog` or stutters. Its invariant
  (`LogInv`) says that what was handed over is a prefix of what was committed, and that
  the rest is exactly the reserved publications of the installed inbox, in the same order
  (`LaneOK`), during the drain of a closed inbox too; the next inbox is installed only
  when that one is empty. `publish` releases `publish_order` before it feeds the routes,
  `commit_reserved` keeps its own guard to the end (`in_order`); retirement by an observer
  touches neither the order nor the permits, and the commit fence is a fact about the
  commit point, which such a retirement follows.
* **`DeliveryAdmission_proofs`**. `NoCycleOfWaits`: `WaitsAcyclic` with the type of
  the graph. Paths are expressed by closed sets (`reaches`), so no induction is
  needed: a set closed under the edges separates target from source before the new
  edge, and its union or intersection with another closed set separates every
  other pair afterwards. `AdmissionInv` adds where each publication stands in the lines
  of its targets: every waiting publication is in exactly one line, once, and its edges
  are those of its current wait if it has a source key, and none otherwise
  (`EdgesTheorem`); queued work and held slots, counted as
  disjoint finite sets, fit the capacity (`CapacityTheorem`). `UnseenTheorem`: suppose
  publications that can only be unblocked by each other, none of which holds a
  slot while it waits, and whose consumers all have a source key. These then form a set in which each has an edge into
  the set; take a smallest one (strict inclusion is well-founded on finite sets) and a
  member `x`. Acyclicity gives a closed set that contains the successor of `x` and not
  `x`; its intersection with the first is a smaller set of the same kind.
* **`Dispatcher_proofs`**. `IInv` is `Types /\ Flags /\ Orders`. `Flags`: a mapped queue
  belongs to its key; a consumer that exited closed its channel and left it empty; while
  nothing retires every live consumer is open and mapped (`Alive`), which makes the
  respawn find either that queue or none; a permit's consumer has not exited, which is
  what the count of outstanding permits in `nothing_left` is for; and the loop's retry
  holds an open queue (`ResendOpen`): eviction needs the map's sender to be the only
  one. `OneConsumerTheorem` and `ClosedTheorem` are parts of it. `Orders`: all work handed
  over precedes what the loop holds, which precedes the inbox, and what the queues of
  a key hold follows what they delivered. When a consumer receives, another queue of
  its key is that of a consumer that exited, hence empty: `OrderTheorem`. `OneTask`
  extends the single consumer to the time after stop, because order is claimed until
  the runtime's own gate retires.
* **`ChainLocks_proofs`**. `ChainsExclude`: `IInv` is `TypeOK /\ Mapped /\ Holds`.
  `Mapped` says that a task between finding a mutex and pruning refers to the mutex
  of its key in the map: the counting lemma `PrunableIsSole` shows that an entry is
  pruned only when no other task refers to it. `Holds` says that an invoking task
  is at the head of its mutex's line. Two invocations of one key then have the same
  mutex and the same head.
* **`CapsuleInvocation_proofs`**. The invariant says that a caller's place determines its
  reservation and its instance; that free permits and callers with one add up to the pool
  size (`PermitsAddUp`) and warm, leased and growing instances stay below it
  (`PlacesBounded`), from which `InstancesTheorem` follows; that a warm or just leased
  instance carries nothing of an earlier call (`CleanTheorem`); that a window's reservation is the
  share times the calls in flight (`PromisesExact`), from which `BudgetTheorem` follows;
  that a refusal stands until a settlement notifies the caller (`SettlementTheorem`); and
  that a commit and a lease of the single Store exclude each other (`CommitTheorem`).
* **`AuditChain_proofs`**. The invariant describes the store as any fault leaves it, and
  what each operation may rely on between two writes, in five layers.
  *Signing* (`SignedOK`, `HeadsOK`, `WritersOK`, `OwnersOK`): every entry was signed on an
  earlier one of its chain, so an entry has a position from genesis, and the operation
  under the durable lock belongs to a task that waits for it.
  *Chains* (`IndexOK`, `TopOK`): on a chain the order of the index keys is the order of the
  positions and no position between two keys is missing; the newest key is the head or
  the entry of an interrupted append. Without the index `NoFork` and `RetainedSuffix` are
  not inductive: an append compares the head only, and that no key lies beyond it is what
  makes the new entry the only one on its parent.
  *Interrupted appends* (`IntentOK`, `AppendJobOK`): what an intent says of the store
  however late it is replayed. A recovery rewrites the entry, which is harmless because the
  entry is still the newest of its chain, and replaces only metadata it was computed from.
  *Prunes* (`HolesOK`, `PlanOK`, `TotalsOK`, `ReceiptsOK`, `PrunerOK`, `PruneJobOK`,
  `PageOK`, `HistoryOK`): a receipt's cutoff splits the keys of its chain exactly at its last
  entry (`Cuts`); until a plan is counted its receipt continues the pruned total (`Adds`),
  afterwards the keys start right after the total (`StartsAfter`); a plan that waits for the
  removal of its file was counted already. A key that lost its entry is the oldest of
  its chain, in a plan that will delete it or never advances.
  *Watermarks* (`MarksOK`, `MarkerOK`): the mark's key splits the keys of its chain at its
  position; what `mark_anchored` located without the lock holds as long as no plan is
  pending and the receipt is the one it read, because a plan has a later generation.
  `PositionsExact` is a part of the invariant. `RetainChain` is where the layers
  meet: the number of surviving keys is the distance between the pruned total and the newest
  key, which the counting lemma `SpanNth` gives (by taking a least position, natural
  numbers being well-founded). `ChainsOnlyAdvance` follows from the same facts, step by step.
* **`DurableEngine_proofs`**. The invariant says what each file operation of the holder
  of the engine mutex may rely on, in four layers.
  *Control* (`Types`, `Control`, `Submitted`): a recovery runs in an engine that is not
  usable and everything else in one that is; every record names a submitted transaction.
  *Refusals* (`OwnTxn`, `Untouched`): each caller in the queue or the batch waits with a
  transaction of its own, and nothing in a file, in memory or in the batch is of a
  transaction that was refused or is yet to be prepared. This strengthens
  `RefusedLeavesNothing`, which says nothing of the batch a later write takes from.
  *Durability* (`Files`, `Overlay`, `Prepared`, `Persisting`, `Folding`, `Recovering`,
  `AckedDurable`): what is written extends what is flushed, unless the log is being
  retired, and then the flushed canonical files hold all of it (`Retired`); the overlay
  holds what is in the log; the other four say how far a batch, a checkpoint and a
  recovery have come. `FlushedKept`, proved of every step, crash and power loss, carries
  `AckedDurable` along. `Rooted` gives `NoDanglingRoot`: a root in the journal has its
  objects flushed, and a record of the log has them flushed or in a record up to itself,
  so that no prefix of the log separates the two. That needs the first record of a batch
  to carry the staged objects.
  *Serving* (`Served`, `NoLostUpdate`): the journal with the overlay and the batch is
  linked, each transaction built on what the ones before it leave, and the engine's
  roots are those of the journal and the overlay. A linked journal has no two
  transactions with one expected root, because a transaction's expected root is an
  earlier one. A failed append leaves a prefix of a linked journal, and a recovery extends
  one only when the journal's root is the expected one. The root that a journal leaves
  exists because positions have a last one (natural numbers are well-founded). Nothing
  is claimed of a recovery that ends in a conflict: `StoreReopens` is the property that
  `DurableReopen` refutes.

Only model-checked: liveness under fairness and the liveness part of `ReliableLog`
(`ImplementsReliableLog` checks both); `Conservation` and `BoundedBypass` of the route
(sums and filtered sequences need induction over data); that no chain is pruned past what
was archived (`ArchivedBeforeDeleted`) is refuted.

## 5. Plan

Every safety property of the runs is proved but `Conservation` and `BoundedBypass`.

Candidates for further modules: deferred approval resolutions, pairing tokens and
invites, admitted work and shutdown, the IPC rate limiter with the broadcast
receivers, compaction of the durable store.

## 6. Not modelled

Within modelled components: the audit key registry, committed-entry markers, byte
caps, batches of several entries and sealing on request; the store's index cache,
representations, compaction, object cache and closing; user-level CPU limits, exempt
principals, unloading of a capsule, and run-loop capsules, which use no pool.

Whole components (reasons in `PROJECT.json`): Wasmtime, encodings, signatures, platform
file systems, providers, command line, terminal and HTTP front ends hold no protocol
state of their own; together with data types, parsing and rendering they are most of
the repository's lines. Approval, capabilities, the kernel's tokens and its shutdown
have small protocols of their own and are listed above as candidates.

Hazards seen in the code that no property covers:

| Where (`src/crates/`) | Hazard |
|---|---|
| `astrid-events/src/route/entry.rs:456` | the deficit grows on every visit, across drains, while its bucket lives |
| `astrid-capsule/src/dispatcher/locks.rs:27` | guards that end together leave the map entry behind |
| `astrid-capsule/src/dispatcher.rs:583` | the cap on a capsule's queues under many principals |
| `astrid-events/src/rate_limiter.rs:86` | publications on both sides of a window boundary; entries pruned while in use |
| `astrid-approval/src/budget.rs:233` | concurrent reservations, refunds and the warning threshold |
| `astrid-approval/src/deferred.rs:452` | the in-memory queue changes before the persistent copy, which may fail |
| `astrid-capsule-types/src/memory_ledger.rs:105` | the evicted entry is chosen by a scan that holds no lock over the map |
| `astrid-capabilities/src/store.rs:741` | two uses of a single-use token, or a use racing revocation or retirement |
| `astrid-kernel/src/pair_token/durable_reservation.rs:72` | reservation, release, consumption and pruning of one token by several tasks |
| `astrid-kernel/src/runtime_work.rs:29` | work admitted while the gate closes and waits for admitted work |
