----------------------------- MODULE RouteEntry -----------------------------
(***************************************************************************)
(* One routed subscription of the event bus                                *)
(* (crates/astrid-events/src/route/entry.rs, receiver.rs and               *)
(* bus/dispatch.rs).                                                       *)
(*                                                                         *)
(* A route keeps one FIFO bucket per publishing principal, a rotation of   *)
(* the principals that own a bucket, and one byte budget for all of them.  *)
(* Publishers match the route on a snapshot, then lock the entry, check    *)
(* again, evict the heads of the oldest buckets until the event fits,      *)
(* append it, unlock and notify.  The receiver pops single events in       *)
(* rotation order (recv, try_recv_one) or drains with deficit round robin  *)
(* (try_drain), and parks on a tokio Notify when the route is empty.       *)
(*                                                                         *)
(* Every loop that runs under the entry mutex is a sequence of steps whose *)
(* owner is recorded in lock; nothing else touches the entry meanwhile.    *)
(* The gate (gate.rs) is NOT under that mutex and may move in between.     *)
(* Instants are numbers: two consecutive reads of the clock may be equal.  *)
(***************************************************************************)
EXTENDS Integers, Sequences, FiniteSetsExt

CONSTANTS
  Principals,      \* PrincipalKey, System (None) included
  System,          \* the kernel principal, None in the code
  Publishers,      \* threads that may publish to the route concurrently
  Kinds,           \* events without their id: principal, size, owner, receipt
  Owners,          \* request owners
  NoOwner,         \* request_owner: None
  Scopes,          \* admissions a route can be created with
  Requests,        \* request_owner values a route can be created with
  Budget,          \* MAX_SUBSCRIPTION_BUDGET_BYTES
  CountCap,        \* PENDING_PER_PRINCIPAL_FALLBACK
  QuantumMin,      \* DRR_QUANTUM_MIN_BYTES
  DrainBudgets,    \* budgets the receiver passes to try_drain
  MaxEvents,       \* bound: events published to the route
  Timeouts,        \* TRUE: recv is called with a timeout
  Never,           \* head_enqueued_at: None
  Free, Rx         \* owners of the entry lock besides publishers

Kind == [principal : Principals, size : Nat,
         owner : Owners \cup {NoOwner}, receipt : {"none", "own", "peer"}]
Scope == [kind : {"all", "exact", "principal_or_system"}, key : Principals]

ASSUME ConstAssumption ==
  /\ System \in Principals
  /\ Kinds \subseteq Kind /\ Kinds # {}
  /\ Scopes \subseteq Scope
  /\ NoOwner \notin Owners
  /\ Requests \subseteq Owners \cup {NoOwner}
  /\ Budget \in Nat /\ CountCap \in Nat \ {0} /\ QuantumMin \in Nat \ {0}
  /\ DrainBudgets \subseteq Nat \ {0}
  /\ MaxEvents \in Nat
  /\ Timeouts \in BOOLEAN
  /\ Never \notin Nat
  /\ Free \notin Publishers /\ Rx \notin Publishers /\ Free # Rx

Event == [id : Nat, kind : Kind]
Bucket == [queue : Seq(Event), bytes : Nat, head_at : Nat \cup {Never},
           deficit : Nat]
Drain == [budget : Nat, served : Nat, quantum : Nat, visit : Nat,
          progress : BOOLEAN, cur : Principals, cur_progress : BOOLEAN]

VARIABLES
  gate,             \* the runtime generation's admission gate
  scope,            \* RouteEntry.scope, fixed at subscription
  request_owner,    \* RouteEntry.request_owner, fixed at subscription
  registered,       \* the route is in the bus's table
  fanout,           \* bucket of every principal; a missing one is NoBucket
  active,           \* keys of the fanout map
  principal_order,  \* rotation
  total_bytes,
  clock,            \* last Instant read
  lock,             \* owner of the entry mutex
  pub,              \* what each publisher is doing, and with which event
  rx,               \* what the receiver is doing
  drain,            \* locals of drr_drain
  permit,           \* stored permit of the Notify
  next_id,          \* history: events published so far
  appended,         \* history: events that entered each bucket, in order
  delivered,        \* history: events received of each principal, in order
  evicted,          \* history: events dropped by the budget or the count cap
  bypass,           \* history: pops a waiting principal has let pass
  late              \* history: appends since the gate first retired, Never before

route == <<fanout, active, principal_order, total_bytes, clock>>
config == <<scope, request_owner>>
history == <<next_id, appended, delivered, evicted, bypass, late>>
vars == <<gate, config, registered, route, lock, pub, rx, drain, permit,
          history>>

NoBucket == [queue |-> <<>>, bytes |-> 0, head_at |-> Never, deficit |-> 0]
NoDrain == [budget |-> 0, served |-> 0, quantum |-> 0, visit |-> 0,
            progress |-> FALSE, cur |-> System, cur_progress |-> FALSE]
Idle == [at |-> "idle", event |-> [id |-> 0, kind |-> CHOOSE k \in Kinds : TRUE]]

saturating_sub(a, b) == IF a >= b THEN a - b ELSE 0

-----------------------------------------------------------------------------
(* Admission. *)

\* Mutation: only a staged generation is closed.
is_published_unless_staged == gate # "staged"

is_published == gate = "published"

accepts(publisher) ==
  /\ is_published
  /\ \/ scope.kind = "all"
     \/ scope.kind = "exact" /\ scope.key = publisher
     \/ scope.kind = "principal_or_system" /\ publisher \in {System, scope.key}

\* receipt "peer" is a delivery receipt that visible_to refuses to this owner.
accepts_event(k) ==
  /\ accepts(k.principal)
  /\ k.receipt # "peer"
  /\ request_owner = NoOwner \/ k.owner = request_owner

-----------------------------------------------------------------------------
(* Bucket and rotation helpers. *)

\* The head left, at time t: the next head's age is approximated by now.
pop_front(b, t) ==
  LET rest == Tail(b.queue)
  IN  [b EXCEPT !.queue = rest,
                !.bytes = saturating_sub(b.bytes, Head(b.queue).kind.size),
                !.head_at = IF rest = <<>> THEN Never ELSE t]

push_back(b, e, t) ==
  [b EXCEPT !.queue = Append(b.queue, e),
            !.bytes = b.bytes + e.kind.size,
            !.head_at = IF b.queue = <<>> THEN t ELSE b.head_at]

over_cap(q) == Len(q) > CountCap

\* Mutation: the principal joins the rotation on every push.
rotation_with_always(p) == Append(principal_order, p)

\* principal_order after a push by p: a new principal joins at the back.
rotation_with(p) ==
  IF p \in active THEN principal_order ELSE Append(principal_order, p)

\* Mutation: the served principal stays first.
rotated_to_front(order, key) == <<key>> \o order

\* A served principal that still has events goes to the back.
rotated(order, key) == Append(order, key)

\* Mutation: the rest of a served bucket is discarded with it.
is_drained_after_one(b) == TRUE

is_drained(b) == b.queue = <<>>

\* Buckets oldest_head_key may return; a HashMap scan breaks ties arbitrarily.
oldest_head_key ==
  {p \in active :
     /\ fanout[p].head_at # Never
     /\ \A q \in active : fanout[q].head_at # Never
                             => fanout[p].head_at <= fanout[q].head_at}

-----------------------------------------------------------------------------
(* Gate. *)

GatePublish ==
  /\ gate = "staged"
  /\ gate' = "published"
  /\ UNCHANGED <<config, registered, route, lock, pub, rx, drain, permit,
                 history>>

GateRetire ==
  /\ gate # "retired"
  /\ gate' = "retired"
  /\ late' = IF late = Never THEN 0 ELSE late
  /\ UNCHANGED <<config, registered, route, lock, pub, rx, drain, permit,
                 next_id, appended, delivered, evicted, bypass>>

-----------------------------------------------------------------------------
(* Publishers: matching_routes, enqueue_routes, push_with_eviction. *)

\* The snapshot of matching routes contains this one.
Match(t, k) ==
  /\ pub[t].at = "idle"
  /\ next_id < MaxEvents
  /\ registered
  /\ lock = Free
  /\ accepts_event(k)
  /\ next_id' = next_id + 1
  /\ pub' = [pub EXCEPT ![t] = [at |-> "matched",
                                event |-> [id |-> next_id + 1, kind |-> k]]]
  /\ UNCHANGED <<gate, config, registered, route, lock, rx, drain, permit,
                 appended, delivered, evicted, bypass, late>>

\* enqueue_routes locks the entry; a route that retired since is skipped.
Enqueue(t) ==
  /\ pub[t].at = "matched"
  /\ lock = Free
  /\ IF accepts_event(pub[t].event.kind)
     THEN lock' = t /\ pub' = [pub EXCEPT ![t].at = "recheck"]
     ELSE lock' = lock /\ pub' = [pub EXCEPT ![t] = Idle]
  /\ UNCHANGED <<gate, config, registered, route, rx, drain, permit, history>>

\* push_with_eviction checks again and refuses an event larger than the
\* budget; both return to enqueue_routes, which notifies all the same.
Push(t) ==
  /\ pub[t].at = "recheck"
  /\ LET k == pub[t].event.kind
     IN  IF accepts_event(k) /\ k.size <= Budget
         THEN lock' = lock /\ pub' = [pub EXCEPT ![t].at = "evict"]
         ELSE lock' = Free /\ pub' = [pub EXCEPT ![t].at = "notify"]
  /\ UNCHANGED <<gate, config, registered, route, rx, drain, permit, history>>

over_budget(t) == total_bytes + pub[t].event.kind.size > Budget

evict_oldest_head(t) ==
  /\ pub[t].at = "evict"
  /\ over_budget(t)
  /\ clock' \in clock .. clock + 1
  /\ \E victim \in oldest_head_key :
       LET e == Head(fanout[victim].queue)
       IN  /\ fanout' = [fanout EXCEPT ![victim] = pop_front(@, clock')]
           /\ total_bytes' = saturating_sub(total_bytes, e.kind.size)
           /\ evicted' = evicted \cup {e}
  /\ UNCHANGED <<gate, config, registered, active, principal_order, lock, pub,
                 rx, drain, permit, next_id, appended, delivered, bypass, late>>

\* The rest of push_with_eviction: append, per-bucket count cap, rotation.
append_event(t) ==
  /\ pub[t].at = "evict"
  /\ ~over_budget(t) \/ oldest_head_key = {}
  /\ clock' \in clock .. clock + 1
  /\ LET e    == pub[t].event
         p    == e.kind.principal
         full == push_back(fanout[p], e, clock')
         over == over_cap(full.queue)
     IN  /\ fanout' = [fanout EXCEPT ![p] =
                         IF over THEN pop_front(full, clock') ELSE full]
         /\ total_bytes' = IF over
                           THEN saturating_sub(total_bytes + e.kind.size,
                                               Head(full.queue).kind.size)
                           ELSE total_bytes + e.kind.size
         /\ evicted' = IF over THEN evicted \cup {Head(full.queue)}
                               ELSE evicted
         /\ active' = active \cup {p}
         /\ principal_order' = rotation_with(p)
         /\ appended' = [appended EXCEPT ![p] = Append(@, e)]
  /\ late' = IF late = Never THEN late ELSE late + 1
  /\ lock' = Free
  /\ pub' = [pub EXCEPT ![t].at = "notify"]
  /\ UNCHANGED <<gate, config, registered, rx, drain, permit, next_id,
                 delivered, bypass>>

\* Mutation: no permit is stored for a receiver that is not parked yet.
notified_waiters_only == permit \/ rx = "park"

\* notify_one wakes the parked receiver or stores one permit.
notified == TRUE

NotifyOne(t) ==
  /\ pub[t].at = "notify"
  /\ permit' = notified
  /\ pub' = [pub EXCEPT ![t] = Idle]
  /\ UNCHANGED <<gate, config, registered, route, lock, rx, drain, history>>

-----------------------------------------------------------------------------
(* Receiver: try_recv_one, recv, try_drain, Drop. *)

\* try_recv_one returns when the route is empty; recv parks instead.
StartPop(call) ==
  /\ rx = "idle"
  /\ lock = Free
  /\ lock' = Rx
  /\ rx' = call
  /\ UNCHANGED <<gate, config, registered, route, pub, drain, permit, history>>

Popping == rx \in {"try_recv_one", "recv"}

\* One iteration of drr_pop_one that drops an empty bucket from the rotation.
PopSkip ==
  /\ Popping
  /\ principal_order # <<>>
  /\ LET key == Head(principal_order)
     IN  /\ fanout[key].queue = <<>>
         /\ fanout' = [fanout EXCEPT ![key] = NoBucket]
         /\ active' = active \ {key}
  /\ principal_order' = Tail(principal_order)
  /\ UNCHANGED <<gate, config, registered, total_bytes, clock, lock, pub, rx,
                 drain, permit, history>>

\* The iteration that serves one event and rotates its principal to the back.
PopServe ==
  /\ Popping
  /\ principal_order # <<>>
  /\ clock' \in clock .. clock + 1
  /\ LET key  == Head(principal_order)
         b    == fanout[key]
         rest == pop_front(b, clock')
     IN  /\ b.queue # <<>>
         /\ delivered' = [delivered EXCEPT ![key] = Append(@, Head(b.queue))]
         /\ total_bytes' = saturating_sub(total_bytes, Head(b.queue).kind.size)
         /\ IF is_drained(rest)
            THEN /\ fanout' = [fanout EXCEPT ![key] = NoBucket]
                 /\ active' = active \ {key}
                 /\ principal_order' = Tail(principal_order)
            ELSE /\ fanout' = [fanout EXCEPT ![key] = rest]
                 /\ active' = active
                 /\ principal_order' = rotated(Tail(principal_order), key)
         /\ bypass' = [p \in Principals |->
                         IF p = key \/ fanout[p].queue = <<>> THEN 0
                         ELSE bypass[p] + 1]
  /\ lock' = Free
  /\ rx' = "idle"
  /\ UNCHANGED <<gate, config, registered, pub, drain, permit, next_id,
                 appended, evicted, late>>

PopNone ==
  /\ Popping
  /\ principal_order = <<>>
  /\ lock' = Free
  /\ rx' = IF rx = "recv" THEN "parking" ELSE "idle"
  /\ UNCHANGED <<gate, config, registered, route, pub, drain, permit, history>>

\* The entry is unlocked before notified() is polled.
Park ==
  /\ rx = "parking"
  /\ rx' = "park"
  /\ UNCHANGED <<gate, config, registered, route, lock, pub, drain, permit,
                 history>>

\* notified().await returns: consume the permit and look at the entry again.
Wake ==
  /\ rx = "park"
  /\ permit
  /\ lock = Free
  /\ permit' = FALSE
  /\ lock' = Rx
  /\ rx' = "recv"
  /\ UNCHANGED <<gate, config, registered, route, pub, drain, history>>

RecvTimeout ==
  /\ rx = "park"
  /\ Timeouts
  /\ ~permit
  /\ rx' = "idle"
  /\ UNCHANGED <<gate, config, registered, route, lock, pub, drain, permit,
                 history>>

\* drr_drain: entry, quantum and the first round.
DrainStart(budget) ==
  /\ rx = "idle"
  /\ lock = Free
  /\ active # {}
  /\ LET share == budget \div Len(principal_order)
     IN  drain' = [NoDrain EXCEPT
                     !.budget = budget,
                     !.quantum = IF share > QuantumMin THEN share ELSE QuantumMin,
                     !.visit = Len(principal_order)]
  /\ lock' = Rx
  /\ rx' = "drain"
  /\ UNCHANGED <<gate, config, registered, route, pub, permit, history>>

\* Next principal of the round: off the rotation, credited with one quantum.
DrainVisit ==
  /\ rx = "drain"
  /\ drain.visit > 0
  /\ principal_order # <<>>
  /\ LET key == Head(principal_order)
     IN  /\ fanout' = [fanout EXCEPT ![key].deficit = @ + drain.quantum]
         /\ drain' = [drain EXCEPT !.cur = key, !.cur_progress = FALSE,
                                   !.visit = @ - 1]
  /\ principal_order' = Tail(principal_order)
  /\ rx' = "drain_bucket"
  /\ UNCHANGED <<gate, config, registered, active, total_bytes, clock, lock,
                 pub, permit, history>>

\* The front of the visited bucket fits its deficit and the drain budget.
head_fits ==
  LET b == fanout[drain.cur]
  IN  /\ b.queue # <<>>
      /\ Head(b.queue).kind.size <= b.deficit
      /\ drain.served + Head(b.queue).kind.size <= drain.budget

DrainServe ==
  /\ rx = "drain_bucket"
  /\ head_fits
  /\ clock' \in clock .. clock + 1
  /\ LET b == fanout[drain.cur]
         s == Head(b.queue).kind.size
     IN  /\ fanout' = [fanout EXCEPT ![drain.cur] =
                         [pop_front(@, clock') EXCEPT
                            !.deficit = saturating_sub(b.deficit, s)]]
         /\ total_bytes' = saturating_sub(total_bytes, s)
         /\ drain' = [drain EXCEPT !.served = @ + s, !.cur_progress = TRUE]
         /\ delivered' = [delivered EXCEPT ![drain.cur] = Append(@, Head(b.queue))]
  /\ UNCHANGED <<gate, config, registered, active, principal_order, lock, pub,
                 rx, permit, next_id, appended, evicted, bypass, late>>

\* The visit ends: an empty bucket is removed, any other goes to the back.
DrainRotate ==
  /\ rx = "drain_bucket"
  /\ ~head_fits
  /\ LET key == drain.cur
     IN  IF fanout[key].queue = <<>>
         THEN /\ fanout' = [fanout EXCEPT ![key] = NoBucket]
              /\ active' = active \ {key}
              /\ principal_order' = principal_order
         ELSE /\ fanout' = fanout
              /\ active' = active
              /\ principal_order' = rotated(principal_order, key)
  /\ drain' = [drain EXCEPT !.progress = @ \/ drain.cur_progress]
  /\ rx' = "drain"
  /\ bypass' = [bypass EXCEPT ![drain.cur] = 0]
  /\ UNCHANGED <<gate, config, registered, total_bytes, clock, lock, pub,
                 permit, next_id, appended, delivered, evicted, late>>

\* Mutation: a round without progress does not stop the drain.
drain_done_at_budget == drain.served >= drain.budget

drain_done == ~drain.progress \/ drain.served >= drain.budget

\* The round is over; another one follows only after progress.
DrainRound ==
  /\ rx = "drain"
  /\ drain.visit = 0
  /\ IF drain_done
     THEN lock' = Free /\ rx' = "idle" /\ drain' = NoDrain
     ELSE /\ lock' = lock /\ rx' = rx
          /\ drain' = [drain EXCEPT !.visit = Len(principal_order),
                                    !.progress = FALSE]
  /\ UNCHANGED <<gate, config, registered, route, pub, permit, history>>

\* Drop removes the route from the table; a parked recv is cancelled with it.
\* Publishers that hold the snapshot keep the entry alive.
DropReceiver ==
  /\ rx \in {"idle", "park"}
  /\ registered' = FALSE
  /\ rx' = "dropped"
  /\ UNCHANGED <<gate, config, route, lock, pub, drain, permit, history>>

-----------------------------------------------------------------------------

Init ==
  /\ gate \in {"staged", "published"}
  /\ scope \in Scopes
  /\ request_owner \in Requests
  /\ registered = TRUE
  /\ fanout = [p \in Principals |-> NoBucket]
  /\ active = {}
  /\ principal_order = <<>>
  /\ total_bytes = 0
  /\ clock = 0
  /\ lock = Free
  /\ pub = [t \in Publishers |-> Idle]
  /\ rx = "idle"
  /\ drain = NoDrain
  /\ permit = FALSE
  /\ next_id = 0
  /\ appended = [p \in Principals |-> <<>>]
  /\ delivered = [p \in Principals |-> <<>>]
  /\ evicted = {}
  /\ bypass = [p \in Principals |-> 0]
  /\ late = Never

PublisherStep(t) ==
  Enqueue(t) \/ Push(t) \/ evict_oldest_head(t) \/ append_event(t) \/ NotifyOne(t)

ReceiverStep ==
  \/ PopSkip \/ PopServe \/ PopNone \/ Park \/ Wake
  \/ DrainVisit \/ DrainServe \/ DrainRotate \/ DrainRound

Next ==
  \/ GatePublish \/ GateRetire
  \/ \E t \in Publishers : (\E k \in Kinds : Match(t, k)) \/ PublisherStep(t)
  \/ \E call \in {"try_recv_one", "recv"} : StartPop(call)
  \/ ReceiverStep
  \/ RecvTimeout
  \/ \E b \in DrainBudgets : DrainStart(b)
  \/ DropReceiver

Spec == Init /\ [][Next]_vars

\* A thread that entered a publish or a receive runs to its end or its await.
Fairness ==
  /\ \A t \in Publishers : WF_vars(PublisherStep(t))
  /\ WF_vars(ReceiverStep)

FairSpec == Spec /\ Fairness

-----------------------------------------------------------------------------
(* Properties. *)

RxState == {"idle", "try_recv_one", "recv", "parking", "park", "drain",
            "drain_bucket", "dropped"}
PubState == {"idle", "matched", "recheck", "evict", "notify"}

\* Every variable of the route has its type, and no bucket outgrows the
\* per-principal message count.
TypeOK ==
  /\ gate \in {"staged", "published", "retired"}
  /\ scope \in Scopes /\ request_owner \in Requests
  /\ registered \in BOOLEAN
  /\ fanout \in [Principals -> Bucket]
  /\ \A p \in Principals : Len(fanout[p].queue) <= CountCap
  /\ active \in SUBSET Principals
  /\ principal_order \in Seq(Principals)
  /\ total_bytes \in Nat /\ clock \in Nat
  /\ lock \in Publishers \cup {Free, Rx}
  /\ pub \in [Publishers -> [at : PubState, event : Event]]
  /\ rx \in RxState
  /\ drain \in Drain
  /\ permit \in BOOLEAN
  /\ next_id \in Nat
  /\ appended \in [Principals -> Seq(Event)]
  /\ delivered \in [Principals -> Seq(Event)]
  /\ evicted \in SUBSET Event
  /\ bypass \in [Principals -> Nat]
  /\ late \in Nat \cup {Never}

\* The rotation holds every principal of the fanout map exactly once (the
\* principal a drain is visiting is off it), and no key outside the map owns
\* a bucket: no queued event can become unreachable to the receiver, whatever
\* evictions, removals and re-insertions happened.
RotationExact ==
  LET visiting == IF rx = "drain_bucket" THEN {drain.cur} ELSE {}
  IN  /\ \A i, j \in DOMAIN principal_order :
           principal_order[i] = principal_order[j] => i = j
      /\ Range(principal_order) = active \ visiting
      /\ visiting \subseteq active
      /\ \A p \in Principals \ active : fanout[p].queue = <<>>

\* The entry mutex: a thread inside an operation on the entry owns the lock,
\* and at most one is.
LockOwner ==
  /\ \A t \in Publishers : pub[t].at \in {"recheck", "evict"} <=> lock = t
  /\ rx \in {"try_recv_one", "recv", "drain", "drain_bucket"} <=> lock = Rx

\* Retirement fences the route for good.  The gate is not under the entry
\* mutex, and every publisher of the snapshot may have matched before retire:
\* at most one of them, which held the mutex past the last check, still gets its
\* event in, and once it has, nobody else is on the way and nobody ever will be.
RetireFences ==
  late # Never =>
    /\ late <= 1
    /\ late = 1 => \A t \in Publishers : pub[t].at # "evict"

\* Per principal, what was appended and not evicted is what was delivered
\* followed by what is queued, in append order: no event is lost, duplicated
\* or reordered by pops, drains, empty buckets and evictions.  The byte counters
\* follow: a bucket counts the events it holds, the route what its buckets count.
Conservation ==
  /\ \A p \in Principals :
       /\ SelectSeq(appended[p], LAMBDA e : e \notin evicted)
            = delivered[p] \o fanout[p].queue
       /\ fanout[p].bytes =
            MapThenSumSet(LAMBDA i : fanout[p].queue[i].kind.size,
                          DOMAIN fanout[p].queue)
  /\ total_bytes = MapThenSumSet(LAMBDA p : fanout[p].bytes, Principals)

\* No lost wakeup: a receiver parked, or about to park, without a permit while
\* an event is queued has a publisher on its way to notify_one.
NoLostWakeup ==
  rx \in {"parking", "park"} /\ ~permit /\ (\E p \in Principals : fanout[p].queue # <<>>)
    => \E t \in Publishers : pub[t].at = "notify"

\* Round robin: a principal with a queued event lets at most one pop per other
\* principal pass before it is served, however fast the others publish.
BoundedBypass ==
  \A p \in Principals : bypass[p] < Cardinality(Principals)

\* A parked recv with an event queued is woken (or its receiver is dropped).
ParkedIsWoken ==
  (rx = "park" /\ \E p \in Principals : fanout[p].queue # <<>>) ~> rx # "park"

\* try_drain terminates: the rounds stop as soon as one makes no progress.
DrainTerminates == rx = "drain" ~> rx \notin {"drain", "drain_bucket"}
=============================================================================
