------------------------------ MODULE EventBus ------------------------------
(***************************************************************************)
(* Publication on the event bus (crates/astrid-events/src/bus.rs,          *)
(* admission.rs, ordered_delivery.rs and the gate's commit guards,         *)
(* route/gate.rs).                                                         *)
(*                                                                         *)
(* Threads publish either synchronously (publish) or in two phases         *)
(* (reserve_publication, then commit): reserve the consumers' capacity,    *)
(* then a slot of the dispatcher's ordered inbox, and commit under the     *)
(* publish_order mutex unless a captured runtime generation retired, the   *)
(* inbox closed or one was installed since.  Commit stamps the sequence    *)
(* number, hands the event to the inbox, releases the gates, broadcasts,   *)
(* and notifies the synchronous observers, which may publish a follow-up   *)
(* from the same thread (the mutex is reentrant) or retire a generation.   *)
(* publish then releases publish_order and enqueues on the matching        *)
(* routes; commit_reserved keeps it until the routes are filled.           *)
(*                                                                         *)
(* A thread is a stack of publications: the last one runs, the others are  *)
(* suspended inside a synchronous observer.  Consumers' own queues and     *)
(* capacity are the subject of DeliveryAdmission; a reservation here is    *)
(* the set of gates it captured.  Routes are logs of what was enqueued;    *)
(* RouteEntry models their queues.                                         *)
(***************************************************************************)
EXTENDS Integers, Sequences, FiniteSets

CONSTANTS
  Threads,
  Gates,          \* runtime generations a reservation can capture
  Observers,      \* synchronous subscribers, notified in the order 1 .. Observers
  Routes,         \* routed subscriptions matching the published topic
  Capacity,       \* slots of an ordered inbox
  MaxInboxes,     \* bound: subscribe_ordered_delivery calls
  MaxEvents,      \* bound: publications started
  MaxNested       \* bound: publications suspended in an observer, per thread

ASSUME ConstAssumption ==
  /\ Observers \in Nat /\ Capacity \in Nat \ {0}
  /\ MaxInboxes \in Nat /\ MaxEvents \in Nat /\ MaxNested \in Nat

ASSUME ThreadsFinite == IsFiniteSet(Threads)

NoInbox == 0

VARIABLES
  ipc_seq,          \* next sequence number (every event here is an IPC one)
  started,          \* publications started so far
  admitter,         \* delivery_admitter: "none", "live" or "dead" (Weak)
  gate,             \* state of each generation's gate
  ordered,          \* ordered_delivery slot: index of the latest inbox
  inbox,            \* inboxes installed so far
  draining,         \* the receiver is being dropped and holds publish_order
  stack,            \* publications of each thread, the running one last
  unreserved,       \* log of unreserved_sender
  broadcast,        \* log of sender
  observed,         \* log of each synchronous observer
  routed,           \* log of each route
  committed,        \* history: committed reserved publications, in order
  delivered         \* history: reserved publications handed to consumers

logs == <<unreserved, broadcast, observed, routed>>
vars == <<ipc_seq, started, admitter, gate, ordered, inbox, draining, stack, logs,
          committed, delivered>>

Inbox == [open : BOOLEAN, queue : Seq([id : Nat, seq : Nat, reserved : BOOLEAN]),
          permits : Nat, lagged : Nat]
NewInbox == [open |-> TRUE, queue |-> <<>>, permits |-> 0, lagged |-> 0]

\* A publication: delivery is the reservation (captured gates), handoff the
\* inbox it waits for (at "slot") or whose permit it holds, held the gates whose
\* commit mutex it holds, retiring the gate its observer is in retire() for.
Frame == [id : Nat, at : {"reserve", "handoff", "slot", "reserved", "guards", "stamp",
                          "broadcast", "observe", "route"},
          reserved : BOOLEAN, delivery : BOOLEAN, gates : SUBSET Gates,
          handoff : 0 .. MaxInboxes, held : SUBSET Gates, seq : Nat,
          next : Nat, retiring : SUBSET Gates, todo : SUBSET Routes]

-----------------------------------------------------------------------------
(* Threads, frames and the publish_order mutex. *)

top(t) == stack[t][Len(stack[t])]
running(t, at) == stack[t] # <<>> /\ top(t).at = at

\* Publications that hold publish_order: publish_reserved drops its own guard
\* after the observers, and commit_reserved's lives to the end of the commit.
Locked == {"guards", "stamp", "broadcast", "observe"}
in_order(f) == f.at \in Locked \/ (f.at = "route" /\ f.reserved)
holds_order(t) == \E i \in DOMAIN stack[t] : in_order(stack[t][i])

\* Mutation: publish_order does not exclude the other publishers.
order_free_always(t) == TRUE

\* publish_order can be locked by t: reentrant, so only the others count.
order_free(t) == ~draining /\ \A u \in Threads \ {t} : ~holds_order(u)
order_unlocked == ~draining /\ \A u \in Threads : ~holds_order(u)

set_top(t, f) == stack' = [stack EXCEPT ![t][Len(stack[t])] = f]
pop_top(t) == stack' = [stack EXCEPT ![t] = SubSeq(@, 1, Len(@) - 1)]

NewFrame(at, reserved) ==
  [id |-> started + 1, at |-> at, reserved |-> reserved, delivery |-> FALSE,
   gates |-> {}, handoff |-> NoInbox, held |-> {}, seq |-> 0, next |-> 1,
   retiring |-> {}, todo |-> {}]

\* Slots in use of an inbox: queued deliveries and outstanding permits.
used(c) == Len(inbox[c].queue) + inbox[c].permits

release_permit(c) ==
  IF c = NoInbox THEN inbox ELSE [inbox EXCEPT ![c].permits = @ - 1]

-----------------------------------------------------------------------------
(* Configuration of the bus. *)

\* subscribe_ordered_delivery; installing over an open inbox panics.
SubscribeOrdered ==
  /\ order_unlocked
  /\ Len(inbox) < MaxInboxes
  /\ ordered # NoInbox => ~inbox[ordered].open
  /\ inbox' = Append(inbox, NewInbox)
  /\ ordered' = Len(inbox) + 1
  /\ UNCHANGED <<ipc_seq, started, admitter, gate, draining, stack, logs, committed,
                 delivered>>

RegisterAdmitter ==
  /\ order_unlocked
  /\ admitter # "live"
  /\ admitter' = "live"
  /\ UNCHANGED <<ipc_seq, started, gate, ordered, inbox, draining, stack, logs,
                 committed, delivered>>

\* The dispatcher that owns the admitter is dropped; the bus keeps the Weak.
DropAdmitter ==
  /\ admitter = "live"
  /\ admitter' = "dead"
  /\ UNCHANGED <<ipc_seq, started, gate, ordered, inbox, draining, stack, logs,
                 committed, delivered>>

\* Mutation: retire does not wait for the commit guards.
guard_released_always(g) == TRUE

guard_released(g) ==
  \A t \in Threads : \A i \in DOMAIN stack[t] : g \notin stack[t][i].held

\* RouteAdmissionGate::retire takes the commit mutex.
Retire(g) ==
  /\ gate[g] = "published"
  /\ guard_released(g)
  /\ gate' = [gate EXCEPT ![g] = "retired"]
  /\ UNCHANGED <<ipc_seq, started, admitter, ordered, inbox, draining, stack, logs,
                 committed, delivered>>

-----------------------------------------------------------------------------
(* Dispatcher side of the ordered inbox. *)

\* into_unreserved: a reserved delivery is handed to its consumers at once.
handed(d) == IF d.reserved THEN <<d.id>> ELSE <<>>

Recv ==
  /\ ordered # NoInbox
  /\ inbox[ordered].open
  /\ inbox[ordered].queue # <<>>
  /\ inbox' = [inbox EXCEPT ![ordered].queue = Tail(@)]
  /\ delivered' = delivered \o handed(Head(inbox[ordered].queue))
  /\ UNCHANGED <<ipc_seq, started, admitter, gate, ordered, draining, stack, logs,
                 committed>>

\* Drop of OrderedDeliveryReceiver: lock publish_order, close, then drain.
DropReceiver ==
  /\ order_unlocked
  /\ ordered # NoInbox
  /\ inbox[ordered].open
  /\ inbox' = [inbox EXCEPT ![ordered].open = FALSE]
  /\ draining' = TRUE
  /\ UNCHANGED <<ipc_seq, started, admitter, gate, ordered, stack, logs, committed,
                 delivered>>

\* Mutation: publications still in the inbox are dropped with it.
drained_nothing(d) == <<>>

\* What the drain hands over: what was acknowledged as reserved.
drained(d) == handed(d)

\* One turn of the drain; the lock is released when the queue is empty.
Drain ==
  /\ draining
  /\ \/ /\ inbox[ordered].queue # <<>>
        /\ inbox' = [inbox EXCEPT ![ordered].queue = Tail(@)]
        /\ delivered' = delivered \o drained(Head(inbox[ordered].queue))
        /\ UNCHANGED draining
     \/ /\ inbox[ordered].queue = <<>>
        /\ draining' = FALSE
        /\ UNCHANGED <<inbox, delivered>>
  /\ UNCHANGED <<ipc_seq, started, admitter, gate, ordered, stack, logs, committed>>

-----------------------------------------------------------------------------
(* reserve_publication. *)

ReserveStart(t) ==
  /\ stack[t] = <<>>
  /\ started < MaxEvents
  /\ started' = started + 1
  /\ stack' = [stack EXCEPT ![t] = <<NewFrame("reserve", TRUE)>>]
  /\ UNCHANGED <<ipc_seq, admitter, gate, ordered, inbox, draining, logs, committed,
                 delivered>>

\* The admitter, if one is registered, captures the generations it matched.
ReserveDelivery(t) ==
  /\ running(t, "reserve")
  /\ \/ /\ admitter = "none"
        /\ set_top(t, [top(t) EXCEPT !.at = "handoff"])
     \/ /\ admitter = "live"
        /\ \E gs \in SUBSET {g \in Gates : gate[g] = "published"} :
             set_top(t, [top(t) EXCEPT !.at = "handoff", !.delivery = TRUE,
                                       !.gates = gs])
     \/ /\ admitter = "dead"
        /\ pop_top(t)
  /\ UNCHANGED <<ipc_seq, started, admitter, gate, ordered, inbox, draining, logs,
                 committed, delivered>>

\* Clone the sender of the installed inbox, if any.
ReserveHandoff(t) ==
  /\ running(t, "handoff")
  /\ set_top(t, [top(t) EXCEPT !.at = IF ordered = NoInbox THEN "reserved"
                                      ELSE "slot",
                               !.handoff = ordered])
  /\ UNCHANGED <<ipc_seq, started, admitter, gate, ordered, inbox, draining, logs,
                 committed, delivered>>

\* reserve_owned waits for a slot, and fails once that inbox is closed.
ReserveSlot(t) ==
  /\ running(t, "slot")
  /\ LET c == top(t).handoff
     IN  \/ /\ inbox[c].open
            /\ used(c) < Capacity
            /\ inbox' = [inbox EXCEPT ![c].permits = @ + 1]
            /\ set_top(t, [top(t) EXCEPT !.at = "reserved"])
         \/ /\ ~inbox[c].open
            /\ pop_top(t)
            /\ inbox' = inbox
  /\ UNCHANGED <<ipc_seq, started, admitter, gate, ordered, draining, logs, committed,
                 delivered>>

\* Mutation: cancelling after the reservation leaks the slot.
cancelled_inbox_leak(f) == inbox

cancelled_inbox(f) ==
  IF f.at = "reserved" THEN release_permit(f.handoff) ELSE inbox

\* Dropping a reservation, cancelling its wait, or an error of the admitter
\* (SelfDependency, Closed, InvalidEvent) ends it and releases the slot.
Cancel(t) ==
  /\ stack[t] # <<>>
  /\ top(t).at \in {"reserve", "handoff", "slot", "reserved"}
  /\ inbox' = cancelled_inbox(top(t))
  /\ pop_top(t)
  /\ UNCHANGED <<ipc_seq, started, admitter, gate, ordered, draining, logs, committed,
                 delivered>>

-----------------------------------------------------------------------------
(* commit_reserved and publish_reserved. *)

\* The bus was unconfigured at reservation and is configured now, or the
\* reserved inbox was closed.
stale(f) ==
  \/ ~f.delivery /\ admitter # "none"
  \/ f.handoff = NoInbox /\ ordered # NoInbox
  \/ f.handoff # NoInbox /\ ~inbox[f.handoff].open

Commit(t) ==
  /\ running(t, "reserved")
  /\ order_free(t)
  /\ IF stale(top(t))
     THEN /\ inbox' = release_permit(top(t).handoff)
          /\ pop_top(t)
     ELSE /\ set_top(t, [top(t) EXCEPT !.at = "guards"])
          /\ inbox' = inbox
  /\ UNCHANGED <<ipc_seq, started, admitter, gate, ordered, draining, logs, committed,
                 delivered>>

\* commit_guards locks the captured gates one by one; one that retired fails
\* the commit and every guard is released.
CommitGuard(t) ==
  /\ running(t, "guards")
  /\ \E g \in top(t).gates \ top(t).held :
       IF gate[g] = "published"
       THEN /\ set_top(t, [top(t) EXCEPT !.held = @ \cup {g}])
            /\ inbox' = inbox
       ELSE /\ inbox' = release_permit(top(t).handoff)
            /\ pop_top(t)
  /\ UNCHANGED <<ipc_seq, started, admitter, gate, ordered, draining, logs, committed,
                 delivered>>

Guarded(t) ==
  /\ running(t, "guards")
  /\ top(t).gates = top(t).held
  /\ set_top(t, [top(t) EXCEPT !.at = "stamp"])
  /\ UNCHANGED <<ipc_seq, started, admitter, gate, ordered, inbox, draining, logs,
                 committed, delivered>>

\* t runs the code of an observer it has notified, outside retire().
in_callback(t) == running(t, "observe") /\ top(t).next > 1 /\ top(t).retiring = {}

\* publish: an ordinary publication, at top level or from an observer that is
\* being notified of another one.
Publish(t) ==
  /\ started < MaxEvents
  /\ \/ stack[t] = <<>>
     \/ in_callback(t) /\ Len(stack[t]) <= MaxNested
  /\ order_free(t)
  /\ started' = started + 1
  /\ stack' = [stack EXCEPT ![t] = Append(@, NewFrame("stamp", FALSE))]
  /\ UNCHANGED <<ipc_seq, admitter, gate, ordered, inbox, draining, logs, committed,
                 delivered>>

\* Mutation: the gates stay locked while the observers run.
guards_kept(f) == f.held

\* drop(guards): no gate is locked any more when the observers are notified.
guards_dropped(f) == {}

\* Stamp the sequence number, hand over, release the gates.
Stamp(t) ==
  /\ running(t, "stamp")
  /\ LET f    == top(t)
         item == [id |-> f.id, seq |-> ipc_seq, reserved |-> f.delivery]
         room == ordered # NoInbox /\ inbox[ordered].open
                   /\ used(ordered) < Capacity
     IN  /\ inbox' =
              CASE f.handoff # NoInbox ->
                     [inbox EXCEPT ![f.handoff].queue = Append(@, item),
                                   ![f.handoff].permits = @ - 1]
                [] f.handoff = NoInbox /\ room ->
                     [inbox EXCEPT ![ordered].queue = Append(@, item)]
                [] f.handoff = NoInbox /\ ~room /\ ordered # NoInbox ->
                     [inbox EXCEPT ![ordered].lagged = @ + 1]
                [] OTHER -> inbox
         /\ delivered' = IF f.handoff = NoInbox /\ ordered = NoInbox /\ f.delivery
                         THEN Append(delivered, f.id) ELSE delivered
         /\ unreserved' = IF f.delivery THEN unreserved
                          ELSE Append(unreserved, ipc_seq)
         /\ committed' = IF f.delivery THEN Append(committed, f.id)
                         ELSE committed
         /\ set_top(t, [f EXCEPT !.at = "broadcast", !.seq = ipc_seq,
                                 !.held = guards_dropped(f)])
  /\ ipc_seq' = ipc_seq + 1
  /\ UNCHANGED <<started, admitter, gate, ordered, draining, broadcast, observed, routed>>

Broadcast(t) ==
  /\ running(t, "broadcast")
  /\ broadcast' = Append(broadcast, top(t).seq)
  /\ set_top(t, [top(t) EXCEPT !.at = "observe"])
  /\ UNCHANGED <<ipc_seq, started, admitter, gate, ordered, inbox, draining, unreserved,
                 observed, routed, committed, delivered>>

\* registry.notify: the next observer sees the event (and may then publish).
Observe(t) ==
  /\ running(t, "observe") /\ top(t).retiring = {}
  /\ top(t).next <= Observers
  /\ observed' = [observed EXCEPT ![top(t).next] =
                    Append(@, [seq |-> top(t).seq, by |-> t])]
  /\ set_top(t, [top(t) EXCEPT !.next = @ + 1])
  /\ UNCHANGED <<ipc_seq, started, admitter, gate, ordered, inbox, draining, unreserved,
                 broadcast, routed, committed, delivered>>

\* An observer retires a generation (it unloads the capsule, say): retire() blocks
\* this thread, inside publish_order, until the gate's commit mutex is free.
ObserverRetire(t, g) ==
  /\ in_callback(t)
  /\ gate[g] = "published"
  /\ set_top(t, [top(t) EXCEPT !.retiring = {g}])
  /\ UNCHANGED <<ipc_seq, started, admitter, gate, ordered, inbox, draining, logs,
                 committed, delivered>>

ObserverRetired(t) ==
  /\ running(t, "observe") /\ top(t).retiring # {}
  /\ \A g \in top(t).retiring : guard_released(g)
  /\ gate' = [g \in Gates |-> IF g \in top(t).retiring THEN "retired" ELSE gate[g]]
  /\ set_top(t, [top(t) EXCEPT !.retiring = {}])
  /\ UNCHANGED <<ipc_seq, started, admitter, ordered, inbox, draining, logs,
                 committed, delivered>>

\* drop(publish_guard), then the snapshot of the matching routes.
Unlock(t) ==
  /\ running(t, "observe") /\ top(t).retiring = {}
  /\ top(t).next > Observers
  /\ set_top(t, [top(t) EXCEPT !.at = "route", !.todo = Routes])
  /\ UNCHANGED <<ipc_seq, started, admitter, gate, ordered, inbox, draining, logs,
                 committed, delivered>>

\* enqueue_routes, one route; publish returns after the last one.
EnqueueRoute(t) ==
  /\ running(t, "route")
  /\ \/ \E r \in top(t).todo :
          /\ routed' = [routed EXCEPT ![r] = Append(@, top(t).seq)]
          /\ set_top(t, [top(t) EXCEPT !.todo = @ \ {r}])
     \/ /\ top(t).todo = {}
        /\ pop_top(t)
        /\ routed' = routed
  /\ UNCHANGED <<ipc_seq, started, admitter, gate, ordered, inbox, draining, unreserved,
                 broadcast, observed, committed, delivered>>

-----------------------------------------------------------------------------

Init ==
  /\ ipc_seq = 1 /\ started = 0
  /\ admitter = "none"
  /\ gate = [g \in Gates |-> "published"]
  /\ ordered = NoInbox /\ inbox = <<>> /\ draining = FALSE
  /\ stack = [t \in Threads |-> <<>>]
  /\ unreserved = <<>> /\ broadcast = <<>>
  /\ observed = [o \in 1 .. Observers |-> <<>>]
  /\ routed = [r \in Routes |-> <<>>]
  /\ committed = <<>> /\ delivered = <<>>

\* Steps a thread inside publish or commit takes without waiting for a caller.
PublishStep(t) ==
  \/ CommitGuard(t) \/ Guarded(t) \/ Stamp(t) \/ Broadcast(t) \/ Observe(t)
  \/ ObserverRetired(t) \/ Unlock(t) \/ EnqueueRoute(t)

Next ==
  \/ SubscribeOrdered \/ RegisterAdmitter \/ DropAdmitter
  \/ \E g \in Gates : Retire(g)
  \/ Recv \/ DropReceiver \/ Drain
  \/ \E t \in Threads :
       \/ ReserveStart(t) \/ ReserveDelivery(t) \/ ReserveHandoff(t)
       \/ ReserveSlot(t) \/ Cancel(t) \/ Commit(t) \/ Publish(t) \/ PublishStep(t)
       \/ \E g \in Gates : ObserverRetire(t, g)

Spec == Init /\ [][Next]_vars

\* A publisher inside the bus keeps running, the dispatcher keeps receiving while
\* its inbox is open, and the destructor of its receiver runs to its end.
Fairness ==
  /\ \A t \in Threads : WF_vars(PublishStep(t))
  /\ WF_vars(Recv) /\ WF_vars(Drain)

FairSpec == Spec /\ Fairness

-----------------------------------------------------------------------------
(* Properties. *)

\* Every variable of the bus has its type.
TypeOK ==
  /\ ipc_seq \in Nat /\ started \in 0 .. MaxEvents
  /\ admitter \in {"none", "live", "dead"}
  /\ gate \in [Gates -> {"published", "retired"}]
  /\ ordered \in 0 .. Len(inbox) /\ Len(inbox) <= MaxInboxes
  /\ inbox \in Seq(Inbox) /\ draining \in BOOLEAN
  /\ stack \in [Threads -> Seq(Frame)]
  /\ unreserved \in Seq(Nat) /\ broadcast \in Seq(Nat)
  /\ observed \in [1 .. Observers -> Seq([seq : Nat, by : Threads])]
  /\ routed \in [Routes -> Seq(Nat)]
  /\ committed \in Seq(Nat) /\ delivered \in Seq(Nat)

\* Holders of a permit of inbox c.
holders(c) ==
  {t \in Threads : \E i \in DOMAIN stack[t] :
     stack[t][i].handoff = c /\ stack[t][i].at \in {"reserved", "guards", "stamp"}}

\* Slots of the inbox are neither leaked nor oversubscribed: every permit has
\* one live reservation behind it, and queued deliveries plus permits fit the
\* capacity, through cancellation, failed commits and full inboxes.
PermitsExact ==
  \A c \in DOMAIN inbox :
    /\ inbox[c].permits = Cardinality(holders(c))
    /\ used(c) <= Capacity

\* A publication passes the commit point only while every runtime generation
\* it captured is still published: retirement cannot slip between the check
\* of the gates and the hand-over of the event.
CommitFence ==
  \A t \in Threads :
    running(t, "stamp") => \A g \in top(t).gates : gate[g] = "published"

increasing(s) == \A i, j \in DOMAIN s : i < j => s[i] < s[j]

\* The inbox and the broadcast channels see one total order, the order of the
\* sequence numbers, whichever mix of ordinary, reserved and nested
\* publications the threads run.  A synchronous observer sees it too (bus.rs: an
\* event "can never overtake an earlier [one] from another publisher"), but for a
\* follow-up published from inside an observer, which may come before its cause
\* on the same thread.
TransportOrder ==
  /\ \A c \in DOMAIN inbox :
       increasing([i \in DOMAIN inbox[c].queue |-> inbox[c].queue[i].seq])
  /\ increasing(broadcast)
  /\ increasing(unreserved)
  /\ \A o \in 1 .. Observers : \A i, j \in DOMAIN observed[o] :
       i < j /\ observed[o][i].seq > observed[o][j].seq
         => observed[o][i].by = observed[o][j].by

Log == INSTANCE ReliableLog WITH Publication <- 1 .. MaxEvents

\* The reserved lane implements the reliable log: each publication is committed once
\* and handed over in commit order, and every committed one is handed over.
ImplementsReliableLog == Log!FairSpec

\* publish_order is always released, whatever the observers do with it locked:
\* publish a follow-up on the same thread, or retire a generation that this very
\* publication has just committed through (bus.rs: those callbacks "must not
\* deadlock this commit").
OrderIsReleased == \A t \in Threads : holds_order(t) ~> ~holds_order(t)
=============================================================================
