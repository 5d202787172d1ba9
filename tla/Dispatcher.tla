----------------------------- MODULE Dispatcher -----------------------------
(***************************************************************************)
(* The dispatcher's consumer queues                                        *)
(* (crates/astrid-capsule/src/dispatcher.rs, dispatcher/consumer.rs,       *)
(* dispatcher/queues.rs and the single-target path of                      *)
(* dispatcher/admission.rs).                                               *)
(*                                                                         *)
(* One capsule runtime.  Each principal gets a bounded queue and a         *)
(* consumer task on first use; beyond a cap new principals share the queue *)
(* of key None.  Consumers evict themselves when idle, close and drain     *)
(* when the runtime's gate or the dispatcher retires, and exit.  The       *)
(* dispatch loop takes publications from the ordered inbox: it sends       *)
(* ordinary ones with try_send, respawning the consumer once if the queue  *)
(* turns out closed, and hands reserved ones over with their permits.      *)
(*                                                                         *)
(* A channel is identified by its position in chan.  Its strong sender     *)
(* count is what the map, the dispatch loop and the reservers hold.        *)
(***************************************************************************)
EXTENDS Integers, Sequences, FiniteSets

CONSTANTS
  Principals,    \* PrincipalKey Some(p)
  Shared,        \* PrincipalKey None: unattributed events and the degrade target
  Reservers,     \* tasks that publish through a reservation
  Capacity,      \* CAPSULE_EVENT_QUEUE_CAPACITY
  MaxQueues,     \* MAX_DISPATCHER_QUEUES_PER_CAPSULE
  MaxWork        \* bound: publications started

ASSUME ConstAssumption ==
  /\ Shared \notin Principals
  /\ IsFiniteSet(Reservers) /\ "ordinary" \notin Reservers
  /\ Capacity \in Nat \ {0} /\ MaxQueues \in Nat \ {0} /\ MaxWork \in Nat

Keys == Principals \cup {Shared}
NoChan == 0

VARIABLES
  map,         \* ConsumerQueues.entries: key -> channel
  chan,        \* channels created so far, with their consumer task
  gate,        \* delivery_admission_gate of the runtime, if it has one
  stopping,    \* ConsumerQueues.stopping
  inbox,       \* ordered inbox
  running,     \* the dispatch loop runs (its inbox is open)
  loop,        \* what the dispatch loop is doing
  res,         \* what each reserver is doing
  started,     \* publications started
  published,   \* publications that entered the inbox
  acked,       \* history: reserved publications that committed
  invoked,     \* history: work handed to the capsule, and by which queue, in order
  shed,        \* history: work dropped because a queue was full
  lost         \* history: work dropped on a closed queue while not stopping

history == <<acked, invoked, shed, lost>>
vars == <<map, chan, gate, stopping, inbox, running, loop, res, started,
          published, history>>

Work == [id : Nat, principal : Keys]
Channel == [key : Keys, queue : Seq(Work), closed : BOOLEAN,
            draining : BOOLEAN, task : {"recv", "invoke", "exit"}]
NoWork == [id |-> 0, principal |-> Shared]
IdleLoop == [at |-> "idle", work |-> NoWork, sender |-> NoChan]
IdleRes == [at |-> "idle", principal |-> Shared, sender |-> NoChan]

-----------------------------------------------------------------------------
(* Channels. *)

\* Outstanding permits of channel c.
permits(c) ==
  Cardinality({t \in Reservers : res[t].sender = c
                                   /\ res[t].at \in {"permit", "committed"}})

\* rx.sender_strong_count: the map's sender and every clone.
strong(c) ==
  (IF map[chan[c].key] = c THEN 1 ELSE 0)
    + (IF loop.sender = c THEN 1 ELSE 0)
    + Cardinality({t \in Reservers : res[t].sender = c})

used(c) == Len(chan[c].queue) + permits(c)

has_room(c) == used(c) < Capacity
is_closed(c) == c = NoChan \/ chan[c].closed

retired == stopping = "retired" \/ gate = "retired"

-----------------------------------------------------------------------------
(* get_or_spawn_consumer, atomic under the map lock: the new map, the new    *)
(* channels and the sender it returns.                                       *)

unstale(m, k) == IF m[k] # NoChan /\ chan[m[k]].closed
                 THEN [m EXCEPT ![k] = NoChan] ELSE m

queues_per_capsule(m) == Cardinality({k \in Keys : m[k] # NoChan})

degrades(m, p) == p # Shared /\ queues_per_capsule(m) >= MaxQueues

\* Mutation: a full queue is replaced like a dead one.
reusable_with_room(c) == c # NoChan /\ ~chan[c].closed /\ has_room(c)

reusable(c) == c # NoChan /\ ~chan[c].closed

refuses == stopping = "retired"

get_or_spawn_consumer(p) ==
  LET m1  == IF reusable(map[p]) THEN map ELSE unstale(map, p)
      key == IF ~reusable(m1[p]) /\ degrades(m1, p) THEN Shared ELSE p
      m2  == IF reusable(m1[key]) THEN m1 ELSE unstale(m1, key)
      new == Len(chan) + 1
  IN  CASE refuses ->
             [map |-> map, chan |-> chan, sender |-> NoChan]
        [] ~refuses /\ reusable(m2[key]) ->
             [map |-> m2, chan |-> chan, sender |-> m2[key]]
        [] OTHER ->
             [map |-> [m2 EXCEPT ![key] = new],
              chan |-> Append(chan, [key |-> key, queue |-> <<>>,
                                     closed |-> FALSE, draining |-> FALSE,
                                     task |-> "recv"]),
              sender |-> new]

-----------------------------------------------------------------------------
(* Ordinary publication and the dispatch loop. *)

\* publish of an ordinary event that matches this capsule.
Publish(p) ==
  /\ started < MaxWork
  /\ running
  /\ started' = started + 1
  /\ published' = published + 1
  /\ inbox' = Append(inbox, [work |-> [id |-> published + 1, principal |-> p],
                             by |-> "ordinary"])
  /\ UNCHANGED <<map, chan, gate, stopping, running, loop, res, history>>

\* dispatch_single: look the consumer up.
LoopTake ==
  /\ running /\ loop.at = "idle" /\ inbox # <<>>
  /\ Head(inbox).by = "ordinary"
  /\ LET w == Head(inbox).work
         g == get_or_spawn_consumer(w.principal)
     IN  /\ map' = g.map /\ chan' = g.chan
         /\ loop' = [at |-> "send", work |-> w, sender |-> g.sender]
  /\ inbox' = Tail(inbox)
  /\ UNCHANGED <<gate, stopping, running, res, started, published, history>>

enqueue(c, w) == [chan EXCEPT ![c].queue = Append(@, w)]

\* try_send; a closed queue sends the loop to the respawn, unless stopping.
LoopSend ==
  /\ loop.at = "send"
  /\ LET c == loop.sender
         w == loop.work
     IN  IF is_closed(c)
         THEN /\ loop' = IF stopping = "retired" THEN IdleLoop
                         ELSE [loop EXCEPT !.at = "respawn", !.sender = NoChan]
              /\ UNCHANGED <<chan, shed>>
         ELSE /\ loop' = IdleLoop
              /\ IF has_room(c) THEN chan' = enqueue(c, w) /\ shed' = shed
                 ELSE chan' = chan /\ shed' = shed \cup {w}
  /\ UNCHANGED <<map, gate, stopping, inbox, running, res, started, published,
                 acked, invoked, lost>>

LoopRespawn ==
  /\ loop.at = "respawn"
  /\ LET g == get_or_spawn_consumer(loop.work.principal)
     IN  /\ map' = g.map /\ chan' = g.chan
         /\ loop' = [loop EXCEPT !.at = "resend", !.sender = g.sender]
  /\ UNCHANGED <<gate, stopping, inbox, running, res, started, published,
                 history>>

\* The retry; a queue closed again drops the event.
LoopResend ==
  /\ loop.at = "resend"
  /\ LET c == loop.sender
         w == loop.work
     IN  IF is_closed(c)
         THEN /\ lost' = IF stopping = "retired" THEN lost ELSE lost \cup {w}
              /\ UNCHANGED <<chan, shed>>
         ELSE /\ lost' = lost
              /\ IF has_room(c) THEN chan' = enqueue(c, w) /\ shed' = shed
                 ELSE chan' = chan /\ shed' = shed \cup {w}
  /\ loop' = IdleLoop
  /\ UNCHANGED <<map, gate, stopping, inbox, running, res, started, published,
                 acked, invoked>>

\* into_unreserved of a reserved publication: its permit sends the work, even
\* into a queue that closed since.
LoopDeliver ==
  /\ running /\ loop.at = "idle" /\ inbox # <<>>
  /\ Head(inbox).by # "ordinary"
  /\ LET t == Head(inbox).by
     IN  /\ chan' = enqueue(res[t].sender, Head(inbox).work)
         /\ res' = [res EXCEPT ![t] = IdleRes]
  /\ inbox' = Tail(inbox)
  /\ UNCHANGED <<map, gate, stopping, running, loop, started, published,
                 history>>

\* The loop sees the retired gate and returns.
LoopStop ==
  /\ running /\ loop.at = "idle" /\ stopping = "retired"
  /\ running' = FALSE
  /\ UNCHANGED <<map, chan, gate, stopping, inbox, loop, res, started, published,
                 history>>

\* Dropping its receiver takes what is left in the inbox, one at a time: a
\* reserved publication is delivered, an ordinary one dropped.
LoopDrain ==
  /\ ~running /\ inbox # <<>>
  /\ inbox' = Tail(inbox)
  /\ IF Head(inbox).by = "ordinary" THEN UNCHANGED <<chan, res>>
     ELSE LET t == Head(inbox).by
          IN  /\ chan' = enqueue(res[t].sender, Head(inbox).work)
              /\ res' = [res EXCEPT ![t] = IdleRes]
  /\ UNCHANGED <<map, gate, stopping, running, loop, started, published, history>>

-----------------------------------------------------------------------------
(* Reserved publication, one target. *)

Reserve(t, p) ==
  /\ res[t].at = "idle"
  /\ started < MaxWork
  /\ stopping # "retired"
  /\ started' = started + 1
  /\ LET g == get_or_spawn_consumer(p)
     IN  /\ map' = g.map /\ chan' = g.chan
         /\ res' = [res EXCEPT ![t] = [at |-> "reserve", principal |-> p,
                                       sender |-> g.sender]]
  /\ UNCHANGED <<gate, stopping, inbox, running, loop, published, history>>

\* try_reserve_owned or reserve_owned: a closed queue is an error.
ReservePermit(t) ==
  /\ res[t].at = "reserve"
  /\ LET c == res[t].sender
     IN  \/ is_closed(c) /\ res' = [res EXCEPT ![t] = IdleRes]
         \/ /\ ~is_closed(c) /\ has_room(c)
            /\ res' = [res EXCEPT ![t].at = "permit"]
  /\ UNCHANGED <<map, chan, gate, stopping, inbox, running, loop, started,
                 published, history>>

\* commit_reserved: both gates are published and the inbox is open.
may_commit == running /\ ~retired

Commit(t) ==
  /\ res[t].at = "permit"
  /\ IF may_commit
     THEN /\ published' = published + 1
          /\ inbox' = Append(inbox, [work |-> [id |-> published + 1,
                                               principal |-> res[t].principal],
                                     by |-> t])
          /\ res' = [res EXCEPT ![t].at = "committed"]
          /\ acked' = acked \cup {published + 1}
     ELSE /\ res' = [res EXCEPT ![t] = IdleRes]
          /\ UNCHANGED <<published, inbox, acked>>
  /\ UNCHANGED <<map, chan, gate, stopping, running, loop, started, invoked,
                 shed, lost>>

Cancel(t) ==
  /\ res[t].at \in {"reserve", "permit"}
  /\ res' = [res EXCEPT ![t] = IdleRes]
  /\ UNCHANGED <<map, chan, gate, stopping, inbox, running, loop, started,
                 published, history>>

-----------------------------------------------------------------------------
(* run_consumer. *)

Recv(c) ==
  /\ chan[c].task = "recv"
  /\ chan[c].queue # <<>>
  /\ chan' = [chan EXCEPT ![c].queue = Tail(@), ![c].task = "invoke"]
  /\ invoked' = Append(invoked, [work |-> Head(chan[c].queue), key |-> chan[c].key])
  /\ UNCHANGED <<map, gate, stopping, inbox, running, loop, res, started,
                 published, acked, shed, lost>>

Return(c) ==
  /\ chan[c].task = "invoke"
  /\ chan' = [chan EXCEPT ![c].task = "recv"]
  /\ UNCHANGED <<map, gate, stopping, inbox, running, loop, res, started,
                 published, history>>

\* The runtime or the dispatcher retired: refuse new senders, then drain.
Close(c) ==
  /\ chan[c].task = "recv" /\ ~chan[c].draining
  /\ retired
  /\ chan' = [chan EXCEPT ![c].closed = TRUE, ![c].draining = TRUE]
  /\ UNCHANGED <<map, gate, stopping, inbox, running, loop, res, started,
                 published, history>>

exited(c) == [chan EXCEPT ![c].task = "exit", ![c].closed = TRUE]

\* Mutation: senders handed out are not counted.
idle_uncounted(c) == chan[c].queue = <<>> /\ map[chan[c].key] = c

idle(c) ==
  chan[c].queue = <<>> /\ strong(c) = 1 /\ map[chan[c].key] = c

evicted_map(c) == [map EXCEPT ![chan[c].key] = NoChan]

\* evict_idle, under the map lock, after the idle grace.
EvictIdle(c) ==
  /\ chan[c].task = "recv" /\ ~chan[c].draining
  /\ idle(c)
  /\ map' = evicted_map(c)
  /\ chan' = exited(c)
  /\ UNCHANGED <<gate, stopping, inbox, running, loop, res, started, published,
                 history>>

\* Mutation: the drain stops at an empty queue.
nothing_left_queued(c) == chan[c].queue = <<>>

\* Mutation: a consumer exits only while it is still mapped.
nothing_left_mapped(c) ==
  chan[c].queue = <<>> /\ permits(c) = 0 /\ map[chan[c].key] = c

\* recv returns None: empty, and no permit can still send.
nothing_left(c) == chan[c].queue = <<>> /\ permits(c) = 0

\* Only the consumer's own entry is removed.
unmapped(c) ==
  IF map[chan[c].key] = c THEN [map EXCEPT ![chan[c].key] = NoChan] ELSE map

Exit(c) ==
  /\ chan[c].task = "recv"
  /\ chan[c].draining \/ strong(c) = 0
  /\ nothing_left(c)
  /\ map' = unmapped(c)
  /\ chan' = exited(c)
  /\ UNCHANGED <<gate, stopping, inbox, running, loop, res, started, published,
                 history>>

-----------------------------------------------------------------------------
(* Retirement. *)

GateRetire ==
  /\ gate = "published"
  /\ gate' = "retired"
  /\ UNCHANGED <<map, chan, stopping, inbox, running, loop, res, started,
                 published, history>>

\* DispatcherControl::stop: retire, then clear the map.
StopRetire ==
  /\ stopping = "published"
  /\ stopping' = "retired"
  /\ UNCHANGED <<map, chan, gate, inbox, running, loop, res, started,
                 published, history>>

StopClear ==
  /\ stopping = "retired"
  /\ \E k \in Keys : map[k] # NoChan
  /\ map' = [k \in Keys |-> NoChan]
  /\ UNCHANGED <<chan, gate, stopping, inbox, running, loop, res, started,
                 published, history>>

-----------------------------------------------------------------------------

Init ==
  /\ map = [k \in Keys |-> NoChan]
  /\ chan = <<>>
  /\ gate \in {"none", "published"} /\ stopping = "published"
  /\ inbox = <<>> /\ running = TRUE
  /\ loop = IdleLoop
  /\ res = [t \in Reservers |-> IdleRes]
  /\ started = 0 /\ published = 0
  /\ acked = {} /\ invoked = <<>> /\ shed = {} /\ lost = {}

LoopStep ==
  \/ LoopTake \/ LoopSend \/ LoopRespawn \/ LoopResend \/ LoopDeliver
  \/ LoopStop \/ LoopDrain

ReserverStep(t) == ReservePermit(t) \/ Commit(t)

ConsumerStep(c) == Recv(c) \/ Return(c) \/ Close(c) \/ Exit(c)

Next ==
  \/ \E p \in Keys : Publish(p) \/ \E t \in Reservers : Reserve(t, p)
  \/ LoopStep
  \/ \E t \in Reservers : ReserverStep(t) \/ Cancel(t)
  \/ \E c \in DOMAIN chan : ConsumerStep(c) \/ EvictIdle(c)
  \/ GateRetire \/ StopRetire \/ StopClear

Spec == Init /\ [][Next]_vars

MaxChannels == 2 * MaxWork

\* The dispatch loop, the reservers and the consumer tasks keep running, and
\* invocations return.
Fairness ==
  /\ WF_vars(LoopStep) /\ WF_vars(StopClear)
  /\ \A t \in Reservers : WF_vars(ReserverStep(t))
  /\ \A c \in 1 .. MaxChannels : WF_vars(c \in DOMAIN chan /\ ConsumerStep(c))

FairSpec == Spec /\ Fairness

-----------------------------------------------------------------------------
(* Properties. *)

\* Every variable has its type, and no queue is oversubscribed by concurrent
\* senders and reservations.
TypeOK ==
  /\ map \in [Keys -> 0 .. Len(chan)]
  /\ chan \in Seq(Channel) /\ Len(chan) <= MaxChannels
  /\ \A c \in DOMAIN chan : used(c) <= Capacity
  /\ gate \in {"none", "published", "retired"} /\ stopping \in {"published", "retired"}
  /\ inbox \in Seq([work : Work, by : Reservers \cup {"ordinary"}])
  /\ running \in BOOLEAN
  /\ loop \in [at : {"idle", "send", "respawn", "resend"}, work : Work,
               sender : 0 .. Len(chan)]
  /\ res \in [Reservers -> [at : {"idle", "reserve", "permit", "committed"},
                            principal : Keys, sender : 0 .. Len(chan)]]
  /\ started \in Nat /\ published \in Nat
  /\ acked \in SUBSET Nat /\ invoked \in Seq([work : Work, key : Keys])
  /\ shed \in SUBSET Work /\ lost \in SUBSET Work

\* While nothing retires, a key has one consumer task, so the events of a
\* principal are invoked one at a time: idle eviction and respawn never leave
\* two consumers running.
OneConsumerPerKey ==
  ~retired =>
    \A c, d \in DOMAIN chan :
      chan[c].key = chan[d].key /\ chan[c].task # "exit" /\ chan[d].task # "exit"
        => c = d

\* dispatcher.rs: the "Closed is never dropped" invariant: an idle consumer that
\* closes while the loop holds its sender costs no event, as long as the
\* runtime's own gate is not retired.
ClosedNeverDropped == gate # "retired" => lost = {}

\* dispatcher.rs: "Within a single capsule, events are still delivered in
\* publish order via per-(capsule, principal) mpsc queues": what goes through
\* the queues of one key, those of respawned consumers included, reaches the
\* capsule in publish order.  Stated until the runtime's own gate retires: from
\* then on a closed queue drains while a new one may take later events.
PublishOrder ==
  gate # "retired" => \A i, j \in DOMAIN invoked :
    i < j /\ invoked[i].key = invoked[j].key
      => invoked[i].work.id < invoked[j].work.id

\* A publication acknowledged to its publisher reaches the capsule.
AckedIsInvoked ==
  \A w \in 1 .. MaxWork :
    w \in acked ~> \E i \in DOMAIN invoked : invoked[i].work.id = w

\* Stopping the dispatcher drains and ends every consumer.
StopDrains ==
  stopping = "retired" ~>
    (/\ \A c \in DOMAIN chan : chan[c].task = "exit"
     /\ \A k \in Keys : map[k] = NoChan)
=============================================================================
