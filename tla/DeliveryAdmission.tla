-------------------------- MODULE DeliveryAdmission --------------------------
(***************************************************************************)
(* Reservation of consumer capacity before a publication                   *)
(* (crates/astrid-capsule/src/dispatcher/admission.rs, Admitter::reserve,  *)
(* with wait_graph.rs and the consumers of consumer.rs).                   *)
(*                                                                         *)
(* A publication matches handlers of one or more consumers and reserves    *)
(* one slot of each bounded queue, in match order.  A full queue is waited *)
(* for while the slots already reserved stay reserved.  A publication with *)
(* a source key first enters the wait graph, and is refused                *)
(* (SelfDependency) when the wait would close a cycle there.  Only an      *)
(* invocation of a consumer can have a source key, and only when the       *)
(* registry, in the view of the principal it publishes as, resolves its    *)
(* source to the runtime that is executing: publishing anonymously, as a   *)
(* principal that does not see the capsule, or from a reloaded runtime     *)
(* blocks the consumer without an edge.  Publishers outside any consumer   *)
(* (the uplink, run loops, chains) never enter the graph.                  *)
(*                                                                         *)
(* publish borrows the host state of its invocation exclusively and a      *)
(* consumer runs one invocation at a time (OneConsumerPerKey of            *)
(* Dispatcher), so a consumer has at most one publication in progress.     *)
(*                                                                         *)
(* Consumers stay up here; Dispatcher models their lifecycle.  The path of *)
(* a committed publication through the ordered inbox is EventBus's.  Slots *)
(* of a tokio mpsc channel are granted to waiters in arrival order, and    *)
(* try_reserve cannot overtake a waiter.                                   *)
(***************************************************************************)
EXTENDS Integers, Sequences, FiniteSets, WaitGraph

CONSTANTS
  Externals,    \* publishers that run outside a consumer
  Fanouts,      \* sequences of target keys a publication can match
  Resolves,     \* outcomes of resolving a consumer's source (BOOLEAN: any)
  Capacity,     \* CAPSULE_EVENT_QUEUE_CAPACITY
  MaxPubs       \* bound: publications started

Actors == Externals \cup Keys

ASSUME ConstAssumption ==
  /\ Externals \cap Keys = {}
  /\ IsFiniteSet(Externals) /\ IsFiniteSet(Keys)
  /\ Fanouts \subseteq Seq(Keys) \ {<<>>}
  /\ Resolves \in (SUBSET BOOLEAN) \ {{}}
  /\ Capacity \in Nat \ {0}
  /\ MaxPubs \in Nat

VARIABLES
  queued,     \* work in each consumer's queue
  invoking,   \* the consumer runs an invocation
  at,         \* what each actor's publication is doing
  sourced,    \* it has a source key
  targets,    \* its matches
  got,        \* number of them whose slot it holds
  waiters,    \* reserve_owned futures parked on each queue, in order
  edges,      \* the wait graph
  pubs        \* publications started

vars == <<queued, invoking, at, sourced, targets, got, waiters, edges, pubs>>

\* What source_key can come out as for a publication of a: ACTIVE_CONSUMER is
\* set for consumers only, and counts only if the registry resolves the source.
source_keys(a) == IF a \in Keys THEN Resolves ELSE {FALSE}

Holding == {"reserve", "wait", "reserved"}

\* The slots of queue k that publication a holds.
slots(a, k) == {a} \X {i \in 1 .. got[a] : targets[a][i] = k}
held(a, k) == Cardinality(slots(a, k))

\* Slots of queue k in use: queued work and reservations.
used(k) == queued[k] + Cardinality(UNION {slots(a, k) : a \in Actors})

target(a) == targets[a][got[a] + 1]

\* Mutation: a cancelled wait leaves its edge behind.
left_kept(a) == edges

\* The wait graph once a stops waiting for its target.
left(a) ==
  IF sourced[a] /\ at[a] = "wait" THEN dropped(edges, a, target(a)) ELSE edges

-----------------------------------------------------------------------------

\* An external publisher, or the guest code of a running invocation, publishes.
Start(a, f, src) ==
  /\ at[a] = "none"
  /\ a \in Keys => invoking[a]
  /\ pubs < MaxPubs
  /\ pubs' = pubs + 1
  /\ at' = [at EXCEPT ![a] = "reserve"]
  /\ src \in source_keys(a)
  /\ sourced' = [sourced EXCEPT ![a] = src]
  /\ targets' = [targets EXCEPT ![a] = f]
  /\ got' = [got EXCEPT ![a] = 0]
  /\ UNCHANGED <<queued, invoking, waiters, edges>>

\* The publication of a is over: whatever it held is released.
over(a) ==
  /\ at' = [at EXCEPT ![a] = "none"]
  /\ sourced' = [sourced EXCEPT ![a] = FALSE]
  /\ targets' = [targets EXCEPT ![a] = <<>>]
  /\ got' = [got EXCEPT ![a] = 0]

after_slot(a) == IF got[a] + 1 = Len(targets[a]) THEN "reserved" ELSE "reserve"

\* try_reserve_owned succeeds.
TryReserve(a) ==
  /\ at[a] = "reserve"
  /\ used(target(a)) < Capacity
  /\ waiters[target(a)] = <<>>
  /\ got' = [got EXCEPT ![a] = @ + 1]
  /\ at' = [at EXCEPT ![a] = after_slot(a)]
  /\ UNCHANGED <<queued, invoking, sourced, targets, waiters, edges, pubs>>

\* The queue is full: wait for it, or fail with SelfDependency and drop every
\* slot reserved so far.
Full(a) ==
  LET k == target(a)
  IN  /\ at[a] = "reserve"
      /\ used(k) >= Capacity \/ waiters[k] # <<>>
      /\ IF sourced[a] /\ rejects(edges, a, k)
         THEN over(a) /\ UNCHANGED <<waiters, edges>>
         ELSE /\ at' = [at EXCEPT ![a] = "wait"]
              /\ waiters' = [waiters EXCEPT ![k] = Append(@, a)]
              /\ edges' = IF sourced[a] THEN entered(edges, a, k) ELSE edges
              /\ UNCHANGED <<sourced, targets, got>>
      /\ UNCHANGED <<queued, invoking, pubs>>

\* A freed slot goes to the first waiter.
Grant(k) ==
  /\ waiters[k] # <<>>
  /\ used(k) < Capacity
  /\ LET a == Head(waiters[k])
     IN  /\ got' = [got EXCEPT ![a] = @ + 1]
         /\ at' = [at EXCEPT ![a] = after_slot(a)]
         /\ edges' = left(a)
  /\ waiters' = [waiters EXCEPT ![k] = Tail(@)]
  /\ UNCHANGED <<queued, invoking, sourced, targets, pubs>>

\* The waiters of a queue once the future of w, parked there, is dropped.
without(s, w) ==
  LET i == CHOOSE j \in 1 .. Len(s) : s[j] = w
  IN  SubSeq(s, 1, i - 1) \o SubSeq(s, i + 1, Len(s))

\* The caller drops the future or the reservation (cancellation token, revoked
\* invocation authority, failed commit): slots and edge are released.
Cancel(a) ==
  /\ at[a] \in {"wait", "reserved"}
  /\ over(a)
  /\ edges' = left(a)
  /\ waiters' = IF at[a] = "wait" THEN [waiters EXCEPT ![target(a)] = without(@, a)]
                                   ELSE waiters
  /\ UNCHANGED <<queued, invoking, pubs>>

\* publish commits: every reserved slot becomes queued work.
Commit(a) ==
  /\ at[a] = "reserved"
  /\ queued' = [k \in Keys |-> queued[k] + held(a, k)]
  /\ over(a)
  /\ UNCHANGED <<invoking, waiters, edges, pubs>>

\* run_consumer receives the next work, which frees its slot, and invokes.
Invoke(k) ==
  /\ ~invoking[k]
  /\ queued[k] > 0
  /\ queued' = [queued EXCEPT ![k] = @ - 1]
  /\ invoking' = [invoking EXCEPT ![k] = TRUE]
  /\ UNCHANGED <<at, sourced, targets, got, waiters, edges, pubs>>

Return(k) ==
  /\ invoking[k]
  /\ at[k] = "none"
  /\ invoking' = [invoking EXCEPT ![k] = FALSE]
  /\ UNCHANGED <<queued, at, sourced, targets, got, waiters, edges, pubs>>

-----------------------------------------------------------------------------

Init ==
  /\ queued = [k \in Keys |-> 0]
  /\ invoking = [k \in Keys |-> FALSE]
  /\ at = [a \in Actors |-> "none"]
  /\ sourced = [a \in Actors |-> FALSE]
  /\ targets = [a \in Actors |-> <<>>]
  /\ got = [a \in Actors |-> 0]
  /\ waiters = [k \in Keys |-> <<>>]
  /\ edges = NoEdges
  /\ pubs = 0

Next ==
  \/ \E a \in Actors :
       \/ \E f \in Fanouts, src \in BOOLEAN : Start(a, f, src)
       \/ TryReserve(a) \/ Full(a) \/ Cancel(a) \/ Commit(a)
  \/ \E k \in Keys : Grant(k) \/ Invoke(k) \/ Return(k)

Spec == Init /\ [][Next]_vars

\* Publications inside reserve and commit keep going, freed slots are granted,
\* consumers receive and invocations that do not wait return.
Fairness ==
  /\ \A a \in Actors : WF_vars(TryReserve(a) \/ Full(a)) /\ WF_vars(Commit(a))
  /\ \A k \in Keys : WF_vars(Grant(k)) /\ WF_vars(Invoke(k)) /\ WF_vars(Return(k))

FairSpec == Spec /\ Fairness

-----------------------------------------------------------------------------
(* Properties. *)

\* Every variable has its type and no queue is oversubscribed: queued work and
\* reservations of concurrent publishers fit the capacity.
TypeOK ==
  /\ queued \in [Keys -> Nat]
  /\ invoking \in [Keys -> BOOLEAN]
  /\ at \in [Actors -> {"none"} \cup Holding]
  /\ sourced \in [Actors -> BOOLEAN]
  /\ targets \in [Actors -> Seq(Keys)]
  /\ got \in [Actors -> Nat]
  /\ waiters \in [Keys -> Seq(Actors)]
  /\ edges \in Graph
  /\ pubs \in 0 .. MaxPubs
  /\ \A k \in Keys : used(k) <= Capacity

\* No consumer waits on itself through other consumers, whatever waits are
\* entered, granted and cancelled concurrently.
WaitsAcyclic == acyclic(present(edges))

\* The graph is exactly the set of current waits of publications with a source
\* key: a guard that outlived its wait would refuse publications for ever, one
\* dropped early, or keyed by another wait, would let a cycle in.
EdgesExact ==
  \A s, t \in Keys :
    edges[<<s, t>>] =
      IF at[s] = "wait" /\ sourced[s] /\ target(s) = t THEN 1 ELSE 0

\* A set of waiting publications that can only be unblocked by each other:
\* the queue each one waits for is held by slots of the set, and by work whose
\* consumer is itself blocked in the set.
stuck(D) ==
  \A a \in D :
    /\ at[a] = "wait"
    /\ LET k == target(a)
       IN  /\ \A b \in Actors \ D : held(b, k) = 0
           /\ queued[k] > 0 => invoking[k] /\ k \in D
           /\ waiters[k] # <<>> => used(k) >= Capacity

\* wait_graph.rs: "Reject circular publication waits": no publications wait on
\* each other for ever.
NoCircularWait == \A D \in (SUBSET Actors) \ {{}} : ~stuck(D)

\* D depends on itself through something the wait graph does not show: a
\* member holds the slot of an earlier match while it waits, or is a consumer
\* blocked by a publication without a source key.
unseen(D) == \E a \in D : got[a] > 0 \/ (a \in Keys /\ ~sourced[a])

\* The wait graph refuses every other circular wait: publications stuck on each
\* other include one that holds a slot reserved for an earlier match, or one of
\* a consumer whose source did not resolve.
CircularOnlyUnseen ==
  \A D \in (SUBSET Actors) \ {{}} : stuck(D) => unseen(D)

\* Every wait for capacity ends, unless the publication belongs to a circular
\* wait that the graph cannot see.
WaitEnds ==
  \A a \in Actors :
    at[a] = "wait" ~>
      \/ at[a] # "wait"
      \/ \E D \in SUBSET Actors : a \in D /\ stuck(D) /\ unseen(D)
=============================================================================
