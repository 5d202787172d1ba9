----------------------------- MODULE ChainLocks -----------------------------
(***************************************************************************)
(* Middleware chains and their locks                                       *)
(* (crates/astrid-capsule/src/dispatcher/locks.rs and the chain task of    *)
(* dispatch_to_capsule_queues in dispatcher.rs).                           *)
(*                                                                         *)
(* An event matched at distinct priorities runs its handlers one after     *)
(* another in a task of its own.  Around each handler the task holds the   *)
(* tokio mutex of (runtime, principal), found in or added to a shared map, *)
(* and prunes the map's entry afterwards if nobody else refers to it.      *)
(*                                                                         *)
(* A mutex is an allocation: its identity may be reused once no Arc refers *)
(* to it.  The map's RwLock makes each map access one step; between the    *)
(* accesses, and between the end of a guard's Drop body and the drop of    *)
(* its Arc, the other tasks run.                                           *)
(***************************************************************************)
EXTENDS Naturals, Sequences, FiniteSets

CONSTANTS
  Tasks,      \* chain tasks that may run at once
  Keys,       \* (RuntimeId, PrincipalKey)
  Mutexes,    \* identities an allocated mutex can have
  None,       \* no entry, no mutex
  Chains      \* keys of the handlers an event can match, in priority order

ASSUME ConstAssumption ==
  /\ IsFiniteSet(Tasks)
  /\ None \notin Mutexes
  /\ Chains \subseteq Seq(Keys) \ {<<>>}

VARIABLES
  map,     \* ChainLocks: key -> mutex or None
  line,    \* of each mutex, its holder followed by the waiters in order
  at,      \* where each task is
  todo,    \* handlers the task has yet to leave
  mutex,   \* the mutex the task refers to
  halted   \* the last handler returned Final or Deny

vars == <<map, line, at, todo, mutex, halted>>

key(t) == Head(todo[t])

-----------------------------------------------------------------------------
(* Strong references of an Arc<Mutex>. *)

\* A task in acquire_chain_lock, or holding the lock, has the mutex twice (the
\* local and the one lock_owned consumes); after guard.take() only once.
Twice == {"lock", "wait", "invoke"}
Once == {"prune", "drop"}

refs(m) ==
  {<<t, "mutex">> : t \in {u \in Tasks : mutex[u] = m /\ at[u] \in Twice \cup Once}}
    \cup {<<t, "guard">> : t \in {u \in Tasks : mutex[u] = m /\ at[u] \in Twice}}

\* Arc::strong_count of the entry of key k.
strong_count(k) == Cardinality(refs(map[k])) + 1

unallocated(m) == refs(m) = {} /\ \A k \in Keys : map[k] # m

-----------------------------------------------------------------------------

Start(t, c) ==
  /\ at[t] = "idle"
  /\ at' = [at EXCEPT ![t] = "read"]
  /\ todo' = [todo EXCEPT ![t] = c]
  /\ halted' = [halted EXCEPT ![t] = FALSE]
  /\ UNCHANGED <<map, line, mutex>>

\* acquire_chain_lock: the read-locked fast path.
Read(t) ==
  /\ at[t] = "read"
  /\ IF map[key(t)] # None
     THEN /\ at' = [at EXCEPT ![t] = "lock"]
          /\ mutex' = [mutex EXCEPT ![t] = map[key(t)]]
     ELSE /\ at' = [at EXCEPT ![t] = "miss"]
          /\ mutex' = mutex
  /\ UNCHANGED <<map, line, todo, halted>>

\* Mutation: the entry is not looked up again under the write lock.
entry_found_never(k) == FALSE

entry_found(k) == map[k] # None

\* The write-locked path: entry(key).or_insert_with.
Insert(t) ==
  /\ at[t] = "miss"
  /\ \E m \in Mutexes :
       /\ IF entry_found(key(t)) THEN m = map[key(t)] ELSE unallocated(m)
       /\ map' = [map EXCEPT ![key(t)] = m]
       /\ mutex' = [mutex EXCEPT ![t] = m]
  /\ at' = [at EXCEPT ![t] = "lock"]
  /\ UNCHANGED <<line, todo, halted>>

\* lock_owned: queue for the mutex, in arrival order.
Lock(t) ==
  /\ at[t] = "lock"
  /\ line' = [line EXCEPT ![mutex[t]] = Append(@, t)]
  /\ at' = [at EXCEPT ![t] = "wait"]
  /\ UNCHANGED <<map, todo, mutex, halted>>

\* The mutex is granted: invoke the handler.
Acquire(t) ==
  /\ at[t] = "wait"
  /\ line[mutex[t]] # <<>> /\ Head(line[mutex[t]]) = t
  /\ at' = [at EXCEPT ![t] = "invoke"]
  /\ UNCHANGED <<map, line, todo, mutex, halted>>

\* Mutation: the guard is kept until the chain ends.
released_last(t) ==
  IF Len(todo[t]) = 1 THEN Tail(line[mutex[t]]) ELSE line[mutex[t]]

released(t) == Tail(line[mutex[t]])

\* The handler returned; the guard's Drop first unlocks the mutex.  halt is
\* Final or Deny; Continue, NotSupported and errors go on.
Return(t, halt) ==
  /\ at[t] = "invoke"
  /\ line' = [line EXCEPT ![mutex[t]] = released(t)]
  /\ halted' = [halted EXCEPT ![t] = halt]
  /\ at' = [at EXCEPT ![t] = "prune"]
  /\ UNCHANGED <<map, todo, mutex>>

\* The entry is this guard's, and only the map and this guard refer to it.
prunable(t) == map[key(t)] = mutex[t] /\ strong_count(key(t)) = 2

Prune(t) ==
  /\ at[t] = "prune"
  /\ map' = IF prunable(t) THEN [map EXCEPT ![key(t)] = None] ELSE map
  /\ at' = [at EXCEPT ![t] = "drop"]
  /\ UNCHANGED <<line, todo, mutex, halted>>

ends(t) == halted[t] \/ Tail(todo[t]) = <<>>

\* The guard's fields are dropped; the chain goes on or ends.
DropMutex(t) ==
  /\ at[t] = "drop"
  /\ mutex' = [mutex EXCEPT ![t] = None]
  /\ IF ends(t)
     THEN at' = [at EXCEPT ![t] = "idle"] /\ todo' = [todo EXCEPT ![t] = <<>>]
     ELSE at' = [at EXCEPT ![t] = "read"] /\ todo' = [todo EXCEPT ![t] = Tail(@)]
  /\ UNCHANGED <<map, line, halted>>

-----------------------------------------------------------------------------

Init ==
  /\ map = [k \in Keys |-> None]
  /\ line = [m \in Mutexes |-> <<>>]
  /\ at = [t \in Tasks |-> "idle"]
  /\ todo = [t \in Tasks |-> <<>>]
  /\ mutex = [t \in Tasks |-> None]
  /\ halted = [t \in Tasks |-> FALSE]

ChainStep(t) ==
  \/ Read(t) \/ Insert(t) \/ Lock(t) \/ Acquire(t) \/ Prune(t) \/ DropMutex(t)
  \/ \E halt \in BOOLEAN : Return(t, halt)

Next == \E t \in Tasks : (\E c \in Chains : Start(t, c)) \/ ChainStep(t)

Spec == Init /\ [][Next]_vars

\* A spawned chain task keeps running, and handlers return.
FairSpec == Spec /\ \A t \in Tasks : WF_vars(ChainStep(t))

-----------------------------------------------------------------------------
(* Properties. *)

Location == {"idle", "read", "miss", "prune", "drop"} \cup Twice

\* Every variable has its type, and a task inside the lock's lifetime refers to
\* a mutex.
TypeOK ==
  /\ map \in [Keys -> Mutexes \cup {None}]
  /\ line \in [Mutexes -> Seq(Tasks)]
  /\ at \in [Tasks -> Location]
  /\ todo \in [Tasks -> Seq(Keys)]
  /\ mutex \in [Tasks -> Mutexes \cup {None}]
  /\ halted \in [Tasks -> BOOLEAN]
  /\ \A t \in Tasks : at[t] # "idle" => todo[t] # <<>>
  /\ \A t \in Tasks : at[t] \in Twice \cup Once => mutex[t] \in Mutexes

\* dispatcher.rs: two events of one principal that target a capsule "execute
\* one-at-a-time", although entries are pruned, re-created and their memory
\* reused while tasks hold the old mutex or are about to wait for it.
MutualExclusion ==
  \A t, u \in Tasks :
    at[t] = "invoke" /\ at[u] = "invoke" /\ key(t) = key(u) => t = u

\* Every chain ends: a task holds one lock at a time, so chains over the same
\* capsules in different orders cannot wait for each other for ever.
ChainEnds == \A t \in Tasks : at[t] # "idle" ~> at[t] = "idle"
=============================================================================
