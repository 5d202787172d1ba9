-------------------------- MODULE ChainLocks_proofs --------------------------
(***************************************************************************)
(* Handlers of one (runtime, principal) never run at once, for any number  *)
(* of chains, keys and mutexes.                                            *)
(*                                                                         *)
(* Two tasks with one key exclude each other only if they use one mutex,   *)
(* so the invariant says that a task that still uses its mutex finds it in *)
(* the map (Mapped), and that a task inside a handler is first in its line *)
(* (Holds).  Mapped survives a prune because the reference count of the    *)
(* entry would be above two if another task still used it.                 *)
(***************************************************************************)
EXTENDS ChainLocks, FiniteSetTheorems, TLAPS

\* Locations from which a task may still lock, or has not yet pruned.
Using == Twice \cup {"prune"}

\* The mutex of a task that uses it is the one the map has for its key.
Mapped == \A t \in Tasks : at[t] \in Using => map[key(t)] = mutex[t]

\* A task inside a handler holds its mutex.
Holds ==
  \A t \in Tasks :
    at[t] = "invoke" => line[mutex[t]] # <<>> /\ Head(line[mutex[t]]) = t

\* The inductive invariant: see the header.
IInv == TypeOK /\ Mapped /\ Holds

-----------------------------------------------------------------------------

\* No task refers to a mutex initially.
LEMMA InitInv == Init => IInv
BY DEF Init, IInv, TypeOK, Mapped, Holds, Using, Twice, Once, Location

\* The references of an allocation are finitely many.
LEMMA RefsFinite == \A m : IsFiniteSet(refs(m))
<1>. TAKE m
<1>1. IsFiniteSet({"mutex", "guard"})
  <2>1. IsFiniteSet({"mutex"})
    BY FS_Singleton
  <2>2. IsFiniteSet({"mutex"} \cup {"guard"})
    BY <2>1, FS_AddElement
  <2>3. {"mutex"} \cup {"guard"} = {"mutex", "guard"}
    OBVIOUS
  <2>. QED  BY <2>2, <2>3
<1>2. IsFiniteSet(Tasks \X {"mutex", "guard"})
  BY <1>1, FS_Product, ConstAssumption
<1>3. refs(m) \in SUBSET (Tasks \X {"mutex", "guard"})
  BY DEF refs
<1>. QED  BY <1>2, <1>3, FS_Subset

\* Arc::strong_count(entry) == 2 in the guard's Drop: nobody else has it.
LEMMA PrunableIsSole ==
  ASSUME NEW t \in Tasks, at[t] = "prune", prunable(t),
         NEW u \in Tasks, at[u] \in Using, mutex[u] = mutex[t]
  PROVE  u = t
<1>. DEFINE R == refs(mutex[t])
<1>1. IsFiniteSet(R) /\ Cardinality(R) \in Nat
  BY RefsFinite, FS_CardinalityType
<1>2. Cardinality(R) = 1
  BY <1>1 DEF prunable, strong_count
<1>3. PICK x : R = {x}
  BY <1>1, <1>2, FS_Singleton
<1>4. <<t, "mutex">> \in R /\ <<u, "mutex">> \in R
  BY DEF refs, Using, Twice, Once
<1>. QED  BY <1>3, <1>4

\* The front of the remaining chain is a key.
LEMMA KeyType ==
  ASSUME TypeOK, NEW t \in Tasks, at[t] # "idle"
  PROVE  key(t) \in Keys /\ Tail(todo[t]) \in Seq(Keys)
<1>1. todo[t] \in Seq(Keys) /\ todo[t] # <<>>
  BY DEF TypeOK
<1>. QED  BY <1>1 DEF key

\* Every step keeps the types.
LEMMA TypeStep == IInv /\ [Next]_vars => TypeOK'
<1>. SUFFICES ASSUME IInv, [Next]_vars PROVE TypeOK'
  OBVIOUS
<1>0. TypeOK
  BY DEF IInv
<1>1. CASE UNCHANGED vars
  BY <1>0, <1>1 DEF TypeOK, vars
<1>. SUFFICES ASSUME NEW t \in Tasks,
                     (\E c \in Chains : Start(t, c)) \/ ChainStep(t)
              PROVE  TypeOK'
  BY <1>1 DEF Next
<1>2. ASSUME NEW c \in Chains, Start(t, c) PROVE TypeOK'
  <2>1. c \in Seq(Keys) /\ c # <<>>
    BY ConstAssumption
  <2>. QED  BY <1>0, <1>2, <2>1 DEF Start, TypeOK, Location, Twice, Once
<1>3. CASE Read(t)
  <2>1. key(t) \in Keys
    BY <1>0, <1>3, KeyType DEF Read
  <2>. QED  BY <1>0, <1>3, <2>1 DEF Read, TypeOK, Location, Twice, Once
<1>4. CASE Insert(t)
  <2>1. key(t) \in Keys
    BY <1>0, <1>4, KeyType DEF Insert
  <2>. QED  BY <1>0, <1>4, <2>1 DEF Insert, TypeOK, Location, Twice, Once
<1>5. CASE Lock(t)
  <2>1. mutex[t] \in Mutexes /\ line[mutex[t]] \in Seq(Tasks)
    BY <1>0, <1>5 DEF Lock, TypeOK, Twice
  <2>2. Append(line[mutex[t]], t) \in Seq(Tasks)
    BY <2>1
  <2>. QED  BY <1>0, <1>5, <2>2 DEF Lock, TypeOK, Location, Twice, Once
<1>6. CASE Acquire(t)
  BY <1>0, <1>6 DEF Acquire, TypeOK, Location, Twice, Once
<1>7. ASSUME NEW halt \in BOOLEAN, Return(t, halt) PROVE TypeOK'
  <2>1. mutex[t] \in Mutexes /\ line[mutex[t]] \in Seq(Tasks) /\ line[mutex[t]] # <<>>
    BY <1>0, <1>7 DEF Return, TypeOK, Twice, IInv, Holds
  <2>2. released(t) \in Seq(Tasks)
    BY <2>1 DEF released
  <2>. QED  BY <1>0, <1>7, <2>2 DEF Return, TypeOK, Location, Twice, Once
<1>8. CASE Prune(t)
  <2>1. key(t) \in Keys
    BY <1>0, <1>8, KeyType DEF Prune
  <2>. QED  BY <1>0, <1>8, <2>1 DEF Prune, TypeOK, Location, Twice, Once
<1>9. CASE DropMutex(t)
  <2>1. Tail(todo[t]) \in Seq(Keys) /\ <<>> \in Seq(Keys)
    BY <1>0, <1>9, KeyType DEF DropMutex
  <2>2. CASE ends(t)
    BY <1>0, <1>9, <2>1, <2>2 DEF DropMutex, TypeOK, Location, Twice, Once
  <2>3. CASE ~ends(t)
    BY <1>0, <1>9, <2>1, <2>3 DEF DropMutex, ends, TypeOK, Location, Twice, Once
  <2>. QED  BY <2>2, <2>3
<1>. QED
  BY <1>2, <1>3, <1>4, <1>5, <1>6, <1>7, <1>8, <1>9 DEF ChainStep

\* Every step keeps the mutex of its users in the map.
LEMMA MappedStep == IInv /\ [Next]_vars => Mapped'
<1>. SUFFICES ASSUME IInv, [Next]_vars,
                     NEW u \in Tasks, at'[u] \in Using
              PROVE  map'[key(u)'] = mutex'[u]
  BY DEF Mapped
<1>0. TypeOK /\ Mapped
  BY DEF IInv
<1>1. CASE UNCHANGED vars
  BY <1>0, <1>1 DEF vars, Mapped, key
<1>. SUFFICES ASSUME NEW t \in Tasks,
                     (\E c \in Chains : Start(t, c)) \/ ChainStep(t)
              PROVE  map'[key(u)'] = mutex'[u]
  BY <1>1 DEF Next
<1>2. ASSUME NEW c \in Chains, Start(t, c) PROVE map'[key(u)'] = mutex'[u]
  <2>1. u # t
    BY <1>0, <1>2 DEF Start, TypeOK, Using, Twice
  <2>. QED  BY <1>0, <1>2, <2>1 DEF Start, TypeOK, Mapped, key
<1>3. CASE Read(t)
  BY <1>0, <1>3 DEF Read, TypeOK, Mapped, key, Using, Twice
<1>4. CASE Insert(t)
  <2>1. key(t) \in Keys /\ key(u)' = key(u)
    BY <1>0, <1>4, KeyType DEF Insert, key
  <2>2. PICK m \in Mutexes :
           /\ IF entry_found(key(t)) THEN m = map[key(t)] ELSE unallocated(m)
           /\ map' = [map EXCEPT ![key(t)] = m]
           /\ mutex' = [mutex EXCEPT ![t] = m]
    BY <1>4 DEF Insert
  <2>3. CASE u = t
    BY <1>0, <2>1, <2>2, <2>3 DEF TypeOK
  <2>4. CASE u # t
    <3>1. at[u] \in Using /\ mutex'[u] = mutex[u] /\ map[key(u)] = mutex[u]
      BY <1>0, <1>4, <2>2, <2>4 DEF Insert, TypeOK, Mapped
    <3>2. mutex[u] \in Mutexes /\ mutex[u] # None
      BY <1>0, <3>1, ConstAssumption DEF TypeOK, Using, Twice, Once
    <3>3. CASE key(u) = key(t)
      BY <1>0, <2>1, <2>2, <3>1, <3>2, <3>3 DEF entry_found, TypeOK
    <3>4. CASE key(u) # key(t)
      BY <1>0, <2>1, <2>2, <3>1, <3>4 DEF TypeOK
    <3>. QED  BY <3>3, <3>4
  <2>. QED  BY <2>3, <2>4
<1>5. CASE Lock(t) \/ Acquire(t) \/ \E halt \in BOOLEAN : Return(t, halt)
  <2>1. /\ map' = map /\ mutex' = mutex /\ todo' = todo
        /\ at[u] \in Using
    BY <1>0, <1>5 DEF Lock, Acquire, Return, TypeOK, Using, Twice
  <2>. QED  BY <1>0, <2>1 DEF Mapped, key
<1>6. CASE Prune(t)
  <2>1. /\ mutex' = mutex /\ key(u)' = key(u) /\ u # t /\ at[u] \in Using
        /\ map[key(u)] = mutex[u]
    BY <1>0, <1>6 DEF Prune, TypeOK, Using, Twice, Mapped, key
  <2>2. CASE ~prunable(t)
    BY <1>6, <2>1, <2>2 DEF Prune
  <2>3. CASE prunable(t)
    <3>1. at[t] = "prune" /\ map' = [map EXCEPT ![key(t)] = None]
          /\ map[key(t)] = mutex[t]
      BY <1>6, <2>3 DEF Prune, prunable
    <3>2. mutex[u] # mutex[t]
      BY <2>1, <2>3, <3>1, PrunableIsSole
    <3>3. key(u) # key(t)
      BY <2>1, <3>1, <3>2
    <3>. QED  BY <1>0, <2>1, <3>1, <3>3 DEF TypeOK
  <2>. QED  BY <2>2, <2>3
<1>7. CASE DropMutex(t)
  <2>1. u # t /\ at[u] \in Using /\ map' = map
    BY <1>0, <1>7 DEF DropMutex, TypeOK, Using, Twice
  <2>2. mutex'[u] = mutex[u] /\ todo'[u] = todo[u]
    BY <1>0, <1>7, <2>1 DEF DropMutex, TypeOK
  <2>. QED  BY <1>0, <2>1, <2>2 DEF Mapped, key
<1>. QED
  BY <1>2, <1>3, <1>4, <1>5, <1>6, <1>7 DEF ChainStep

\* Every step keeps a task inside a handler first in its line.
LEMMA HoldsStep == IInv /\ [Next]_vars => Holds'
<1>. SUFFICES ASSUME IInv, [Next]_vars,
                     NEW u \in Tasks, at'[u] = "invoke"
              PROVE  line'[mutex'[u]] # <<>> /\ Head(line'[mutex'[u]]) = u
  BY DEF Holds
<1>0. TypeOK /\ Holds
  BY DEF IInv
<1>1. ASSUME at[u] = "invoke", mutex'[u] = mutex[u],
             line'[mutex[u]] = line[mutex[u]]
      PROVE  line'[mutex'[u]] # <<>> /\ Head(line'[mutex'[u]]) = u
  BY <1>0, <1>1 DEF Holds
<1>2. CASE UNCHANGED vars
  BY <1>1, <1>2 DEF vars
<1>. SUFFICES ASSUME NEW t \in Tasks,
                     (\E c \in Chains : Start(t, c)) \/ ChainStep(t)
              PROVE  line'[mutex'[u]] # <<>> /\ Head(line'[mutex'[u]]) = u
  BY <1>2 DEF Next
<1>3. CASE \/ \E c \in Chains : Start(t, c)
           \/ Read(t) \/ Insert(t) \/ Prune(t) \/ DropMutex(t)
  <2>1. u # t /\ at[u] = "invoke" /\ line' = line
    BY <1>0, <1>3 DEF Start, Read, Insert, Prune, DropMutex, TypeOK
  <2>2. mutex'[u] = mutex[u]
    BY <1>0, <1>3, <2>1 DEF Start, Read, Insert, Prune, DropMutex, TypeOK
  <2>. QED  BY <1>1, <2>1, <2>2
<1>4. CASE Lock(t)
  <2>1. at[u] = "invoke" /\ mutex' = mutex /\ mutex[t] \in Mutexes /\ mutex[u] \in Mutexes
        /\ line' = [line EXCEPT ![mutex[t]] = Append(line[mutex[t]], t)]
    BY <1>0, <1>4 DEF Lock, TypeOK, Twice
  <2>2. line[mutex[u]] \in Seq(Tasks) /\ line[mutex[u]] # <<>> /\ Head(line[mutex[u]]) = u
    BY <1>0, <2>1 DEF TypeOK, Holds
  <2>3. /\ Append(line[mutex[u]], t) # <<>>
        /\ Head(Append(line[mutex[u]], t)) = u
    BY <2>2
  <2>. QED  BY <1>0, <2>1, <2>2, <2>3 DEF TypeOK
<1>5. CASE Acquire(t)
  <2>1. CASE u = t
    BY <1>5, <2>1 DEF Acquire
  <2>2. CASE u # t
    BY <1>0, <1>1, <1>5, <2>2 DEF Acquire, TypeOK
  <2>. QED  BY <2>1, <2>2
<1>6. ASSUME NEW halt \in BOOLEAN, Return(t, halt)
      PROVE  line'[mutex'[u]] # <<>> /\ Head(line'[mutex'[u]]) = u
  <2>1. u # t /\ at[u] = "invoke" /\ at[t] = "invoke" /\ mutex' = mutex
    BY <1>0, <1>6 DEF Return, TypeOK
  <2>2. mutex[u] # mutex[t]
    BY <1>0, <2>1 DEF Holds
  <2>3. line'[mutex[u]] = line[mutex[u]]
    BY <1>0, <1>6, <2>1, <2>2 DEF Return, TypeOK, Twice
  <2>. QED  BY <1>1, <2>1, <2>3
<1>. QED
  BY <1>3, <1>4, <1>5, <1>6 DEF ChainStep

-----------------------------------------------------------------------------

\* The inductive invariant holds for ever.
THEOREM ChainInv == Spec => []IInv
<1>1. IInv /\ [Next]_vars => IInv'
  BY TypeStep, MappedStep, HoldsStep DEF IInv
<1>. QED  BY <1>1, InitInv, PTL DEF Spec

\* Handlers of one (runtime, principal) run one at a time, whatever entries
\* acquire_chain_lock adds and ChainLockGuard's Drop prunes meanwhile.
THEOREM ChainsExclude == Spec => []MutualExclusion
<1>1. IInv => MutualExclusion
  <2>. SUFFICES ASSUME IInv, NEW t \in Tasks, NEW u \in Tasks,
                       at[t] = "invoke", at[u] = "invoke", key(t) = key(u)
                PROVE  t = u
    BY DEF MutualExclusion
  <2>1. mutex[t] = mutex[u]
    BY DEF IInv, Mapped, Using, Twice
  <2>. QED  BY <2>1 DEF IInv, Holds
<1>. QED  BY <1>1, ChainInv, PTL
=============================================================================
