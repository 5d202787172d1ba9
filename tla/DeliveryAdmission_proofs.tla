---------------------- MODULE DeliveryAdmission_proofs ----------------------
(***************************************************************************)
(* Proofs about delivery admission, for any finite sets of consumers and   *)
(* publishers, any fan-outs and any capacity: the wait graph stays acyclic *)
(* and is exactly the set of current waits, no queue is oversubscribed,    *)
(* and publications that are stuck on each other include one that holds a  *)
(* slot while it waits.                                                    *)
(***************************************************************************)
EXTENDS DeliveryAdmission, FiniteSetTheorems, SequenceTheorems, TLAPS

\* Fewer edges, fewer paths: dropping waits cannot close a cycle.
LEMMA AcyclicSubset ==
  ASSUME NEW E, NEW F, F \subseteq E, acyclic(E)
  PROVE  acyclic(F)
<1>. SUFFICES ASSUME NEW x \in Keys, NEW y \in Keys, <<x, y>> \in F
              PROVE  ~reaches(F, y, x)
  BY DEF acyclic
<1>1. PICK S \in SUBSET Keys : y \in S /\ closed_under(E, S) /\ x \notin S
  BY DEF acyclic, reaches
<1>2. closed_under(F, S)
  BY <1>1 DEF closed_under
<1>. QED  BY <1>1, <1>2 DEF reaches

\* The check of wait_graph.rs, enter: an edge whose target does not reach its
\* source closes no cycle.
LEMMA AcyclicExtend ==
  ASSUME NEW E, NEW s \in Keys, NEW t \in Keys, acyclic(E), ~reaches(E, t, s)
  PROVE  acyclic(E \cup {<<s, t>>})
<1>. DEFINE F == E \cup {<<s, t>>}
<1>1. PICK S0 \in SUBSET Keys : t \in S0 /\ closed_under(E, S0) /\ s \notin S0
  BY DEF reaches
<1>. SUFFICES ASSUME NEW x \in Keys, NEW y \in Keys, <<x, y>> \in F
              PROVE  ~reaches(F, y, x)
  BY DEF acyclic
<1>2. closed_under(F, S0)
  BY <1>1 DEF closed_under
<1>3. CASE <<x, y>> = <<s, t>>
  BY <1>1, <1>2, <1>3 DEF reaches
<1>4. CASE <<x, y>> \in E
  <2>1. PICK S1 \in SUBSET Keys : y \in S1 /\ closed_under(E, S1) /\ x \notin S1
    BY <1>4 DEF acyclic, reaches
  <2>2. CASE s \notin S1
    <3>1. closed_under(F, S1)
      BY <2>1, <2>2 DEF closed_under
    <3>. QED  BY <2>1, <3>1 DEF reaches
  <2>3. CASE x \notin S0
    <3>. DEFINE S == S0 \cup S1
    <3>1. S \in SUBSET Keys /\ y \in S /\ x \notin S
      BY <2>1, <2>3
    <3>2. closed_under(F, S)
      BY <1>1, <2>1 DEF closed_under
    <3>. QED  BY <3>1, <3>2 DEF reaches
  <2>4. CASE x \in S0
    <3>. DEFINE S == S0 \cap S1
    <3>1. y \in S0
      BY <1>1, <1>4, <2>4 DEF closed_under
    <3>2. S \in SUBSET Keys /\ y \in S /\ x \notin S
      BY <2>1, <3>1
    <3>3. closed_under(F, S)
      BY <1>1, <2>1 DEF closed_under
    <3>. QED  BY <3>2, <3>3 DEF reaches
  <2>. QED  BY <2>2, <2>3, <2>4
<1>. QED  BY <1>3, <1>4

-----------------------------------------------------------------------------

\* An accepted enter keeps the counts numbers and the graph acyclic.
LEMMA EnteredAcyclic ==
  ASSUME NEW g \in Graph, NEW s, NEW t,
         acyclic(present(g)), ~rejects(g, s, t)
  PROVE  entered(g, s, t) \in Graph /\ acyclic(present(entered(g, s, t)))
<1>. DEFINE e == <<s, t>>
            h == [g EXCEPT ![e] = @ + 1]
<1>1. entered(g, s, t) = h
  BY DEF entered
<1>2. CASE e \notin Edge
  <2>1. h = g
    BY <1>2 DEF Graph
  <2>. QED  BY <1>1, <2>1
<1>3. CASE e \in Edge
  <2>. HIDE DEF e
  <2>1. h \in Graph
    BY <1>3 DEF Graph
  <2>2. present(h) = present(g) \cup {e}
    BY <1>3 DEF Graph, present
  <2>3. acyclic(present(g) \cup {<<s, t>>})
    <3>1. s \in Keys /\ t \in Keys
      BY <1>3 DEF Edge, e
    <3>. QED  BY <3>1, AcyclicExtend DEF rejects
  <2>. QED  BY <1>1, <2>1, <2>2, <2>3 DEF e
<1>. QED  BY <1>2, <1>3

\* WaitGuard's drop keeps the counts numbers and the graph acyclic.
LEMMA DroppedAcyclic ==
  ASSUME NEW g \in Graph, NEW s, NEW t, acyclic(present(g))
  PROVE  dropped(g, s, t) \in Graph /\ acyclic(present(dropped(g, s, t)))
<1>. DEFINE e == <<s, t>>
            h == [g EXCEPT ![e] = IF @ > 0 THEN @ - 1 ELSE 0]
<1>1. dropped(g, s, t) = h
  BY DEF dropped
<1>. HIDE DEF e
<1>2. h \in Graph
  <2>. DEFINE n == IF g[e] > 0 THEN g[e] - 1 ELSE 0
  <2>1. e \in Edge => n \in Nat
    BY DEF Graph
  <2>2. h = [g EXCEPT ![e] = n]
    OBVIOUS
  <2>. HIDE DEF n, h
  <2>. QED  BY <2>1, <2>2 DEF Graph
<1>3. present(h) \subseteq present(g)
  BY DEF Graph, present
<1>4. acyclic(present(h))
  <2>. HIDE DEF h
  <2>. QED  BY <1>3, AcyclicSubset
<1>. QED  BY <1>1, <1>2, <1>4

-----------------------------------------------------------------------------

\* The inductive invariant: an acyclic graph of counted edges.
GraphInv == edges \in Graph /\ WaitsAcyclic

\* No consumer waits initially.
LEMMA GraphInvInit == Init => GraphInv
BY DEF Init, GraphInv, WaitsAcyclic, acyclic, NoEdges, Graph, Edge, present

\* A publication that stops waiting, granted or cancelled, leaves the graph acyclic.
LEMMA LeftInv ==
  ASSUME GraphInv, NEW a
  PROVE  left(a) \in Graph /\ acyclic(present(left(a)))
<1>1. CASE sourced[a] /\ at[a] = "wait"
  BY <1>1, DroppedAcyclic DEF GraphInv, WaitsAcyclic, left
<1>2. CASE ~(sourced[a] /\ at[a] = "wait")
  BY <1>2 DEF GraphInv, WaitsAcyclic, left
<1>. QED  BY <1>1, <1>2

\* One step per operation that moves an edge; the others keep the graph.
LEMMA GraphInvStep == GraphInv /\ [Next]_vars => GraphInv'
<1>. SUFFICES ASSUME GraphInv, [Next]_vars
              PROVE  GraphInv'
  OBVIOUS
<1>. USE DEF GraphInv, WaitsAcyclic
<1>1. ASSUME edges' = edges
      PROVE  GraphInv'
  BY <1>1 DEF present
<1>2. ASSUME NEW a \in Actors, Full(a)
      PROVE  GraphInv'
  <2>1. CASE sourced[a] /\ ~rejects(edges, a, target(a))
    <3>1. edges' = entered(edges, a, target(a))
      BY <1>2, <2>1 DEF Full
    <3>. QED  BY <2>1, <3>1, EnteredAcyclic
  <2>2. CASE ~sourced[a] \/ rejects(edges, a, target(a))
    BY <1>1, <1>2, <2>2 DEF Full
  <2>. QED  BY <2>1, <2>2
<1>3. ASSUME NEW a, edges' = left(a)
      PROVE  GraphInv'
  BY <1>3, LeftInv
<1>4. ASSUME NEW a \in Actors, Cancel(a)
      PROVE  GraphInv'
  BY <1>3, <1>4 DEF Cancel
<1>5. ASSUME NEW k \in Keys, Grant(k)
      PROVE  GraphInv'
  BY <1>3, <1>5 DEF Grant
<1>6. ASSUME NEW a \in Actors,
             (\E f \in Fanouts, src \in BOOLEAN : Start(a, f, src)) \/ TryReserve(a) \/ Commit(a)
      PROVE  GraphInv'
  BY <1>1, <1>6 DEF Start, TryReserve, Commit
<1>7. ASSUME NEW k \in Keys, Invoke(k) \/ Return(k)
      PROVE  GraphInv'
  BY <1>1, <1>7 DEF Invoke, Return
<1>8. CASE UNCHANGED vars
  BY <1>1, <1>8 DEF vars
<1>. QED  BY <1>2, <1>4, <1>5, <1>6, <1>7, <1>8 DEF Next

\* No consumer ever waits on itself through other consumers: whatever waits
\* Admitter::reserve enters, and grants and cancellations end, concurrently.
THEOREM NoCycleOfWaits == Spec => []WaitsAcyclic
<1>1. Init => GraphInv
  BY GraphInvInit
<1>2. GraphInv /\ [Next]_vars => GraphInv'
  BY GraphInvStep
<1>3. GraphInv => WaitsAcyclic
  BY DEF GraphInv
<1>. QED  BY <1>1, <1>2, <1>3, PTL DEF Spec

-----------------------------------------------------------------------------
(* The queues of waiters. *)

Members(s) == {s[i] : i \in 1 .. Len(s)}
Distinct(s) == \A i, j \in 1 .. Len(s) : s[i] = s[j] => i = j

\* A publication that starts to wait is the last waiter.
LEMMA MembersAppend ==
  ASSUME NEW S, NEW s \in Seq(S), NEW x \in S
  PROVE  /\ Append(s, x) \in Seq(S)
         /\ Members(Append(s, x)) = Members(s) \cup {x}
         /\ Distinct(s) /\ x \notin Members(s) => Distinct(Append(s, x))
<1>. DEFINE r == Append(s, x)
<1>1. /\ Len(s) \in Nat /\ r \in Seq(S) /\ Len(r) = Len(s) + 1
      /\ r[Len(s) + 1] = x /\ \A i \in 1 .. Len(s) : r[i] = s[i]
  OBVIOUS
<1>. HIDE DEF r
<1>2. \A i \in 1 .. Len(r) : i \in 1 .. Len(s) \/ i = Len(s) + 1
  BY <1>1
<1>3. \A i \in 1 .. Len(s) : i \in 1 .. Len(r)
  BY <1>1
<1>4. Len(s) + 1 \in 1 .. Len(r)
  BY <1>1
<1>5. Members(r) = Members(s) \cup {x}
  BY <1>1, <1>2, <1>3, <1>4 DEF Members
<1>6. Distinct(s) /\ x \notin Members(s) => Distinct(r)
  BY <1>1, <1>2 DEF Distinct, Members
<1>. QED  BY <1>1, <1>5, <1>6 DEF r

\* The first waiter leaves.
LEMMA MembersTail ==
  ASSUME NEW S, NEW s \in Seq(S), s # <<>>, Distinct(s)
  PROVE  /\ Head(s) \in Members(s) /\ Tail(s) \in Seq(S)
         /\ Members(Tail(s)) = Members(s) \ {Head(s)}
         /\ Distinct(Tail(s))
<1>. DEFINE r == Tail(s)
<1>1. /\ Len(s) \in Nat /\ Len(s) > 0 /\ r \in Seq(S) /\ Len(r) = Len(s) - 1
      /\ Head(s) = s[1] /\ \A i \in 1 .. Len(r) : r[i] = s[i + 1]
  BY HeadTailProperties
<1>. HIDE DEF r
<1>2. \A i \in 1 .. Len(r) : i + 1 \in 1 .. Len(s) /\ i + 1 # 1
  BY <1>1
<1>3. \A i \in 1 .. Len(s) : i = 1 \/ (i - 1 \in 1 .. Len(r) /\ (i - 1) + 1 = i)
  BY <1>1
<1>4. 1 \in 1 .. Len(s)
  BY <1>1
<1>5. Members(r) = Members(s) \ {Head(s)}
  <2>1. ASSUME NEW i \in 1 .. Len(r) PROVE r[i] \in Members(s) /\ r[i] # Head(s)
    BY <1>1, <1>2, <1>4 DEF Members, Distinct
  <2>2. ASSUME NEW i \in 1 .. Len(s), s[i] # Head(s) PROVE s[i] \in Members(r)
    <3>1. i - 1 \in 1 .. Len(r) /\ (i - 1) + 1 = i
      BY <1>1, <1>3, <2>2
    <3>2. r[i - 1] = s[i]
      BY <1>1, <3>1
    <3>. QED  BY <3>1, <3>2 DEF Members
  <2>. QED  BY <2>1, <2>2 DEF Members
<1>6. Distinct(r)
  <2>. SUFFICES ASSUME NEW i \in 1 .. Len(r), NEW j \in 1 .. Len(r), r[i] = r[j]
                PROVE  i = j
    BY DEF Distinct
  <2>1. i + 1 = j + 1
    BY <1>1, <1>2 DEF Distinct
  <2>. QED  BY <1>1, <2>1
<1>. QED  BY <1>1, <1>4, <1>5, <1>6 DEF r, Members

\* A waiter whose future is dropped leaves, wherever it is parked.
LEMMA MembersWithout ==
  ASSUME NEW S, NEW s \in Seq(S), NEW w \in Members(s), Distinct(s)
  PROVE  /\ without(s, w) \in Seq(S)
         /\ Members(without(s, w)) = Members(s) \ {w}
         /\ Distinct(without(s, w))
<1>. DEFINE p == CHOOSE j \in 1 .. Len(s) : s[j] = w
<1>1. p \in 1 .. Len(s) /\ s[p] = w
  BY DEF Members
<1>. DEFINE u == SubSeq(s, 1, p - 1)
            v == SubSeq(s, p + 1, Len(s))
            r == u \o v
<1>2. without(s, w) = r
  BY DEF without
<1>. HIDE DEF p
<1>3. Len(s) \in Nat /\ p \in Nat /\ p >= 1 /\ p <= Len(s)
  BY <1>1
<1>4. \A i \in 1 .. Len(s) : s[i] \in S
  OBVIOUS
<1>5. u \in Seq(S) /\ Len(u) = p - 1 /\ \A i \in 1 .. p - 1 : u[i] = s[i]
  <2>1. \A i \in 1 .. p - 1 : s[i] \in S
    BY <1>3, <1>4
  <2>2. 1 \in Int /\ p - 1 \in Int
    BY <1>3
  <2>. HIDE DEF u
  <2>3. /\ u \in Seq(S) /\ Len(u) = IF 1 <= p - 1 THEN (p - 1) - 1 + 1 ELSE 0
        /\ \A i \in 1 .. (p - 1) - 1 + 1 : u[i] = s[1 + i - 1]
    BY <2>1, <2>2, SubSeqProperties DEF u
  <2>. QED  BY <1>3, <2>3
<1>6. v \in Seq(S) /\ Len(v) = Len(s) - p /\ \A i \in 1 .. Len(s) - p : v[i] = s[p + i]
  <2>1. \A i \in p + 1 .. Len(s) : s[i] \in S
    BY <1>3, <1>4
  <2>2. p + 1 \in Int /\ Len(s) \in Int
    BY <1>3
  <2>. HIDE DEF v
  <2>3. /\ v \in Seq(S) /\ Len(v) = IF p + 1 <= Len(s) THEN Len(s) - (p + 1) + 1 ELSE 0
        /\ \A i \in 1 .. Len(s) - (p + 1) + 1 : v[i] = s[p + 1 + i - 1]
    BY <2>1, <2>2, SubSeqProperties DEF v
  <2>. QED  BY <1>3, <2>3
<1>. HIDE DEF u, v
<1>7. /\ r \in Seq(S) /\ Len(r) = Len(s) - 1
      /\ \A i \in 1 .. Len(s) - 1 : r[i] = IF i < p THEN s[i] ELSE s[i + 1]
  <2>1. /\ r \in Seq(S) /\ Len(r) = Len(u) + Len(v)
        /\ \A i \in 1 .. Len(u) + Len(v) : r[i] = IF i <= Len(u) THEN u[i] ELSE v[i - Len(u)]
    BY <1>5, <1>6, ConcatProperties
  <2>. HIDE DEF r
  <2>2. Len(u) + Len(v) = Len(s) - 1
    BY <1>3, <1>5, <1>6
  <2>3. ASSUME NEW i \in 1 .. Len(s) - 1, i < p PROVE r[i] = s[i]
    BY <1>3, <1>5, <2>1, <2>2, <2>3
  <2>4. ASSUME NEW i \in 1 .. Len(s) - 1, ~(i < p) PROVE r[i] = s[i + 1]
    <3>1. i - (p - 1) \in 1 .. Len(s) - p /\ p + (i - (p - 1)) = i + 1
      BY <1>3, <2>4
    <3>2. r[i] = v[i - (p - 1)]
      BY <1>3, <1>5, <2>1, <2>2, <2>4
    <3>. QED  BY <1>6, <3>1, <3>2
  <2>. QED  BY <2>1, <2>2, <2>3, <2>4
<1>. HIDE DEF r
<1>. DEFINE old(i) == IF i < p THEN i ELSE i + 1
<1>8. \A i \in 1 .. Len(r) : old(i) \in 1 .. Len(s) /\ old(i) # p /\ r[i] = s[old(i)]
  BY <1>3, <1>7
<1>9. \A i, j \in 1 .. Len(r) : old(i) = old(j) => i = j
  BY <1>3, <1>7
<1>10. \A i \in 1 .. Len(s) : i = p \/ \E j \in 1 .. Len(r) : old(j) = i
  <2>. SUFFICES ASSUME NEW i \in 1 .. Len(s), i # p
                PROVE  \E j \in 1 .. Len(r) : old(j) = i
    OBVIOUS
  <2>1. CASE i < p
    <3>1. i \in 1 .. Len(r) /\ old(i) = i
      BY <1>3, <1>7, <2>1
    <3>. QED  BY <3>1
  <2>2. CASE i > p
    <3>1. i - 1 \in 1 .. Len(r) /\ old(i - 1) = i
      BY <1>3, <1>7, <2>2
    <3>. QED  BY <3>1
  <2>. QED  BY <1>3, <2>1, <2>2
<1>. HIDE DEF old
<1>11. Members(r) = Members(s) \ {w}
  <2>1. ASSUME NEW i \in 1 .. Len(r) PROVE r[i] \in Members(s) /\ r[i] # w
    BY <1>1, <1>8 DEF Members, Distinct
  <2>2. ASSUME NEW i \in 1 .. Len(s), s[i] # w PROVE s[i] \in Members(r)
    <3>1. PICK j \in 1 .. Len(r) : old(j) = i
      BY <1>1, <1>10, <2>2
    <3>. QED  BY <1>8, <3>1 DEF Members
  <2>. QED  BY <2>1, <2>2 DEF Members
<1>12. Distinct(r)
  <2>. SUFFICES ASSUME NEW i \in 1 .. Len(r), NEW j \in 1 .. Len(r), r[i] = r[j]
                PROVE  i = j
    BY DEF Distinct
  <2>1. old(i) = old(j)
    BY <1>8 DEF Distinct
  <2>. QED  BY <1>9, <2>1
<1>. QED  BY <1>2, <1>7, <1>11, <1>12

-----------------------------------------------------------------------------
(* The inductive invariant. *)

\* The typing part of TypeOK.
Types ==
  /\ queued \in [Keys -> Nat]
  /\ invoking \in [Keys -> BOOLEAN]
  /\ at \in [Actors -> {"none"} \cup Holding]
  /\ sourced \in [Actors -> BOOLEAN]
  /\ targets \in [Actors -> Seq(Keys)]
  /\ got \in [Actors -> Nat]
  /\ waiters \in [Keys -> Seq(Actors)]
  /\ edges \in Graph
  /\ pubs \in 0 .. MaxPubs

\* A publication that still needs a slot has a next match.
Progress ==
  \A a \in Actors : at[a] \in {"reserve", "wait"} => got[a] < Len(targets[a])

\* The publications that wait for queue k, and the slots reserved there.
waiting(k) == {a \in Actors : at[a] = "wait" /\ target(a) = k}
reserved(k) == UNION {slots(a, k) : a \in Actors}

\* The futures parked on a queue are those of the publications that wait for
\* it, once each.
QueuesExact ==
  \A k \in Keys : Distinct(waiters[k]) /\ Members(waiters[k]) = waiting(k)

\* No queue is oversubscribed.
Fits == \A k \in Keys : IsFiniteSet(reserved(k)) /\ used(k) <= Capacity

AInv == Types /\ Progress /\ QueuesExact /\ EdgesExact /\ Fits /\ WaitsAcyclic

\* What the invariant says in the initial state.
LEMMA AInvInit == Init => AInv
<1>. SUFFICES ASSUME Init PROVE AInv
  OBVIOUS
<1>1. Types
  BY ConstAssumption DEF Init, Types, Graph, NoEdges, Holding
<1>2. Progress
  BY DEF Init, Progress
<1>3. \A k \in Keys : waiting(k) = {}
  BY DEF Init, waiting
<1>4. QueuesExact
  <2>. SUFFICES ASSUME NEW k \in Keys
                PROVE  Distinct(waiters[k]) /\ Members(waiters[k]) = waiting(k)
    BY DEF QueuesExact
  <2>1. waiters[k] = <<>> /\ Len(waiters[k]) = 0
    BY DEF Init
  <2>. QED  BY <1>3, <2>1 DEF Distinct, Members
<1>5. EdgesExact
  <2>. SUFFICES ASSUME NEW s \in Keys, NEW t \in Keys
                PROVE  edges[<<s, t>>] = 0 /\ at[s] # "wait"
    BY DEF EdgesExact
  <2>. QED  BY DEF Init, NoEdges, Edge, Actors
<1>6. Fits
  <2>. SUFFICES ASSUME NEW k \in Keys
                PROVE  IsFiniteSet(reserved(k)) /\ used(k) <= Capacity
    BY DEF Fits
  <2>1. \A a \in Actors : got[a] = 0
    BY DEF Init
  <2>2. \A a \in Actors : slots(a, k) = {}
    BY <2>1 DEF slots
  <2>3. reserved(k) = {}
    BY <2>2 DEF reserved
  <2>4. used(k) = queued[k] + Cardinality(reserved(k))
    BY DEF used, reserved
  <2>5. queued[k] = 0
    BY DEF Init
  <2>. QED  BY <2>3, <2>4, <2>5, FS_EmptySet, ConstAssumption
<1>7. WaitsAcyclic
  BY GraphInvInit DEF GraphInv
<1>. QED  BY <1>1, <1>2, <1>4, <1>5, <1>6, <1>7 DEF AInv

-----------------------------------------------------------------------------
(* Waits begin and end. *)

\* The wait graph agrees with the sets of waiting publications.
LEMMA EdgesAre ==
  EdgesExact <=> \A s, t \in Keys :
                   edges[<<s, t>>] = IF s \in waiting(t) /\ sourced[s] THEN 1 ELSE 0
BY DEF EdgesExact, waiting, Actors

\* Nobody begins or ends a wait.
LEMMA SameWaits ==
  ASSUME QueuesExact, EdgesExact, UNCHANGED <<waiters, edges>>,
         \A k \in Keys : waiting(k)' = waiting(k),
         \A k \in Keys : \A b \in waiting(k) : sourced'[b] = sourced[b]
  PROVE  QueuesExact' /\ EdgesExact'
<1>1. QueuesExact'
  BY DEF QueuesExact
<1>2. \A s, t \in Keys : edges'[<<s, t>>] = IF s \in waiting(t)' /\ sourced'[s] THEN 1 ELSE 0
  BY EdgesAre
<1>3. EdgesExact' <=> \A s, t \in Keys : edges'[<<s, t>>] = IF s \in waiting(t)' /\ sourced'[s] THEN 1 ELSE 0
  BY DEF EdgesExact, waiting, Actors
<1>. QED  BY <1>1, <1>2, <1>3

\* Publication a begins to wait for queue k.
LEMMA BeginWait ==
  ASSUME Types, QueuesExact, EdgesExact, NEW a \in Actors, NEW k \in Keys,
         \A q \in Keys : a \notin waiting(q),
         waiters' = [waiters EXCEPT ![k] = Append(@, a)],
         edges' = IF sourced[a] THEN entered(edges, a, k) ELSE edges,
         waiting(k)' = waiting(k) \cup {a},
         \A q \in Keys \ {k} : waiting(q)' = waiting(q),
         sourced' = sourced
  PROVE  QueuesExact' /\ EdgesExact'
<1>1. QueuesExact'
  <2>. SUFFICES ASSUME NEW q \in Keys
                PROVE  Distinct(waiters'[q]) /\ Members(waiters'[q]) = waiting(q)'
    BY DEF QueuesExact
  <2>1. waiters[q] \in Seq(Actors) /\ Distinct(waiters[q]) /\ Members(waiters[q]) = waiting(q)
    BY DEF Types, QueuesExact
  <2>2. CASE q = k
    <3>1. waiters'[q] = Append(waiters[q], a)
      BY <2>2 DEF Types
    <3>2. a \notin Members(waiters[q])
      BY <2>1
    <3>3. Members(Append(waiters[q], a)) = Members(waiters[q]) \cup {a} /\ Distinct(Append(waiters[q], a))
      BY <2>1, <3>2, MembersAppend
    <3>. QED  BY <2>1, <2>2, <3>1, <3>3
  <2>3. CASE q # k
    <3>1. waiters'[q] = waiters[q]
      BY <2>3 DEF Types
    <3>. QED  BY <2>1, <2>3, <3>1
  <2>. QED  BY <2>2, <2>3
<1>2. ASSUME NEW s \in Keys, NEW t \in Keys
      PROVE  edges'[<<s, t>>] = IF s \in waiting(t)' /\ sourced'[s] THEN 1 ELSE 0
  <2>1. edges[<<s, t>>] = IF s \in waiting(t) /\ sourced[s] THEN 1 ELSE 0
    BY EdgesAre
  <2>2. CASE s = a /\ t = k
    <3>1. edges[<<s, t>>] = 0 /\ s \in waiting(t)'
      BY <2>1, <2>2
    <3>2. CASE sourced[a]
      <4>1. edges' = [edges EXCEPT ![<<a, k>>] = @ + 1]
        BY <3>2 DEF entered
      <4>2. edges'[<<s, t>>] = edges[<<s, t>>] + 1
        BY <2>2, <4>1 DEF Types, Graph, Edge
      <4>. QED  BY <2>2, <3>1, <3>2, <4>2
    <3>3. CASE ~sourced[a]
      BY <2>2, <3>1, <3>3
    <3>. QED  BY <3>2, <3>3
  <2>3. CASE s # a \/ t # k
    <3>1. edges'[<<s, t>>] = edges[<<s, t>>]
      <4>1. CASE sourced[a]
        <5>1. edges' = [edges EXCEPT ![<<a, k>>] = @ + 1]
          BY <4>1 DEF entered
        <5>2. <<s, t>> # <<a, k>> /\ <<s, t>> \in Edge
          BY <2>3 DEF Edge
        <5>. QED  BY <5>1, <5>2 DEF Types, Graph
      <4>2. CASE ~sourced[a]
        BY <4>2
      <4>. QED  BY <4>1, <4>2
    <3>2. s \in waiting(t)' <=> s \in waiting(t)
      BY <2>3
    <3>. QED  BY <2>1, <3>1, <3>2
  <2>. QED  BY <2>2, <2>3
<1>3. EdgesExact' <=> \A s, t \in Keys : edges'[<<s, t>>] = IF s \in waiting(t)' /\ sourced'[s] THEN 1 ELSE 0
  BY DEF EdgesExact, waiting, Actors
<1>. QED  BY <1>1, <1>2, <1>3

\* Publication a, which waits for queue k, ends its wait.
LEMMA EndWait ==
  ASSUME Types, QueuesExact, EdgesExact, NEW a \in Actors, NEW k \in Keys, a \in waiting(k),
         NEW r, Distinct(r), Members(r) = Members(waiters[k]) \ {a},
         waiters' = [waiters EXCEPT ![k] = r],
         edges' = left(a),
         waiting(k)' = waiting(k) \ {a},
         \A q \in Keys \ {k} : waiting(q)' = waiting(q),
         \A b \in Actors \ {a} : sourced'[b] = sourced[b]
  PROVE  QueuesExact' /\ EdgesExact'
<1>1. QueuesExact'
  <2>. SUFFICES ASSUME NEW q \in Keys
                PROVE  Distinct(waiters'[q]) /\ Members(waiters'[q]) = waiting(q)'
    BY DEF QueuesExact
  <2>1. Distinct(waiters[q]) /\ Members(waiters[q]) = waiting(q)
    BY DEF QueuesExact
  <2>2. CASE q = k
    <3>1. waiters'[q] = r
      BY <2>2 DEF Types
    <3>. QED  BY <2>1, <2>2, <3>1
  <2>3. CASE q # k
    <3>1. waiters'[q] = waiters[q]
      BY <2>3 DEF Types
    <3>. QED  BY <2>1, <2>3, <3>1
  <2>. QED  BY <2>2, <2>3
<1>2. at[a] = "wait" /\ target(a) = k
  BY DEF waiting
<1>3. edges' = IF sourced[a] THEN dropped(edges, a, k) ELSE edges
  BY <1>2 DEF left
<1>4. ASSUME NEW s \in Keys, NEW t \in Keys
      PROVE  edges'[<<s, t>>] = IF s \in waiting(t)' /\ sourced'[s] THEN 1 ELSE 0
  <2>1. edges[<<s, t>>] = IF s \in waiting(t) /\ sourced[s] THEN 1 ELSE 0
    BY EdgesAre
  <2>2. CASE s = a /\ t = k
    <3>1. edges[<<s, t>>] = (IF sourced[a] THEN 1 ELSE 0) /\ s \notin waiting(t)'
      BY <2>1, <2>2
    <3>2. CASE sourced[a]
      <4>1. edges' = [edges EXCEPT ![<<a, k>>] = IF @ > 0 THEN @ - 1 ELSE 0]
        BY <1>3, <3>2 DEF dropped
      <4>2. edges'[<<s, t>>] = 0
        BY <2>2, <3>1, <3>2, <4>1 DEF Types, Graph, Edge
      <4>. QED  BY <3>1, <4>2
    <3>3. CASE ~sourced[a]
      BY <1>3, <3>1, <3>3
    <3>. QED  BY <3>2, <3>3
  <2>3. CASE s # a \/ t # k
    <3>1. edges'[<<s, t>>] = edges[<<s, t>>]
      <4>1. CASE sourced[a]
        <5>1. edges' = [edges EXCEPT ![<<a, k>>] = IF @ > 0 THEN @ - 1 ELSE 0]
          BY <1>3, <4>1 DEF dropped
        <5>2. <<s, t>> # <<a, k>> /\ <<s, t>> \in Edge
          BY <2>3 DEF Edge
        <5>. QED  BY <5>1, <5>2 DEF Types, Graph
      <4>2. CASE ~sourced[a]
        BY <1>3, <4>2
      <4>. QED  BY <4>1, <4>2
    <3>2. s \in waiting(t)' <=> s \in waiting(t)
      BY <2>3
    <3>3. s \in waiting(t) => s # a
      BY <1>2, <2>3 DEF waiting
    <3>4. s \in waiting(t) => sourced'[s] = sourced[s]
      BY <3>3 DEF Actors
    <3>. QED  BY <2>1, <3>1, <3>2, <3>4
  <2>. QED  BY <2>2, <2>3
<1>5. EdgesExact' <=> \A s, t \in Keys : edges'[<<s, t>>] = IF s \in waiting(t)' /\ sourced'[s] THEN 1 ELSE 0
  BY DEF EdgesExact, waiting, Actors
<1>. QED  BY <1>1, <1>4, <1>5

-----------------------------------------------------------------------------
(* Slots are reserved and released. *)

\* A slot of queue k is a match of a publication that got past it.
LEMMA InReserved ==
  ASSUME NEW k, NEW x
  PROVE  x \in reserved(k) <=>
           \E b \in Actors : \E i \in 1 .. got[b] : x = <<b, i>> /\ targets[b][i] = k
BY DEF reserved, slots

\* The same in the next state.
LEMMA InReservedNext ==
  ASSUME NEW k, NEW x
  PROVE  x \in reserved(k)' <=>
           \E b \in Actors : \E i \in 1 .. got'[b] : x = <<b, i>> /\ targets'[b][i] = k
BY DEF reserved, slots

\* No slot moves.
LEMMA SameSlots ==
  ASSUME Fits, UNCHANGED <<targets, got>>, \A k \in Keys : queued'[k] = queued[k]
  PROVE  Fits'
BY DEF Fits, used, reserved, slots

\* Publication a gets the slot of its next match.
LEMMA TakeSlot ==
  ASSUME Types, Fits, NEW a \in Actors, target(a) \in Keys, used(target(a)) < Capacity,
         got' = [got EXCEPT ![a] = @ + 1], UNCHANGED <<queued, targets>>
  PROVE  Fits'
<1>t. PICK t : t = target(a)
  OBVIOUS
<1>e. PICK e : e = <<a, got[a] + 1>>
  OBVIOUS
<1>1. targets[a][got[a] + 1] = t
  BY <1>t DEF target
<1>2. got[a] \in Nat /\ got'[a] = got[a] + 1 /\ \A b \in Actors \ {a} : got'[b] = got[b]
  BY DEF Types
<1>3. t \in Keys /\ used(t) < Capacity
  BY <1>t
<1>4. \A i : i \in 1 .. got'[a] <=> i \in 1 .. got[a] \/ i = got[a] + 1
  BY <1>2
<1>5. ASSUME NEW k \in Keys, k # t PROVE reserved(k)' = reserved(k)
  <2>. SUFFICES ASSUME NEW x PROVE x \in reserved(k)' <=> x \in reserved(k)
    OBVIOUS
  <2>. QED  BY <1>1, <1>2, <1>4, <1>5, InReserved, InReservedNext
<1>6. reserved(t)' = reserved(t) \cup {e}
  <2>. SUFFICES ASSUME NEW x PROVE x \in reserved(t)' <=> x \in reserved(t) \/ x = e
    OBVIOUS
  <2>. QED  BY <1>e, <1>1, <1>2, <1>4, InReserved, InReservedNext
<1>. SUFFICES ASSUME NEW k \in Keys
              PROVE  IsFiniteSet(reserved(k)') /\ used(k)' <= Capacity
  BY DEF Fits
<1>7. used(k) = queued[k] + Cardinality(reserved(k)) /\ used(k)' = queued[k] + Cardinality(reserved(k)')
  BY DEF used, reserved
<1>8. IsFiniteSet(reserved(k)) /\ used(k) <= Capacity /\ queued[k] \in Nat
  BY DEF Fits, Types
<1>9. CASE k # t
  BY <1>5, <1>7, <1>8, <1>9
<1>10. CASE k = t
  <2>0. Capacity \in Nat
    BY ConstAssumption
  <2>1. reserved(k)' = reserved(k) \cup {e}
    BY <1>6, <1>10
  <2>2. IsFiniteSet(reserved(k)') /\ Cardinality(reserved(k)') <= Cardinality(reserved(k)) + 1
    <3>1. PICK R : R = reserved(k)
      OBVIOUS
    <3>2. IsFiniteSet(R) /\ Cardinality(R) \in Nat
      BY <1>8, <3>1, FS_CardinalityType
    <3>3. IsFiniteSet(R \cup {e}) /\ Cardinality(R \cup {e}) <= Cardinality(R) + 1
      <4>1. /\ IsFiniteSet(R \cup {e})
            /\ Cardinality(R \cup {e}) = IF e \in R THEN Cardinality(R) ELSE Cardinality(R) + 1
        BY <3>2, FS_AddElement
      <4>. QED  BY <3>2, <4>1
    <3>. QED  BY <2>1, <3>1, <3>3
  <2>3. Cardinality(reserved(k)) \in Nat /\ Cardinality(reserved(k)') \in Nat
    BY <1>8, <2>2, FS_CardinalityType
  <2>4. used(k) < Capacity
    BY <1>3, <1>10
  <2>. QED  BY <1>7, <1>8, <2>0, <2>2, <2>3, <2>4
<1>. QED  BY <1>9, <1>10

\* Publication a is over: its slots are free, or hold queued work.
LEMMA ReleaseSlots ==
  ASSUME Types, Fits, NEW a \in Actors, got' = [got EXCEPT ![a] = 0],
         \A b \in Actors \ {a} : targets'[b] = targets[b],
         \/ \A k \in Keys : queued'[k] = queued[k]
         \/ \A k \in Keys : queued'[k] = queued[k] + held(a, k)
  PROVE  Fits'
<1>. SUFFICES ASSUME NEW k \in Keys
              PROVE  IsFiniteSet(reserved(k)') /\ used(k)' <= Capacity
  BY DEF Fits
<1>1. \A x : x \in slots(a, k) <=> \E i \in 1 .. got[a] : x = <<a, i>> /\ targets[a][i] = k
  BY DEF slots
<1>2. got'[a] = 0 /\ \A b \in Actors \ {a} : got'[b] = got[b]
  BY DEF Types
<1>3. reserved(k)' = reserved(k) \ slots(a, k)
  <2>. SUFFICES ASSUME NEW x PROVE x \in reserved(k)' <=> x \in reserved(k) /\ x \notin slots(a, k)
    OBVIOUS
  <2>0. \A i : i \notin 1 .. got'[a]
    BY <1>2
  <2>. QED  BY <1>1, <1>2, <2>0, InReserved, InReservedNext
<1>4. slots(a, k) \subseteq reserved(k)
  BY DEF reserved
<1>5. used(k) = queued[k] + Cardinality(reserved(k)) /\ used(k)' = queued'[k] + Cardinality(reserved(k)')
  BY DEF used, reserved
<1>6. IsFiniteSet(reserved(k)) /\ used(k) <= Capacity /\ queued[k] \in Nat /\ Capacity \in Nat
  BY ConstAssumption DEF Fits, Types
<1>7. /\ IsFiniteSet(reserved(k)')
      /\ Cardinality(reserved(k)') = Cardinality(reserved(k)) - Cardinality(slots(a, k))
  <2>1. reserved(k) \cap slots(a, k) = slots(a, k)
    BY <1>4
  <2>2. PICK R, U : R = reserved(k) /\ U = slots(a, k)
    OBVIOUS
  <2>3. IsFiniteSet(R \ U) /\ Cardinality(R \ U) = Cardinality(R) - Cardinality(R \cap U)
    BY <1>6, <2>2, FS_Difference
  <2>. QED  BY <1>3, <2>1, <2>2, <2>3
<1>8. Cardinality(reserved(k)) \in Nat /\ Cardinality(slots(a, k)) \in Nat
  BY <1>4, <1>6, FS_Subset, FS_CardinalityType
<1>9. held(a, k) = Cardinality(slots(a, k))
  BY DEF held
<1>10. queued'[k] = queued[k] \/ queued'[k] = queued[k] + Cardinality(slots(a, k))
  BY <1>9
<1>. QED  BY <1>5, <1>6, <1>7, <1>8, <1>10

-----------------------------------------------------------------------------
(* One lemma per operation. *)

\* A publication that needs a slot knows which.
LEMMA TargetType ==
  ASSUME Types, Progress, NEW a \in Actors, at[a] \in {"reserve", "wait"}
  PROVE  target(a) \in Keys /\ got[a] + 1 <= Len(targets[a])
<1>1. targets[a] \in Seq(Keys) /\ got[a] \in Nat /\ got[a] < Len(targets[a])
  BY DEF Types, Progress
<1>. QED  BY <1>1 DEF target

\* A step of publication a moves no other publication's wait.
LEMMA OthersWait ==
  ASSUME NEW a, \A b \in Actors \ {a} : at'[b] = at[b] /\ targets'[b] = targets[b] /\ got'[b] = got[b]
  PROVE  \A k \in Keys : \A b \in Actors \ {a} : b \in waiting(k)' <=> b \in waiting(k)
BY DEF waiting, target

\* Where the next match leaves a publication.
LEMMA AfterSlot ==
  ASSUME Types, NEW a \in Actors, got[a] + 1 <= Len(targets[a]),
         at' = [at EXCEPT ![a] = after_slot(a)],
         got' = [got EXCEPT ![a] = @ + 1], targets' = targets
  PROVE  /\ at' \in [Actors -> {"none"} \cup Holding] /\ got' \in [Actors -> Nat]
         /\ at'[a] # "wait"
         /\ at'[a] \in {"reserve", "wait"} => got'[a] < Len(targets'[a])
         /\ \A b \in Actors \ {a} : at'[b] = at[b] /\ got'[b] = got[b]
<1>1. targets[a] \in Seq(Keys) /\ got[a] \in Nat /\ Len(targets[a]) \in Nat
  BY DEF Types
<1>2. at'[a] = after_slot(a) /\ got'[a] = got[a] + 1
  BY DEF Types
<1>3. after_slot(a) \in {"reserve", "reserved"} /\ (after_slot(a) = "reserve" => got[a] + 1 # Len(targets[a]))
  BY DEF after_slot
<1>4. at' \in [Actors -> {"none"} \cup Holding]
  BY <1>3 DEF Types, Holding
<1>5. got' \in [Actors -> Nat] /\ \A b \in Actors \ {a} : at'[b] = at[b] /\ got'[b] = got[b]
  BY <1>1 DEF Types
<1>6. at'[a] \in {"reserve", "wait"} => got'[a] < Len(targets'[a])
  <2>1. at'[a] \in {"reserve", "wait"} => got[a] + 1 # Len(targets[a])
    BY <1>2, <1>3
  <2>. QED  BY <1>1, <1>2, <2>1
<1>. QED  BY <1>2, <1>3, <1>4, <1>5, <1>6

\* Where the end of a publication leaves it.
LEMMA Over ==
  ASSUME Types, NEW a \in Actors, over(a)
  PROVE  /\ at' \in [Actors -> {"none"} \cup Holding] /\ got' \in [Actors -> Nat]
         /\ targets' \in [Actors -> Seq(Keys)]
         /\ at'[a] = "none"
         /\ \A b \in Actors \ {a} : at'[b] = at[b] /\ got'[b] = got[b] /\ targets'[b] = targets[b]
         /\ sourced' \in [Actors -> BOOLEAN]
         /\ \A b \in Actors \ {a} : sourced'[b] = sourced[b]
<1>1. at' = [at EXCEPT ![a] = "none"] /\ at \in [Actors -> {"none"} \cup Holding]
  BY DEF over, Types
<1>2. targets' = [targets EXCEPT ![a] = <<>>] /\ targets \in [Actors -> Seq(Keys)]
  BY DEF over, Types
<1>3. got' = [got EXCEPT ![a] = 0] /\ got \in [Actors -> Nat]
  BY DEF over, Types
<1>4. targets' \in [Actors -> Seq(Keys)] /\ \A b \in Actors \ {a} : targets'[b] = targets[b]
  BY <1>2
<1>5. sourced' = [sourced EXCEPT ![a] = FALSE] /\ sourced \in [Actors -> BOOLEAN]
  BY DEF over, Types
<1>6. sourced' \in [Actors -> BOOLEAN] /\ \A b \in Actors \ {a} : sourced'[b] = sourced[b]
  BY <1>5
<1>. QED  BY <1>1, <1>3, <1>4, <1>6

\* Progress of the publication that moves and of the others.
LEMMA ProgressStep ==
  ASSUME Progress, NEW a \in Actors,
         at'[a] \in {"reserve", "wait"} => got'[a] < Len(targets'[a]),
         \A b \in Actors \ {a} : at'[b] = at[b] /\ got'[b] = got[b] /\ targets'[b] = targets[b]
  PROVE  Progress'
BY DEF Progress

\* A publication starts.
LEMMA StartStep ==
  ASSUME AInv, NEW a \in Actors, NEW f \in Fanouts, NEW src \in BOOLEAN, Start(a, f, src)
  PROVE  Types' /\ Progress' /\ QueuesExact' /\ EdgesExact' /\ Fits'
<1>. USE DEF AInv
<1>1. /\ at' = [at EXCEPT ![a] = "reserve"] /\ targets' = [targets EXCEPT ![a] = f]
      /\ got' = [got EXCEPT ![a] = 0] /\ at[a] = "none"
      /\ sourced' = [sourced EXCEPT ![a] = src]
      /\ UNCHANGED <<queued, invoking, waiters, edges>>
  BY DEF Start
<1>2. f \in Seq(Keys) /\ f # <<>>
  BY ConstAssumption
<1>3. /\ at'[a] = "reserve" /\ targets'[a] = f /\ got'[a] = 0
      /\ \A b \in Actors \ {a} : at'[b] = at[b] /\ got'[b] = got[b] /\ targets'[b] = targets[b]
  BY <1>1 DEF Types
<1>4. Types'
  <2>1. pubs' \in 0 .. MaxPubs
    BY ConstAssumption DEF Start, Types
  <2>2. at' \in [Actors -> {"none"} \cup Holding] /\ got' \in [Actors -> Nat]
    BY <1>1 DEF Types, Holding
  <2>3. targets' \in [Actors -> Seq(Keys)]
    BY <1>1, <1>2 DEF Types
  <2>4. sourced' \in [Actors -> BOOLEAN]
    BY <1>1 DEF Types
  <2>. QED  BY <1>1, <2>1, <2>2, <2>3, <2>4 DEF Types
<1>5. Progress'
  <2>1. Len(f) \in Nat /\ Len(f) > 0
    BY <1>2
  <2>. QED  BY <1>3, <2>1, ProgressStep
<1>6. \A k \in Keys : waiting(k)' = waiting(k)
  <2>1. \A k \in Keys : a \notin waiting(k) /\ a \notin waiting(k)'
    BY <1>1, <1>3 DEF waiting
  <2>2. \A k \in Keys : waiting(k) \subseteq Actors /\ waiting(k)' \subseteq Actors
    BY DEF waiting
  <2>3. \A k \in Keys : \A b \in Actors \ {a} : b \in waiting(k)' <=> b \in waiting(k)
    BY <1>1, <1>3, OthersWait
  <2>. QED  BY <2>1, <2>2, <2>3
<1>7. QueuesExact' /\ EdgesExact'
  <2>1. \A k \in Keys : \A b \in waiting(k) : b \in Actors /\ b # a
    BY <1>1 DEF waiting
  <2>2. \A b \in Actors \ {a} : sourced'[b] = sourced[b]
    BY <1>1 DEF Types
  <2>. QED  BY <1>1, <1>6, <2>1, <2>2, SameWaits
<1>8. Fits'
  BY <1>1, <1>3, ReleaseSlots
<1>. QED  BY <1>4, <1>5, <1>7, <1>8

\* A free slot is reserved at once.
LEMMA TryReserveStep ==
  ASSUME AInv, NEW a \in Actors, TryReserve(a)
  PROVE  Types' /\ Progress' /\ QueuesExact' /\ EdgesExact' /\ Fits'
<1>. USE DEF AInv
<1>1. /\ at[a] = "reserve" /\ used(target(a)) < Capacity
      /\ got' = [got EXCEPT ![a] = @ + 1] /\ at' = [at EXCEPT ![a] = after_slot(a)]
      /\ UNCHANGED <<queued, invoking, sourced, targets, waiters, edges, pubs>>
  BY DEF TryReserve
<1>2. target(a) \in Keys /\ got[a] + 1 <= Len(targets[a])
  BY <1>1, TargetType
<1>3. /\ at' \in [Actors -> {"none"} \cup Holding] /\ got' \in [Actors -> Nat]
      /\ at'[a] # "wait"
      /\ at'[a] \in {"reserve", "wait"} => got'[a] < Len(targets'[a])
      /\ \A b \in Actors \ {a} : at'[b] = at[b] /\ got'[b] = got[b]
  BY <1>1, <1>2, AfterSlot
<1>4. Types'
  BY <1>1, <1>3 DEF Types
<1>5. Progress'
  BY <1>1, <1>3, ProgressStep
<1>6. \A k \in Keys : waiting(k)' = waiting(k)
  <2>1. \A k \in Keys : a \notin waiting(k) /\ a \notin waiting(k)'
    BY <1>1, <1>3 DEF waiting
  <2>2. \A k \in Keys : waiting(k) \subseteq Actors /\ waiting(k)' \subseteq Actors
    BY DEF waiting
  <2>3. \A k \in Keys : \A b \in Actors \ {a} : b \in waiting(k)' <=> b \in waiting(k)
    BY <1>1, <1>3, OthersWait
  <2>. QED  BY <2>1, <2>2, <2>3
<1>7. QueuesExact' /\ EdgesExact'
  BY <1>1, <1>6, SameWaits
<1>8. Fits'
  BY <1>1, <1>2, TakeSlot
<1>. QED  BY <1>4, <1>5, <1>7, <1>8

\* A full queue is waited for, or the publication is refused.
LEMMA FullStep ==
  ASSUME AInv, NEW a \in Actors, Full(a)
  PROVE  Types' /\ Progress' /\ QueuesExact' /\ EdgesExact' /\ Fits'
<1>. USE DEF AInv
<1>k. PICK k : k = target(a)
  OBVIOUS
<1>1. at[a] = "reserve" /\ UNCHANGED <<queued, invoking, pubs>>
  BY DEF Full
<1>2. k \in Keys /\ got[a] + 1 <= Len(targets[a])
  BY <1>k, <1>1, TargetType
<1>3. \A q \in Keys : a \notin waiting(q)
  BY <1>1 DEF waiting
<1>4. \A q \in Keys : waiting(q) \subseteq Actors /\ waiting(q)' \subseteq Actors
  BY DEF waiting
<1>5. CASE sourced[a] /\ rejects(edges, a, k)
  <2>1. over(a) /\ UNCHANGED <<waiters, edges>>
    BY <1>5, <1>k DEF Full
  <2>2. /\ at' \in [Actors -> {"none"} \cup Holding] /\ got' \in [Actors -> Nat]
        /\ targets' \in [Actors -> Seq(Keys)]
        /\ at'[a] = "none"
        /\ \A b \in Actors \ {a} : at'[b] = at[b] /\ got'[b] = got[b] /\ targets'[b] = targets[b]
        /\ sourced' \in [Actors -> BOOLEAN]
        /\ \A b \in Actors \ {a} : sourced'[b] = sourced[b]
    BY <2>1, Over
  <2>3. Types'
    BY <1>1, <2>1, <2>2 DEF Types
  <2>4. Progress'
    BY <2>2, ProgressStep
  <2>5. \A q \in Keys : waiting(q)' = waiting(q)
    <3>1. \A q \in Keys : a \notin waiting(q)'
      BY <2>2 DEF waiting
    <3>2. \A q \in Keys : \A b \in Actors \ {a} : b \in waiting(q)' <=> b \in waiting(q)
      BY <2>2, OthersWait
    <3>. QED  BY <1>3, <1>4, <3>1, <3>2
  <2>6. QueuesExact' /\ EdgesExact'
    <3>1. \A q \in Keys : \A b \in waiting(q) : sourced'[b] = sourced[b]
      BY <1>3, <1>4, <2>2
    <3>. QED  BY <2>1, <2>5, <3>1, SameWaits
  <2>7. Fits'
    <3>1. got' = [got EXCEPT ![a] = 0]
      BY <2>1 DEF over
    <3>. QED  BY <1>1, <2>2, <3>1, ReleaseSlots
  <2>. QED  BY <2>3, <2>4, <2>6, <2>7
<1>6. CASE ~(sourced[a] /\ rejects(edges, a, k))
  <2>1. /\ at' = [at EXCEPT ![a] = "wait"]
        /\ waiters' = [waiters EXCEPT ![k] = Append(@, a)]
        /\ edges' = IF sourced[a] THEN entered(edges, a, k) ELSE edges
        /\ UNCHANGED <<sourced, targets, got>>
    BY <1>6, <1>k DEF Full
  <2>2. /\ at' \in [Actors -> {"none"} \cup Holding] /\ at'[a] = "wait"
        /\ \A b \in Actors \ {a} : at'[b] = at[b]
    BY <2>1 DEF Types, Holding
  <2>3. Types'
    <3>1. waiters' \in [Keys -> Seq(Actors)]
      <4>1. waiters[k] \in Seq(Actors) /\ waiters \in [Keys -> Seq(Actors)]
        BY <1>2 DEF Types
      <4>2. Append(waiters[k], a) \in Seq(Actors)
        BY <4>1, MembersAppend
      <4>. QED  BY <1>2, <2>1, <4>1, <4>2
    <3>2. edges' \in Graph
      <4>1. CASE sourced[a]
        <5>1. edges' = entered(edges, a, k) /\ ~rejects(edges, a, k)
          BY <1>6, <2>1, <4>1
        <5>. QED  BY <5>1, EnteredAcyclic DEF Types, WaitsAcyclic
      <4>2. CASE ~sourced[a]
        BY <2>1, <4>2 DEF Types
      <4>. QED  BY <4>1, <4>2
    <3>. QED  BY <1>1, <2>1, <2>2, <3>1, <3>2 DEF Types
  <2>4. Progress'
    <3>1. got[a] < Len(targets[a])
      BY <1>1 DEF Progress
    <3>. QED  BY <2>1, <2>2, <3>1, ProgressStep
  <2>5. target(a)' = k
    BY <1>k, <2>1 DEF target
  <2>6. \A q \in Keys : \A b \in Actors \ {a} : b \in waiting(q)' <=> b \in waiting(q)
    BY <2>1, <2>2, OthersWait
  <2>7. \A q \in Keys : a \in waiting(q)' <=> q = k
    BY <2>2, <2>5 DEF waiting
  <2>8. waiting(k)' = waiting(k) \cup {a}
    BY <1>2, <1>4, <2>6, <2>7
  <2>9. \A q \in Keys \ {k} : waiting(q)' = waiting(q)
    BY <1>3, <1>4, <2>6, <2>7
  <2>10. QueuesExact' /\ EdgesExact'
    BY <1>2, <1>3, <2>1, <2>8, <2>9, BeginWait
  <2>11. Fits'
    BY <1>1, <2>1, SameSlots
  <2>. QED  BY <2>3, <2>4, <2>10, <2>11
<1>. QED  BY <1>5, <1>6

\* The first waiter gets the freed slot.
LEMMA GrantStep ==
  ASSUME AInv, NEW k \in Keys, Grant(k)
  PROVE  Types' /\ Progress' /\ QueuesExact' /\ EdgesExact' /\ Fits'
<1>. USE DEF AInv
<1>a. PICK a : a = Head(waiters[k])
  OBVIOUS
<1>r. PICK r : r = Tail(waiters[k])
  OBVIOUS
<1>1. /\ waiters[k] # <<>> /\ used(k) < Capacity
      /\ got' = [got EXCEPT ![a] = @ + 1] /\ at' = [at EXCEPT ![a] = after_slot(a)]
      /\ edges' = left(a) /\ waiters' = [waiters EXCEPT ![k] = r]
      /\ UNCHANGED <<queued, invoking, sourced, targets, pubs>>
  BY <1>a, <1>r DEF Grant
<1>2. waiters[k] \in Seq(Actors) /\ Distinct(waiters[k]) /\ Members(waiters[k]) = waiting(k)
  BY DEF Types, QueuesExact
<1>3. /\ a \in Members(waiters[k]) /\ r \in Seq(Actors)
      /\ Members(r) = Members(waiters[k]) \ {a} /\ Distinct(r)
  BY <1>a, <1>r, <1>1, <1>2, MembersTail
<1>4. a \in Actors /\ a \in waiting(k) /\ at[a] = "wait" /\ target(a) = k
  BY <1>2, <1>3 DEF waiting
<1>5. got[a] + 1 <= Len(targets[a])
  BY <1>4, TargetType
<1>6. /\ at' \in [Actors -> {"none"} \cup Holding] /\ got' \in [Actors -> Nat]
      /\ at'[a] # "wait"
      /\ at'[a] \in {"reserve", "wait"} => got'[a] < Len(targets'[a])
      /\ \A b \in Actors \ {a} : at'[b] = at[b] /\ got'[b] = got[b]
  BY <1>1, <1>4, <1>5, AfterSlot
<1>7. Types'
  <2>1. waiters' \in [Keys -> Seq(Actors)]
    BY <1>1, <1>3 DEF Types
  <2>2. edges' \in Graph
    BY <1>1, LeftInv DEF GraphInv, Types
  <2>. QED  BY <1>1, <1>6, <2>1, <2>2 DEF Types
<1>8. Progress'
  BY <1>1, <1>4, <1>6, ProgressStep
<1>9. \A q \in Keys : \A b \in Actors \ {a} : b \in waiting(q)' <=> b \in waiting(q)
  BY <1>1, <1>6, OthersWait
<1>10. \A q \in Keys : a \notin waiting(q)' /\ (a \in waiting(q) <=> q = k)
  BY <1>4, <1>6 DEF waiting
<1>11. \A q \in Keys : waiting(q) \subseteq Actors /\ waiting(q)' \subseteq Actors
  BY DEF waiting
<1>12. waiting(k)' = waiting(k) \ {a} /\ \A q \in Keys \ {k} : waiting(q)' = waiting(q)
  BY <1>9, <1>10, <1>11
<1>13. QueuesExact' /\ EdgesExact'
  BY <1>1, <1>3, <1>4, <1>12, EndWait
<1>14. Fits'
  BY <1>1, <1>4, TakeSlot
<1>. QED  BY <1>7, <1>8, <1>13, <1>14

\* The caller gives up, while it waits or before it commits.
LEMMA CancelStep ==
  ASSUME AInv, NEW a \in Actors, Cancel(a)
  PROVE  Types' /\ Progress' /\ QueuesExact' /\ EdgesExact' /\ Fits'
<1>. USE DEF AInv
<1>1. /\ at[a] \in {"wait", "reserved"} /\ over(a) /\ edges' = left(a)
      /\ waiters' = IF at[a] = "wait" THEN [waiters EXCEPT ![target(a)] = without(@, a)] ELSE waiters
      /\ UNCHANGED <<queued, invoking, pubs>>
  BY DEF Cancel
<1>2. /\ at' \in [Actors -> {"none"} \cup Holding] /\ got' \in [Actors -> Nat]
      /\ targets' \in [Actors -> Seq(Keys)]
      /\ at'[a] = "none"
      /\ \A b \in Actors \ {a} : at'[b] = at[b] /\ got'[b] = got[b] /\ targets'[b] = targets[b]
      /\ sourced' \in [Actors -> BOOLEAN]
      /\ \A b \in Actors \ {a} : sourced'[b] = sourced[b]
  BY <1>1, Over
<1>3. Progress'
  BY <1>2, ProgressStep
<1>4. Fits'
  <2>1. got' = [got EXCEPT ![a] = 0]
    BY <1>1 DEF over
  <2>. QED  BY <1>1, <1>2, <2>1, ReleaseSlots
<1>5. edges' \in Graph
  BY <1>1, LeftInv DEF GraphInv, Types
<1>6. \A q \in Keys : \A b \in Actors \ {a} : b \in waiting(q)' <=> b \in waiting(q)
  BY <1>2, OthersWait
<1>7. \A q \in Keys : a \notin waiting(q)' /\ waiting(q) \subseteq Actors /\ waiting(q)' \subseteq Actors
  BY <1>2 DEF waiting
<1>8. CASE at[a] = "reserved"
  <2>1. waiters' = waiters /\ edges' = edges
    BY <1>1, <1>8 DEF left
  <2>2. \A q \in Keys : a \notin waiting(q)
    BY <1>8 DEF waiting
  <2>3. \A q \in Keys : waiting(q)' = waiting(q)
    BY <1>6, <1>7, <2>2
  <2>4. Types'
    BY <1>1, <1>2, <1>5, <2>1 DEF Types
  <2>5. \A q \in Keys : \A b \in waiting(q) : sourced'[b] = sourced[b]
    BY <1>2, <1>7, <2>2
  <2>. QED  BY <1>3, <1>4, <2>1, <2>3, <2>4, <2>5, SameWaits
<1>9. CASE at[a] = "wait"
  <2>k. PICK k : k = target(a)
    OBVIOUS
  <2>1. k \in Keys
    BY <1>9, <2>k, TargetType
  <2>2. waiters[k] \in Seq(Actors) /\ Distinct(waiters[k]) /\ Members(waiters[k]) = waiting(k)
    BY <2>1 DEF Types, QueuesExact
  <2>3. a \in waiting(k) /\ \A q \in Keys : (a \in waiting(q) <=> q = k)
    BY <1>9, <2>1, <2>k DEF waiting
  <2>r. PICK r : r = without(waiters[k], a)
    OBVIOUS
  <2>4. waiters' = [waiters EXCEPT ![k] = r]
    BY <1>1, <1>9, <2>k, <2>r
  <2>5. r \in Seq(Actors) /\ Members(r) = Members(waiters[k]) \ {a} /\ Distinct(r)
    BY <2>2, <2>3, <2>r, MembersWithout
  <2>6. waiting(k)' = waiting(k) \ {a} /\ \A q \in Keys \ {k} : waiting(q)' = waiting(q)
    BY <1>6, <1>7, <2>1, <2>3
  <2>7. QueuesExact' /\ EdgesExact'
    BY <1>1, <1>2, <2>1, <2>3, <2>4, <2>5, <2>6, EndWait
  <2>8. Types'
    <3>1. waiters' \in [Keys -> Seq(Actors)]
      BY <2>4, <2>5 DEF Types
    <3>. QED  BY <1>1, <1>2, <1>5, <3>1 DEF Types
  <2>. QED  BY <1>3, <1>4, <2>7, <2>8
<1>. QED  BY <1>1, <1>8, <1>9

\* Every reserved slot becomes queued work.
LEMMA CommitStep ==
  ASSUME AInv, NEW a \in Actors, Commit(a)
  PROVE  Types' /\ Progress' /\ QueuesExact' /\ EdgesExact' /\ Fits'
<1>. USE DEF AInv
<1>1. /\ at[a] = "reserved" /\ over(a) /\ queued' = [k \in Keys |-> queued[k] + held(a, k)]
      /\ UNCHANGED <<invoking, waiters, edges, pubs>>
  BY DEF Commit
<1>2. /\ at' \in [Actors -> {"none"} \cup Holding] /\ got' \in [Actors -> Nat]
      /\ targets' \in [Actors -> Seq(Keys)]
      /\ at'[a] = "none"
      /\ \A b \in Actors \ {a} : at'[b] = at[b] /\ got'[b] = got[b] /\ targets'[b] = targets[b]
      /\ sourced' \in [Actors -> BOOLEAN]
      /\ \A b \in Actors \ {a} : sourced'[b] = sourced[b]
  BY <1>1, Over
<1>3. ASSUME NEW k \in Keys PROVE held(a, k) \in Nat
  <2>1. IsFiniteSet(reserved(k)) /\ slots(a, k) \subseteq reserved(k)
    BY DEF Fits, reserved
  <2>2. IsFiniteSet(slots(a, k))
    BY <2>1, FS_Subset
  <2>. QED  BY <2>2, FS_CardinalityType DEF held
<1>4. Types'
  <2>1. queued' \in [Keys -> Nat]
    BY <1>1, <1>3 DEF Types
  <2>. QED  BY <1>1, <1>2, <2>1 DEF Types
<1>5. Progress'
  BY <1>2, ProgressStep
<1>6. Fits'
  <2>1. got' = [got EXCEPT ![a] = 0] /\ \A k \in Keys : queued'[k] = queued[k] + held(a, k)
    BY <1>1 DEF over
  <2>. QED  BY <1>2, <2>1, ReleaseSlots
<1>7. \A q \in Keys : \A b \in Actors \ {a} : b \in waiting(q)' <=> b \in waiting(q)
  BY <1>2, OthersWait
<1>8. \A q \in Keys : /\ a \notin waiting(q)' /\ a \notin waiting(q)
                      /\ waiting(q) \subseteq Actors /\ waiting(q)' \subseteq Actors
  BY <1>1, <1>2 DEF waiting
<1>9. \A q \in Keys : waiting(q)' = waiting(q)
  BY <1>7, <1>8
<1>10. QueuesExact' /\ EdgesExact'
  <2>1. \A q \in Keys : \A b \in waiting(q) : sourced'[b] = sourced[b]
    BY <1>2, <1>8
  <2>. QED  BY <1>1, <1>9, <2>1, SameWaits
<1>. QED  BY <1>4, <1>5, <1>6, <1>10

\* A step that moves no publication and queues nothing.
LEMMA QuietStep ==
  ASSUME AInv, UNCHANGED <<at, sourced, targets, got, waiters, edges>>
  PROVE  Progress' /\ QueuesExact' /\ EdgesExact'
<1>1. \A q \in Keys : waiting(q)' = waiting(q)
  BY DEF waiting, target
<1>2. QueuesExact' /\ EdgesExact'
  BY <1>1, SameWaits DEF AInv
<1>. QED  BY <1>2 DEF AInv, Progress

\* A consumer receives work, which frees a slot, or its invocation returns.
LEMMA ConsumerStep ==
  ASSUME AInv, NEW k \in Keys, Invoke(k) \/ Return(k)
  PROVE  Types' /\ Progress' /\ QueuesExact' /\ EdgesExact' /\ Fits'
<1>1. UNCHANGED <<at, sourced, targets, got, waiters, edges, pubs>>
  BY DEF Invoke, Return
<1>2. Progress' /\ QueuesExact' /\ EdgesExact'
  BY <1>1, QuietStep
<1>3. invoking' \in [Keys -> BOOLEAN]
  BY Zenon DEF AInv, Types, Invoke, Return
<1>q. /\ queued \in [Keys -> Nat]
      /\ queued' = queued \/ (queued' = [queued EXCEPT ![k] = @ - 1] /\ queued[k] > 0)
  BY DEF AInv, Types, Invoke, Return
<1>4. \A q \in Keys : queued'[q] \in Nat /\ queued'[q] <= queued[q]
  BY <1>q
<1>5. queued' \in [Keys -> Nat]
  BY <1>q
<1>6. Fits'
  <2>. SUFFICES ASSUME NEW q \in Keys
                PROVE  IsFiniteSet(reserved(q)') /\ used(q)' <= Capacity
    BY DEF Fits
  <2>1. reserved(q)' = reserved(q)
    BY <1>1 DEF reserved, slots
  <2>2. used(q) = queued[q] + Cardinality(reserved(q)) /\ used(q)' = queued'[q] + Cardinality(reserved(q))
    BY <2>1 DEF used, reserved
  <2>3. IsFiniteSet(reserved(q)) /\ used(q) <= Capacity
    BY DEF AInv, Fits
  <2>4. Cardinality(reserved(q)) \in Nat
    BY <2>3, FS_CardinalityType
  <2>5. Capacity \in Nat /\ queued[q] \in Nat
    BY ConstAssumption DEF AInv, Types
  <2>. QED  BY <1>4, <2>1, <2>2, <2>3, <2>4, <2>5
<1>. QED  BY <1>1, <1>2, <1>3, <1>5, <1>6 DEF AInv, Types

\* The invariant is inductive: one case per operation.
LEMMA AInvStep == AInv /\ [Next]_vars => AInv'
<1>. SUFFICES ASSUME AInv, [Next]_vars
              PROVE  AInv'
  OBVIOUS
<1>1. WaitsAcyclic'
  BY GraphInvStep DEF AInv, Types, GraphInv
<1>2. ASSUME Types', Progress', QueuesExact', EdgesExact', Fits'
      PROVE  AInv'
  BY <1>1, <1>2 DEF AInv
<1>3. ASSUME NEW a \in Actors, NEW f \in Fanouts, NEW src \in BOOLEAN, Start(a, f, src)
      PROVE  AInv'
  BY <1>2, <1>3, StartStep
<1>4. ASSUME NEW a \in Actors, TryReserve(a)
      PROVE  AInv'
  BY <1>2, <1>4, TryReserveStep
<1>5. ASSUME NEW a \in Actors, Full(a)
      PROVE  AInv'
  BY <1>2, <1>5, FullStep
<1>6. ASSUME NEW a \in Actors, Cancel(a)
      PROVE  AInv'
  BY <1>2, <1>6, CancelStep
<1>7. ASSUME NEW a \in Actors, Commit(a)
      PROVE  AInv'
  BY <1>2, <1>7, CommitStep
<1>8. ASSUME NEW k \in Keys, Grant(k)
      PROVE  AInv'
  BY <1>2, <1>8, GrantStep
<1>9. ASSUME NEW k \in Keys, Invoke(k) \/ Return(k)
      PROVE  AInv'
  BY <1>2, <1>9, ConsumerStep
<1>10. CASE UNCHANGED vars
  <2>1. UNCHANGED <<at, sourced, targets, got, waiters, edges>> /\ UNCHANGED <<queued, invoking, pubs>>
    BY <1>10 DEF vars
  <2>2. Progress' /\ QueuesExact' /\ EdgesExact'
    BY <2>1, QuietStep
  <2>3. Fits'
    BY <2>1, SameSlots DEF AInv
  <2>4. Types'
    BY <2>1 DEF AInv, Types
  <2>. QED  BY <1>2, <2>2, <2>3, <2>4
<1>. QED  BY <1>3, <1>4, <1>5, <1>6, <1>7, <1>8, <1>9, <1>10 DEF Next

\* The inductive invariant holds in every reachable state.
THEOREM AdmissionInv == Spec => []AInv
BY AInvInit, AInvStep, PTL DEF Spec

\* Queued work and the slots that concurrent publications hold never exceed a
\* consumer's capacity, and every variable has its type: try_reserve_owned,
\* the grants to waiters and the commits together keep CAPSULE_EVENT_QUEUE_CAPACITY.
THEOREM CapacityTheorem == Spec => []TypeOK
<1>1. AInv => TypeOK
  BY DEF AInv, Types, Fits, TypeOK
<1>. QED  BY <1>1, AdmissionInv, PTL

\* Every wait of a publication with a source key has its edge and every edge
\* such a wait: WaitGuard is dropped exactly when the wait ends, by a grant or
\* by a cancellation, whichever publications of a consumer have a source key.
THEOREM EdgesTheorem == Spec => []EdgesExact
<1>1. AInv => EdgesExact
  BY DEF AInv
<1>. QED  BY <1>1, AdmissionInv, PTL

-----------------------------------------------------------------------------
(* Circular waits. *)

\* In an acyclic graph over finitely many consumers no nonempty set of them can
\* have each an edge into the set.
LEMMA NoTrap ==
  ASSUME NEW E, acyclic(E), NEW K \in SUBSET Keys, K # {},
         NEW t, \A x \in K : t[x] \in K /\ <<x, t[x]>> \in E
  PROVE  FALSE
<1>. DEFINE T == {X \in SUBSET Keys : X # {} /\ \A x \in X : t[x] \in X /\ <<x, t[x]>> \in E}
            R == StrictSubsetOrdering(Keys)
<1>1. IsFiniteSet(Keys)
  BY ConstAssumption
<1>2. IsWellFoundedOn(R, SUBSET Keys)
  BY <1>1, FS_StrictSubsetOrderingWellFounded, FS_FiniteSubsetsOfFinite
<1>3. T \subseteq SUBSET Keys /\ K \in T
  OBVIOUS
<1>4. \E X \in T : \A Y \in T : ~(<<Y, X>> \in R)
  <2>. HIDE DEF T, R
  <2>. QED  BY <1>2, <1>3, WFMin
<1>5. PICK X \in T : \A Y \in T : ~(<<Y, X>> \in R)
  BY <1>4
<1>6. PICK x \in X : TRUE
  OBVIOUS
<1>7. x \in Keys /\ t[x] \in X /\ t[x] \in Keys /\ <<x, t[x]>> \in E
  OBVIOUS
<1>8. PICK C \in SUBSET Keys : t[x] \in C /\ closed_under(E, C) /\ x \notin C
  BY <1>7 DEF acyclic, reaches
<1>. DEFINE Y == X \cap C
<1>9. Y \in SUBSET Keys /\ t[x] \in Y
  BY <1>7, <1>8
<1>10. \A z \in Y : t[z] \in Y /\ <<z, t[z]>> \in E
  <2>. SUFFICES ASSUME NEW z \in Y PROVE t[z] \in Y /\ <<z, t[z]>> \in E
    OBVIOUS
  <2>1. z \in Keys /\ t[z] \in X /\ t[z] \in Keys /\ <<z, t[z]>> \in E
    OBVIOUS
  <2>. QED  BY <1>8, <2>1 DEF closed_under
<1>11. Y \in T
  BY <1>9, <1>10
<1>12. <<Y, X>> \in R
  BY <1>6, <1>8, <1>9 DEF StrictSubsetOrdering
<1>. QED  BY <1>5, <1>11, <1>12

\* Publications that are stuck on each other, of which none holds a slot and
\* all those of consumers have a source key, would be a trap of the wait graph.
LEMMA StuckUnseen == AInv => CircularOnlyUnseen
<1>. SUFFICES ASSUME AInv, NEW D \in (SUBSET Actors) \ {{}}, stuck(D), ~unseen(D)
              PROVE  FALSE
  BY DEF CircularOnlyUnseen
<1>0. \A a \in D \cap Keys : sourced[a]
  BY DEF unseen
<1>1. \A a \in D : got[a] = 0
  BY DEF AInv, Types, unseen
<1>2. \A a \in D, k \in Keys : held(a, k) = 0 /\ slots(a, k) = {}
  BY <1>1, FS_EmptySet DEF slots, held
<1>3. ASSUME NEW a \in D
      PROVE  target(a) \in Keys /\ target(a) \in D
  <2>k. PICK k : k = target(a)
    OBVIOUS
  <2>1. at[a] = "wait" /\ a \in Actors
    BY DEF stuck
  <2>2. k \in Keys
    BY <2>k, <2>1, TargetType DEF AInv
  <2>3. /\ \A b \in Actors \ D : held(b, k) = 0
        /\ queued[k] > 0 => invoking[k] /\ k \in D
        /\ waiters[k] # <<>> => used(k) >= Capacity
    BY <2>k DEF stuck
  <2>4. waiters[k] # <<>>
    <3>1. a \in Members(waiters[k])
      BY <2>1, <2>2, <2>k DEF AInv, QueuesExact, waiting
    <3>2. waiters[k] = <<>> => Len(waiters[k]) = 0
      OBVIOUS
    <3>. QED  BY <3>1, <3>2 DEF Members
  <2>5. IsFiniteSet(reserved(k)) /\ used(k) = queued[k] + Cardinality(reserved(k))
    BY <2>2 DEF AInv, Fits, used, reserved
  <2>6. \A b \in Actors : slots(b, k) = {}
    <3>. SUFFICES ASSUME NEW b \in Actors PROVE slots(b, k) = {}
      OBVIOUS
    <3>1. CASE b \in D
      BY <1>2, <2>2, <3>1
    <3>2. CASE b \notin D
      <4>1. Cardinality(slots(b, k)) = 0
        BY <2>3, <3>2 DEF held
      <4>2. IsFiniteSet(slots(b, k))
        <5>1. slots(b, k) \subseteq reserved(k)
          BY DEF reserved
        <5>. QED  BY <2>5, <5>1, FS_Subset
      <4>. QED  BY <4>1, <4>2, FS_EmptySet
    <3>. QED  BY <3>1, <3>2
  <2>7. reserved(k) = {} /\ Cardinality(reserved(k)) = 0
    BY <2>6, FS_EmptySet DEF reserved
  <2>8. queued[k] > 0
    <3>1. Capacity \in Nat \ {0} /\ queued[k] \in Nat
      BY <2>2, ConstAssumption DEF AInv, Types
    <3>. QED  BY <2>3, <2>4, <2>5, <2>7, <3>1
  <2>. QED  BY <2>2, <2>3, <2>8, <2>k
<1>. DEFINE K == D \cap Keys
            t == [x \in K |-> target(x)]
<1>4. K \in SUBSET Keys /\ K # {}
  BY <1>3
<1>5. \A x \in K : t[x] \in K /\ <<x, t[x]>> \in present(edges)
  <2>. SUFFICES ASSUME NEW x \in K
                PROVE  target(x) \in K /\ <<x, target(x)>> \in present(edges)
    OBVIOUS
  <2>1. target(x) \in K /\ at[x] = "wait" /\ x \in Keys /\ sourced[x]
    BY <1>0, <1>3 DEF stuck
  <2>2. edges[<<x, target(x)>>] = 1
    BY <2>1 DEF AInv, EdgesExact
  <2>3. <<x, target(x)>> \in Edge
    BY <2>1 DEF Edge
  <2>. QED  BY <2>1, <2>2, <2>3 DEF present
<1>6. acyclic(present(edges))
  BY DEF AInv, WaitsAcyclic
<1>. HIDE DEF K, t
<1>. QED  BY <1>4, <1>5, <1>6, NoTrap

\* What the wait graph leaves possible, for any number of consumers and
\* publications and whatever sources resolve: publications stuck on each other
\* include one that holds the slot of an earlier match of its fan-out while it
\* waits for the next, or one of a consumer without a source key.  Circular
\* waits that the graph of Admitter::reserve can see never happen.
THEOREM UnseenTheorem == Spec => []CircularOnlyUnseen
BY StuckUnseen, AdmissionInv, PTL
=============================================================================
