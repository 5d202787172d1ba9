---------------------- MODULE CapsuleInvocation_proofs ----------------------
(***************************************************************************)
(* The invocation of a pooled capsule, for any callers, principals, budget *)
(* and pool sizes: the fuel budget holds, no settlement is missed, the     *)
(* pool never exceeds its ceiling, no lease starts dirty and a workspace   *)
(* commit is alone.                                                        *)
(*                                                                         *)
(* Two countings carry the argument.  The free permits, the callers that   *)
(* hold one and the permits of a running commit add up to the ceiling      *)
(* (PermitsAddUp), and the fuel promised to a principal is its share times *)
(* its unsettled calls (PromisesExact).                                    *)
(***************************************************************************)
EXTENDS CapsuleInvocation, FiniteSetTheorems, TLAPS

\* Where a call owns a reservation for certain, and where it has none.
Reserving == {"admitted", "permitted", "building", "leased", "set", "call"}
Before == {"idle", "admission", "subscribed", "denied", "parked"}

\* Where a caller has an instance, and where it has or builds one.
Using == {"leased", "set", "call", "returning"}
Occupying == Using \cup {"building"}

Count(L) == Cardinality({c \in Callers : pc[c] \in L})

\* What the location of a caller says of its reservation and its instance.
LocationsExact ==
    \A c \in Callers :
        /\ pc[c] \in Reserving => resv[c]
        /\ pc[c] \in Before => ~resv[c]
        /\ inst[c] # None <=> pc[c] \in Using

\* A permit is free, with a caller, or with the commit, which takes them all.
PermitsAddUp ==
    permits + Count(Leasing) + (IF commit = "idle" THEN 0 ELSE Max) = Max

\* Every warm, leased or growing instance has a place below the ceiling.
PlacesBounded == Len(available) + Count(Occupying) <= Max

\* What an instance may carry: a warm or just leased one nothing of an earlier call.
Clean(i) == ~i.ctx /\ ~i.torn /\ (i.res => hosting)
InstancesClean ==
    /\ \A n \in 1..Len(available) : Clean(available[n])
    /\ \A c \in Callers :
        /\ pc[c] = "leased" => Clean(inst[c])
        /\ pc[c] = "set" => ~inst[c].torn
        /\ pc[c] = "returning" /\ reuse[c] => ~inst[c].torn

\* The fuel promised to a principal is the share of each of its unsettled calls, and
\* fits its budget with what is already burned.
PromisesExact ==
    \A p \in Principals :
        /\ reserved[p] = Share * Cardinality(InFlight(p))
        /\ win[p] + reserved[p] <= Budget

\* A caller that was refused a reservation and not notified since would be refused
\* again, or its window was rolled; when it sleeps in a window that has run out, its
\* timer has too.
RefusalStands ==
    \A c \in Callers :
        /\ pc[c] \in {"denied", "parked"} /\ ~notified[c] /\ win[who[c]] > 0
             => win[who[c]] + reserved[who[c]] + Share > Budget
        /\ pc[c] = "parked" /\ stale[who[c]] => due[c]

CommitSole == commit = "running" => ~live

\* The inductive invariant.
IInv ==
    /\ TypeOK /\ LocationsExact /\ PermitsAddUp /\ PlacesBounded
    /\ InstancesClean /\ PromisesExact /\ RefusalStands /\ CommitSole

-----------------------------------------------------------------------------
(* Counting callers *)

\* Callers in some locations are finitely many; the count is a number.
LEMMA CountType == \A L : Count(L) \in Nat
<1>. TAKE L
<1>1. {c \in Callers : pc[c] \in L} \in SUBSET Callers
  OBVIOUS
<1>2. IsFiniteSet({c \in Callers : pc[c] \in L})
  BY <1>1, CallersFinite, FS_Subset
<1>. QED  BY <1>2, FS_CardinalityType DEF Count

\* The same after a step.
LEMMA CountTypeNext == ASSUME NEW L PROVE Count(L)' \in Nat
<1>1. {c \in Callers : pc'[c] \in L} \in SUBSET Callers
  OBVIOUS
<1>2. IsFiniteSet({c \in Callers : pc'[c] \in L})
  BY <1>1, CallersFinite, FS_Subset
<1>. QED  BY <1>2, FS_CardinalityType DEF Count

\* A caller in some of the locations counts.
LEMMA CountSome ==
  ASSUME NEW L, NEW c \in Callers, pc[c] \in L
  PROVE  Count(L) > 0
<1>. DEFINE S == {d \in Callers : pc[d] \in L}
<1>1. S \in SUBSET Callers /\ c \in S
  OBVIOUS
<1>2. IsFiniteSet(S)
  BY <1>1, CallersFinite, FS_Subset
<1>3. Cardinality(S) # 0 /\ Cardinality(S) \in Nat
  BY <1>1, <1>2, FS_EmptySet, FS_CardinalityType
<1>. QED  BY <1>3 DEF Count

\* More locations, more callers.
LEMMA CountMonotonic ==
  ASSUME NEW L, NEW M, L \subseteq M
  PROVE  Count(L) <= Count(M)
<1>1. {c \in Callers : pc[c] \in M} \in SUBSET Callers
  OBVIOUS
<1>2. IsFiniteSet({c \in Callers : pc[c] \in M})
  BY <1>1, CallersFinite, FS_Subset
<1>3. {c \in Callers : pc[c] \in L} \in SUBSET {c \in Callers : pc[c] \in M}
  OBVIOUS
<1>. QED  BY <1>2, <1>3, FS_Subset DEF Count

\* The same after a step.
LEMMA CountMonotonicNext ==
  ASSUME NEW L, NEW M, L \subseteq M
  PROVE  Count(L)' <= Count(M)'
<1>1. {c \in Callers : pc'[c] \in M} \in SUBSET Callers
  OBVIOUS
<1>2. IsFiniteSet({c \in Callers : pc'[c] \in M})
  BY <1>1, CallersFinite, FS_Subset
<1>3. {c \in Callers : pc'[c] \in L} \in SUBSET {c \in Callers : pc'[c] \in M}
  OBVIOUS
<1>. QED  BY <1>2, <1>3, FS_Subset DEF Count

\* A step of one caller changes the count by where it was and where it goes.
LEMMA CountGoto ==
  ASSUME NEW L, NEW c \in Callers, NEW phase, pc \in [Callers -> Phases], Goto(c, phase)
  PROVE  Count(L)' = Count(L) - (IF pc[c] \in L THEN 1 ELSE 0)
                       + (IF phase \in L THEN 1 ELSE 0)
<1>. DEFINE S == {d \in Callers : pc[d] \in L}
            T == {d \in Callers : pc'[d] \in L}
<1>1. S \in SUBSET Callers
  OBVIOUS
<1>2. IsFiniteSet(S) /\ Cardinality(S) \in Nat
  BY <1>1, CallersFinite, FS_Subset, FS_CardinalityType
<1>3. pc' = [pc EXCEPT ![c] = phase]
  BY DEF Goto
<1>4. IsFiniteSet(S \ {c})
      /\ Cardinality(S \ {c}) = IF c \in S THEN Cardinality(S) - 1 ELSE Cardinality(S)
  BY <1>2, FS_RemoveElement
<1>5. CASE phase \in L
  <2>1. T = (S \ {c}) \cup {c}
    BY <1>3, <1>5
  <2>2. Cardinality(T) = Cardinality(S \ {c}) + 1
    BY <2>1, <1>4, FS_AddElement
  <2>. QED  BY <1>2, <1>4, <1>5, <2>2 DEF Count
<1>6. CASE phase \notin L
  <2>1. T = S \ {c}
    BY <1>3, <1>6
  <2>2. Cardinality(T) = Cardinality(S \ {c})
    BY <2>1
  <2>. QED  BY <1>2, <1>4, <1>6, <2>2 DEF Count
<1>. QED  BY <1>5, <1>6

\* Nobody moves.
LEMMA CountSame == ASSUME NEW L, pc' = pc PROVE Count(L)' = Count(L)
BY DEF Count

-----------------------------------------------------------------------------
(* Counting unsettled calls *)

\* Settling the reservation of a call takes it from its principal's unsettled calls.
LEMMA InFlightSettled ==
  ASSUME TypeOK, NEW c \in Callers, resv[c], NEW p \in Principals,
         resv' = [resv EXCEPT ![c] = FALSE], who' = who
  PROVE  /\ Cardinality(InFlight(p)) \in Nat
         /\ Cardinality(InFlight(p)') \in Nat
         /\ Cardinality(InFlight(p)') =
              Cardinality(InFlight(p)) - (IF p = who[c] THEN 1 ELSE 0)
<1>1. InFlight(p) \in SUBSET Callers
  BY DEF InFlight
<1>2. IsFiniteSet(InFlight(p)) /\ Cardinality(InFlight(p)) \in Nat
  BY <1>1, CallersFinite, FS_Subset, FS_CardinalityType
<1>3. IsFiniteSet(InFlight(p) \ {c})
      /\ Cardinality(InFlight(p) \ {c}) =
           IF c \in InFlight(p) THEN Cardinality(InFlight(p)) - 1 ELSE Cardinality(InFlight(p))
  BY <1>2, FS_RemoveElement
<1>4. Cardinality(InFlight(p) \ {c}) \in Nat
  BY <1>3, FS_CardinalityType
<1>5. InFlight(p)' = InFlight(p) \ {c}
  BY DEF InFlight, TypeOK
<1>6. c \in InFlight(p) <=> p = who[c]
  BY DEF InFlight
<1>. QED  BY <1>2, <1>3, <1>4, <1>5, <1>6

\* A reservation adds the call to its principal's unsettled calls.
LEMMA InFlightReserved ==
  ASSUME TypeOK, NEW c \in Callers, ~resv[c], NEW p \in Principals,
         resv' = [resv EXCEPT ![c] = TRUE], who' = who
  PROVE  /\ Cardinality(InFlight(p)) \in Nat
         /\ Cardinality(InFlight(p)') \in Nat
         /\ Cardinality(InFlight(p)') =
              Cardinality(InFlight(p)) + (IF p = who[c] THEN 1 ELSE 0)
<1>1. InFlight(p) \in SUBSET Callers
  BY DEF InFlight
<1>2. IsFiniteSet(InFlight(p)) /\ Cardinality(InFlight(p)) \in Nat
  BY <1>1, CallersFinite, FS_Subset, FS_CardinalityType
<1>3. Cardinality(InFlight(p) \cup {c}) =
           IF c \in InFlight(p) THEN Cardinality(InFlight(p)) ELSE Cardinality(InFlight(p)) + 1
  BY <1>2, FS_AddElement
<1>4. CASE p = who[c]
  <2>1. InFlight(p)' = InFlight(p) \cup {c} /\ c \notin InFlight(p)
    BY <1>4 DEF InFlight, TypeOK
  <2>. QED  BY <1>2, <1>3, <1>4, <2>1
<1>5. CASE p # who[c]
  <2>1. InFlight(p)' = InFlight(p)
    BY <1>5 DEF InFlight, TypeOK
  <2>. QED  BY <1>2, <1>5, <2>1
<1>. QED  BY <1>4, <1>5

-----------------------------------------------------------------------------
(* The invariant is preserved *)

\* The ceiling and the idle count are positive, and the one fits the other.
LEMMA PoolBounds == TypeOK => Max \in Nat \ {0} /\ Idle \in 1..Max
BY PoolSizes DEF TypeOK, Max, Idle

\* Initially nothing is reserved, leased or committed.
LEMMA InitInv == Init => IInv
<1>. SUFFICES ASSUME Init PROVE IInv
  OBVIOUS
<1>1. TypeOK
  <2>1. Max \in Nat /\ Idle \in 1..Max /\ Fresh \in Instances
    BY PoolSizes DEF Init, Max, Idle, Fresh, Instances
  <2>2. available \in Seq(Instances)
    BY <2>1 DEF Init
  <2>3. /\ stale \in [Principals -> BOOLEAN]
        /\ resv \in [Callers -> BOOLEAN] /\ reuse \in [Callers -> BOOLEAN]
        /\ notified \in [Callers -> BOOLEAN] /\ due \in [Callers -> BOOLEAN]
        /\ live \in BOOLEAN /\ hosting \in BOOLEAN
    BY Zenon DEF Init
  <2>. QED  BY <2>1, <2>2, <2>3, ShareFits DEF Init, TypeOK, Phases, Leasing
<1>2. \A L : "idle" \notin L => Count(L) = 0
  <2>. TAKE L
  <2>. HAVE "idle" \notin L
  <2>1. {c \in Callers : pc[c] \in L} = {}
    BY DEF Init
  <2>. QED  BY <2>1, FS_EmptySet DEF Count
<1>3. LocationsExact
  BY DEF Init, LocationsExact, Reserving, Before, Using
<1>4. PermitsAddUp
  BY <1>2, PoolBounds, <1>1 DEF Init, PermitsAddUp, Leasing
<1>5. PlacesBounded
  BY <1>1, <1>2, PoolBounds DEF Init, PlacesBounded, Occupying, Using
<1>6. InstancesClean
  BY <1>1, PoolBounds DEF Init, InstancesClean, Clean, Fresh
<1>7. PromisesExact
  <2>. SUFFICES ASSUME NEW p \in Principals
                PROVE  reserved[p] = Share * Cardinality(InFlight(p)) /\ win[p] + reserved[p] <= Budget
    BY DEF PromisesExact
  <2>1. InFlight(p) = {}
    BY DEF Init, InFlight
  <2>2. Cardinality(InFlight(p)) = 0
    BY <2>1, FS_EmptySet
  <2>3. Share \in Nat /\ Budget \in Nat /\ Share * 0 = 0
    BY ShareFits
  <2>4. reserved[p] = 0 /\ win[p] = 0
    BY DEF Init
  <2>. QED  BY <2>2, <2>3, <2>4
<1>8. RefusalStands /\ CommitSole
  BY DEF Init, RefusalStands, CommitSole
<1>. QED  BY <1>1, <1>3, <1>4, <1>5, <1>6, <1>7, <1>8 DEF IInv

\* What a settlement does to the fuel variables, for a call that owns a reservation.
LEMMA SettleEffect ==
  ASSUME IInv, NEW c \in Callers, resv[c], NEW burned \in 0..Share, Settle(c, burned),
         who' = who
  PROVE  /\ win' \in [Principals -> Nat] /\ reserved' \in [Principals -> Nat]
         /\ stale' \in [Principals -> BOOLEAN] /\ resv' \in [Callers -> BOOLEAN]
         /\ notified' \in [Callers -> BOOLEAN] /\ due' \in [Callers -> BOOLEAN]
         /\ PromisesExact'
<1>. DEFINE q == who[c]
<1>1. TypeOK /\ PromisesExact /\ q \in Principals
  BY DEF IInv, TypeOK
<1>2. resv' = [resv EXCEPT ![c] = FALSE]
  BY DEF Settle
<1>3. \A p \in Principals :
        /\ Cardinality(InFlight(p)) \in Nat
        /\ Cardinality(InFlight(p)') \in Nat
        /\ Cardinality(InFlight(p)') = Cardinality(InFlight(p)) - (IF p = q THEN 1 ELSE 0)
  BY <1>1, <1>2, InFlightSettled
<1>4. Share \in Nat /\ Budget \in Nat
  BY ShareFits
<1>5. reserved[q] = Share + Share * Cardinality(InFlight(q)')
  <2>1. Cardinality(InFlight(q)) = Cardinality(InFlight(q)') + 1
    BY <1>1, <1>3
  <2>2. \A n \in Nat : Share * (n + 1) = Share + Share * n
    BY <1>4
  <2>3. reserved[q] = Share * (Cardinality(InFlight(q)') + 1)
    BY <1>1, <2>1 DEF PromisesExact
  <2>. QED  BY <1>1, <1>3, <2>2, <2>3
<1>6. Share * Cardinality(InFlight(q)') \in Nat
  BY <1>1, <1>3, <1>4
<1>7. reserved' = [reserved EXCEPT ![q] = Share * Cardinality(InFlight(q)')]
  <2>. DEFINE rest == Share * Cardinality(InFlight(q)')
  <2>1. reserved[q] - Share = rest
    <3>1. rest \in Nat /\ reserved[q] = Share + rest
      BY <1>5, <1>6
    <3>. HIDE DEF rest
    <3>. QED  BY <1>4, <3>1
  <2>2. reserved' = [reserved EXCEPT ![q] = reserved[q] - Share]
    BY DEF Settle, Unreserved
  <2>. HIDE DEF rest
  <2>3. reserved' = [reserved EXCEPT ![q] = rest]
    BY <2>1, <2>2
  <2>. QED  BY <2>3 DEF rest
<1>8. reserved' \in [Principals -> Nat]
  BY <1>1, <1>6, <1>7 DEF TypeOK
<1>9. win' = [win EXCEPT ![q] = Rolled(q) + burned] /\ Rolled(q) \in Nat /\ Rolled(q) <= win[q]
  BY <1>1 DEF Settle, Roll, Rolled, TypeOK
<1>10. win' \in [Principals -> Nat]
  BY <1>1, <1>4, <1>9 DEF TypeOK
<1>11. PromisesExact'
  <2>. SUFFICES ASSUME NEW p \in Principals
                PROVE  reserved'[p] = Share * Cardinality(InFlight(p)')
                       /\ win'[p] + reserved'[p] <= Budget
    BY DEF PromisesExact
  <2>1. CASE p # q
    BY <1>1, <1>3, <1>7, <1>9, <2>1 DEF PromisesExact, TypeOK
  <2>2. CASE p = q
    <3>1. reserved'[q] = Share * Cardinality(InFlight(q)') /\ win'[q] = Rolled(q) + burned
      BY <1>1, <1>7, <1>9 DEF TypeOK
    <3>2. win[q] + reserved[q] <= Budget /\ win[q] \in Nat
      BY <1>1 DEF PromisesExact, TypeOK
    <3>. QED  BY <1>4, <1>5, <1>6, <1>9, <2>2, <3>1, <3>2
  <2>. QED  BY <2>1, <2>2
<1>12. /\ stale' \in [Principals -> BOOLEAN] /\ resv' \in [Callers -> BOOLEAN]
       /\ notified' \in [Callers -> BOOLEAN] /\ due' \in [Callers -> BOOLEAN]
  <2>1. stale' = [stale EXCEPT ![q] = FALSE] /\ due' = due
        /\ notified' = [d \in Callers |-> notified[d] \/ d \in Listeners(q)]
    BY DEF Settle, Roll
  <2>2. notified' \in [Callers -> BOOLEAN]
    BY <2>1
  <2>. QED  BY <1>1, <1>2, <2>1, <2>2 DEF TypeOK
<1>. QED  BY <1>8, <1>10, <1>11, <1>12

\* The types of what the pool and the locations are made of, one action at a time.
LEMMA TypeStep == IInv /\ [Next]_vars => TypeOK'
<1>. SUFFICES ASSUME IInv, [Next]_vars PROVE TypeOK'
  OBVIOUS
<1>0. TypeOK /\ Share \in Nat /\ Budget \in Nat /\ Max \in Nat \ {0} /\ Idle \in 1..Max
  BY PoolBounds, ShareFits DEF IInv
<1>. USE DEF TypeOK, Phases, Leasing
<1>1. CASE UNCHANGED vars
  BY <1>0, <1>1 DEF vars, fuel, pool, Max
<1>2. ASSUME NEW c \in Callers, Step(c) PROVE TypeOK'
  <2>. who[c] \in Principals
    BY <1>0
  <2>1. CASE Invoke(c)
    <3>1. pc' \in [Callers -> Phases]
      BY <1>0, <2>1 DEF Invoke, Goto
    <3>2. win' \in [Principals -> Nat] /\ stale' \in [Principals -> BOOLEAN]
      BY <1>0, <2>1 DEF Invoke, Roll, Rolled
    <3>. QED  BY <1>0, <2>1, <3>1, <3>2 DEF Invoke, pool, Max
  <2>2. CASE Subscribe(c)
    BY <1>0, <2>2 DEF Subscribe, Goto, fuel, pool, Max
  <2>3. CASE TryReserve(c)
    <3>1. win' \in [Principals -> Nat] /\ stale' \in [Principals -> BOOLEAN]
      BY <1>0, <2>3 DEF TryReserve, Roll, Rolled
    <3>2. reserved' \in [Principals -> Nat] /\ resv' \in [Callers -> BOOLEAN]
          /\ notified' \in [Callers -> BOOLEAN] /\ pc' \in [Callers -> Phases]
      <4>1. CASE Fits(who[c], Share)
        <5>1. /\ reserved' = [reserved EXCEPT ![who[c]] = @ + Share]
              /\ resv' = [resv EXCEPT ![c] = TRUE]
              /\ notified' = [notified EXCEPT ![c] = FALSE]
              /\ pc' = [pc EXCEPT ![c] = "admitted"]
          BY <2>3, <4>1 DEF TryReserve, Heard, Goto
        <5>2. reserved' \in [Principals -> Nat]
          BY <1>0, <5>1
        <5>. QED  BY <1>0, <5>1, <5>2
      <4>2. CASE ~Fits(who[c], Share)
        BY <1>0, <2>3, <4>2 DEF TryReserve, Goto
      <4>. QED  BY <4>1, <4>2
    <3>. QED  BY <1>0, <2>3, <3>1, <3>2 DEF TryReserve, pool, Max
  <2>4. CASE Park(c)
    BY <1>0, <2>4 DEF Park, Goto, pool, Max
  <2>5. CASE Retry(c)
    BY <1>0, <2>5 DEF Retry, Unlisten, Heard, Goto, pool, Max
  <2>6. CASE GiveUp(c)
    BY <1>0, <2>6 DEF GiveUp, Unlisten, Heard, Goto, pool, Max
  <2>7. CASE Acquire(c)
    <3>1. permits' \in 0..Max
      BY <1>0, <2>7 DEF Acquire
    <3>. QED  BY <1>0, <2>7, <3>1 DEF Acquire, Goto, fuel, Max
  <2>8. CASE CheckoutTimeout(c)
    BY <1>0, <2>8 DEF CheckoutTimeout, Goto, fuel, pool, Max
  <2>9. CASE Pop(c)
    <3>1. CASE Warm
      <4>1. /\ available[Len(available)] \in Instances
            /\ SubSeq(available, 1, Len(available) - 1) \in Seq(Instances)
        BY <1>0, <3>1 DEF Warm
      <4>. QED  BY <1>0, <2>9, <3>1, <4>1 DEF Pop, Goto, fuel, Max
    <3>2. CASE ~Warm
      BY <1>0, <2>9, <3>2 DEF Pop, Goto, fuel, Max
    <3>. QED  BY <3>1, <3>2
  <2>10. CASE Build(c)
    <3>1. Fresh \in Instances
      BY DEF Fresh, Instances
    <3>. QED  BY <1>0, <2>10, <3>1 DEF Build, Goto, fuel, Max
  <2>. DEFINE i == inst[c]
  <2>11. CASE SetContext(c)
    <3>1. i \in Instances /\ inst' = [inst EXCEPT ![c] = [i EXCEPT !.ctx = TRUE]]
      BY <1>0, <2>11 DEF SetContext, IInv, LocationsExact, Using
    <3>2. [i EXCEPT !.ctx = TRUE] \in Instances
      BY <3>1 DEF Instances
    <3>. QED  BY <1>0, <2>11, <3>1, <3>2 DEF SetContext, Goto, fuel, Max
  <2>12. CASE BeginCall(c)
    <3>1. i \in Instances /\ inst' = [inst EXCEPT ![c] = [i EXCEPT !.torn = TRUE]]
      BY <1>0, <2>12 DEF BeginCall, IInv, LocationsExact, Using
    <3>2. [i EXCEPT !.torn = TRUE] \in Instances
      BY <3>1 DEF Instances
    <3>. QED  BY <1>0, <2>12, <3>1, <3>2 DEF BeginCall, Goto, fuel, Max
  <2>13. CASE Guest(c)
    <3>1. PICK open \in BOOLEAN : inst' = [inst EXCEPT ![c] = [i EXCEPT !.res = open]]
                                  /\ live' = (live \/ (hosting /\ open))
      BY <2>13 DEF Guest
    <3>2. i \in Instances /\ live' \in BOOLEAN
      BY <1>0, <2>13, <3>1 DEF Guest, IInv, LocationsExact, Using
    <3>3. [i EXCEPT !.res = open] \in Instances
      BY <3>2 DEF Instances
    <3>. QED  BY <1>0, <2>13, <3>1, <3>2, <3>3 DEF Guest, Goto, fuel, Max
  <2>14. CASE EndCall(c)
    <3>1. PICK burned \in 0..Share : Settle(c, burned)
      BY <1>0, <2>14 DEF EndCall
    <3>2. resv[c] /\ who' = who /\ i \in Instances
      BY <1>0, <2>14 DEF EndCall, IInv, LocationsExact, Reserving, Using
    <3>3. inst' = inst \/ inst' = [inst EXCEPT ![c] = [i EXCEPT !.torn = FALSE]]
      BY <2>14 DEF EndCall
    <3>4. [i EXCEPT !.torn = FALSE] \in Instances
      BY <3>2 DEF Instances
    <3>5. inst' \in [Callers -> Instances \cup {None}]
      BY <1>0, <3>3, <3>4
    <3>6. reuse' \in [Callers -> BOOLEAN]
      BY <1>0, <2>14 DEF EndCall
    <3>. QED  BY <1>0, <2>14, <3>1, <3>2, <3>5, <3>6, SettleEffect DEF EndCall, Goto, Max
  <2>15. CASE Abandon(c)
    BY <1>0, <2>15 DEF Abandon, Goto, fuel, Max
  <2>16. CASE Return(c)
    <3>1. i \in Instances
      BY <1>0, <2>16 DEF Return, IInv, LocationsExact, Using
    <3>2. Cleared(i, ~hosting \/ ~reuse[c]) \in Instances
      BY <3>1 DEF Cleared, Instances
    <3>3. available' \in Seq(Instances)
      BY <1>0, <2>16, <3>2 DEF Return
    <3>. QED  BY <1>0, <2>16, <3>3 DEF Return, Goto, fuel, Max
  <2>17. CASE Release(c)
    <3>1. Count(Leasing) > 0 /\ Count(Leasing) \in Nat
      BY <2>17, CountSome, CountType DEF Release
    <3>2. permits + 1 \in 0..Max
      BY <1>0, <3>1 DEF IInv, PermitsAddUp
    <3>. QED  BY <1>0, <2>17, <3>2 DEF Release, Goto, fuel, Max
  <2>18. CASE Unwind(c)
    <3>1. CASE resv[c]
      <4>1. who' = who /\ \E burned \in 0..Share : Settle(c, burned)
        BY <1>0, <2>18, <3>1 DEF Unwind
      <4>. QED  BY <1>0, <2>18, <3>1, <4>1, SettleEffect DEF Unwind, Goto, pool, Max
    <3>2. CASE ~resv[c]
      BY <1>0, <2>18, <3>2 DEF Unwind, Goto, fuel, pool, Max
    <3>. QED  BY <3>1, <3>2
  <2>. QED
    BY <1>2, <2>1, <2>2, <2>3, <2>4, <2>5, <2>6, <2>7, <2>8, <2>9, <2>10, <2>11, <2>12,
       <2>13, <2>14, <2>15, <2>16, <2>17, <2>18 DEF Step
<1>3. ASSUME NEW p \in Principals, Tick(p) PROVE TypeOK'
  <2>1. due' \in [Callers -> BOOLEAN]
    BY <1>3 DEF Tick
  <2>. QED  BY <1>0, <1>3, <2>1 DEF Tick, pool, Max
<1>4. CASE ChildExits
  BY <1>0, <1>4 DEF ChildExits, fuel, pool, Max
<1>5. CASE Evict
  <2>1. available' \in Seq(Instances)
    BY <1>0, <1>5 DEF Evict
  <2>. QED  BY <1>0, <1>5, <2>1 DEF Evict, fuel, Max
<1>6. CASE CommitBegin
  BY <1>0, <1>6 DEF CommitBegin, Exclusive, fuel, Max
<1>7. CASE CommitCheck \/ CommitEnd
  <2>1. Count(Leasing) \in Nat
    BY CountType
  <2>2. permits + Max \in 0..Max
    BY <1>0, <1>7, <2>1 DEF IInv, PermitsAddUp, CommitCheck, CommitEnd
  <2>. QED  BY <1>0, <1>7, <2>2 DEF CommitCheck, CommitEnd, Exclusive, fuel, Max
<1>. QED  BY <1>1, <1>2, <1>3, <1>4, <1>5, <1>6, <1>7 DEF Next

\* An instance whose parts change is an instance, and none is None.
LEMMA InstanceEdits ==
  /\ Fresh \in Instances
  /\ \A i \in Instances, b \in BOOLEAN :
       /\ i # None
       /\ [i EXCEPT !.ctx = b] \in Instances
       /\ [i EXCEPT !.res = b] \in Instances
       /\ [i EXCEPT !.torn = b] \in Instances
<1>1. Fresh \in Instances /\ \A i \in Instances : i # None
  BY NoneIsNoInstance DEF Fresh, Instances
<1>2. \A i \in Instances, b \in BOOLEAN :
        /\ [i EXCEPT !.ctx = b] \in Instances
        /\ [i EXCEPT !.res = b] \in Instances
        /\ [i EXCEPT !.torn = b] \in Instances
  BY DEF Instances
<1>. QED  BY <1>1, <1>2

\* Steps that are not a caller's leave the callers where they are.
Surroundings == (\E p \in Principals : Tick(p)) \/ ChildExits \/ Evict \/ CommitBegin
                  \/ CommitCheck \/ CommitEnd

\* What kind of pool the capsule has is decided when it is loaded.
LEMMA HostingStep == [Next]_vars => hosting' = hosting /\ who' = who
BY DEF Next, Step, vars, Invoke, Subscribe, TryReserve, Park, Retry, GiveUp, Acquire,
       CheckoutTimeout, Pop, Build, SetContext, BeginCall, Guest, EndCall, Abandon,
       Return, Release, Unwind, Tick, ChildExits, Evict, CommitBegin, CommitCheck,
       CommitEnd

\* The location of a caller goes on telling whether it owns a reservation and an
\* instance.
LEMMA LocationsStep == IInv /\ [Next]_vars => LocationsExact'
<1>. SUFFICES ASSUME IInv, [Next]_vars PROVE LocationsExact'
  OBVIOUS
<1>0. TypeOK /\ LocationsExact
  BY DEF IInv
<1>. USE DEF LocationsExact, Reserving, Before, Using, Goto
<1>1. CASE UNCHANGED vars \/ Surroundings
  <2>1. pc' = pc /\ resv' = resv /\ inst' = inst
    BY <1>1 DEF vars, fuel, pool, Surroundings, Tick, ChildExits, Evict, CommitBegin,
                CommitCheck, CommitEnd
  <2>. QED  BY <1>0, <2>1
<1>2. ASSUME NEW c \in Callers, Step(c) PROVE LocationsExact'
  <2>. USE DEF TypeOK
  <2>1. CASE Invoke(c) \/ Subscribe(c) \/ Park(c) \/ Retry(c) \/ GiveUp(c)
    <3>1. resv' = resv /\ inst' = inst
      BY <2>1 DEF Invoke, Subscribe, Park, Retry, GiveUp, Unlisten, fuel, pool
    <3>2. pc[c] \in Before /\ \E phase \in Before : pc' = [pc EXCEPT ![c] = phase]
      BY <1>0, <2>1 DEF Invoke, Subscribe, Park, Retry, GiveUp
    <3>. QED  BY <1>0, <3>1, <3>2
  <2>2. CASE TryReserve(c)
    <3>1. inst' = inst /\ pc[c] = "subscribed"
      BY <2>2 DEF TryReserve, pool
    <3>2. \/ pc' = [pc EXCEPT ![c] = "admitted"] /\ resv' = [resv EXCEPT ![c] = TRUE]
          \/ pc' = [pc EXCEPT ![c] = "denied"] /\ resv' = resv
      BY <2>2 DEF TryReserve
    <3>. QED  BY <1>0, <3>1, <3>2
  <2>3. CASE CheckoutTimeout(c)
    <3>1. inst' = inst /\ resv' = resv
      BY <2>3 DEF CheckoutTimeout, fuel, pool
    <3>2. \/ pc[c] = "admitted" /\ pc' = [pc EXCEPT ![c] = "expired"]
          \/ pc[c] = "building" /\ pc' = [pc EXCEPT ![c] = "expiring"]
      BY <2>3 DEF CheckoutTimeout
    <3>. QED  BY <1>0, <3>1, <3>2
  <2>4. CASE Acquire(c)
    <3>1. inst' = inst /\ resv' = resv /\ pc[c] = "admitted"
          /\ pc' = [pc EXCEPT ![c] = "permitted"]
      BY <2>4 DEF Acquire, fuel
    <3>. QED  BY <1>0, <3>1
  <2>5. CASE Pop(c)
    <3>1. resv' = resv /\ pc[c] = "permitted"
      BY <2>5 DEF Pop, fuel
    <3>2. CASE Warm
      <4>1. available[Len(available)] \in Instances
        BY <1>0, <3>2 DEF Warm
      <4>2. available[Len(available)] # None
        BY <4>1, NoneIsNoInstance DEF Instances
      <4>3. pc' = [pc EXCEPT ![c] = "leased"]
            /\ inst' = [inst EXCEPT ![c] = available[Len(available)]]
        BY <2>5, <3>2 DEF Pop
      <4>. QED  BY <1>0, <3>1, <4>2, <4>3
    <3>3. CASE ~Warm
      <4>1. pc' = [pc EXCEPT ![c] = "building"] /\ inst' = inst
        BY <2>5, <3>3 DEF Pop
      <4>. QED  BY <1>0, <3>1, <4>1
    <3>. QED  BY <3>2, <3>3
  <2>6. CASE Build(c)
    <3>1. resv' = resv /\ pc[c] = "building" /\ pc' = [pc EXCEPT ![c] = "leased"]
          /\ inst' = [inst EXCEPT ![c] = Fresh]
      BY <2>6 DEF Build, fuel
    <3>2. Fresh # None
      BY InstanceEdits
    <3>. QED  BY <1>0, <3>1, <3>2
  <2>7. CASE SetContext(c) \/ BeginCall(c) \/ Guest(c)
    <3>1. PICK j : inst' = [inst EXCEPT ![c] = j]
      BY <2>7 DEF SetContext, BeginCall, Guest
    <3>2. inst'[c] # None
      <4>1. inst[c] \in Instances
        BY <1>0, <2>7 DEF SetContext, BeginCall, Guest
      <4>2. \/ inst' = [inst EXCEPT ![c] = [inst[c] EXCEPT !.ctx = TRUE]]
            \/ inst' = [inst EXCEPT ![c] = [inst[c] EXCEPT !.torn = TRUE]]
            \/ \E open \in BOOLEAN : inst' = [inst EXCEPT ![c] = [inst[c] EXCEPT !.res = open]]
        BY <2>7 DEF SetContext, BeginCall, Guest
      <4>3. \E k \in Instances : inst' = [inst EXCEPT ![c] = k]
        BY <4>1, <4>2, InstanceEdits, Zenon
      <4>4. inst'[c] \in Instances
        BY <1>0, <4>3
      <4>. QED  BY <4>4, InstanceEdits
    <3>3. resv' = resv /\ pc[c] \in {"leased", "set", "call"}
          /\ \E phase \in {"set", "call"} : pc' = [pc EXCEPT ![c] = phase]
      BY <1>0, <2>7 DEF SetContext, BeginCall, Guest, fuel
    <3>. QED  BY <1>0, <3>1, <3>2, <3>3
  <2>8. CASE EndCall(c)
    <3>1. PICK j : inst' = [inst EXCEPT ![c] = j]
      BY <1>0, <2>8 DEF EndCall
    <3>2. inst'[c] # None
      <4>1. inst[c] \in Instances
        BY <1>0, <2>8 DEF EndCall
      <4>2. inst' = inst \/ inst' = [inst EXCEPT ![c] = [inst[c] EXCEPT !.torn = FALSE]]
        BY <2>8 DEF EndCall
      <4>3. inst'[c] \in Instances
        BY <1>0, <4>1, <4>2, InstanceEdits
      <4>. QED  BY <4>3, InstanceEdits
    <3>3. resv' = [resv EXCEPT ![c] = FALSE] /\ pc[c] \in {"set", "call"}
          /\ pc' = [pc EXCEPT ![c] = "returning"]
      BY <2>8 DEF EndCall, Settle
    <3>. QED  BY <1>0, <3>1, <3>2, <3>3
  <2>9. CASE Abandon(c)
    <3>1. inst' = inst /\ resv' = resv
      BY <2>9 DEF Abandon, fuel
    <3>2. \/ pc[c] = "admitted" /\ pc' = [pc EXCEPT ![c] = "unwinding"]
          \/ pc[c] = "building" /\ pc' = [pc EXCEPT ![c] = "releasing"]
          \/ pc[c] \in {"leased", "set", "call"} /\ pc' = [pc EXCEPT ![c] = "returning"]
      BY <2>9 DEF Abandon
    <3>. QED  BY <1>0, <3>1, <3>2
  <2>10. CASE Return(c)
    <3>1. resv' = resv /\ pc[c] = "returning" /\ pc' = [pc EXCEPT ![c] = "releasing"]
          /\ inst' = [inst EXCEPT ![c] = None]
      BY <2>10 DEF Return, fuel
    <3>. QED  BY <1>0, <3>1
  <2>11. CASE Release(c)
    <3>1. resv' = resv /\ inst' = inst /\ pc[c] \in {"releasing", "expiring"}
          /\ \E phase \in {"unwinding", "expired"} : pc' = [pc EXCEPT ![c] = phase]
      BY <2>11 DEF Release, fuel
    <3>. QED  BY <1>0, <3>1
  <2>12. CASE Unwind(c)
    <3>1. inst' = inst /\ pc[c] \in {"unwinding", "expired"} /\ pc' = [pc EXCEPT ![c] = "idle"]
          /\ resv' = [resv EXCEPT ![c] = FALSE]
      BY <1>0, <2>12 DEF Unwind, Settle, fuel, pool
    <3>. QED  BY <1>0, <3>1
  <2>. QED
    BY <1>2, <2>1, <2>2, <2>3, <2>4, <2>5, <2>6, <2>7, <2>8, <2>9, <2>10, <2>11, <2>12
    DEF Step
<1>. QED  BY <1>1, <1>2 DEF Next, Surroundings

\* Permits are neither lost nor made: each step moves a caller in or out of the
\* locations that hold one, and a permit the other way.
LEMMA PermitsStep == IInv /\ [Next]_vars => PermitsAddUp'
<1>. SUFFICES ASSUME IInv, [Next]_vars PROVE PermitsAddUp'
  OBVIOUS
<1>0. /\ TypeOK /\ PermitsAddUp /\ pc \in [Callers -> Phases] /\ permits \in Nat
      /\ Max \in Nat \ {0} /\ Count(Leasing) \in Nat
  BY PoolBounds, CountType DEF IInv, TypeOK
<1>1. Max' = Max
  BY HostingStep DEF Max
<1>. USE DEF PermitsAddUp
<1>2. CASE UNCHANGED vars
  BY <1>0, <1>1, <1>2, CountSame DEF vars, pool
<1>3. ASSUME NEW c \in Callers, Step(c) PROVE PermitsAddUp'
  <2>1. ASSUME NEW phase, Goto(c, phase), commit' = commit, permits' = permits,
               pc[c] \in Leasing <=> phase \in Leasing
        PROVE  PermitsAddUp'
    BY <1>0, <1>1, <2>1, CountGoto
  <2>2. CASE Invoke(c)
    <3>1. pc' = pc \/ (Goto(c, "admission") /\ pc[c] = "idle")
      BY <2>2 DEF Invoke
    <3>. QED  BY <1>0, <1>1, <2>1, <2>2, <3>1, CountSame DEF Invoke, Leasing, pool
  <2>3. CASE Subscribe(c) \/ TryReserve(c) \/ Park(c) \/ Retry(c) \/ GiveUp(c)
    <3>1. permits' = permits /\ commit' = commit
      BY <2>3 DEF Subscribe, TryReserve, Park, Retry, GiveUp, pool
    <3>2. pc[c] \notin Leasing /\ \E phase : phase \notin Leasing /\ Goto(c, phase)
      BY <2>3 DEF Subscribe, TryReserve, Park, Retry, GiveUp, Leasing
    <3>. QED  BY <2>1, <3>1, <3>2
  <2>4. CASE Acquire(c)
    <3>1. permits' = permits - 1 /\ commit' = commit /\ pc[c] \notin Leasing
          /\ Goto(c, "permitted") /\ "permitted" \in Leasing
      BY <2>4 DEF Acquire, Leasing
    <3>2. Count(Leasing)' = Count(Leasing) + 1
      BY <1>0, <3>1, CountGoto
    <3>. QED  BY <1>0, <1>1, <3>1, <3>2
  <2>5. CASE CheckoutTimeout(c) \/ Abandon(c)
    <3>1. permits' = permits /\ commit' = commit
      BY <2>5 DEF CheckoutTimeout, Abandon, pool
    <3>2. \E phase : (pc[c] \in Leasing <=> phase \in Leasing) /\ Goto(c, phase)
      <4>1. CASE CheckoutTimeout(c)
        BY <4>1 DEF CheckoutTimeout, Leasing
      <4>2. CASE Abandon(c)
        BY <4>2 DEF Abandon, Leasing
      <4>. QED  BY <2>5, <4>1, <4>2
    <3>. QED  BY <2>1, <3>1, <3>2
  <2>6. CASE Pop(c) \/ Build(c) \/ SetContext(c) \/ BeginCall(c) \/ EndCall(c) \/ Return(c)
    <3>1. permits' = permits /\ commit' = commit
      BY <2>6 DEF Pop, Build, SetContext, BeginCall, EndCall, Return
    <3>2. pc[c] \in Leasing /\ \E phase : phase \in Leasing /\ Goto(c, phase)
      BY <2>6 DEF Pop, Build, SetContext, BeginCall, EndCall, Return, Leasing
    <3>. QED  BY <2>1, <3>1, <3>2
  <2>7. CASE Guest(c)
    BY <1>0, <1>1, <2>7, CountSame DEF Guest
  <2>8. CASE Release(c)
    <3>1. permits' = permits + 1 /\ commit' = commit /\ pc[c] \in Leasing
          /\ \E phase : phase \notin Leasing /\ Goto(c, phase)
      BY <2>8 DEF Release, Leasing
    <3>2. Count(Leasing)' = Count(Leasing) - 1
      BY <1>0, <3>1, CountGoto
    <3>. QED  BY <1>0, <1>1, <3>1, <3>2
  <2>9. CASE Unwind(c)
    <3>1. permits' = permits /\ commit' = commit /\ pc[c] \notin Leasing
          /\ Goto(c, "idle") /\ "idle" \notin Leasing
      BY <2>9 DEF Unwind, Leasing, pool
    <3>. QED  BY <2>1, <3>1
  <2>. QED
    BY <1>3, <2>2, <2>3, <2>4, <2>5, <2>6, <2>7, <2>8, <2>9 DEF Step
<1>4. CASE (\E p \in Principals : Tick(p)) \/ ChildExits \/ Evict
  <2>1. permits' = permits /\ commit' = commit /\ pc' = pc
    BY <1>4 DEF Tick, ChildExits, Evict, pool
  <2>. QED  BY <1>0, <1>1, <2>1, CountSame
<1>5. CASE CommitBegin \/ CommitCheck \/ CommitEnd
  <2>1. Count(Leasing)' = Count(Leasing)
    BY <1>5, CountSame DEF CommitBegin, CommitCheck, CommitEnd
  <2>. QED  BY <1>0, <1>1, <1>5, <2>1 DEF CommitBegin, CommitCheck, CommitEnd, Exclusive
<1>. QED  BY <1>2, <1>3, <1>4, <1>5 DEF Next

\* Whoever builds an instance holds a permit, so it has a place; a Store taken from or
\* put back to the pool keeps its place.
LEMMA PlacesStep == IInv /\ [Next]_vars => PlacesBounded'
<1>. SUFFICES ASSUME IInv, [Next]_vars PROVE PlacesBounded'
  OBVIOUS
<1>0. /\ TypeOK /\ PermitsAddUp /\ PlacesBounded /\ pc \in [Callers -> Phases]
      /\ permits \in Nat /\ available \in Seq(Instances) /\ Len(available) \in Nat
      /\ Max \in Nat \ {0} /\ Idle \in 1..Max
      /\ Count(Leasing) \in Nat /\ Count(Occupying) \in Nat /\ Count(Occupying)' \in Nat
  <2>1. \A L : Count(L) \in Nat
    BY CountType
  <2>2. Count(Occupying)' \in Nat
    BY CountTypeNext
  <2>. QED  BY <2>1, <2>2, PoolBounds DEF IInv, TypeOK
<1>1. Max' = Max
  BY HostingStep DEF Max
<1>. USE DEF PlacesBounded
<1>2. ASSUME pc' = pc, available' = available PROVE PlacesBounded'
  BY <1>0, <1>1, <1>2, CountSame
<1>3. ASSUME NEW c \in Callers, NEW phase, Goto(c, phase), available' = available,
             phase \in Occupying => pc[c] \in Occupying
      PROVE  PlacesBounded'
  <2>1. Count(Occupying)' = Count(Occupying) - (IF pc[c] \in Occupying THEN 1 ELSE 0)
                              + (IF phase \in Occupying THEN 1 ELSE 0)
    BY <1>0, <1>3, CountGoto
  <2>2. Count(Occupying)' <= Count(Occupying)
    BY <1>0, <1>3, <2>1
  <2>. QED  BY <1>0, <1>1, <1>3, <2>2
<1>4. ASSUME NEW c \in Callers, Step(c) PROVE PlacesBounded'
  <2>1. CASE Invoke(c)
    BY <1>2, <1>3, <2>1 DEF Invoke, pool, Occupying, Using
  <2>2. CASE \/ Subscribe(c) \/ TryReserve(c) \/ Park(c) \/ Retry(c) \/ GiveUp(c)
             \/ Acquire(c) \/ Release(c) \/ Unwind(c)
    <3>1. available' = available /\ \E phase : phase \notin Occupying /\ Goto(c, phase)
      BY <2>2 DEF Subscribe, TryReserve, Park, Retry, GiveUp, Acquire, Release, Unwind, pool,
                   Occupying, Using
    <3>. QED  BY <1>3, <3>1
  <2>3. CASE CheckoutTimeout(c) \/ Abandon(c)
    <3>1. available' = available
      BY <2>3 DEF CheckoutTimeout, Abandon, pool
    <3>2. \E phase : (phase \in Occupying => pc[c] \in Occupying) /\ Goto(c, phase)
      <4>1. CASE CheckoutTimeout(c)
        BY <4>1 DEF CheckoutTimeout, Occupying, Using
      <4>2. CASE Abandon(c)
        BY <4>2 DEF Abandon, Occupying, Using
      <4>. QED  BY <2>3, <4>1, <4>2
    <3>. QED  BY <1>3, <3>1, <3>2
  <2>4. CASE Pop(c)
    <3>1. pc[c] \notin Occupying /\ pc[c] \in Leasing
      BY <2>4 DEF Pop, Leasing, Occupying, Using
    <3>2. CASE Warm
      <4>1. Goto(c, "leased") /\ Len(available') = Len(available) - 1
            /\ "leased" \in Occupying
        BY <1>0, <2>4, <3>2 DEF Pop, Warm, Occupying, Using
      <4>2. Count(Occupying)' = Count(Occupying) + 1
        BY <1>0, <3>1, <4>1, CountGoto
      <4>. QED  BY <1>0, <1>1, <4>1, <4>2
    <3>3. CASE ~Warm
      <4>1. Goto(c, "building") /\ available' = available /\ Len(available) = 0
            /\ "building" \in Leasing
        BY <2>4, <3>3 DEF Pop, Warm, Leasing
      <4>2. Count(Occupying)' <= Count(Leasing)' /\ Count(Leasing)' \in Nat
        <5>1. Occupying \subseteq Leasing
          BY DEF Occupying, Using, Leasing
        <5>. QED  BY <5>1, CountMonotonicNext, CountTypeNext
      <4>3. Count(Leasing)' = Count(Leasing)
        BY <1>0, <3>1, <4>1, CountGoto
      <4>4. Count(Leasing) <= Max
        BY <1>0 DEF PermitsAddUp
      <4>. QED  BY <1>0, <1>1, <4>1, <4>2, <4>3, <4>4
    <3>. QED  BY <3>2, <3>3
  <2>5. CASE Build(c) \/ SetContext(c) \/ BeginCall(c) \/ EndCall(c)
    <3>1. available' = available
      BY <2>5 DEF Build, SetContext, BeginCall, EndCall
    <3>2. pc[c] \in Occupying /\ \E phase : Goto(c, phase)
      BY <2>5 DEF Build, SetContext, BeginCall, EndCall, Occupying, Using
    <3>. QED  BY <1>3, <3>1, <3>2
  <2>6. CASE Guest(c)
    BY <1>2, <2>6 DEF Guest
  <2>7. CASE Return(c)
    <3>1. pc[c] \in Occupying /\ Goto(c, "releasing") /\ "releasing" \notin Occupying
      BY <2>7 DEF Return, Occupying, Using
    <3>2. Count(Occupying)' = Count(Occupying) - 1
      BY <1>0, <3>1, CountGoto
    <3>3. Len(available') \in {Len(available), Len(available) + 1}
      BY <1>0, <2>7 DEF Return
    <3>. QED  BY <1>0, <1>1, <3>2, <3>3
  <2>. QED
    BY <1>4, <2>1, <2>2, <2>3, <2>4, <2>5, <2>6, <2>7 DEF Step
<1>5. CASE \/ UNCHANGED vars \/ (\E p \in Principals : Tick(p)) \/ ChildExits
           \/ CommitBegin \/ CommitCheck \/ CommitEnd
  BY <1>2, <1>5 DEF vars, pool, Tick, ChildExits, CommitBegin, CommitCheck, CommitEnd
<1>6. CASE Evict
  <2>1. Len(available') = Idle /\ Idle < Len(available) /\ pc' = pc
    BY <1>0, <1>6 DEF Evict
  <2>. QED  BY <1>0, <1>1, <2>1, CountSame
<1>. QED  BY <1>4, <1>5, <1>6 DEF Next

\* A Store goes back to the pool only when its guest came to an end, and cleared.
LEMMA CleanStep == IInv /\ [Next]_vars => InstancesClean'
<1>. SUFFICES ASSUME IInv, [Next]_vars PROVE InstancesClean'
  OBVIOUS
<1>0. TypeOK /\ LocationsExact /\ InstancesClean /\ hosting' = hosting
  BY HostingStep DEF IInv
<1>. USE DEF InstancesClean, Clean
<1>1. ASSUME NEW c \in Callers,
             \A d \in Callers \ {c} : pc'[d] = pc[d] /\ inst'[d] = inst[d] /\ reuse'[d] = reuse[d],
             \A n \in 1..Len(available') : Clean(available'[n]),
             pc'[c] = "leased" => Clean(inst'[c]),
             pc'[c] = "set" => ~inst'[c].torn,
             pc'[c] = "returning" /\ reuse'[c] => ~inst'[c].torn
      PROVE  InstancesClean'
  BY <1>0, <1>1
<1>2. CASE pc' = pc /\ inst' = inst /\ reuse' = reuse /\ available' = available
  BY <1>0, <1>2
<1>3. ASSUME NEW c \in Callers, Step(c) PROVE InstancesClean'
  <2>. USE DEF TypeOK, Goto
  <2>1. CASE \/ Invoke(c) \/ Subscribe(c) \/ TryReserve(c) \/ Park(c) \/ Retry(c)
             \/ GiveUp(c) \/ Acquire(c) \/ CheckoutTimeout(c) \/ Release(c) \/ Unwind(c)
    <3>1. available' = available /\ inst' = inst
          /\ \A d \in Callers \ {c} : reuse'[d] = reuse[d]
      BY <1>0, <2>1 DEF Invoke, Subscribe, TryReserve, Park, Retry, GiveUp, Acquire,
                        CheckoutTimeout, Release, Unwind, pool
    <3>2. \E phase : phase \notin {"leased", "set", "returning"}
                     /\ pc' = [pc EXCEPT ![c] = phase]
      <4>1. CASE Invoke(c)
        BY <1>0, <4>1 DEF Invoke
      <4>2. CASE CheckoutTimeout(c)
        BY <1>0, <4>2 DEF CheckoutTimeout
      <4>. QED
        BY <1>0, <2>1, <4>1, <4>2
        DEF Subscribe, TryReserve, Park, Retry, GiveUp, Acquire, Release, Unwind
    <3>3. pc'[c] \notin {"leased", "set", "returning"}
          /\ \A d \in Callers \ {c} : pc'[d] = pc[d]
      BY <1>0, <3>2
    <3>. QED  BY <1>0, <1>1, <3>1, <3>3
  <2>2. CASE Pop(c)
    <3>1. reuse' = reuse /\ pc[c] = "permitted"
      BY <2>2 DEF Pop
    <3>2. CASE Warm
      <4>1. /\ inst' = [inst EXCEPT ![c] = available[Len(available)]]
            /\ available' = SubSeq(available, 1, Len(available) - 1)
            /\ pc' = [pc EXCEPT ![c] = "leased"]
        BY <2>2, <3>2 DEF Pop
      <4>2. Len(available) \in Nat \ {0}
        BY <1>0, <3>2 DEF Warm
      <4>3. \A n \in 1..Len(available') : available'[n] = available[n] /\ n \in 1..Len(available)
        BY <1>0, <4>1, <4>2
      <4>4. Clean(available[Len(available)])
        BY <1>0, <4>2
      <4>5. /\ \A d \in Callers \ {c} : pc'[d] = pc[d] /\ inst'[d] = inst[d]
            /\ pc'[c] = "leased" /\ inst'[c] = available[Len(available)]
        BY <1>0, <4>1
      <4>. QED  BY <1>0, <1>1, <3>1, <4>3, <4>4, <4>5
    <3>3. CASE ~Warm
      <4>1. inst' = inst /\ available' = available /\ pc' = [pc EXCEPT ![c] = "building"]
        BY <2>2, <3>3 DEF Pop
      <4>. QED  BY <1>0, <1>1, <3>1, <4>1
    <3>. QED  BY <3>2, <3>3
  <2>3. CASE Build(c)
    <3>1. /\ reuse' = reuse /\ available' = available /\ inst'[c] = Fresh /\ pc'[c] = "leased"
          /\ \A d \in Callers \ {c} : pc'[d] = pc[d] /\ inst'[d] = inst[d]
      BY <1>0, <2>3 DEF Build
    <3>2. Clean(Fresh)
      BY DEF Fresh
    <3>. QED  BY <1>0, <1>1, <3>1, <3>2
  <2>4. CASE SetContext(c)
    <3>1. /\ reuse' = reuse /\ available' = available /\ pc[c] = "leased"
          /\ inst' = [inst EXCEPT ![c].ctx = TRUE] /\ pc' = [pc EXCEPT ![c] = "set"]
      BY <2>4 DEF SetContext
    <3>2. inst[c] \in Instances
      BY <1>0, <3>1 DEF LocationsExact, Using
    <3>3. inst'[c] = [inst[c] EXCEPT !.ctx = TRUE] /\ pc'[c] = "set"
          /\ \A d \in Callers \ {c} : pc'[d] = pc[d] /\ inst'[d] = inst[d]
      BY <1>0, <3>1
    <3>4. inst'[c].torn = inst[c].torn
      BY <3>2, <3>3 DEF Instances
    <3>. QED  BY <1>0, <1>1, <3>1, <3>3, <3>4
  <2>5. CASE BeginCall(c) \/ Guest(c)
    <3>1. reuse' = reuse /\ available' = available /\ pc' = [pc EXCEPT ![c] = "call"]
          /\ \E j : inst' = [inst EXCEPT ![c] = j]
      BY <1>0, <2>5 DEF BeginCall, Guest
    <3>2. pc'[c] = "call" /\ \A d \in Callers \ {c} : pc'[d] = pc[d] /\ inst'[d] = inst[d]
      BY <1>0, <3>1
    <3>. QED  BY <1>0, <1>1, <3>1, <3>2
  <2>6. CASE EndCall(c)
    <3>1. available' = available /\ pc' = [pc EXCEPT ![c] = "returning"]
          /\ pc[c] \in {"set", "call"}
      BY <2>6 DEF EndCall
    <3>2. inst[c] \in Instances
      BY <1>0, <3>1 DEF LocationsExact, Using
    <3>3. \/ inst' = [inst EXCEPT ![c].torn = FALSE] /\ reuse' = [reuse EXCEPT ![c] = TRUE]
          \/ inst' = inst /\ reuse' = [reuse EXCEPT ![c] = FALSE]
          \/ inst' = inst /\ reuse' = [reuse EXCEPT ![c] = TRUE] /\ pc[c] = "set"
      BY <2>6 DEF EndCall
    <3>4. pc'[c] = "returning" /\ \A d \in Callers \ {c} : pc'[d] = pc[d] /\ reuse'[d] = reuse[d]
      BY <1>0, <3>1, <3>3
    <3>5. \A d \in Callers \ {c} : inst'[d] = inst[d]
      BY <1>0, <3>3
    <3>6. reuse'[c] => ~inst'[c].torn
      <4>1. CASE inst' = [inst EXCEPT ![c].torn = FALSE]
        <5>1. inst'[c] = [inst[c] EXCEPT !.torn = FALSE]
          BY <1>0, <4>1
        <5>. QED  BY <3>2, <5>1 DEF Instances
      <4>2. CASE inst' = inst /\ reuse' = [reuse EXCEPT ![c] = FALSE]
        BY <1>0, <4>2
      <4>3. CASE inst' = inst /\ pc[c] = "set"
        BY <1>0, <4>3
      <4>. QED  BY <3>3, <4>1, <4>2, <4>3
    <3>. QED  BY <1>0, <1>1, <3>1, <3>4, <3>5, <3>6
  <2>7. CASE Abandon(c)
    <3>1. available' = available /\ inst' = inst /\ reuse' = [reuse EXCEPT ![c] = pc[c] # "call"]
      BY <2>7 DEF Abandon
    <3>2. \/ pc' = [pc EXCEPT ![c] = "unwinding"]
          \/ pc' = [pc EXCEPT ![c] = "releasing"]
          \/ pc[c] \in {"leased", "set", "call"} /\ pc' = [pc EXCEPT ![c] = "returning"]
      BY <2>7 DEF Abandon
    <3>3. \A d \in Callers \ {c} : pc'[d] = pc[d] /\ reuse'[d] = reuse[d]
      BY <1>0, <3>1, <3>2
    <3>4. pc'[c] \notin {"leased", "set"}
          /\ (pc'[c] = "returning" => pc[c] \in {"leased", "set", "call"})
          /\ (reuse'[c] => pc[c] # "call")
      BY <1>0, <3>1, <3>2
    <3>. QED  BY <1>0, <1>1, <3>1, <3>3, <3>4
  <2>8. CASE Return(c)
    <3>1. /\ reuse' = reuse /\ pc[c] = "returning" /\ pc'[c] = "releasing"
          /\ \A d \in Callers \ {c} : pc'[d] = pc[d] /\ inst'[d] = inst[d]
      BY <1>0, <2>8 DEF Return
    <3>2. \A n \in 1..Len(available') : Clean(available'[n])
      <4>1. CASE ~reuse[c]
        <5>1. available' = available
          BY <2>8, <4>1 DEF Return, GoesBack
        <5>. QED  BY <1>0, <5>1
      <4>2. CASE reuse[c]
        <5>. DEFINE i == Cleared(inst[c], ~hosting \/ ~reuse[c])
        <5>1. available' = Append(available, i)
          BY <2>8, <4>2 DEF Return, GoesBack
        <5>2. inst[c] \in Instances /\ ~inst[c].torn
          BY <1>0, <3>1, <4>2 DEF LocationsExact, Using
        <5>3. Clean(i)
          <6>1. i.ctx = FALSE /\ i.torn = inst[c].torn
                /\ i.res = (inst[c].res /\ ~(~hosting \/ ~reuse[c]))
            BY <5>2 DEF Cleared, Instances
          <6>. QED  BY <5>2, <6>1
        <5>. HIDE DEF i
        <5>4. \A n \in 1..Len(available') : available'[n] = i \/ (n \in 1..Len(available)
                                             /\ available'[n] = available[n])
          BY <1>0, <5>1
        <5>. QED  BY <1>0, <5>3, <5>4
      <4>. QED  BY <4>1, <4>2
    <3>. QED  BY <1>0, <1>1, <3>1, <3>2
  <2>. QED
    BY <1>3, <2>1, <2>2, <2>3, <2>4, <2>5, <2>6, <2>7, <2>8 DEF Step
<1>4. CASE \/ UNCHANGED vars \/ (\E p \in Principals : Tick(p)) \/ ChildExits
           \/ CommitBegin \/ CommitCheck \/ CommitEnd
  BY <1>2, <1>4 DEF vars, pool, Tick, ChildExits, CommitBegin, CommitCheck, CommitEnd
<1>5. CASE Evict
  <2>1. /\ pc' = pc /\ inst' = inst /\ reuse' = reuse /\ Len(available) > Idle
        /\ available' = SubSeq(available, Len(available) - Idle + 1, Len(available))
    BY <1>5 DEF Evict
  <2>2. Idle \in Nat \ {0} /\ Len(available) \in Nat /\ available \in Seq(Instances)
    BY <1>0, PoolBounds DEF TypeOK
  <2>3. \A n \in 1..Len(available') :
          /\ available'[n] = available[Len(available) - Idle + n]
          /\ Len(available) - Idle + n \in 1..Len(available)
    BY <2>1, <2>2
  <2>. QED  BY <1>0, <2>1, <2>3
<1>. QED  BY <1>3, <1>4, <1>5 DEF Next

\* A reservation is made only when it fits, and a settlement burns no more than it
\* had promised.
LEMMA PromisesStep == IInv /\ [Next]_vars => PromisesExact'
<1>. SUFFICES ASSUME IInv, [Next]_vars PROVE PromisesExact'
  OBVIOUS
<1>0. TypeOK /\ PromisesExact /\ LocationsExact /\ who' = who /\ Share \in Nat /\ Budget \in Nat
  BY HostingStep, ShareFits DEF IInv
<1>1. ASSUME reserved' = reserved, resv' = resv,
             \A p \in Principals : win'[p] \in Nat /\ win'[p] <= win[p]
      PROVE  PromisesExact'
  <2>. SUFFICES ASSUME NEW p \in Principals
                PROVE  reserved'[p] = Share * Cardinality(InFlight(p)')
                       /\ win'[p] + reserved'[p] <= Budget
    BY DEF PromisesExact
  <2>1. InFlight(p)' = InFlight(p)
    BY <1>0, <1>1 DEF InFlight
  <2>2. reserved[p] = Share * Cardinality(InFlight(p)) /\ win[p] + reserved[p] <= Budget
    BY <1>0 DEF PromisesExact
  <2>3. win[p] \in Nat /\ reserved[p] \in Nat
    BY <1>0 DEF TypeOK
  <2>4. win'[p] + reserved'[p] <= Budget
    BY <1>0, <1>1, <2>2, <2>3
  <2>. QED  BY <1>1, <2>1, <2>2, <2>4
<1>2. ASSUME reserved' = reserved, resv' = resv, win' = win PROVE PromisesExact'
  BY <1>0, <1>1, <1>2 DEF TypeOK
<1>3. ASSUME NEW p \in Principals, Roll(p, 0)
      PROVE  /\ win'[p] = Rolled(p) /\ Rolled(p) \in Nat /\ Rolled(p) <= win[p]
             /\ \A q \in Principals \ {p} : win'[q] = win[q]
             /\ \A q \in Principals : win'[q] \in Nat /\ win'[q] <= win[q]
  BY <1>0, <1>3 DEF Roll, Rolled, TypeOK
<1>4. ASSUME NEW c \in Callers, Step(c) PROVE PromisesExact'
  <2>. who[c] \in Principals
    BY <1>0 DEF TypeOK
  <2>1. CASE Invoke(c)
    BY <1>1, <1>3, <2>1 DEF Invoke
  <2>2. CASE TryReserve(c)
    <3>1. Roll(who[c], 0) /\ pc[c] = "subscribed"
      BY <2>2 DEF TryReserve
    <3>2. CASE Fits(who[c], Share)
      <4>1. reserved' = [reserved EXCEPT ![who[c]] = @ + Share]
            /\ resv' = [resv EXCEPT ![c] = TRUE] /\ ~resv[c]
        BY <1>0, <2>2, <3>1, <3>2 DEF TryReserve, LocationsExact, Before
      <4>. SUFFICES ASSUME NEW p \in Principals
                    PROVE  reserved'[p] = Share * Cardinality(InFlight(p)')
                           /\ win'[p] + reserved'[p] <= Budget
        BY DEF PromisesExact
      <4>2. /\ Cardinality(InFlight(p)) \in Nat
            /\ Cardinality(InFlight(p)') =
                 Cardinality(InFlight(p)) + (IF p = who[c] THEN 1 ELSE 0)
        BY <1>0, <4>1, InFlightReserved
      <4>3. /\ reserved[p] = Share * Cardinality(InFlight(p)) /\ win[p] + reserved[p] <= Budget
            /\ win[p] \in Nat /\ reserved[p] \in Nat
        BY <1>0 DEF PromisesExact, TypeOK
      <4>4. CASE p = who[c]
        <5>1. reserved'[p] = reserved[p] + Share
          BY <1>0, <4>1, <4>4 DEF TypeOK
        <5>2. \A n \in Nat : Share * (n + 1) = Share * n + Share
          BY <1>0
        <5>3. Share * Cardinality(InFlight(p)') = Share * Cardinality(InFlight(p)) + Share
          BY <4>2, <4>4, <5>2
        <5>4. win'[p] + reserved[p] + Share <= Budget /\ win'[p] \in Nat
          BY <1>3, <3>1, <3>2, <4>4 DEF Fits
        <5>5. win'[p] + reserved'[p] <= Budget
          BY <1>0, <4>3, <5>1, <5>4
        <5>. QED  BY <4>3, <5>1, <5>3, <5>5
      <4>5. CASE p # who[c]
        <5>1. reserved'[p] = reserved[p] /\ win'[p] = win[p]
          BY <1>0, <1>3, <3>1, <4>1, <4>5 DEF TypeOK
        <5>2. Cardinality(InFlight(p)') = Cardinality(InFlight(p))
          BY <4>2, <4>5
        <5>. QED  BY <4>3, <5>1, <5>2
      <4>. QED  BY <4>4, <4>5
    <3>3. CASE ~Fits(who[c], Share)
      <4>1. reserved' = reserved /\ resv' = resv
        BY <2>2, <3>3 DEF TryReserve
      <4>. QED  BY <1>1, <1>3, <3>1, <4>1
    <3>. QED  BY <3>2, <3>3
  <2>3. CASE CheckoutTimeout(c)
    BY <1>2, <2>3 DEF CheckoutTimeout, fuel
  <2>4. CASE EndCall(c)
    <3>1. resv[c] /\ \E burned \in 0..Share : Settle(c, burned)
      BY <1>0, <2>4 DEF EndCall, LocationsExact, Reserving
    <3>. QED  BY <1>0, <3>1, SettleEffect
  <2>5. CASE Unwind(c)
    <3>1. CASE resv[c]
      <4>1. \E burned \in 0..Share : Settle(c, burned)
        BY <1>0, <2>5, <3>1 DEF Unwind
      <4>. QED  BY <1>0, <3>1, <4>1, SettleEffect
    <3>2. CASE ~resv[c]
      BY <1>2, <2>5, <3>2 DEF Unwind, fuel
    <3>. QED  BY <3>1, <3>2
  <2>6. CASE \/ Subscribe(c) \/ Park(c) \/ Retry(c) \/ GiveUp(c) \/ Acquire(c) \/ Pop(c)
             \/ Build(c) \/ SetContext(c) \/ BeginCall(c) \/ Guest(c) \/ Abandon(c)
             \/ Return(c) \/ Release(c)
    BY <1>2, <2>6 DEF Subscribe, Park, Retry, GiveUp, Unlisten, Acquire, Pop, Build,
                      SetContext, BeginCall, Guest, Abandon, Return, Release, fuel
  <2>. QED
    BY <1>4, <2>1, <2>2, <2>3, <2>4, <2>5, <2>6 DEF Step
<1>5. CASE UNCHANGED vars \/ Surroundings
  <2>1. reserved' = reserved /\ resv' = resv /\ win' = win
    BY <1>5 DEF vars, fuel, Surroundings, Tick, ChildExits, Evict, CommitBegin,
                CommitCheck, CommitEnd
  <2>. QED  BY <1>2, <2>1
<1>. QED  BY <1>4, <1>5 DEF Next, Surroundings

\* The listener is registered before the check, so whatever would admit a refused
\* caller notifies it, and its timer covers the end of the window.
LEMMA RefusalStep == IInv /\ [Next]_vars => RefusalStands'
<1>. SUFFICES ASSUME IInv, [Next]_vars PROVE RefusalStands'
  OBVIOUS
<1>0. TypeOK /\ RefusalStands /\ LocationsExact /\ who' = who /\ Share \in Nat /\ Budget \in Nat
  BY HostingStep, ShareFits DEF IInv
<1>. SUFFICES ASSUME NEW d \in Callers
              PROVE  /\ pc'[d] \in {"denied", "parked"} /\ ~notified'[d] /\ win'[who[d]] > 0
                          => win'[who[d]] + reserved'[who[d]] + Share > Budget
                     /\ pc'[d] = "parked" /\ stale'[who[d]] => due'[d]
  BY <1>0 DEF RefusalStands
<1>. DEFINE q == who[d]
<1>1. /\ pc[d] \in {"denied", "parked"} /\ ~notified[d] /\ win[q] > 0
           => win[q] + reserved[q] + Share > Budget
      /\ pc[d] = "parked" /\ stale[q] => due[d]
      /\ q \in Principals /\ win[q] \in Nat /\ reserved[q] \in Nat
  BY <1>0 DEF RefusalStands, TypeOK
<1>2. CASE \/ UNCHANGED vars \/ ChildExits \/ Evict \/ CommitBegin \/ CommitCheck \/ CommitEnd
  <2>1. pc' = pc /\ UNCHANGED fuel
    BY <1>2 DEF vars, ChildExits, Evict, CommitBegin, CommitCheck, CommitEnd
  <2>. QED  BY <1>1, <2>1 DEF fuel
<1>3. ASSUME NEW p \in Principals, Tick(p)
      PROVE  /\ pc'[d] \in {"denied", "parked"} /\ ~notified'[d] /\ win'[q] > 0
                  => win'[q] + reserved'[q] + Share > Budget
             /\ pc'[d] = "parked" /\ stale'[q] => due'[d]
  <2>1. pc' = pc /\ win' = win /\ reserved' = reserved /\ notified' = notified
        /\ stale' = [stale EXCEPT ![p] = TRUE]
        /\ due'[d] = (due[d] \/ (q = p /\ pc[d] = "parked"))
    BY <1>3 DEF Tick
  <2>2. q # p => stale'[q] = stale[q]
    BY <1>0, <1>1, <2>1 DEF TypeOK
  <2>. QED  BY <1>1, <2>1, <2>2
<1>4. ASSUME NEW c \in Callers, Step(c)
      PROVE  /\ pc'[d] \in {"denied", "parked"} /\ ~notified'[d] /\ win'[q] > 0
                  => win'[q] + reserved'[q] + Share > Budget
             /\ pc'[d] = "parked" /\ stale'[q] => due'[d]
  <2>. who[c] \in Principals
    BY <1>0 DEF TypeOK
  <2>1. ASSUME Roll(who[c], 0)
        PROVE  /\ win'[q] \in Nat
               /\ win'[q] > 0 => win'[q] = win[q]
               /\ stale'[q] => stale[q]
    <3>1. win' = [win EXCEPT ![who[c]] = Rolled(who[c]) + 0]
          /\ stale' = [stale EXCEPT ![who[c]] = FALSE]
      BY <2>1 DEF Roll
    <3>2. stale'[q] => stale[q]
      BY <1>0, <1>1, <3>1 DEF TypeOK
    <3>3. win'[q] \in Nat /\ (win'[q] > 0 => win'[q] = win[q])
      BY <1>0, <1>1, <3>1 DEF TypeOK, Rolled
    <3>. QED  BY <3>2, <3>3
  <2>2. CASE Invoke(c)
    <3>1. Roll(who[c], 0) /\ reserved' = reserved /\ notified' = notified /\ due' = due
      BY <2>2 DEF Invoke
    <3>2. pc'[d] \in {"denied", "parked"} => pc'[d] = pc[d]
      BY <1>0, <2>2 DEF Invoke, Goto, TypeOK
    <3>. QED  BY <1>0, <1>1, <2>1, <3>1, <3>2
  <2>3. CASE TryReserve(c)
    <3>1. Roll(who[c], 0) /\ due' = due /\ pc[c] = "subscribed"
      BY <2>3 DEF TryReserve
    <3>2. CASE Fits(who[c], Share)
      <4>1. /\ reserved' = [reserved EXCEPT ![who[c]] = @ + Share]
            /\ notified' = [notified EXCEPT ![c] = FALSE]
            /\ pc' = [pc EXCEPT ![c] = "admitted"]
        BY <2>3, <3>2 DEF TryReserve, Heard, Goto
      <4>2. reserved'[q] \in Nat /\ reserved'[q] >= reserved[q]
        BY <1>0, <1>1, <4>1 DEF TypeOK
      <4>3. pc'[d] \in {"denied", "parked"} => pc'[d] = pc[d] /\ notified'[d] = notified[d]
        BY <1>0, <4>1 DEF TypeOK
      <4>. QED  BY <1>0, <1>1, <2>1, <3>1, <4>2, <4>3
    <3>3. CASE ~Fits(who[c], Share)
      <4>1. reserved' = reserved /\ notified' = notified /\ pc' = [pc EXCEPT ![c] = "denied"]
        BY <2>3, <3>3 DEF TryReserve, Goto
      <4>2. win'[who[c]] + reserved[who[c]] + Share > Budget
        <5>1. win'[who[c]] = Rolled(who[c]) /\ Rolled(who[c]) \in Nat /\ reserved[who[c]] \in Nat
          BY <1>0, <3>1 DEF Roll, Rolled, TypeOK
        <5>. QED  BY <1>0, <3>3, <5>1 DEF Fits
      <4>3. d # c => pc'[d] = pc[d]
        BY <1>0, <4>1 DEF TypeOK
      <4>4. pc'[c] = "denied"
        BY <1>0, <4>1 DEF TypeOK
      <4>5. CASE d = c
        BY <4>1, <4>2, <4>4, <4>5
      <4>6. CASE d # c
        BY <1>0, <1>1, <2>1, <3>1, <4>1, <4>3, <4>6
      <4>. QED  BY <4>5, <4>6
    <3>. QED  BY <3>2, <3>3
  <2>4. CASE Park(c)
    <3>1. /\ win' = win /\ stale' = stale /\ reserved' = reserved /\ notified' = notified
          /\ due' = [due EXCEPT ![c] = stale[who[c]]] /\ pc[c] = "denied"
          /\ pc' = [pc EXCEPT ![c] = "parked"]
      BY <2>4 DEF Park, Goto
    <3>2. (d # c => pc'[d] = pc[d] /\ due'[d] = due[d]) /\ due'[c] = stale[who[c]]
      BY <1>0, <3>1 DEF TypeOK
    <3>3. pc'[d] \in {"denied", "parked"} => pc[d] \in {"denied", "parked"}
      BY <1>0, <3>1 DEF TypeOK
    <3>. QED  BY <1>1, <3>1, <3>2, <3>3
  <2>5. CASE Retry(c) \/ GiveUp(c)
    <3>1. /\ win' = win /\ stale' = stale /\ reserved' = reserved
          /\ notified' = [notified EXCEPT ![c] = FALSE] /\ due' = [due EXCEPT ![c] = FALSE]
          /\ \E phase \in {"admission", "idle"} : pc' = [pc EXCEPT ![c] = phase]
      BY <2>5 DEF Retry, GiveUp, Unlisten, Heard, Goto
    <3>2. pc'[c] \notin {"denied", "parked"}
          /\ (d # c => pc'[d] = pc[d] /\ notified'[d] = notified[d] /\ due'[d] = due[d])
      BY <1>0, <3>1 DEF TypeOK
    <3>. QED  BY <1>1, <3>1, <3>2
  <2>6. ASSUME NEW burned \in 0..Share, Settle(c, burned), NEW phase,
               phase \notin {"denied", "parked"}, Goto(c, phase)
        PROVE  /\ pc'[d] \in {"denied", "parked"} /\ ~notified'[d] /\ win'[q] > 0
                    => win'[q] + reserved'[q] + Share > Budget
               /\ pc'[d] = "parked" /\ stale'[q] => due'[d]
    <3>1. /\ win' = [win EXCEPT ![who[c]] = Rolled(who[c]) + burned]
          /\ stale' = [stale EXCEPT ![who[c]] = FALSE]
          /\ reserved' = [reserved EXCEPT ![who[c]] = @ - Share]
          /\ notified'[d] = (notified[d] \/ d \in Listeners(who[c])) /\ due' = due
      BY <2>6 DEF Settle, Roll, Unreserved
    <3>2. pc'[d] \in {"denied", "parked"} => pc'[d] = pc[d]
      BY <1>0, <2>6 DEF TypeOK, Goto
    <3>3. CASE q = who[c]
      <4>1. ~stale'[q]
        BY <1>0, <3>1, <3>3 DEF TypeOK
      <4>2. pc'[d] \in {"denied", "parked"} => d \in Listeners(who[c])
        BY <3>2, <3>3 DEF Listeners
      <4>. QED  BY <3>1, <4>1, <4>2
    <3>4. CASE q # who[c]
      <4>1. win'[q] = win[q] /\ reserved'[q] = reserved[q]
        BY <1>0, <1>1, <3>1, <3>4 DEF TypeOK
      <4>2. stale'[q] = stale[q]
        BY <1>0, <1>1, <3>1, <3>4 DEF TypeOK
      <4>. QED  BY <1>1, <3>1, <3>2, <4>1, <4>2
    <3>. QED  BY <3>3, <3>4
  <2>8. CASE EndCall(c)
    <3>1. Goto(c, "returning") /\ \E burned \in 0..Share : Settle(c, burned)
      BY <1>0, <2>8 DEF EndCall
    <3>. QED  BY <2>6, <3>1
  <2>9. ASSUME UNCHANGED fuel, NEW phase, phase \notin {"denied", "parked"}, Goto(c, phase)
        PROVE  /\ pc'[d] \in {"denied", "parked"} /\ ~notified'[d] /\ win'[q] > 0
                    => win'[q] + reserved'[q] + Share > Budget
               /\ pc'[d] = "parked" /\ stale'[q] => due'[d]
    <3>1. pc'[d] \in {"denied", "parked"} => pc'[d] = pc[d]
      BY <1>0, <2>9 DEF TypeOK, Goto
    <3>. QED  BY <1>1, <2>9, <3>1 DEF fuel
  <2>10. CASE Unwind(c)
    <3>1. CASE resv[c]
      <4>1. Goto(c, "idle") /\ \E burned \in 0..Share : Settle(c, burned)
        BY <1>0, <2>10, <3>1 DEF Unwind
      <4>. QED  BY <2>6, <4>1
    <3>2. CASE ~resv[c]
      BY <2>9, <2>10, <3>2 DEF Unwind
    <3>. QED  BY <3>1, <3>2
  <2>11. CASE \/ Subscribe(c) \/ Acquire(c) \/ CheckoutTimeout(c) \/ Pop(c) \/ Build(c)
              \/ SetContext(c) \/ BeginCall(c) \/ Guest(c) \/ Abandon(c) \/ Return(c)
              \/ Release(c)
    <3>1. UNCHANGED fuel
      BY <2>11 DEF Subscribe, Acquire, CheckoutTimeout, Pop, Build, SetContext, BeginCall,
                   Guest, Abandon, Return, Release
    <3>2. \E phase : phase \notin {"denied", "parked"} /\ Goto(c, phase)
      <4>1. CASE Guest(c)
        <5>1. pc' = [pc EXCEPT ![c] = "call"]
          BY <1>0, <4>1 DEF Guest, TypeOK
        <5>. QED  BY <5>1 DEF Goto
      <4>2. CASE Abandon(c)
        BY <4>2 DEF Abandon
      <4>3. CASE CheckoutTimeout(c)
        BY <4>3 DEF CheckoutTimeout
      <4>4. CASE Release(c)
        BY <4>4 DEF Release
      <4>. QED
        BY <2>11, <4>1, <4>2, <4>3, <4>4 DEF Subscribe, Acquire, Pop, Build, SetContext, BeginCall,
                                             Return
    <3>. QED  BY <2>9, <3>1, <3>2
  <2>. QED
    BY <1>4, <2>2, <2>3, <2>4, <2>5, <2>8, <2>10, <2>11 DEF Step
<1>. QED  BY <1>2, <1>3, <1>4 DEF Next

\* A child is spawned by a call, whose permit a commit would have taken.
LEMMA SoleStep == IInv /\ [Next]_vars => CommitSole'
<1>. SUFFICES ASSUME IInv, [Next]_vars PROVE CommitSole'
  OBVIOUS
<1>0. CommitSole /\ PermitsAddUp /\ TypeOK /\ Max \in Nat \ {0} /\ permits \in Nat
      /\ Count(Leasing) \in Nat
  BY PoolBounds, CountType DEF IInv, TypeOK
<1>1. CASE \E c \in Callers : Guest(c)
  <2>1. PICK c \in Callers : Guest(c)
    BY <1>1
  <2>2. pc[c] \in Leasing /\ commit' = commit
    BY <2>1 DEF Guest, Leasing
  <2>3. Count(Leasing) > 0
    BY <2>2, CountSome
  <2>4. commit = "idle"
    BY <1>0, <2>3 DEF PermitsAddUp
  <2>. QED  BY <2>2, <2>4 DEF CommitSole
<1>2. CASE CommitBegin \/ CommitCheck \/ CommitEnd \/ ChildExits
  BY <1>0, <1>2 DEF CommitSole, CommitBegin, CommitCheck, CommitEnd, ChildExits
<1>3. CASE commit' = commit /\ live' = live
  BY <1>0, <1>3 DEF CommitSole
<1>4. ASSUME NEW c \in Callers, Step(c), ~Guest(c) PROVE commit' = commit /\ live' = live
  BY <1>4 DEF Step, Invoke, Subscribe, TryReserve, Park, Retry, GiveUp, Acquire,
              CheckoutTimeout, Pop, Build, SetContext, BeginCall, EndCall, Abandon,
              Return, Release, Unwind
<1>5. CASE UNCHANGED vars \/ (\E p \in Principals : Tick(p)) \/ Evict
  BY <1>3, <1>5 DEF vars, Tick, Evict
<1>. QED  BY <1>1, <1>2, <1>3, <1>4, <1>5 DEF Next

\* Every step of an invocation, of the pool and of a commit preserves the invariant.
THEOREM InvocationInv == Spec => []IInv
<1>1. Init => IInv
  BY InitInv
<1>2. IInv /\ [Next]_vars => IInv'
  BY TypeStep, LocationsStep, PermitsStep, PlacesStep, CleanStep, PromisesStep, RefusalStep,
     SoleStep DEF IInv
<1>. QED  BY <1>1, <1>2, PTL DEF Spec

-----------------------------------------------------------------------------
(* What it is for *)

\* A principal's settled fuel and the shares of its calls in flight stay within its
\* budget, however calls end.
THEOREM BudgetTheorem == Spec => []BudgetHolds
<1>1. IInv => BudgetHolds
  <2>. SUFFICES ASSUME IInv, NEW p \in Principals
                PROVE  win[p] + Share * Cardinality(InFlight(p)) <= Budget
    BY DEF BudgetHolds
  <2>1. reserved[p] = Share * Cardinality(InFlight(p)) /\ win[p] + reserved[p] <= Budget
    BY DEF IInv, PromisesExact
  <2>. QED  BY <2>1
<1>. QED  BY <1>1, InvocationInv, PTL

\* A caller asleep without a notification and with its timer running could not be
\* admitted, unless somebody else rolled its window: no settlement is missed.
THEOREM SettlementTheorem == Spec => []SettlementSeen
<1>1. IInv => SettlementSeen
  <2>. SUFFICES ASSUME IInv, NEW c \in Callers, pc[c] = "parked", ~notified[c], ~due[c],
                       win[who[c]] > 0
                PROVE  ~Fits(who[c], Share)
    BY DEF SettlementSeen
  <2>1. ~stale[who[c]] /\ win[who[c]] + reserved[who[c]] + Share > Budget
    BY DEF IInv, RefusalStands
  <2>2. win[who[c]] \in Nat /\ reserved[who[c]] \in Nat /\ Share \in Nat /\ Budget \in Nat
    BY ShareFits DEF IInv, TypeOK
  <2>. QED  BY <2>1, <2>2 DEF Fits, Rolled
<1>. QED  BY <1>1, InvocationInv, PTL

\* Warm, leased and growing instances together never exceed the ceiling of the pool.
THEOREM InstancesTheorem == Spec => []InstancesBounded
<1>1. IInv => InstancesBounded
  <2>. SUFFICES ASSUME IInv PROVE InstancesBounded
    OBVIOUS
  <2>1. {c \in Callers : inst[c] # None \/ pc[c] = "building"}
          = {c \in Callers : pc[c] \in Occupying}
    BY DEF IInv, LocationsExact, Occupying
  <2>. QED  BY <2>1 DEF IInv, PlacesBounded, InstancesBounded, Count
<1>. QED  BY <1>1, InvocationInv, PTL

\* No lease starts with the context, the resources or the torn guest of another call.
THEOREM CleanTheorem == Spec => []CleanLease
<1>1. IInv => CleanLease
  BY DEF IInv, InstancesClean, Clean, CleanLease
<1>. QED  BY <1>1, InvocationInv, PTL

\* A workspace is promoted or rolled back while no invocation holds an instance and no
\* child process runs.
THEOREM CommitTheorem == Spec => []CommitAlone
<1>1. IInv => CommitAlone
  <2>. SUFFICES ASSUME IInv, commit = "running", NEW c \in Callers, pc[c] \in Leasing
                PROVE  FALSE
    BY DEF IInv, CommitSole, CommitAlone
  <2>1. Count(Leasing) > 0
    BY CountSome
  <2>2. Count(Leasing) \in Nat /\ permits \in Nat /\ Max \in Nat
    BY CountType, PoolBounds DEF IInv, TypeOK
  <2>. QED  BY <2>1, <2>2 DEF IInv, PermitsAddUp
<1>. QED  BY <1>1, InvocationInv, PTL

\* The types hold throughout; in particular a settlement never takes a principal's
\* promised fuel, nor a commit the free permits, below zero.
THEOREM TypeTheorem == Spec => []TypeOK
<1>1. IInv => TypeOK
  BY DEF IInv
<1>. QED  BY <1>1, InvocationInv, PTL
=============================================================================
