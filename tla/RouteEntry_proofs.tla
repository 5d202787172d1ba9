-------------------------- MODULE RouteEntry_proofs --------------------------
(***************************************************************************)
(* Safety of a routed subscription for any number of principals,           *)
(* publishers and events, any budget and any count cap.                    *)
(*                                                                         *)
(* TypeOK needs the other parts: an eviction pops a bucket that has a head *)
(* age, so head ages must be exact (HeadAge), and the quantum of a drain   *)
(* divides by the length of the rotation, so the rotation must be exact    *)
(* (RotationExact), which in turn needs the mutex (LockOwner).             *)
(***************************************************************************)
EXTENDS RouteEntry, TLAPS

\* entry.rs, PrincipalQueue.head_enqueued_at: "None iff queue.is_empty()".
HeadAge == \A p \in Principals : fanout[p].head_at = Never <=> fanout[p].queue = <<>>

\* The inductive invariant: see the header.
IInv == TypeOK /\ HeadAge /\ LockOwner /\ RotationExact

-----------------------------------------------------------------------------
(* Buckets and rotations. *)

\* usize::saturating_sub never underflows.
LEMMA SaturatingSubNat ==
  ASSUME NEW a \in Nat, NEW b \in Nat
  PROVE  saturating_sub(a, b) \in Nat
BY DEF saturating_sub

\* An absent bucket is a bucket.
LEMMA NoBucketType == NoBucket \in Bucket
BY DEF NoBucket, Bucket

\* Popping a non-empty bucket yields a bucket one event shorter, aged exactly.
LEMMA PopFrontType ==
  ASSUME NEW b \in Bucket, NEW t \in Nat, b.queue # <<>>
  PROVE  /\ pop_front(b, t) \in Bucket
         /\ pop_front(b, t).queue = Tail(b.queue)
         /\ Len(pop_front(b, t).queue) = Len(b.queue) - 1
         /\ pop_front(b, t).head_at = Never <=> pop_front(b, t).queue = <<>>
         /\ Head(b.queue) \in Event
         /\ Head(b.queue).kind.size \in Nat
<1>1. Head(b.queue) \in Event /\ Tail(b.queue) \in Seq(Event)
      /\ Len(Tail(b.queue)) = Len(b.queue) - 1
  BY DEF Bucket
<1>2. Head(b.queue).kind.size \in Nat
  BY <1>1 DEF Event, Kind
<1>3. saturating_sub(b.bytes, Head(b.queue).kind.size) \in Nat
  BY <1>2, SaturatingSubNat DEF Bucket
<1>4. Never \notin Nat
  BY ConstAssumption
<1>. QED  BY <1>1, <1>2, <1>3, <1>4 DEF Bucket, pop_front

\* Appending yields a non-empty bucket one event longer, aged exactly.
LEMMA PushBackType ==
  ASSUME NEW b \in Bucket, NEW e \in Event, NEW t \in Nat,
         b.head_at = Never <=> b.queue = <<>>
  PROVE  /\ push_back(b, e, t) \in Bucket
         /\ push_back(b, e, t).queue = Append(b.queue, e)
         /\ push_back(b, e, t).queue # <<>>
         /\ Len(push_back(b, e, t).queue) = Len(b.queue) + 1
         /\ push_back(b, e, t).head_at # Never
<1>1. e.kind.size \in Nat
  BY DEF Event, Kind
<1>2. Append(b.queue, e) \in Seq(Event) /\ Append(b.queue, e) # <<>>
      /\ Len(Append(b.queue, e)) = Len(b.queue) + 1
  BY DEF Bucket
<1>. DEFINE h == IF b.queue = <<>> THEN t ELSE b.head_at
            n == b.bytes + e.kind.size
            q == Append(b.queue, e)
<1>3. h \in Nat \cup {Never} /\ h # Never
  BY ConstAssumption DEF Bucket
<1>4. n \in Nat
  BY <1>1 DEF Bucket
<1>5. push_back(b, e, t) = [b EXCEPT !.queue = q, !.bytes = n, !.head_at = h]
  BY DEF push_back
<1>. HIDE DEF h, n, q
<1>6. push_back(b, e, t) \in Bucket
  BY <1>2, <1>3, <1>4, <1>5 DEF Bucket, q
<1>7. push_back(b, e, t).queue = q /\ push_back(b, e, t).head_at = h
  BY <1>5 DEF Bucket
<1>. QED  BY <1>2, <1>3, <1>6, <1>7 DEF q

\* A rotation: a sequence that names no principal twice.
Injective(s) == \A i, j \in DOMAIN s : s[i] = s[j] => i = j

\* Taking the front principal off a rotation leaves a rotation of the others.
LEMMA RotationTail ==
  ASSUME NEW s \in Seq(Principals), s # <<>>, Injective(s)
  PROVE  /\ Head(s) \in Principals /\ Tail(s) \in Seq(Principals)
         /\ Injective(Tail(s))
         /\ Range(Tail(s)) = Range(s) \ {Head(s)}
         /\ Head(s) \in Range(s)
<1>1. /\ Len(s) \in Nat \ {0} /\ DOMAIN s = 1 .. Len(s) /\ Head(s) = s[1]
      /\ DOMAIN Tail(s) = 1 .. Len(s) - 1
      /\ \A i \in DOMAIN Tail(s) : Tail(s)[i] = s[i + 1]
  OBVIOUS
<1>2. Injective(Tail(s))
  <2>. SUFFICES ASSUME NEW i \in DOMAIN Tail(s), NEW j \in DOMAIN Tail(s),
                       Tail(s)[i] = Tail(s)[j]
                PROVE  i = j
    BY DEF Injective
  <2>1. i + 1 \in DOMAIN s /\ j + 1 \in DOMAIN s /\ s[i + 1] = s[j + 1]
    BY <1>1
  <2>2. i + 1 = j + 1
    BY <2>1 DEF Injective
  <2>. QED  BY <1>1, <2>2
<1>3. ASSUME NEW x \in Range(Tail(s)) PROVE x \in Range(s) \ {Head(s)}
  <2>1. PICK i \in DOMAIN Tail(s) : Tail(s)[i] = x
    BY <1>3 DEF Range
  <2>2. i + 1 \in DOMAIN s /\ s[i + 1] = x /\ i + 1 # 1 /\ 1 \in DOMAIN s
    BY <1>1, <2>1
  <2>3. s[i + 1] # s[1]
    BY <2>2 DEF Injective
  <2>. QED  BY <1>1, <2>2, <2>3 DEF Range
<1>4. ASSUME NEW x \in Range(s) \ {Head(s)} PROVE x \in Range(Tail(s))
  <2>1. PICK i \in DOMAIN s : s[i] = x
    BY <1>4 DEF Range
  <2>2. i # 1
    BY <1>1, <1>4, <2>1
  <2>3. i - 1 \in DOMAIN Tail(s) /\ Tail(s)[i - 1] = x
    BY <1>1, <2>1, <2>2
  <2>. QED  BY <2>3 DEF Range
<1>5. Head(s) \in Range(s)
  BY <1>1 DEF Range
<1>. QED  BY <1>1, <1>2, <1>3, <1>4, <1>5

\* A principal that is not in a rotation can join it at the back.
LEMMA RotationAppend ==
  ASSUME NEW s \in Seq(Principals), Injective(s),
         NEW x \in Principals, x \notin Range(s)
  PROVE  /\ Append(s, x) \in Seq(Principals)
         /\ Injective(Append(s, x))
         /\ Range(Append(s, x)) = Range(s) \cup {x}
<1>. DEFINE r == Append(s, x)
<1>1. /\ r \in Seq(Principals) /\ Len(s) \in Nat /\ DOMAIN s = 1 .. Len(s)
      /\ DOMAIN r = 1 .. Len(s) + 1 /\ r[Len(s) + 1] = x
      /\ \A i \in DOMAIN s : r[i] = s[i]
  OBVIOUS
<1>. HIDE DEF r
<1>2. \A i \in DOMAIN r : i \in DOMAIN s \/ i = Len(s) + 1
  BY <1>1
<1>3. \A i \in DOMAIN s : r[i] # x
  BY <1>1 DEF Range
<1>4. Injective(r)
  BY <1>1, <1>2, <1>3 DEF Injective
<1>5. DOMAIN s \subseteq DOMAIN r /\ Len(s) + 1 \in DOMAIN r
  BY <1>1
<1>6. Range(r) = Range(s) \cup {x}
  BY <1>1, <1>2, <1>5 DEF Range
<1>. QED  BY <1>1, <1>4, <1>6 DEF r

-----------------------------------------------------------------------------
(* The inductive invariant. *)

\* A route starts empty, unlocked and with nothing in its rotation.
LEMMA InitInv == Init => IInv
<1>. SUFFICES ASSUME Init PROVE IInv
  OBVIOUS
<1>1. (CHOOSE k \in Kinds : TRUE) \in Kind
  BY ConstAssumption
<1>2. Idle \in [at : PubState, event : Event] /\ Idle.at = "idle"
  BY <1>1 DEF Idle, PubState, Event
<1>3. NoBucket.queue = <<>> /\ NoBucket.head_at = Never /\ Len(<<>>) = 0
  BY DEF NoBucket
<1>4. TypeOK
  <2>1. /\ fanout \in [Principals -> Bucket]
        /\ \A p \in Principals : Len(fanout[p].queue) <= CountCap
    BY <1>3, NoBucketType, ConstAssumption DEF Init
  <2>2. drain \in Drain
    BY ConstAssumption DEF Init, NoDrain, Drain
  <2>3. pub \in [Publishers -> [at : PubState, event : Event]]
    BY <1>2 DEF Init
  <2>4. /\ appended \in [Principals -> Seq(Event)]
        /\ delivered \in [Principals -> Seq(Event)]
        /\ bypass \in [Principals -> Nat]
    BY DEF Init
  <2>5. gate \in {"staged", "published", "retired"} /\ rx \in RxState
    BY DEF Init, RxState
  <2>6. registered \in BOOLEAN /\ permit \in BOOLEAN
    BY DEF Init
  <2>7. /\ active \in SUBSET Principals /\ principal_order \in Seq(Principals)
        /\ total_bytes \in Nat /\ clock \in Nat /\ next_id \in Nat
        /\ evicted \in SUBSET Event /\ lock \in Publishers \cup {Free, Rx}
        /\ scope \in Scopes /\ request_owner \in Requests
        /\ late \in Nat \cup {Never}
    BY DEF Init
  <2>. QED  BY <2>1, <2>2, <2>3, <2>4, <2>5, <2>6, <2>7 DEF TypeOK
<1>5. HeadAge
  BY <1>3 DEF Init, HeadAge
<1>6. LockOwner
  BY <1>2, ConstAssumption DEF Init, LockOwner
<1>7. RotationExact
  BY <1>3 DEF Init, RotationExact, Range
<1>. QED  BY <1>4, <1>5, <1>6, <1>7 DEF IInv

\* Moving one publisher to another location.
LEMMA SetAt ==
  ASSUME TypeOK, NEW t \in Publishers, NEW a \in PubState
  PROVE  [pub EXCEPT ![t].at = a] \in [Publishers -> [at : PubState, event : Event]]
BY DEF TypeOK

\* Locations of a publisher inside push_with_eviction and enqueue_routes.
LEMMA PubStates ==
  "recheck" \in PubState /\ "evict" \in PubState /\ "notify" \in PubState
BY DEF PubState

\* The front of a non-empty rotation is a principal.
LEMMA OrderHead ==
  ASSUME TypeOK, principal_order # <<>>
  PROVE  Head(principal_order) \in Principals /\ Tail(principal_order) \in Seq(Principals)
<1>1. principal_order \in Seq(Principals)
  BY DEF TypeOK
<1>. QED  BY <1>1

\* Reading the clock again yields an instant.
LEMMA ClockNat == TypeOK /\ clock' \in clock .. clock + 1 => clock' \in Nat
BY DEF TypeOK

\* Replacing one bucket by a well-formed one.
LEMMA SetBucket ==
  ASSUME TypeOK, HeadAge, NEW p \in Principals, NEW b \in Bucket,
         Len(b.queue) <= CountCap, b.head_at = Never <=> b.queue = <<>>,
         fanout' = [fanout EXCEPT ![p] = b]
  PROVE  /\ fanout' \in [Principals -> Bucket]
         /\ \A q \in Principals : Len(fanout'[q].queue) <= CountCap
         /\ HeadAge'
BY DEF TypeOK, HeadAge

\* Every step keeps the types, the count cap and the exact head ages.
LEMMA TypeStep == IInv /\ [Next]_vars => TypeOK' /\ HeadAge'
<1>. SUFFICES ASSUME IInv, [Next]_vars
              PROVE  TypeOK' /\ HeadAge'
  OBVIOUS
<1>0. TypeOK /\ HeadAge /\ RotationExact
  BY DEF IInv
<1>1. Idle \in [at : PubState, event : Event]
  <2>1. (CHOOSE k \in Kinds : TRUE) \in Kind
    BY ConstAssumption
  <2>. QED  BY <2>1 DEF Idle, PubState, Event
<1>2. NoDrain \in Drain
  BY ConstAssumption DEF NoDrain, Drain
<1>3. CASE UNCHANGED vars
  BY <1>0, <1>3 DEF TypeOK, HeadAge, vars, config, route, history
<1>4. CASE GatePublish \/ GateRetire
  <2>1. late' \in Nat \cup {Never}
    BY <1>0, <1>4 DEF TypeOK, history, GatePublish, GateRetire
  <2>. QED  BY <1>0, <1>4, <2>1 DEF TypeOK, HeadAge, config, route, history, GatePublish, GateRetire
<1>5. ASSUME NEW t \in Publishers, NEW k \in Kinds, Match(t, k)
      PROVE  TypeOK' /\ HeadAge'
  <2>1. pub' \in [Publishers -> [at : PubState, event : Event]] /\ next_id' \in Nat
    BY <1>0, <1>5, ConstAssumption DEF Match, TypeOK, PubState, Event
  <2>. QED  BY <1>0, <1>5, <2>1 DEF TypeOK, HeadAge, config, route, Match
<1>6. ASSUME NEW t \in Publishers, Enqueue(t)
      PROVE  TypeOK' /\ HeadAge'
  <2>1. pub' = [pub EXCEPT ![t].at = "recheck"] \/ pub' = [pub EXCEPT ![t] = Idle]
    BY <1>6 DEF Enqueue
  <2>2. [pub EXCEPT ![t] = Idle] \in [Publishers -> [at : PubState, event : Event]]
    BY <1>0, <1>1 DEF TypeOK
  <2>3. pub' \in [Publishers -> [at : PubState, event : Event]]
    BY <1>0, <2>1, <2>2, SetAt, PubStates
  <2>4. lock' \in Publishers \cup {Free, Rx}
    BY <1>0, <1>6 DEF Enqueue, TypeOK
  <2>. QED  BY <1>0, <1>6, <2>3, <2>4 DEF TypeOK, HeadAge, config, route, history, Enqueue
<1>7. ASSUME NEW t \in Publishers, Push(t)
      PROVE  TypeOK' /\ HeadAge'
  <2>1. \/ pub' = [pub EXCEPT ![t].at = "evict"]
        \/ pub' = [pub EXCEPT ![t].at = "notify"]
    BY <1>7 DEF Push
  <2>2. pub' \in [Publishers -> [at : PubState, event : Event]]
    BY <1>0, <2>1, SetAt, PubStates
  <2>3. lock' \in Publishers \cup {Free, Rx}
    BY <1>0, <1>7 DEF Push, TypeOK
  <2>. QED  BY <1>0, <1>7, <2>2, <2>3 DEF TypeOK, HeadAge, config, route, history, Push
<1>8. ASSUME NEW t \in Publishers, evict_oldest_head(t)
      PROVE  TypeOK' /\ HeadAge'
  <2>1. clock' \in Nat
    BY <1>0, <1>8, ClockNat DEF evict_oldest_head
  <2>2. PICK v \in oldest_head_key :
          /\ fanout' = [fanout EXCEPT ![v] = pop_front(@, clock')]
          /\ total_bytes' = saturating_sub(total_bytes, Head(fanout[v].queue).kind.size)
          /\ evicted' = evicted \cup {Head(fanout[v].queue)}
    BY <1>8 DEF evict_oldest_head
  <2>. DEFINE b == fanout[v]
  <2>3. v \in Principals /\ b \in Bucket /\ b.queue # <<>> /\ Len(b.queue) <= CountCap
    BY <1>0, <2>2 DEF oldest_head_key, TypeOK, HeadAge
  <2>4. /\ pop_front(b, clock') \in Bucket
        /\ Len(pop_front(b, clock').queue) = Len(b.queue) - 1
        /\ pop_front(b, clock').head_at = Never <=> pop_front(b, clock').queue = <<>>
        /\ Head(b.queue) \in Event /\ Head(b.queue).kind.size \in Nat
    BY <2>1, <2>3, PopFrontType
  <2>5. Len(pop_front(b, clock').queue) <= CountCap
    BY <2>3, <2>4, ConstAssumption DEF Bucket
  <2>6. /\ fanout' \in [Principals -> Bucket]
        /\ \A q \in Principals : Len(fanout'[q].queue) <= CountCap
        /\ HeadAge'
    <3>1. fanout' = [fanout EXCEPT ![v] = pop_front(b, clock')]
      BY <2>2
    <3>. HIDE DEF b
    <3>. QED  BY <1>0, <2>3, <2>4, <2>5, <3>1, SetBucket
  <2>7. total_bytes' \in Nat /\ evicted' \in SUBSET Event
    BY <1>0, <2>2, <2>4, SaturatingSubNat DEF TypeOK
  <2>. QED  BY <1>0, <1>8, <2>1, <2>6, <2>7 DEF TypeOK, config, evict_oldest_head
<1>9. ASSUME NEW t \in Publishers, append_event(t)
      PROVE  TypeOK' /\ HeadAge'
  <2>1. clock' \in Nat
    BY <1>0, <1>9, ClockNat DEF append_event
  <2>. DEFINE e    == pub[t].event
              p    == e.kind.principal
              full == push_back(fanout[p], e, clock')
              rest == pop_front(full, clock')
              over == over_cap(full.queue)
  <2>2. e \in Event /\ p \in Principals /\ e.kind.size \in Nat
    BY <1>0 DEF TypeOK, Event, Kind
  <2>3. fanout[p] \in Bucket /\ Len(fanout[p].queue) <= CountCap
        /\ (fanout[p].head_at = Never <=> fanout[p].queue = <<>>)
    BY <1>0, <2>2 DEF TypeOK, HeadAge
  <2>4. /\ full \in Bucket /\ full.queue # <<>> /\ full.head_at # Never
        /\ Len(full.queue) = Len(fanout[p].queue) + 1
    BY <2>1, <2>2, <2>3, PushBackType
  <2>5. /\ rest \in Bucket /\ Len(rest.queue) = Len(full.queue) - 1
        /\ (rest.head_at = Never <=> rest.queue = <<>>)
        /\ Head(full.queue) \in Event /\ Head(full.queue).kind.size \in Nat
    BY <2>1, <2>4, PopFrontType
  <2>6. over <=> Len(full.queue) > CountCap
    BY DEF over_cap
  <2>7. /\ fanout' = [fanout EXCEPT ![p] = IF over THEN rest ELSE full]
        /\ total_bytes' = IF over
                          THEN saturating_sub(total_bytes + e.kind.size,
                                              Head(full.queue).kind.size)
                          ELSE total_bytes + e.kind.size
        /\ evicted' = IF over THEN evicted \cup {Head(full.queue)} ELSE evicted
        /\ active' = active \cup {p}
        /\ principal_order' = rotation_with(p)
        /\ appended' = [appended EXCEPT ![p] = Append(@, e)]
        /\ pub' = [pub EXCEPT ![t].at = "notify"]
        /\ lock' = Free
        /\ late' = IF late = Never THEN late ELSE late + 1
        /\ UNCHANGED <<gate, config, registered, rx, drain, permit, next_id,
                       delivered, bypass>>
    BY <1>9 DEF append_event
  <2>. HIDE DEF e, p, full, rest, over
  <2>8. /\ fanout' \in [Principals -> Bucket]
        /\ \A q \in Principals : Len(fanout'[q].queue) <= CountCap
        /\ HeadAge'
    <3>. DEFINE b == IF over THEN rest ELSE full
    <3>1. Len(fanout[p].queue) \in Nat /\ CountCap \in Nat
      BY <2>3, ConstAssumption DEF Bucket
    <3>2. b \in Bucket /\ (b.head_at = Never <=> b.queue = <<>>)
      BY <2>4, <2>5
    <3>3. Len(b.queue) <= CountCap
      BY <2>3, <2>4, <2>5, <2>6, <3>1
    <3>4. fanout' = [fanout EXCEPT ![p] = b]
      BY <2>7
    <3>. HIDE DEF b
    <3>. QED  BY <1>0, <2>2, <3>2, <3>3, <3>4, SetBucket
  <2>9. total_bytes' \in Nat
    <3>. DEFINE n == e.kind.size
    <3>1. total_bytes \in Nat
      BY <1>0 DEF TypeOK
    <3>2. n \in Nat
      BY <2>2
    <3>. HIDE DEF n
    <3>3. total_bytes + n \in Nat
      BY <3>1, <3>2
    <3>. QED  BY <2>5, <2>7, <3>3, SaturatingSubNat DEF n
  <2>10. evicted' \in SUBSET Event /\ active' \in SUBSET Principals
    BY <1>0, <2>2, <2>5, <2>7 DEF TypeOK
  <2>11. principal_order' \in Seq(Principals)
    BY <1>0, <2>2, <2>7 DEF TypeOK, rotation_with
  <2>12. appended' \in [Principals -> Seq(Event)]
    BY <1>0, <2>2, <2>7 DEF TypeOK
  <2>13. pub' \in [Publishers -> [at : PubState, event : Event]]
    BY <1>0, <2>7, SetAt, PubStates
  <2>14. late' \in Nat \cup {Never}
    BY <1>0, <2>7 DEF TypeOK
  <2>. QED  BY <1>0, <2>1, <2>7, <2>8, <2>9, <2>10, <2>11, <2>12, <2>13, <2>14
            DEF TypeOK, config
<1>10. ASSUME NEW t \in Publishers, NotifyOne(t)
       PROVE  TypeOK' /\ HeadAge'
  <2>1. pub' \in [Publishers -> [at : PubState, event : Event]]
    BY <1>0, <1>1, <1>10 DEF TypeOK, NotifyOne
  <2>2. permit' \in BOOLEAN
    BY <1>10 DEF NotifyOne, notified
  <2>. QED  BY <1>0, <1>10, <2>1, <2>2 DEF TypeOK, HeadAge, config, route, history, NotifyOne
<1>11. ASSUME NEW call \in {"try_recv_one", "recv"}, StartPop(call)
       PROVE  TypeOK' /\ HeadAge'
  BY <1>0, <1>11 DEF TypeOK, HeadAge, config, route, history, StartPop, RxState
<1>12. CASE PopSkip
  <2>. DEFINE key == Head(principal_order)
  <2>1. /\ key \in Principals /\ Tail(principal_order) \in Seq(Principals)
        /\ fanout' = [fanout EXCEPT ![key] = NoBucket]
        /\ active' = active \ {key}
    BY <1>0, <1>12, OrderHead DEF PopSkip
  <2>. HIDE DEF key
  <2>2. NoBucket.queue = <<>> /\ NoBucket.head_at = Never /\ Len(NoBucket.queue) <= CountCap
    BY ConstAssumption DEF NoBucket
  <2>3. /\ fanout' \in [Principals -> Bucket]
        /\ \A q \in Principals : Len(fanout'[q].queue) <= CountCap
        /\ HeadAge'
    BY <1>0, <2>1, <2>2, NoBucketType, SetBucket
  <2>. QED  BY <1>0, <1>12, <2>1, <2>3 DEF TypeOK, config, history, PopSkip
<1>13. CASE PopServe
  <2>. DEFINE key  == Head(principal_order)
              b    == fanout[key]
              rest == pop_front(b, clock')
              next == IF is_drained(rest) THEN NoBucket ELSE rest
  <2>1. clock' \in Nat
    BY <1>0, <1>13, ClockNat DEF PopServe
  <2>2. key \in Principals /\ Tail(principal_order) \in Seq(Principals)
    BY <1>0, <1>13, OrderHead DEF PopServe
  <2>3. b \in Bucket /\ b.queue # <<>> /\ Len(b.queue) <= CountCap
    BY <1>0, <1>13, <2>2 DEF PopServe, TypeOK
  <2>4. /\ rest \in Bucket /\ Len(rest.queue) = Len(b.queue) - 1
        /\ (rest.head_at = Never <=> rest.queue = <<>>)
        /\ Head(b.queue) \in Event /\ Head(b.queue).kind.size \in Nat
    BY <2>1, <2>3, PopFrontType
  <2>5. /\ fanout' = [fanout EXCEPT ![key] = next]
        /\ active' \in SUBSET Principals
        /\ principal_order' \in Seq(Principals)
        /\ delivered' = [delivered EXCEPT ![key] = Append(@, Head(b.queue))]
        /\ total_bytes' = saturating_sub(total_bytes, Head(b.queue).kind.size)
    <3>1. /\ delivered' = [delivered EXCEPT ![key] = Append(@, Head(b.queue))]
          /\ total_bytes' = saturating_sub(total_bytes, Head(b.queue).kind.size)
      BY <1>13 DEF PopServe
    <3>2. CASE is_drained(rest)
      BY <1>0, <1>13, <2>2, <3>1, <3>2 DEF PopServe, TypeOK
    <3>3. CASE ~is_drained(rest)
      <4>1. Append(Tail(principal_order), key) \in Seq(Principals)
        BY <2>2
      <4>. QED  BY <1>0, <1>13, <3>1, <3>3, <4>1 DEF PopServe, TypeOK, rotated
    <3>. QED  BY <3>2, <3>3
  <2>6. /\ next \in Bucket /\ (next.head_at = Never <=> next.queue = <<>>)
        /\ Len(next.queue) <= CountCap
    <3>1. CASE is_drained(rest)
      BY <3>1, NoBucketType, ConstAssumption DEF NoBucket
    <3>2. CASE ~is_drained(rest)
      <4>1. Len(b.queue) \in Nat /\ CountCap \in Nat
        BY <2>3, ConstAssumption DEF Bucket
      <4>. QED  BY <2>3, <2>4, <3>2, <4>1
    <3>. QED  BY <3>1, <3>2
  <2>. HIDE DEF key, b, rest, next
  <2>7. /\ fanout' \in [Principals -> Bucket]
        /\ \A q \in Principals : Len(fanout'[q].queue) <= CountCap
        /\ HeadAge'
    BY <1>0, <2>2, <2>5, <2>6, SetBucket
  <2>8. total_bytes' \in Nat
    BY <1>0, <2>4, <2>5, SaturatingSubNat DEF TypeOK
  <2>9. delivered' \in [Principals -> Seq(Event)]
    BY <1>0, <2>2, <2>4, <2>5 DEF TypeOK
  <2>10. bypass' \in [Principals -> Nat]
    <3>1. bypass \in [Principals -> Nat]
      BY <1>0 DEF TypeOK
    <3>2. bypass' = [q \in Principals |->
                       IF q = key \/ fanout[q].queue = <<>> THEN 0 ELSE bypass[q] + 1]
      BY <1>13 DEF PopServe, key
    <3>. QED  BY <3>1, <3>2
  <2>11. lock' = Free /\ rx' = "idle" /\ rx' \in RxState
         /\ UNCHANGED <<gate, config, registered, pub, drain, permit, next_id,
                        appended, evicted, late>>
    BY <1>13 DEF PopServe, RxState
  <2>. QED  BY <1>0, <2>1, <2>5, <2>7, <2>8, <2>9, <2>10, <2>11 DEF TypeOK, config
<1>14. CASE PopNone \/ Park \/ RecvTimeout \/ DropReceiver
  <2>1. rx' \in RxState /\ lock' \in Publishers \cup {Free, Rx}
        /\ registered' \in BOOLEAN
    BY <1>0, <1>14 DEF TypeOK, PopNone, Park, RecvTimeout, DropReceiver, RxState
  <2>2. UNCHANGED <<gate, config, route, pub, drain, permit, history>>
    BY <1>14 DEF PopNone, Park, RecvTimeout, DropReceiver
  <2>. QED  BY <1>0, <2>1, <2>2 DEF TypeOK, HeadAge, config, route, history
<1>15. CASE Wake
  BY <1>0, <1>15 DEF TypeOK, HeadAge, Wake, RxState, config, route, history
<1>16. ASSUME NEW budget \in DrainBudgets, DrainStart(budget)
       PROVE  TypeOK' /\ HeadAge'
  <2>. DEFINE n == Len(principal_order)
              share == budget \div n
              quantum == IF share > QuantumMin THEN share ELSE QuantumMin
  <2>1. budget \in Nat /\ QuantumMin \in Nat
    BY ConstAssumption
  <2>2. n \in Nat /\ n > 0
    <3>1. principal_order \in Seq(Principals)
      BY <1>0 DEF TypeOK
    <3>2. Range(principal_order) # {}
      BY <1>0, <1>16 DEF RotationExact, DrainStart
    <3>3. principal_order # <<>>
      BY <3>2 DEF Range
    <3>. QED  BY <3>1, <3>3
  <2>. HIDE DEF n
  <2>3. share \in Nat
    BY <2>1, <2>2
  <2>. HIDE DEF share
  <2>4. quantum \in Nat
    BY <2>1, <2>3
  <2>5. drain' = [NoDrain EXCEPT !.budget = budget, !.quantum = quantum, !.visit = n]
    BY <1>16 DEF DrainStart, n, share
  <2>. HIDE DEF quantum
  <2>6. drain' \in Drain
    BY <1>2, <2>1, <2>2, <2>4, <2>5 DEF Drain
  <2>7. rx' \in RxState /\ lock' = Rx
        /\ UNCHANGED <<gate, config, registered, route, pub, permit, history>>
    BY <1>16 DEF DrainStart, RxState
  <2>. QED  BY <1>0, <2>6, <2>7 DEF TypeOK, HeadAge, config, route, history
<1>17. CASE DrainVisit
  <2>. DEFINE key == Head(principal_order)
              b   == [fanout[key] EXCEPT !.deficit = @ + drain.quantum]
  <2>1. key \in Principals /\ Tail(principal_order) \in Seq(Principals)
    BY <1>0, <1>17, OrderHead DEF DrainVisit
  <2>2. /\ fanout[key] \in Bucket /\ Len(fanout[key].queue) <= CountCap
        /\ (fanout[key].head_at = Never <=> fanout[key].queue = <<>>)
        /\ drain.quantum \in Nat /\ drain.visit \in Nat
    BY <1>0, <2>1 DEF TypeOK, HeadAge, Drain
  <2>3. b \in Bucket /\ b.queue = fanout[key].queue /\ b.head_at = fanout[key].head_at
    BY <2>2 DEF Bucket
  <2>4. /\ fanout' = [fanout EXCEPT ![key] = b]
        /\ drain' = [drain EXCEPT !.cur = key, !.cur_progress = FALSE, !.visit = @ - 1]
        /\ principal_order' = Tail(principal_order) /\ rx' = "drain_bucket"
        /\ drain.visit > 0
        /\ UNCHANGED <<gate, config, registered, active, total_bytes, clock, lock,
                       pub, permit, history>>
    BY <1>17 DEF DrainVisit
  <2>. HIDE DEF key, b
  <2>5. /\ fanout' \in [Principals -> Bucket]
        /\ \A q \in Principals : Len(fanout'[q].queue) <= CountCap
        /\ HeadAge'
    BY <1>0, <2>1, <2>2, <2>3, <2>4, SetBucket
  <2>6. drain.visit - 1 \in Nat
    BY <2>2, <2>4
  <2>7. drain' \in Drain
    BY <1>0, <2>1, <2>4, <2>6 DEF TypeOK, Drain
  <2>8. rx' \in RxState
    BY <2>4 DEF RxState
  <2>. QED  BY <1>0, <2>1, <2>4, <2>5, <2>7, <2>8 DEF TypeOK, config, history
<1>18. CASE DrainServe
  <2>. DEFINE key  == drain.cur
              b    == fanout[key]
              n    == Head(b.queue).kind.size
              pop  == pop_front(b, clock')
              rest == [pop EXCEPT !.deficit = saturating_sub(b.deficit, n)]
  <2>1. clock' \in Nat
    BY <1>0, <1>18, ClockNat DEF DrainServe
  <2>2. key \in Principals
    BY <1>0 DEF TypeOK, Drain
  <2>3. b \in Bucket /\ b.queue # <<>> /\ Len(b.queue) <= CountCap /\ b.deficit \in Nat
    BY <1>0, <1>18, <2>2 DEF DrainServe, head_fits, TypeOK, Bucket
  <2>4. /\ pop \in Bucket /\ Len(pop.queue) = Len(b.queue) - 1
        /\ (pop.head_at = Never <=> pop.queue = <<>>)
        /\ Head(b.queue) \in Event /\ n \in Nat
    BY <2>1, <2>3, PopFrontType
  <2>5. /\ fanout' = [fanout EXCEPT ![key] = rest]
        /\ total_bytes' = saturating_sub(total_bytes, n)
        /\ drain' = [drain EXCEPT !.served = @ + n, !.cur_progress = TRUE]
        /\ delivered' = [delivered EXCEPT ![key] = Append(@, Head(b.queue))]
        /\ UNCHANGED <<gate, config, registered, active, principal_order, lock,
                       pub, rx, permit, next_id, appended, evicted, bypass, late>>
    BY <1>18 DEF DrainServe
  <2>6. saturating_sub(b.deficit, n) \in Nat /\ total_bytes' \in Nat
    BY <1>0, <2>3, <2>4, <2>5, SaturatingSubNat DEF TypeOK
  <2>. HIDE DEF pop
  <2>7. /\ rest \in Bucket /\ rest.queue = pop.queue /\ rest.head_at = pop.head_at
    BY <2>4, <2>6 DEF Bucket
  <2>8. Len(rest.queue) <= CountCap
    <3>1. Len(b.queue) \in Nat /\ CountCap \in Nat
      BY <2>3, ConstAssumption DEF Bucket
    <3>. QED  BY <2>3, <2>4, <2>7, <3>1
  <2>. HIDE DEF key, b, n, rest
  <2>9. /\ fanout' \in [Principals -> Bucket]
        /\ \A q \in Principals : Len(fanout'[q].queue) <= CountCap
        /\ HeadAge'
    BY <1>0, <2>2, <2>4, <2>5, <2>7, <2>8, SetBucket
  <2>10. drain' \in Drain
    <3>1. drain \in Drain
      BY <1>0 DEF TypeOK
    <3>2. drain.served + n \in Nat
      BY <2>4, <3>1 DEF Drain
    <3>. QED  BY <2>5, <3>1, <3>2 DEF Drain
  <2>11. delivered' \in [Principals -> Seq(Event)]
    BY <1>0, <2>2, <2>4, <2>5 DEF TypeOK
  <2>. QED  BY <1>0, <2>1, <2>5, <2>6, <2>9, <2>10, <2>11 DEF TypeOK, config
<1>19. CASE DrainRotate
  <2>. DEFINE key == drain.cur
  <2>1. key \in Principals
    BY <1>0 DEF TypeOK, Drain
  <2>2. /\ fanout' \in [Principals -> Bucket]
        /\ \A q \in Principals : Len(fanout'[q].queue) <= CountCap
        /\ HeadAge'
    <3>1. CASE fanout[key].queue = <<>>
      <4>1. NoBucket.queue = <<>> /\ NoBucket.head_at = Never
            /\ Len(NoBucket.queue) <= CountCap
        BY ConstAssumption DEF NoBucket
      <4>2. fanout' = [fanout EXCEPT ![key] = NoBucket]
        BY <1>19, <3>1 DEF DrainRotate
      <4>. QED  BY <1>0, <2>1, <4>1, <4>2, NoBucketType, SetBucket
    <3>2. CASE fanout[key].queue # <<>>
      BY <1>0, <1>19, <3>2 DEF DrainRotate, TypeOK, HeadAge
    <3>. QED  BY <3>1, <3>2
  <2>3. principal_order' \in Seq(Principals)
    <3>1. principal_order \in Seq(Principals)
      BY <1>0 DEF TypeOK
    <3>2. Append(principal_order, key) \in Seq(Principals)
      BY <2>1, <3>1
    <3>3. principal_order' = principal_order \/ principal_order' = Append(principal_order, key)
      BY <1>19 DEF DrainRotate, rotated
    <3>. QED  BY <3>1, <3>2, <3>3
  <2>7. active' \in SUBSET Principals
    BY <1>0, <1>19 DEF DrainRotate, TypeOK
  <2>4. drain' \in Drain
    BY <1>0, <1>19 DEF DrainRotate, TypeOK, Drain
  <2>5. bypass' \in [Principals -> Nat] /\ rx' \in RxState
    BY <1>0, <1>19 DEF DrainRotate, TypeOK, RxState
  <2>6. UNCHANGED <<gate, config, registered, total_bytes, clock, lock, pub,
                    permit, next_id, appended, delivered, evicted, late>>
    BY <1>19 DEF DrainRotate
  <2>. QED  BY <1>0, <2>2, <2>3, <2>4, <2>5, <2>6, <2>7 DEF TypeOK, config
<1>20. CASE DrainRound
  <2>1. Len(principal_order) \in Nat
    BY <1>0 DEF TypeOK
  <2>2. drain' = NoDrain
          \/ drain' = [drain EXCEPT !.visit = Len(principal_order), !.progress = FALSE]
    BY <1>20 DEF DrainRound
  <2>3. drain' \in Drain
    BY <1>0, <1>2, <2>1, <2>2 DEF TypeOK, Drain
  <2>4. lock' \in Publishers \cup {Free, Rx} /\ rx' \in RxState
    BY <1>0, <1>20 DEF DrainRound, TypeOK, RxState
  <2>5. UNCHANGED <<gate, config, registered, route, pub, permit, history>>
    BY <1>20 DEF DrainRound
  <2>. QED  BY <1>0, <2>3, <2>4, <2>5 DEF TypeOK, HeadAge, config, route, history
<1>. QED
  BY <1>3, <1>4, <1>5, <1>6, <1>7, <1>8, <1>9, <1>10, <1>11, <1>12, <1>13, <1>14,
     <1>15, <1>16, <1>17, <1>18, <1>19, <1>20
  DEF Next, PublisherStep, ReceiverStep

\* Every step keeps the entry mutex: only its owner moves inside the entry.
LEMMA LockStep == IInv /\ [Next]_vars => LockOwner'
<1>. SUFFICES ASSUME IInv, [Next]_vars
              PROVE  LockOwner'
  OBVIOUS
<1>0. TypeOK /\ LockOwner
  BY DEF IInv
<1>1. Idle.at = "idle"
  BY DEF Idle
<1>2. /\ Free # Rx /\ Free \notin Publishers /\ Rx \notin Publishers
  BY ConstAssumption
<1>3. pub \in [Publishers -> [at : PubState, event : Event]]
  BY <1>0 DEF TypeOK
<1>4. ASSUME UNCHANGED <<lock, pub, rx>> PROVE LockOwner'
  BY <1>0, <1>4 DEF LockOwner
<1>5. CASE UNCHANGED vars \/ GatePublish \/ GateRetire \/ DrainServe \/ PopSkip
  BY <1>4, <1>5 DEF vars, GatePublish, GateRetire, DrainServe, PopSkip
<1>6. ASSUME NEW t \in Publishers, NEW k \in Kinds, Match(t, k)
      PROVE  LockOwner'
  BY <1>0, <1>2, <1>3, <1>6 DEF LockOwner, Match
<1>7. ASSUME NEW t \in Publishers, Enqueue(t)
      PROVE  LockOwner'
  BY <1>0, <1>1, <1>2, <1>3, <1>7 DEF LockOwner, Enqueue
<1>8. ASSUME NEW t \in Publishers, Push(t)
      PROVE  LockOwner'
  <2>1. lock = t
    BY <1>0, <1>8 DEF LockOwner, Push
  <2>2. \/ lock' = lock /\ pub' = [pub EXCEPT ![t].at = "evict"]
        \/ lock' = Free /\ pub' = [pub EXCEPT ![t].at = "notify"]
    BY <1>8 DEF Push
  <2>3. rx' = rx
    BY <1>8 DEF Push
  <2>. QED  BY <1>0, <1>2, <1>3, <2>1, <2>2, <2>3 DEF LockOwner
<1>9. ASSUME NEW t \in Publishers, evict_oldest_head(t)
      PROVE  LockOwner'
  BY <1>4, <1>9 DEF evict_oldest_head
<1>10. ASSUME NEW t \in Publishers, append_event(t)
       PROVE  LockOwner'
  <2>1. lock = t
    BY <1>0, <1>10 DEF LockOwner, append_event
  <2>2. lock' = Free /\ pub' = [pub EXCEPT ![t].at = "notify"] /\ rx' = rx
    BY <1>10 DEF append_event
  <2>. QED  BY <1>0, <1>2, <1>3, <2>1, <2>2 DEF LockOwner
<1>11. ASSUME NEW t \in Publishers, NotifyOne(t)
       PROVE  LockOwner'
  BY <1>0, <1>1, <1>2, <1>3, <1>11 DEF LockOwner, NotifyOne
<1>12. ASSUME NEW call \in {"try_recv_one", "recv"}, StartPop(call)
       PROVE  LockOwner'
  BY <1>0, <1>2, <1>12 DEF LockOwner, StartPop
<1>13. CASE PopServe \/ PopNone
  <2>1. lock' = Free /\ rx' \in {"idle", "parking"} /\ pub' = pub /\ lock = Rx
    BY <1>0, <1>13 DEF PopServe, PopNone, Popping, LockOwner
  <2>. QED  BY <1>0, <1>2, <2>1 DEF LockOwner
<1>14. CASE Park \/ RecvTimeout \/ DropReceiver
  BY <1>0, <1>14 DEF LockOwner, Park, RecvTimeout, DropReceiver
<1>15. CASE Wake
  BY <1>0, <1>2, <1>15 DEF LockOwner, Wake
<1>16. ASSUME NEW budget \in DrainBudgets, DrainStart(budget)
       PROVE  LockOwner'
  BY <1>0, <1>2, <1>16 DEF LockOwner, DrainStart
<1>17. CASE DrainVisit \/ DrainRotate
  BY <1>0, <1>17 DEF LockOwner, DrainVisit, DrainRotate
<1>18. CASE DrainRound
  <2>1. lock = Rx /\ pub' = pub
        /\ \/ lock' = Free /\ rx' = "idle"
           \/ lock' = lock /\ rx' = rx
    BY <1>0, <1>18 DEF LockOwner, DrainRound
  <2>. QED  BY <1>0, <1>2, <2>1 DEF LockOwner
<1>. QED
  BY <1>5, <1>6, <1>7, <1>8, <1>9, <1>10, <1>11, <1>12, <1>13, <1>14, <1>15,
     <1>16, <1>17, <1>18
  DEF Next, PublisherStep, ReceiverStep

\* RotationExact with the visited principals as a parameter.
Rotation(order, keys, visiting) ==
  /\ Injective(order)
  /\ Range(order) = keys \ visiting
  /\ visiting \subseteq keys

\* RotationExact, before and after a step, in terms of Rotation.
LEMMA RotationDef ==
  /\ RotationExact
       <=> /\ Rotation(principal_order, active,
                       IF rx = "drain_bucket" THEN {drain.cur} ELSE {})
           /\ \A p \in Principals \ active : fanout[p].queue = <<>>
  /\ RotationExact'
       <=> /\ Rotation(principal_order', active',
                       IF rx' = "drain_bucket" THEN {drain.cur'} ELSE {})
           /\ \A p \in Principals \ active' : fanout'[p].queue = <<>>
BY DEF RotationExact, Rotation, Injective

\* Every push, pop, drain visit and removal keeps the rotation exact.
LEMMA RotationStep == IInv /\ [Next]_vars => RotationExact'
<1>. SUFFICES ASSUME IInv, [Next]_vars
              PROVE  RotationExact'
  OBVIOUS
<1>0. TypeOK /\ HeadAge /\ LockOwner /\ RotationExact
  BY DEF IInv
<1>. DEFINE v == IF rx = "drain_bucket" THEN {drain.cur} ELSE {}
<1>1. /\ fanout \in [Principals -> Bucket] /\ active \in SUBSET Principals
      /\ principal_order \in Seq(Principals) /\ drain.cur \in Principals
  BY <1>0 DEF TypeOK, Drain
<1>2. /\ Rotation(principal_order, active, v)
      /\ \A p \in Principals \ active : fanout[p].queue = <<>>
  BY <1>0, RotationDef
<1>3. ASSUME UNCHANGED <<fanout, active, principal_order>>,
             rx # "drain_bucket", rx' # "drain_bucket"
      PROVE  RotationExact'
  BY <1>2, <1>3, RotationDef
<1>4. ASSUME UNCHANGED <<fanout, active, principal_order, rx, drain>>
      PROVE  RotationExact'
  BY <1>2, <1>4, RotationDef
<1>5. CASE UNCHANGED vars \/ GatePublish \/ GateRetire
  BY <1>4, <1>5 DEF vars, route, GatePublish, GateRetire
<1>6. ASSUME NEW t \in Publishers,
             (\E k \in Kinds : Match(t, k)) \/ Enqueue(t) \/ Push(t) \/ NotifyOne(t)
      PROVE  RotationExact'
  BY <1>4, <1>6 DEF route, Match, Enqueue, Push, NotifyOne
<1>7. ASSUME NEW t \in Publishers, evict_oldest_head(t)
      PROVE  RotationExact'
  <2>1. PICK x \in active : fanout' = [fanout EXCEPT ![x] = pop_front(@, clock')]
    BY <1>7 DEF evict_oldest_head, oldest_head_key
  <2>2. \A p \in Principals \ active : fanout'[p].queue = <<>>
    BY <1>1, <1>2, <2>1
  <2>3. UNCHANGED <<active, principal_order, rx, drain>>
    BY <1>7 DEF evict_oldest_head
  <2>. QED  BY <1>2, <2>2, <2>3, RotationDef
<1>8. ASSUME NEW t \in Publishers, append_event(t)
      PROVE  RotationExact'
  <2>. DEFINE p == pub[t].event.kind.principal
  <2>1. p \in Principals
    BY <1>0 DEF TypeOK, Event, Kind
  <2>2. rx # "drain_bucket" /\ rx' = rx
    BY <1>0, <1>8, ConstAssumption DEF LockOwner, append_event
  <2>3. active' = active \cup {p} /\ principal_order' = rotation_with(p)
    BY <1>8 DEF append_event
  <2>4. \A q \in Principals \ active' : fanout'[q].queue = <<>>
    <3>1. \A q \in Principals \ {p} : fanout'[q] = fanout[q]
      BY <1>1, <1>8 DEF append_event
    <3>. QED  BY <1>2, <2>3, <3>1
  <2>5. Rotation(principal_order, active, {})
    BY <1>2, <2>2
  <2>. HIDE DEF p
  <2>6. CASE p \in active
    <3>1. active' = active /\ principal_order' = principal_order
      BY <2>3, <2>6 DEF rotation_with
    <3>. QED  BY <2>2, <2>4, <2>5, <3>1, RotationDef
  <2>7. CASE p \notin active
    <3>1. principal_order' = Append(principal_order, p) /\ p \notin Range(principal_order)
      BY <2>3, <2>5, <2>7 DEF rotation_with, Rotation
    <3>2. Injective(principal_order') /\ Range(principal_order') = Range(principal_order) \cup {p}
      BY <1>1, <2>1, <2>5, <3>1, RotationAppend DEF Rotation
    <3>3. Rotation(principal_order', active', {})
      BY <2>3, <2>5, <3>2 DEF Rotation
    <3>. QED  BY <2>2, <2>4, <3>3, RotationDef
  <2>. QED  BY <2>6, <2>7
<1>9. ASSUME (\E call \in {"try_recv_one", "recv"} : StartPop(call)) \/ PopNone \/ Park
               \/ Wake \/ RecvTimeout \/ DropReceiver \/ DrainRound
               \/ \E b \in DrainBudgets : DrainStart(b)
      PROVE  RotationExact'
  <2>1. UNCHANGED <<fanout, active, principal_order>>
    BY <1>9 DEF route, StartPop, PopNone, Park, Wake, RecvTimeout, DropReceiver,
                DrainRound, DrainStart
  <2>2. rx # "drain_bucket" /\ rx' # "drain_bucket"
    BY <1>9 DEF StartPop, PopNone, Popping, Park, Wake, RecvTimeout, DropReceiver,
                DrainRound, DrainStart
  <2>. QED  BY <1>3, <2>1, <2>2
<1>10. CASE PopSkip \/ PopServe
  <2>. DEFINE key == Head(principal_order)
  <2>1. rx # "drain_bucket" /\ rx' # "drain_bucket" /\ principal_order # <<>>
    BY <1>10 DEF PopSkip, PopServe, Popping
  <2>2. Rotation(principal_order, active, {})
    BY <1>2, <2>1
  <2>3. /\ key \in Principals /\ Tail(principal_order) \in Seq(Principals)
        /\ Injective(Tail(principal_order))
        /\ Range(Tail(principal_order)) = active \ {key} /\ key \in active
    BY <1>1, <2>1, <2>2, RotationTail DEF Rotation
  <2>4. \A q \in Principals \ {key} : fanout'[q] = fanout[q]
    BY <1>1, <1>10 DEF PopSkip, PopServe
  <2>5. \/ /\ active' = active \ {key} /\ principal_order' = Tail(principal_order)
           /\ fanout' = [fanout EXCEPT ![key] = NoBucket]
        \/ active' = active /\ principal_order' = Append(Tail(principal_order), key)
    BY <1>10 DEF PopSkip, PopServe, rotated
  <2>. HIDE DEF key
  <2>6. CASE /\ active' = active \ {key} /\ principal_order' = Tail(principal_order)
             /\ fanout' = [fanout EXCEPT ![key] = NoBucket]
    <3>1. Rotation(principal_order', active', {})
      BY <2>3, <2>6 DEF Rotation
    <3>2. fanout'[key].queue = <<>>
      BY <1>1, <2>3, <2>6 DEF NoBucket
    <3>3. \A q \in Principals \ active' : fanout'[q].queue = <<>>
      BY <1>2, <2>4, <2>6, <3>2
    <3>. QED  BY <2>1, <3>1, <3>3, RotationDef
  <2>7. CASE active' = active /\ principal_order' = Append(Tail(principal_order), key)
    <3>1. /\ Injective(principal_order')
          /\ Range(principal_order') = Range(Tail(principal_order)) \cup {key}
      BY <2>3, <2>7, RotationAppend
    <3>2. Rotation(principal_order', active', {})
      BY <2>3, <2>7, <3>1 DEF Rotation
    <3>3. \A q \in Principals \ active' : fanout'[q].queue = <<>>
      BY <1>2, <2>3, <2>4, <2>7
    <3>. QED  BY <2>1, <3>2, <3>3, RotationDef
  <2>. QED  BY <2>5, <2>6, <2>7
<1>11. CASE DrainVisit
  <2>. DEFINE key == Head(principal_order)
  <2>1. /\ rx = "drain" /\ rx' = "drain_bucket" /\ principal_order # <<>>
        /\ principal_order' = Tail(principal_order) /\ active' = active
        /\ fanout' = [fanout EXCEPT ![key].deficit = @ + drain.quantum]
        /\ drain' = [drain EXCEPT !.cur = key, !.cur_progress = FALSE, !.visit = @ - 1]
    BY <1>11 DEF DrainVisit
  <2>2. Rotation(principal_order, active, {})
    BY <1>2, <2>1
  <2>3. /\ key \in Principals /\ Injective(Tail(principal_order))
        /\ Range(Tail(principal_order)) = active \ {key} /\ key \in active
    BY <1>1, <2>1, <2>2, RotationTail DEF Rotation
  <2>4. drain.cur' = key
    <3>1. drain \in Drain
      BY <1>0 DEF TypeOK
    <3>. QED  BY <2>1, <3>1 DEF Drain
  <2>5. Rotation(principal_order', active', {drain.cur'})
    BY <2>1, <2>3, <2>4 DEF Rotation
  <2>6. \A q \in Principals \ active' : fanout'[q].queue = <<>>
    BY <1>1, <1>2, <2>1, <2>3
  <2>. QED  BY <2>1, <2>5, <2>6, RotationDef
<1>12. CASE DrainServe
  <2>1. /\ rx = "drain_bucket" /\ UNCHANGED <<rx, active, principal_order>>
        /\ drain.cur' = drain.cur
        /\ \A q \in Principals \ {drain.cur} : fanout'[q] = fanout[q]
    <3>1. drain \in Drain
      BY <1>0 DEF TypeOK
    <3>. QED  BY <1>1, <1>12, <3>1 DEF DrainServe, Drain
  <2>2. drain.cur \in active
    BY <1>2, <2>1 DEF Rotation
  <2>3. \A q \in Principals \ active' : fanout'[q].queue = <<>>
    BY <1>2, <2>1, <2>2
  <2>. QED  BY <1>2, <2>1, <2>3, RotationDef
<1>13. CASE DrainRotate
  <2>. DEFINE key == drain.cur
  <2>1. rx = "drain_bucket" /\ rx' = "drain"
    BY <1>13 DEF DrainRotate
  <2>2. Rotation(principal_order, active, {key})
    BY <1>2, <2>1
  <2>3. /\ Injective(principal_order) /\ Range(principal_order) = active \ {key}
        /\ key \in active
    BY <2>2 DEF Rotation
  <2>4. CASE fanout[key].queue = <<>>
    <3>1. /\ fanout' = [fanout EXCEPT ![key] = NoBucket]
          /\ active' = active \ {key} /\ principal_order' = principal_order
      BY <1>13, <2>4 DEF DrainRotate
    <3>2. Rotation(principal_order', active', {})
      BY <2>3, <3>1 DEF Rotation
    <3>3. \A q \in Principals \ active' : fanout'[q].queue = <<>>
      BY <1>1, <1>2, <3>1 DEF NoBucket
    <3>. QED  BY <2>1, <3>2, <3>3, RotationDef
  <2>5. CASE fanout[key].queue # <<>>
    <3>1. /\ fanout' = fanout /\ active' = active
          /\ principal_order' = Append(principal_order, key)
      BY <1>13, <2>5 DEF DrainRotate, rotated
    <3>2. /\ Injective(principal_order')
          /\ Range(principal_order') = Range(principal_order) \cup {key}
      BY <1>1, <2>3, <3>1, RotationAppend
    <3>3. Rotation(principal_order', active', {})
      BY <2>3, <3>1, <3>2 DEF Rotation
    <3>4. \A q \in Principals \ active' : fanout'[q].queue = <<>>
      BY <1>2, <3>1
    <3>. QED  BY <2>1, <3>3, <3>4, RotationDef
  <2>. QED  BY <2>4, <2>5
<1>. QED
  BY <1>5, <1>6, <1>7, <1>8, <1>9, <1>10, <1>11, <1>12, <1>13
  DEF Next, PublisherStep, ReceiverStep

-----------------------------------------------------------------------------

\* The inductive invariant holds for ever.
THEOREM RouteInv == Spec => []IInv
<1>1. Init => IInv
  BY InitInv
<1>2. IInv /\ [Next]_vars => IInv'
  BY TypeStep, LockStep, RotationStep DEF IInv
<1>. QED  BY <1>1, <1>2, PTL DEF Spec

\* Every bucket stays within PENDING_PER_PRINCIPAL_FALLBACK and every variable
\* within its type, whatever the publishers push and the budget evicts.
THEOREM TypeCorrect == Spec => []TypeOK
<1>1. IInv => TypeOK
  BY DEF IInv
<1>. QED  BY <1>1, RouteInv, PTL

\* The entry mutex of enqueue_routes and the receiver: one owner at a time.
THEOREM MutexCorrect == Spec => []LockOwner
<1>1. IInv => LockOwner
  BY DEF IInv
<1>. QED  BY <1>1, RouteInv, PTL

\* No queued event is ever off the rotation that drr_pop_one and drr_drain
\* serve from.
THEOREM RotationCorrect == Spec => []RotationExact
<1>1. IInv => RotationExact
  BY DEF IInv
<1>. QED  BY <1>1, RouteInv, PTL

-----------------------------------------------------------------------------
(* Retirement. *)

\* The gate never reopens, which makes the fence inductive: after retirement no
\* publisher passes the check of push_with_eviction any more, and LockOwner says
\* that at most one had passed it.
FenceInv ==
  /\ RetireFences
  /\ late # Never => gate = "retired"

\* Every step keeps the fence.
LEMMA FenceStep == IInv /\ FenceInv /\ [Next]_vars => FenceInv'
<1>. SUFFICES ASSUME IInv, FenceInv, [Next]_vars
              PROVE  FenceInv'
  OBVIOUS
<1>0. /\ pub \in [Publishers -> [at : PubState, event : Event]]
      /\ late \in Nat \cup {Never} /\ Never \notin Nat
  BY ConstAssumption DEF IInv, TypeOK
<1>1. Idle.at = "idle"
  BY DEF Idle
<1>2. ASSUME UNCHANGED <<late, gate>>,
             \A t \in Publishers : pub'[t].at = "evict" => pub[t].at = "evict"
      PROVE  FenceInv'
  BY <1>2 DEF FenceInv, RetireFences
<1>3. ASSUME UNCHANGED <<late, gate, pub>> PROVE FenceInv'
  BY <1>2, <1>3
<1>4. CASE GatePublish
  <2>1. late = Never /\ late' = late
    BY <1>4 DEF GatePublish, FenceInv, history
  <2>. QED  BY <2>1 DEF FenceInv, RetireFences
<1>5. CASE GateRetire
  <2>1. gate' = "retired" /\ pub' = pub /\ late' = IF late = Never THEN 0 ELSE late
    BY <1>5 DEF GateRetire
  <2>2. CASE late = Never
    BY <1>0, <2>1, <2>2 DEF FenceInv, RetireFences
  <2>3. CASE late # Never
    BY <1>0, <2>1, <2>3 DEF FenceInv, RetireFences
  <2>. QED  BY <2>2, <2>3
<1>6. ASSUME NEW t \in Publishers,
             (\E k \in Kinds : Match(t, k)) \/ Enqueue(t) \/ NotifyOne(t)
      PROVE  FenceInv'
  <2>1. UNCHANGED <<late, gate>>
    BY <1>6 DEF history, Match, Enqueue, NotifyOne
  <2>2. \A u \in Publishers : pub'[u].at = "evict" => pub'[u] = pub[u]
    BY <1>0, <1>1, <1>6 DEF Match, Enqueue, NotifyOne
  <2>. QED  BY <1>2, <2>1, <2>2
<1>7. ASSUME NEW t \in Publishers, Push(t)
      PROVE  FenceInv'
  <2>1. UNCHANGED <<late, gate>>
    BY <1>7 DEF history, Push
  <2>2. CASE gate = "published"
    <3>1. late = Never
      BY <2>2 DEF FenceInv
    <3>. QED  BY <2>1, <3>1 DEF FenceInv, RetireFences
  <2>3. CASE gate # "published"
    <3>1. pub' = [pub EXCEPT ![t].at = "notify"]
      BY <1>7, <2>3 DEF Push, accepts_event, accepts, is_published
    <3>2. \A u \in Publishers : pub'[u].at = "evict" => pub'[u] = pub[u]
      BY <1>0, <3>1
    <3>. QED  BY <1>2, <2>1, <3>2
  <2>. QED  BY <2>2, <2>3
<1>8. ASSUME NEW t \in Publishers, append_event(t)
      PROVE  FenceInv'
  <2>1. /\ pub[t].at = "evict" /\ pub' = [pub EXCEPT ![t].at = "notify"]
        /\ late' = IF late = Never THEN late ELSE late + 1
        /\ gate' = gate
    BY <1>8 DEF append_event
  <2>2. \A u \in Publishers \ {t} : pub[u].at # "evict"
    BY <2>1 DEF IInv, LockOwner
  <2>3. \A u \in Publishers : pub'[u].at # "evict"
    BY <1>0, <2>1, <2>2
  <2>4. late # Never => late = 0
    BY <1>0, <2>1 DEF FenceInv, RetireFences
  <2>5. late' # Never => late' = 1 /\ late # Never
    BY <1>0, <2>1, <2>4
  <2>. QED  BY <2>1, <2>3, <2>5 DEF FenceInv, RetireFences
<1>9. ASSUME NEW t \in Publishers, evict_oldest_head(t)
      PROVE  FenceInv'
  BY <1>3, <1>9 DEF evict_oldest_head
<1>10. CASE \/ UNCHANGED vars \/ ReceiverStep \/ RecvTimeout
            \/ \E call \in {"try_recv_one", "recv"} : StartPop(call)
            \/ \E b \in DrainBudgets : DrainStart(b)
            \/ DropReceiver
  BY <1>3, <1>10
     DEF vars, history, ReceiverStep, StartPop, PopSkip, PopServe, PopNone, Park, Wake,
         RecvTimeout, DrainStart, DrainVisit, DrainServe, DrainRotate, DrainRound,
         DropReceiver
<1>. QED  BY <1>4, <1>5, <1>6, <1>7, <1>8, <1>9, <1>10 DEF Next, PublisherStep

\* However many publishers hold a snapshot with the route when its generation
\* retires, at most one more event enters it: the checks of enqueue_routes and
\* push_with_eviction under the entry mutex fence all the others.
THEOREM FenceCorrect == Spec => []RetireFences
<1>1. Init => FenceInv
  BY DEF Init, FenceInv, RetireFences
<1>2. IInv /\ FenceInv /\ [Next]_vars => FenceInv'
  BY FenceStep
<1>3. FenceInv => RetireFences
  BY DEF FenceInv
<1>. QED  BY <1>1, <1>2, <1>3, RouteInv, PTL DEF Spec

-----------------------------------------------------------------------------
(* Wakeups. *)

\* Some event waits in the route.
Queued == \E p \in Principals : fanout[p].queue # <<>>

\* Every step keeps a sleeping receiver covered by a permit or a notifier.
LEMMA WakeupStep == IInv /\ NoLostWakeup /\ [Next]_vars => NoLostWakeup'
<1>. SUFFICES ASSUME IInv, NoLostWakeup, [Next]_vars,
                     rx' \in {"parking", "park"}, ~permit', Queued'
              PROVE  \E t \in Publishers : pub'[t].at = "notify"
  BY DEF NoLostWakeup, Queued
<1>0. /\ TypeOK /\ LockOwner /\ RotationExact
      /\ pub \in [Publishers -> [at : PubState, event : Event]]
      /\ fanout \in [Principals -> Bucket]
  BY DEF IInv, TypeOK
<1>1. Idle.at = "idle"
  BY DEF Idle
<1>2. ASSUME rx \in {"parking", "park"}, ~permit, Queued,
             \A t \in Publishers : pub[t].at = "notify" => pub'[t].at = "notify"
      PROVE  \E t \in Publishers : pub'[t].at = "notify"
  BY <1>2 DEF NoLostWakeup, Queued
<1>3. CASE \/ UNCHANGED vars \/ GatePublish \/ GateRetire \/ Park
  <2>1. permit' = permit /\ fanout' = fanout /\ pub' = pub /\ rx \in {"parking", "park"}
    BY <1>3 DEF vars, route, GatePublish, GateRetire, Park
  <2>. QED  BY <1>2, <2>1 DEF Queued
<1>4. ASSUME NEW t \in Publishers,
             (\E k \in Kinds : Match(t, k)) \/ Enqueue(t) \/ Push(t)
      PROVE  \E u \in Publishers : pub'[u].at = "notify"
  <2>1. permit' = permit /\ fanout' = fanout /\ rx' = rx
    BY <1>4 DEF route, Match, Enqueue, Push
  <2>2. \A u \in Publishers \ {t} : pub'[u] = pub[u]
    BY <1>0, <1>4 DEF Match, Enqueue, Push
  <2>3. pub[t].at # "notify"
    BY <1>4 DEF Match, Enqueue, Push
  <2>. QED  BY <1>2, <2>1, <2>2, <2>3 DEF Queued
<1>5. ASSUME NEW t \in Publishers, evict_oldest_head(t)
      PROVE  \E u \in Publishers : pub'[u].at = "notify"
  <2>1. permit' = permit /\ rx' = rx /\ pub' = pub
    BY <1>5 DEF evict_oldest_head
  <2>2. PICK x \in oldest_head_key : fanout' = [fanout EXCEPT ![x] = pop_front(@, clock')]
    BY <1>5 DEF evict_oldest_head
  <2>3. x \in Principals /\ fanout[x].queue # <<>>
    BY <1>0, <2>2 DEF IInv, HeadAge, TypeOK, oldest_head_key
  <2>. QED  BY <1>2, <2>1, <2>3 DEF Queued
<1>6. ASSUME NEW t \in Publishers, append_event(t)
      PROVE  \E u \in Publishers : pub'[u].at = "notify"
  BY <1>0, <1>6 DEF append_event
<1>7. ASSUME NEW t \in Publishers, NotifyOne(t)
      PROVE  FALSE
  BY <1>7 DEF NotifyOne, notified
<1>8. CASE PopNone
  <2>1. principal_order = <<>> /\ rx # "drain_bucket" /\ fanout' = fanout
    BY <1>8 DEF PopNone, Popping, route
  <2>2. active = {}
    BY <1>0, <2>1 DEF RotationExact, Range
  <2>3. ~Queued'
    BY <1>0, <2>1, <2>2 DEF RotationExact, Queued
  <2>. QED  BY <2>3
<1>9. CASE \/ PopSkip \/ PopServe \/ Wake \/ RecvTimeout \/ DropReceiver
           \/ DrainVisit \/ DrainServe \/ DrainRotate \/ DrainRound
           \/ \E call \in {"try_recv_one", "recv"} : StartPop(call)
           \/ \E b \in DrainBudgets : DrainStart(b)
  <2>1. rx' \notin {"parking", "park"}
    BY <1>9 DEF PopSkip, PopServe, Popping, Wake, RecvTimeout, DropReceiver, DrainVisit,
                DrainServe, DrainRotate, DrainRound, StartPop, DrainStart
  <2>. QED  BY <2>1
<1>. QED
  BY <1>3, <1>4, <1>5, <1>6, <1>7, <1>8, <1>9 DEF Next, PublisherStep, ReceiverStep

\* recv never sleeps on a queued event: the permit of notify_one is stored or
\* a publisher is about to store it, also in the window between the unlock of
\* the entry and the first poll of notified().
THEOREM WakeupCorrect == Spec => []NoLostWakeup
<1>1. Init => NoLostWakeup
  BY DEF Init, NoLostWakeup
<1>2. IInv /\ NoLostWakeup /\ [Next]_vars => NoLostWakeup'
  BY WakeupStep
<1>. QED  BY <1>1, <1>2, RouteInv, PTL DEF Spec
=============================================================================
