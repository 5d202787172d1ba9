--------------------------- MODULE EventBus_proofs ---------------------------
(***************************************************************************)
(* Publication on the event bus, for any threads, gates, observers, routes *)
(* and capacity: slots of an ordered inbox are exact, no commit passes a   *)
(* retired gate, and every transport sees the order of the sequence        *)
(* numbers.                                                                *)
(*                                                                         *)
(* What makes these inductive is the shape of a thread's stack: only its   *)
(* last publication runs, the others wait inside an observer (Suspended);  *)
(* one thread at a time is past the publish_order mutex (OneOrder); and    *)
(* each publication agrees with the gates, inboxes and logs it was made    *)
(* against (FrameOK).                                                      *)
(***************************************************************************)
EXTENDS EventBus, FiniteSetTheorems, SequenceTheorems, TLAPS

Frames(t) == {stack[t][i] : i \in DOMAIN stack[t]}

\* Publications below the last one wait for an observer to return.
Suspended ==
  \A t \in Threads : \A i \in 1 .. Len(stack[t]) - 1 : stack[t][i].at = "observe"

\* publish_order excludes the other threads, and every thread while the receiver drains.
OneOrder ==
  /\ \A t, u \in Threads : holds_order(t) /\ holds_order(u) => t = u
  /\ draining => ordered # NoInbox /\ \A t \in Threads : ~holds_order(t)

\* The gates a publication has locked are among those it captured, and published.
GuardsOK(f) ==
  /\ f.at \notin {"guards", "stamp"} => f.held = {}
  /\ f.held \subseteq f.gates
  /\ f.at = "stamp" => f.held = f.gates
  /\ \A g \in f.held : gate[g] = "published"

\* The inbox it reserved is one that was installed.
HandoffOK(f) ==
  /\ f.handoff \in 0 .. Len(inbox)
  /\ f.at \in {"reserve", "handoff"} => f.handoff = NoInbox
  /\ f.at = "slot" => f.handoff # NoInbox

\* A stamped publication is newer than what was broadcast before it, and no other
\* thread's later event reached an observer before it did.
SequenceOK(t, f) ==
  /\ f.at \in {"broadcast", "observe"} =>
       /\ f.seq < ipc_seq
       /\ \A o \in 1 .. Observers : \A i \in DOMAIN observed[o] :
            observed[o][i].seq > f.seq => observed[o][i].by = t
  /\ f.at = "broadcast" => \A i \in DOMAIN broadcast : broadcast[i] < f.seq

FramesOK ==
  \A t \in Threads : \A f \in Frames(t) : GuardsOK(f) /\ HandoffOK(f) /\ SequenceOK(t, f)

\* Nothing in a transport is newer than the last stamp.
LogsBelow ==
  /\ \A c \in DOMAIN inbox : \A i \in DOMAIN inbox[c].queue : inbox[c].queue[i].seq < ipc_seq
  /\ \A i \in DOMAIN broadcast : broadcast[i] < ipc_seq
  /\ \A i \in DOMAIN unreserved : unreserved[i] < ipc_seq
  /\ \A o \in 1 .. Observers : \A i \in DOMAIN observed[o] : observed[o][i].seq < ipc_seq

\* The inductive invariant.
IInv ==
  TypeOK /\ Suspended /\ OneOrder /\ FramesOK /\ PermitsExact /\ LogsBelow /\ TransportOrder

-----------------------------------------------------------------------------
(* Stacks *)

\* The publication a thread runs is a frame of its stack.
LEMMA TopFrame ==
  ASSUME TypeOK, NEW t \in Threads, stack[t] # <<>>
  PROVE  /\ stack[t] \in Seq(Frame) /\ Len(stack[t]) \in Nat \ {0}
         /\ Len(stack[t]) \in DOMAIN stack[t]
         /\ top(t) \in Frame /\ top(t) \in Frames(t)
<1>1. stack[t] \in Seq(Frame)
  BY DEF TypeOK
<1>2. Len(stack[t]) \in Nat \ {0} /\ Len(stack[t]) \in DOMAIN stack[t]
  BY <1>1
<1>. QED  BY <1>1, <1>2 DEF top, Frames

\* What replacing the running publication does to the stacks.
LEMMA SetTop ==
  ASSUME TypeOK, Suspended, NEW t \in Threads, stack[t] # <<>>, NEW f \in Frame, set_top(t, f)
  PROVE  /\ stack' \in [Threads -> Seq(Frame)]
         /\ \A u \in Threads \ {t} : stack'[u] = stack[u]
         /\ stack'[t] # <<>> /\ stack'[t][Len(stack'[t])] = f
         /\ Frames(t)' \subseteq Frames(t) \cup {f}
         /\ Suspended'
<1>1. stack[t] \in Seq(Frame) /\ Len(stack[t]) \in Nat \ {0}
  BY TopFrame
<1>. DEFINE s == [stack[t] EXCEPT ![Len(stack[t])] = f]
<1>2. s \in Seq(Frame) /\ Len(s) = Len(stack[t]) /\ s[Len(s)] = f /\ s # <<>>
      /\ \A i \in 1 .. Len(s) - 1 : s[i] = stack[t][i]
  BY <1>1
<1>3. stack' = [stack EXCEPT ![t] = s]
  BY DEF set_top
<1>. HIDE DEF s
<1>4. /\ stack' \in [Threads -> Seq(Frame)] /\ stack'[t] = s
      /\ \A u \in Threads \ {t} : stack'[u] = stack[u]
  BY <1>2, <1>3 DEF TypeOK
<1>5. Frames(t)' \subseteq Frames(t) \cup {f}
  BY <1>1, <1>2, <1>4 DEF Frames
<1>6. Suspended'
  BY <1>1, <1>2, <1>4 DEF Suspended
<1>. QED  BY <1>2, <1>4, <1>5, <1>6

\* What its end does.
LEMMA PopTop ==
  ASSUME TypeOK, Suspended, NEW t \in Threads, stack[t] # <<>>, pop_top(t)
  PROVE  /\ stack' \in [Threads -> Seq(Frame)]
         /\ \A u \in Threads \ {t} : stack'[u] = stack[u]
         /\ stack'[t] = <<>> \/ stack'[t][Len(stack'[t])].at = "observe"
         /\ Frames(t)' \subseteq Frames(t)
         /\ Suspended'
<1>1. stack[t] \in Seq(Frame) /\ Len(stack[t]) \in Nat \ {0}
  BY TopFrame
<1>. DEFINE s == SubSeq(stack[t], 1, Len(stack[t]) - 1)
<1>2. s \in Seq(Frame) /\ Len(s) = Len(stack[t]) - 1
      /\ \A i \in 1 .. Len(s) : s[i] = stack[t][i]
  BY <1>1
<1>3. stack' = [stack EXCEPT ![t] = s]
  BY DEF pop_top
<1>. HIDE DEF s
<1>4. /\ stack' \in [Threads -> Seq(Frame)] /\ stack'[t] = s
      /\ \A u \in Threads \ {t} : stack'[u] = stack[u]
  BY <1>2, <1>3 DEF TypeOK
<1>5. Frames(t)' \subseteq Frames(t)
  BY <1>1, <1>2, <1>4 DEF Frames
<1>6. \A i \in 1 .. Len(s) : s[i].at = "observe"
  BY <1>1, <1>2 DEF Suspended
<1>7. Suspended'
  BY <1>1, <1>2, <1>4, <1>6 DEF Suspended
<1>8. s = <<>> \/ s[Len(s)].at = "observe"
  BY <1>2, <1>6
<1>. QED  BY <1>4, <1>5, <1>7, <1>8

\* What a new publication, from the outside or from inside an observer, does.
LEMMA PushTop ==
  ASSUME TypeOK, Suspended, NEW t \in Threads, NEW f \in Frame,
         stack[t] = <<>> \/ top(t).at = "observe",
         stack' = [stack EXCEPT ![t] = Append(stack[t], f)]
  PROVE  /\ stack' \in [Threads -> Seq(Frame)]
         /\ \A u \in Threads \ {t} : stack'[u] = stack[u]
         /\ stack'[t] # <<>> /\ stack'[t][Len(stack'[t])] = f
         /\ Frames(t)' \subseteq Frames(t) \cup {f}
         /\ Suspended'
<1>1. stack[t] \in Seq(Frame) /\ Len(stack[t]) \in Nat
  BY DEF TypeOK
<1>. DEFINE s == Append(stack[t], f)
<1>2. s \in Seq(Frame) /\ Len(s) = Len(stack[t]) + 1 /\ s[Len(s)] = f /\ s # <<>>
      /\ \A i \in 1 .. Len(stack[t]) : s[i] = stack[t][i]
  BY <1>1
<1>. HIDE DEF s
<1>3. /\ stack' \in [Threads -> Seq(Frame)] /\ stack'[t] = s
      /\ \A u \in Threads \ {t} : stack'[u] = stack[u]
  BY <1>2 DEF TypeOK, s
<1>4. Frames(t)' \subseteq Frames(t) \cup {f}
  BY <1>1, <1>2, <1>3 DEF Frames
<1>5. \A i \in 1 .. Len(stack[t]) : stack[t][i].at = "observe"
  BY <1>1 DEF Suspended, top
<1>6. Suspended'
  BY <1>1, <1>2, <1>3, <1>5 DEF Suspended
<1>. QED  BY <1>2, <1>3, <1>4, <1>6

-----------------------------------------------------------------------------
(* Permits *)

Slotted == {"reserved", "guards", "stamp"}
Holding(t, c) == \E f \in Frames(t) : f.handoff = c /\ f.at \in Slotted

\* Only the running publication of a stack can hold a permit.
LEMMA LastHolds ==
  ASSUME NEW s \in Seq(Frame), \A i \in 1 .. Len(s) - 1 : s[i].at = "observe", NEW c
  PROVE  (\E i \in DOMAIN s : s[i].handoff = c /\ s[i].at \in Slotted)
           <=> (s # <<>> /\ s[Len(s)].handoff = c /\ s[Len(s)].at \in Slotted)
<1>1. Len(s) \in Nat /\ DOMAIN s = 1 .. Len(s)
  OBVIOUS
<1>. QED  BY <1>1 DEF Slotted

\* The permits of an inbox change with the publications of the one thread that moves.
LEMMA HoldersMove ==
  ASSUME NEW t \in Threads, \A u \in Threads \ {t} : stack'[u] = stack[u], NEW c
  PROVE  /\ Cardinality(holders(c)) \in Nat /\ Cardinality(holders(c)') \in Nat
         /\ Holding(t, c) => Cardinality(holders(c)) > 0
         /\ Cardinality(holders(c)') = Cardinality(holders(c))
              - (IF Holding(t, c) THEN 1 ELSE 0) + (IF Holding(t, c)' THEN 1 ELSE 0)
<1>1. holders(c) \in SUBSET Threads
  BY DEF holders
<1>2. IsFiniteSet(holders(c)) /\ Cardinality(holders(c)) \in Nat
  BY <1>1, ThreadsFinite, FS_Subset, FS_CardinalityType
<1>3. (t \in holders(c) <=> Holding(t, c)) /\ (t \in holders(c)' <=> Holding(t, c)')
  BY DEF holders, Holding, Slotted, Frames
<1>4. IsFiniteSet(holders(c) \ {t})
      /\ Cardinality(holders(c) \ {t}) =
           IF t \in holders(c) THEN Cardinality(holders(c)) - 1 ELSE Cardinality(holders(c))
  BY <1>2, FS_RemoveElement
<1>5. Cardinality(holders(c) \ {t}) \in Nat
  BY <1>4, FS_CardinalityType
<1>6. CASE Holding(t, c)'
  <2>1. holders(c)' = (holders(c) \ {t}) \cup {t}
    BY <1>3, <1>6 DEF holders
  <2>2. Cardinality(holders(c)') = Cardinality(holders(c) \ {t}) + 1
    BY <2>1, <1>4, FS_AddElement
  <2>. QED  BY <1>2, <1>3, <1>4, <1>5, <1>6, <2>2
<1>7. CASE ~Holding(t, c)'
  <2>1. holders(c)' = holders(c) \ {t}
    BY <1>3, <1>7 DEF holders
  <2>2. Cardinality(holders(c)') = Cardinality(holders(c) \ {t})
    BY <2>1
  <2>. QED  BY <1>2, <1>3, <1>4, <1>5, <1>7, <2>2
<1>. QED  BY <1>6, <1>7

\* The same of the stack of a thread, before and after a step.
LEMMA HoldingTop ==
  ASSUME TypeOK, Suspended, NEW t \in Threads, NEW c
  PROVE  Holding(t, c) <=> (stack[t] # <<>> /\ top(t).handoff = c /\ top(t).at \in Slotted)
<1>1. stack[t] \in Seq(Frame) /\ \A i \in 1 .. Len(stack[t]) - 1 : stack[t][i].at = "observe"
  BY DEF TypeOK, Suspended
<1>2. Holding(t, c)
        <=> \E i \in DOMAIN stack[t] : stack[t][i].handoff = c /\ stack[t][i].at \in Slotted
  BY DEF Holding, Frames
<1>. QED  BY <1>1, <1>2, LastHolds DEF top

\* And of the stack it will have.
LEMMA HoldingTopNext ==
  ASSUME stack' \in [Threads -> Seq(Frame)], Suspended', NEW t \in Threads, NEW c
  PROVE  Holding(t, c)' <=> (/\ stack'[t] # <<>>
                             /\ stack'[t][Len(stack'[t])].handoff = c
                             /\ stack'[t][Len(stack'[t])].at \in Slotted)
<1>1. stack'[t] \in Seq(Frame) /\ \A i \in 1 .. Len(stack'[t]) - 1 : stack'[t][i].at = "observe"
  BY DEF Suspended
<1>2. Holding(t, c)'
        <=> \E i \in DOMAIN stack'[t] : stack'[t][i].handoff = c /\ stack'[t][i].at \in Slotted
  BY DEF Holding, Frames, Slotted
<1>. QED  BY <1>1, <1>2, LastHolds

\* A step that neither takes nor gives back a permit.
LEMMA PermitsKept ==
  ASSUME PermitsExact, NEW t \in Threads, \A u \in Threads \ {t} : stack'[u] = stack[u],
         inbox' = inbox, \A c \in DOMAIN inbox : Holding(t, c)' <=> Holding(t, c)
  PROVE  PermitsExact'
<1>. SUFFICES ASSUME NEW c \in DOMAIN inbox
              PROVE  inbox'[c].permits = Cardinality(holders(c)') /\ used(c)' <= Capacity
  BY DEF PermitsExact
<1>1. Cardinality(holders(c)') = Cardinality(holders(c))
  BY HoldersMove
<1>2. inbox[c].permits = Cardinality(holders(c)) /\ used(c) <= Capacity /\ used(c)' = used(c)
  BY DEF PermitsExact, used
<1>. QED  BY <1>1, <1>2

\* A delivery in an inbox.
Item == [id : Nat, seq : Nat, reserved : BOOLEAN]

\* Editing one inbox.
LEMMA InboxEdit ==
  ASSUME TypeOK, NEW c \in DOMAIN inbox, NEW b \in Inbox, inbox' = [inbox EXCEPT ![c] = b]
  PROVE  /\ inbox' \in Seq(Inbox) /\ Len(inbox') = Len(inbox) /\ DOMAIN inbox' = DOMAIN inbox
         /\ inbox'[c] = b /\ \A d \in DOMAIN inbox \ {c} : inbox'[d] = inbox[d]
<1>1. inbox \in Seq(Inbox) /\ DOMAIN inbox = 1 .. Len(inbox) /\ Len(inbox) \in Nat
  BY DEF TypeOK
<1>. QED  BY <1>1

\* A publication that ends with a permit gives it back.
LEMMA PermitReleased ==
  ASSUME IInv, NEW t \in Threads, stack[t] # <<>>, top(t).at \in Slotted, pop_top(t),
         inbox' = release_permit(top(t).handoff)
  PROVE  /\ inbox' \in Seq(Inbox) /\ Len(inbox') = Len(inbox) /\ DOMAIN inbox' = DOMAIN inbox
         /\ \A c \in DOMAIN inbox : inbox'[c].queue = inbox[c].queue /\ inbox'[c].open = inbox[c].open
         /\ PermitsExact'
<1>h. PICK h : h = top(t).handoff
  OBVIOUS
<1>0. TypeOK /\ Suspended /\ PermitsExact /\ inbox \in Seq(Inbox) /\ Capacity \in Nat
  BY ConstAssumption DEF IInv, TypeOK
<1>1. /\ stack' \in [Threads -> Seq(Frame)] /\ Suspended'
      /\ \A u \in Threads \ {t} : stack'[u] = stack[u]
      /\ stack'[t] = <<>> \/ stack'[t][Len(stack'[t])].at = "observe"
  BY <1>0, PopTop
<1>2. \A c : ~Holding(t, c)' /\ (Holding(t, c) <=> c = h)
  BY <1>0, <1>1, <1>h, HoldingTop, HoldingTopNext DEF Slotted
<1>3. \A c \in DOMAIN inbox : inbox[c] \in Inbox /\ inbox[c].permits = Cardinality(holders(c))
                              /\ used(c) <= Capacity
  BY <1>0 DEF PermitsExact
<1>4. h \in 0 .. Len(inbox)
  BY <1>0, <1>h, TopFrame DEF IInv, FramesOK, HandoffOK
<1>5. CASE h = NoInbox
  <2>1. inbox' = inbox
    BY <1>5, <1>h DEF release_permit
  <2>2. \A c \in DOMAIN inbox : Holding(t, c)' <=> Holding(t, c)
    BY <1>0, <1>2, <1>5 DEF NoInbox
  <2>3. PermitsExact'
    BY <1>0, <1>1, <2>1, <2>2, PermitsKept
  <2>. QED  BY <1>0, <2>1, <2>3
<1>6. CASE h # NoInbox
  <2>1. h \in DOMAIN inbox
    BY <1>0, <1>4, <1>6 DEF NoInbox
  <2>. DEFINE b == [inbox[h] EXCEPT !.permits = inbox[h].permits - 1]
  <2>2. Cardinality(holders(h)') = Cardinality(holders(h)) - 1
        /\ Cardinality(holders(h)) > 0 /\ Cardinality(holders(h)) \in Nat
    <3>1. Holding(t, h) /\ ~Holding(t, h)'
      BY <1>2
    <3>. QED  BY <1>1, <3>1, HoldersMove
  <2>3. /\ b \in Inbox /\ b.permits = inbox[h].permits - 1 /\ b.queue = inbox[h].queue
        /\ b.open = inbox[h].open
    <3>1. inbox[h] \in Inbox /\ inbox[h].permits - 1 \in Nat
      BY <1>3, <2>1, <2>2
    <3>. QED  BY <3>1 DEF Inbox
  <2>4. inbox' = [inbox EXCEPT ![h] = b]
    BY <1>6, <1>h DEF release_permit
  <2>. HIDE DEF b
  <2>5. /\ inbox' \in Seq(Inbox) /\ Len(inbox') = Len(inbox) /\ DOMAIN inbox' = DOMAIN inbox
        /\ inbox'[h] = b /\ \A d \in DOMAIN inbox \ {h} : inbox'[d] = inbox[d]
    BY <1>0, <2>1, <2>3, <2>4, InboxEdit
  <2>6. ASSUME NEW c \in DOMAIN inbox
        PROVE  inbox'[c].permits = Cardinality(holders(c)') /\ used(c)' <= Capacity
    <3>1. CASE c = h
      <4>1. used(c)' = Len(inbox[h].queue) + (inbox[h].permits - 1)
        BY <2>3, <2>5, <3>1 DEF used
      <4>2. Len(inbox[h].queue) \in Nat /\ inbox[h].permits \in Nat
        BY <1>3, <2>1 DEF Inbox
      <4>3. Len(inbox[h].queue) + inbox[h].permits <= Capacity
        BY <1>3, <2>1 DEF used
      <4>4. inbox'[c].permits = Cardinality(holders(c)')
        BY <1>3, <2>1, <2>2, <2>3, <2>5, <3>1
      <4>5. used(c)' <= Capacity
        BY <1>0, <4>1, <4>2, <4>3
      <4>. QED  BY <4>4, <4>5
    <3>2. CASE c # h
      <4>1. Cardinality(holders(c)') = Cardinality(holders(c))
        BY <1>1, <1>2, <3>2, HoldersMove
      <4>2. inbox'[c] = inbox[c] /\ used(c)' = used(c)
        BY <2>5, <3>2 DEF used
      <4>. QED  BY <1>3, <4>1, <4>2
    <3>. QED  BY <3>1, <3>2
  <2>7. PermitsExact'
    BY <2>5, <2>6 DEF PermitsExact
  <2>8. \A c \in DOMAIN inbox : inbox'[c].queue = inbox[c].queue /\ inbox'[c].open = inbox[c].open
    BY <2>3, <2>5
  <2>. QED  BY <2>5, <2>7, <2>8
<1>. QED  BY <1>5, <1>6

-----------------------------------------------------------------------------
(* The invariant is preserved *)

\* A publication t may have after its step.
FrameOK(t, f) ==
  /\ GuardsOK(f) /\ HandoffOK(f) /\ SequenceOK(t, f)
  /\ in_order(f) => holds_order(t) \/ order_free(t)

\* Only t moves, and its publications are the ones it had or as they may be.
Moves(t) ==
  /\ stack' \in [Threads -> Seq(Frame)]
  /\ \A u \in Threads \ {t} : stack'[u] = stack[u]
  /\ Suspended'

\* Nothing is stamped, broadcast or observed.
Quiet ==
  /\ gate' = gate /\ ipc_seq' = ipc_seq /\ admitter' = admitter /\ ordered' = ordered
  /\ draining' = draining /\ unreserved' = unreserved /\ broadcast' = broadcast
  /\ observed' = observed /\ committed' = committed /\ delivered' = delivered

\* The queues of the inboxes stay.
QueuesStay ==
  /\ inbox' \in Seq(Inbox) /\ Len(inbox') = Len(inbox) /\ DOMAIN inbox' = DOMAIN inbox
  /\ \A c \in DOMAIN inbox : inbox'[c].queue = inbox[c].queue /\ inbox'[c].open = inbox[c].open

\* Whoever is past publish_order after a step of t already was, or found it free.
LEMMA OrderStep ==
  ASSUME OneOrder, NEW t \in Threads, \A u \in Threads \ {t} : stack'[u] = stack[u],
         draining' = draining, ordered' = ordered,
         \A f \in Frames(t)' : f \in Frames(t) \/ (in_order(f) => holds_order(t) \/ order_free(t))
  PROVE  OneOrder'
<1>1. \A u \in Threads \ {t} : holds_order(u)' <=> holds_order(u)
  BY DEF holds_order, Locked, in_order
<1>2. holds_order(t) <=> \E f \in Frames(t) : in_order(f)
  BY DEF holds_order, Frames
<1>3. holds_order(t)' <=> \E f \in Frames(t)' : in_order(f)
  BY DEF holds_order, Frames, Locked, in_order
<1>4. holds_order(t)' => holds_order(t) \/ order_free(t)
  BY <1>2, <1>3
<1>. QED  BY <1>1, <1>4 DEF OneOrder, order_free

\* A step of t that stamps, broadcasts and observes nothing, and whose publications are
\* as they should be.
LEMMA QuietStep ==
  ASSUME IInv, NEW t \in Threads, Moves(t), Quiet, QueuesStay, PermitsExact',
         \A f \in Frames(t)' : f \in Frames(t) \/ FrameOK(t, f),
         routed' \in [Routes -> Seq(Nat)], started' \in 0 .. MaxEvents
  PROVE  IInv'
<1>1. TypeOK'
  BY DEF IInv, TypeOK, Moves, Quiet, QueuesStay
<1>2. OneOrder'
  <2>1. \A f \in Frames(t)' : f \in Frames(t)
          \/ (in_order(f) => holds_order(t) \/ order_free(t))
    BY DEF FrameOK
  <2>. QED  BY <2>1, OrderStep DEF IInv, Moves, Quiet
<1>3. FramesOK'
  <2>1. ASSUME NEW u \in Threads, NEW f, GuardsOK(f) /\ HandoffOK(f) /\ SequenceOK(u, f)
        PROVE  GuardsOK(f)' /\ HandoffOK(f)' /\ SequenceOK(u, f)'
    <3>2. GuardsOK(f)'
      BY <2>1 DEF GuardsOK, Quiet
    <3>3. HandoffOK(f)'
      BY <2>1 DEF HandoffOK, NoInbox, QueuesStay
    <3>4. SequenceOK(u, f)'
      BY <2>1 DEF SequenceOK, Quiet
    <3>. QED  BY <3>2, <3>3, <3>4
  <2>2. \A u \in Threads \ {t} : Frames(u)' = Frames(u)
    BY DEF Frames, Moves
  <2>3. \A u \in Threads : \A f \in Frames(u)' : GuardsOK(f) /\ HandoffOK(f) /\ SequenceOK(u, f)
    BY <2>2 DEF IInv, FramesOK, FrameOK
  <2>4. \A u \in Threads : \A f \in Frames(u)' : GuardsOK(f)' /\ HandoffOK(f)' /\ SequenceOK(u, f)'
    BY <2>1, <2>3
  <2>. QED  BY <2>4 DEF FramesOK
<1>4. LogsBelow'
  BY DEF IInv, LogsBelow, Quiet, QueuesStay
<1>5. TransportOrder'
  BY DEF IInv, TransportOrder, increasing, Quiet, QueuesStay
<1>. QED  BY <1>1, <1>2, <1>3, <1>4, <1>5 DEF IInv, Moves

\* What is known of the running publication.
LEMMA TopOK ==
  ASSUME IInv, NEW t \in Threads, stack[t] # <<>>
  PROVE  /\ TypeOK /\ Suspended /\ PermitsExact /\ OneOrder
         /\ top(t) \in Frame /\ top(t) \in Frames(t)
         /\ GuardsOK(top(t)) /\ HandoffOK(top(t)) /\ SequenceOK(t, top(t))
         /\ in_order(top(t)) => holds_order(t)
         /\ inbox \in Seq(Inbox) /\ started \in 0 .. MaxEvents /\ routed \in [Routes -> Seq(Nat)]
<1>1. TypeOK /\ Suspended /\ PermitsExact /\ OneOrder /\ FramesOK
  BY DEF IInv
<1>2. top(t) \in Frame /\ top(t) \in Frames(t) /\ Len(stack[t]) \in DOMAIN stack[t]
  BY <1>1, TopFrame
<1>. QED  BY <1>1, <1>2 DEF FramesOK, TypeOK, holds_order, top

\* A quiet step that replaces the running publication by f and keeps the permits.
LEMMA QuietSet ==
  ASSUME IInv, NEW t \in Threads, stack[t] # <<>>, NEW f \in Frame, set_top(t, f),
         FrameOK(t, f), Quiet, inbox' = inbox, started' = started,
         routed' \in [Routes -> Seq(Nat)],
         \A c \in DOMAIN inbox : (top(t).handoff = c /\ top(t).at \in Slotted)
                                   <=> (f.handoff = c /\ f.at \in Slotted)
  PROVE  IInv'
<1>0. TypeOK /\ Suspended /\ PermitsExact /\ started \in 0 .. MaxEvents /\ inbox \in Seq(Inbox)
  BY TopOK
<1>1. /\ Moves(t) /\ stack'[t] # <<>> /\ stack'[t][Len(stack'[t])] = f
      /\ Frames(t)' \subseteq Frames(t) \cup {f}
  BY <1>0, SetTop DEF Moves
<1>2. \A c \in DOMAIN inbox : Holding(t, c)' <=> Holding(t, c)
  BY <1>0, <1>1, HoldingTop, HoldingTopNext DEF Moves
<1>3. PermitsExact'
  BY <1>0, <1>1, <1>2, PermitsKept DEF Moves
<1>4. \A e \in Frames(t)' : e \in Frames(t) \/ FrameOK(t, e)
  BY <1>1
<1>5. QueuesStay
  BY <1>0 DEF QueuesStay
<1>. QED  BY <1>0, <1>1, <1>3, <1>4, <1>5, QuietStep

\* A quiet step that ends a publication, and gives back its permit if it has one.
LEMMA QuietPop ==
  ASSUME IInv, NEW t \in Threads, stack[t] # <<>>, pop_top(t), Quiet, started' = started,
         routed' = routed,
         \/ inbox' = inbox /\ top(t).at \notin Slotted
         \/ inbox' = release_permit(top(t).handoff) /\ top(t).at \in Slotted
  PROVE  IInv'
<1>0. /\ TypeOK /\ Suspended /\ PermitsExact /\ started \in 0 .. MaxEvents
      /\ inbox \in Seq(Inbox) /\ routed \in [Routes -> Seq(Nat)]
  BY TopOK
<1>1. /\ Moves(t)
      /\ stack'[t] = <<>> \/ stack'[t][Len(stack'[t])].at = "observe"
      /\ Frames(t)' \subseteq Frames(t)
  BY <1>0, PopTop DEF Moves
<1>2. PermitsExact' /\ QueuesStay
  <2>1. CASE inbox' = inbox /\ top(t).at \notin Slotted
    <3>1. \A c \in DOMAIN inbox : Holding(t, c)' <=> Holding(t, c)
      BY <1>0, <1>1, <2>1, HoldingTop, HoldingTopNext DEF Slotted, Moves
    <3>2. PermitsExact'
      BY <1>0, <1>1, <2>1, <3>1, PermitsKept DEF Moves
    <3>. QED  BY <1>0, <2>1, <3>2 DEF QueuesStay
  <2>2. CASE inbox' = release_permit(top(t).handoff) /\ top(t).at \in Slotted
    BY <2>2, PermitReleased DEF QueuesStay
  <2>. QED  BY <2>1, <2>2
<1>3. \A e \in Frames(t)' : e \in Frames(t) \/ FrameOK(t, e)
  BY <1>1
<1>. QED  BY <1>0, <1>1, <1>2, <1>3, QuietStep

\* A quiet step that starts a publication, from the outside or inside an observer.
LEMMA QuietPush ==
  ASSUME IInv, NEW t \in Threads, NEW f \in Frame, FrameOK(t, f), f.handoff = NoInbox,
         stack[t] = <<>> \/ top(t).at = "observe",
         stack' = [stack EXCEPT ![t] = Append(stack[t], f)],
         Quiet, inbox' = inbox, started' \in 0 .. MaxEvents, routed' = routed
  PROVE  IInv'
<1>0. /\ TypeOK /\ Suspended /\ PermitsExact
      /\ inbox \in Seq(Inbox) /\ routed \in [Routes -> Seq(Nat)]
  BY DEF IInv, TypeOK
<1>1. /\ Moves(t) /\ stack'[t] # <<>> /\ stack'[t][Len(stack'[t])] = f
      /\ Frames(t)' \subseteq Frames(t) \cup {f}
  BY <1>0, PushTop DEF Moves
<1>2. \A c \in DOMAIN inbox : Holding(t, c)' <=> Holding(t, c)
  <2>1. 0 \notin DOMAIN inbox
    BY <1>0
  <2>2. ASSUME NEW c \in DOMAIN inbox PROVE ~Holding(t, c)' /\ ~Holding(t, c)
    <3>1. ~Holding(t, c)
      BY <1>0, HoldingTop DEF Slotted
    <3>2. ~Holding(t, c)'
      BY <1>1, <2>1, HoldingTopNext DEF Moves, NoInbox
    <3>. QED  BY <3>1, <3>2
  <2>. QED  BY <2>2
<1>3. PermitsExact'
  BY <1>0, <1>1, <1>2, PermitsKept DEF Moves
<1>4. \A e \in Frames(t)' : e \in Frames(t) \/ FrameOK(t, e)
  BY <1>1
<1>5. QueuesStay
  BY <1>0 DEF QueuesStay
<1>. QED  BY <1>0, <1>1, <1>3, <1>4, <1>5, QuietStep

\* A new publication has captured, locked and reserved nothing.
LEMMA NewFrameOK ==
  ASSUME IInv, started < MaxEvents, NEW t \in Threads, NEW at \in {"reserve", "stamp"},
         NEW r \in BOOLEAN, at = "stamp" => order_free(t)
  PROVE  /\ NewFrame(at, r) \in Frame /\ FrameOK(t, NewFrame(at, r))
         /\ NewFrame(at, r).handoff = NoInbox /\ started + 1 \in 0 .. MaxEvents
<1>1. started \in Nat /\ MaxEvents \in Nat /\ MaxInboxes \in Nat /\ Len(inbox) \in Nat
  BY ConstAssumption DEF IInv, TypeOK
<1>. DEFINE f == NewFrame(at, r)
<1>2. /\ f.at = at /\ f.gates = {} /\ f.held = {} /\ f.handoff = 0 /\ f.id = started + 1
      /\ f.reserved = r /\ f.delivery = FALSE /\ f.seq = 0 /\ f.next = 1 /\ f.todo = {}
      /\ f.retiring = {}
  BY DEF NewFrame, NoInbox
<1>3. NewFrame(at, r) \in Frame
  BY <1>1 DEF NewFrame, Frame, NoInbox
<1>4. FrameOK(t, f)
  BY <1>1, <1>2 DEF FrameOK, GuardsOK, HandoffOK, SequenceOK, Locked, in_order, NoInbox
<1>. QED  BY <1>1, <1>2, <1>3, <1>4 DEF NoInbox

\* Reserving a publication, giving it up, and starting one.
LEMMA ReserveStep ==
  ASSUME IInv, NEW t \in Threads,
         \/ ReserveStart(t) \/ ReserveDelivery(t) \/ ReserveHandoff(t) \/ Cancel(t) \/ Publish(t)
  PROVE  IInv'
<1>1. CASE ReserveStart(t)
  <2>. DEFINE f == NewFrame("reserve", TRUE)
  <2>1. f \in Frame /\ FrameOK(t, f) /\ f.handoff = NoInbox /\ started' \in 0 .. MaxEvents
    BY <1>1, NewFrameOK DEF ReserveStart
  <2>2. stack' = [stack EXCEPT ![t] = <<f>>] /\ stack[t] = <<>>
    BY <1>1 DEF ReserveStart
  <2>. HIDE DEF f
  <2>3. stack' = [stack EXCEPT ![t] = Append(stack[t], f)]
    BY <2>2
  <2>4. Quiet /\ inbox' = inbox /\ routed' = routed
    BY <1>1 DEF ReserveStart, Quiet, logs
  <2>. QED  BY <2>1, <2>2, <2>3, <2>4, QuietPush
<1>2. CASE Publish(t)
  <2>. DEFINE f == NewFrame("stamp", FALSE)
  <2>1. f \in Frame /\ FrameOK(t, f) /\ f.handoff = NoInbox /\ started' \in 0 .. MaxEvents
    BY <1>2, NewFrameOK DEF Publish
  <2>2. stack' = [stack EXCEPT ![t] = Append(stack[t], f)]
        /\ (stack[t] = <<>> \/ top(t).at = "observe")
    BY <1>2 DEF Publish, in_callback, running
  <2>. HIDE DEF f
  <2>3. Quiet /\ inbox' = inbox /\ routed' = routed
    BY <1>2 DEF Publish, Quiet, logs
  <2>. QED  BY <2>1, <2>2, <2>3, QuietPush
<1>3. CASE ReserveDelivery(t)
  <2>1. /\ stack[t] # <<>> /\ top(t).at = "reserve" /\ Quiet /\ inbox' = inbox
        /\ routed' = routed /\ started' = started
    BY <1>3 DEF ReserveDelivery, running, Quiet, logs
  <2>2. /\ top(t) \in Frame /\ GuardsOK(top(t)) /\ HandoffOK(top(t))
        /\ routed \in [Routes -> Seq(Nat)]
    BY <2>1, TopOK
  <2>3. CASE pop_top(t)
    BY <2>1, <2>3, QuietPop DEF Slotted
  <2>4. CASE set_top(t, [top(t) EXCEPT !.at = "handoff"])
    <3>. DEFINE f == [top(t) EXCEPT !.at = "handoff"]
    <3>1. f \in Frame /\ f.at = "handoff" /\ f.handoff = top(t).handoff /\ f.held = top(t).held
          /\ f.gates = top(t).gates
      BY <2>2 DEF Frame
    <3>. HIDE DEF f
    <3>2. FrameOK(t, f)
      BY <2>1, <2>2, <3>1 DEF FrameOK, GuardsOK, HandoffOK, SequenceOK, Locked, in_order
    <3>3. set_top(t, f)
      BY <2>4 DEF f
    <3>. QED  BY <2>1, <2>2, <3>1, <3>2, <3>3, QuietSet DEF Slotted
  <2>5. ASSUME NEW gs \in SUBSET Gates,
               set_top(t, [top(t) EXCEPT !.at = "handoff", !.delivery = TRUE, !.gates = gs])
        PROVE  IInv'
    <3>. DEFINE f == [top(t) EXCEPT !.at = "handoff", !.delivery = TRUE, !.gates = gs]
    <3>1. f \in Frame /\ f.at = "handoff" /\ f.handoff = top(t).handoff /\ f.held = top(t).held
          /\ f.gates = gs
      BY <2>2 DEF Frame
    <3>. HIDE DEF f
    <3>2. FrameOK(t, f)
      BY <2>1, <2>2, <3>1 DEF FrameOK, GuardsOK, HandoffOK, SequenceOK, Locked, in_order
    <3>3. set_top(t, f)
      BY <2>5 DEF f
    <3>. QED  BY <2>1, <2>2, <3>1, <3>2, <3>3, QuietSet DEF Slotted
  <2>. QED  BY <1>3, <2>3, <2>4, <2>5 DEF ReserveDelivery
<1>4. CASE ReserveHandoff(t)
  <2>1. /\ stack[t] # <<>> /\ top(t).at = "handoff" /\ Quiet /\ inbox' = inbox
        /\ routed' = routed /\ started' = started
    BY <1>4 DEF ReserveHandoff, running, Quiet, logs
  <2>2. /\ top(t) \in Frame /\ GuardsOK(top(t)) /\ HandoffOK(top(t))
        /\ routed \in [Routes -> Seq(Nat)]
        /\ inbox \in Seq(Inbox) /\ ordered \in 0 .. Len(inbox) /\ ordered \in 0 .. MaxInboxes
    BY <2>1, TopOK, ConstAssumption DEF TypeOK
  <2>. DEFINE l == IF ordered = NoInbox THEN "reserved" ELSE "slot"
              f == [top(t) EXCEPT !.at = l, !.handoff = ordered]
  <2>3. f \in Frame /\ f.at = l /\ f.handoff = ordered /\ f.held = top(t).held
        /\ f.gates = top(t).gates /\ l \in {"reserved", "slot"} /\ (l = "slot" <=> ordered # NoInbox)
    BY <2>2 DEF Frame
  <2>4. set_top(t, f)
    BY <1>4 DEF ReserveHandoff
  <2>. HIDE DEF f, l
  <2>5. FrameOK(t, f)
    BY <2>1, <2>2, <2>3 DEF FrameOK, GuardsOK, HandoffOK, SequenceOK, Locked, in_order
  <2>6. \A c \in DOMAIN inbox : ~(f.handoff = c /\ f.at \in Slotted) /\ top(t).at \notin Slotted
    BY <2>1, <2>2, <2>3 DEF Slotted, NoInbox
  <2>. QED  BY <2>1, <2>2, <2>3, <2>4, <2>5, <2>6, QuietSet
<1>5. CASE Cancel(t)
  <2>1. /\ stack[t] # <<>> /\ Quiet /\ routed' = routed /\ started' = started /\ pop_top(t)
        /\ \/ inbox' = inbox /\ top(t).at \notin Slotted
           \/ inbox' = release_permit(top(t).handoff) /\ top(t).at \in Slotted
    BY <1>5 DEF Cancel, Quiet, logs, cancelled_inbox, Slotted
  <2>. QED  BY <2>1, QuietPop
<1>. QED  BY <1>1, <1>2, <1>3, <1>4, <1>5

\* A slot of the inbox becomes a permit of the publication.
LEMMA SlotStep ==
  ASSUME IInv, NEW t \in Threads, ReserveSlot(t)
  PROVE  IInv'
<1>0. /\ stack[t] # <<>> /\ top(t).at = "slot" /\ Quiet /\ routed' = routed /\ started' = started
  BY DEF ReserveSlot, running, Quiet, logs
<1>1. /\ TypeOK /\ Suspended /\ PermitsExact /\ top(t) \in Frame /\ GuardsOK(top(t))
      /\ HandoffOK(top(t)) /\ routed \in [Routes -> Seq(Nat)] /\ started \in 0 .. MaxEvents
      /\ inbox \in Seq(Inbox) /\ Capacity \in Nat
  BY <1>0, TopOK, ConstAssumption
<1>2. PICK c : c = top(t).handoff
  OBVIOUS
<1>3. c \in DOMAIN inbox /\ inbox[c] \in Inbox
  BY <1>0, <1>1, <1>2 DEF HandoffOK, NoInbox
<1>4. CASE pop_top(t) /\ inbox' = inbox
  BY <1>0, <1>4, QuietPop DEF Slotted
<1>5. CASE /\ used(c) < Capacity
           /\ inbox' = [inbox EXCEPT ![c].permits = @ + 1]
           /\ set_top(t, [top(t) EXCEPT !.at = "reserved"])
  <2>. DEFINE f == [top(t) EXCEPT !.at = "reserved"]
              b == [inbox[c] EXCEPT !.permits = inbox[c].permits + 1]
  <2>1. f \in Frame /\ f.at = "reserved" /\ f.handoff = c /\ f.held = top(t).held
        /\ f.gates = top(t).gates
    BY <1>1, <1>2 DEF Frame
  <2>2. b \in Inbox /\ b.permits = inbox[c].permits + 1 /\ b.queue = inbox[c].queue
        /\ b.open = inbox[c].open /\ inbox[c].permits \in Nat /\ Len(inbox[c].queue) \in Nat
    BY <1>3 DEF Inbox
  <2>3. set_top(t, f) /\ inbox' = [inbox EXCEPT ![c] = b]
    BY <1>5
  <2>. HIDE DEF f, b
  <2>4. FrameOK(t, f)
    BY <1>0, <1>1, <1>2, <2>1 DEF FrameOK, GuardsOK, HandoffOK, SequenceOK, Locked, in_order
  <2>5. /\ Moves(t) /\ stack'[t] # <<>> /\ stack'[t][Len(stack'[t])] = f
        /\ Frames(t)' \subseteq Frames(t) \cup {f}
    BY <1>0, <1>1, <2>1, <2>3, SetTop DEF Moves
  <2>6. /\ inbox' \in Seq(Inbox) /\ Len(inbox') = Len(inbox) /\ DOMAIN inbox' = DOMAIN inbox
        /\ inbox'[c] = b /\ \A d \in DOMAIN inbox \ {c} : inbox'[d] = inbox[d]
    BY <1>1, <1>3, <2>2, <2>3, InboxEdit
  <2>7. QueuesStay
    BY <2>2, <2>6 DEF QueuesStay
  <2>8. \A d : ~Holding(t, d) /\ (Holding(t, d)' <=> d = c)
    BY <1>0, <1>1, <2>1, <2>5, HoldingTop, HoldingTopNext DEF Slotted, Moves
  <2>9. ASSUME NEW d \in DOMAIN inbox
        PROVE  inbox'[d].permits = Cardinality(holders(d)') /\ used(d)' <= Capacity
    <3>1. inbox[d].permits = Cardinality(holders(d)) /\ used(d) <= Capacity
          /\ Cardinality(holders(d)) \in Nat
          /\ Cardinality(holders(d)') = Cardinality(holders(d)) + (IF d = c THEN 1 ELSE 0)
      BY <1>1, <2>5, <2>8, HoldersMove DEF PermitsExact, Moves
    <3>2. CASE d = c
      <4>1. used(d)' = Len(inbox[c].queue) + (inbox[c].permits + 1)
        BY <2>2, <2>6, <3>2 DEF used
      <4>2. Len(inbox[c].queue) + inbox[c].permits < Capacity
        BY <1>5 DEF used
      <4>3. used(d)' <= Capacity
        BY <1>1, <2>2, <4>1, <4>2
      <4>. QED  BY <2>2, <2>6, <3>1, <3>2, <4>3
    <3>3. CASE d # c
      BY <2>6, <3>1, <3>3 DEF used
    <3>. QED  BY <3>2, <3>3
  <2>10. PermitsExact'
    BY <2>6, <2>9 DEF PermitsExact
  <2>11. \A e \in Frames(t)' : e \in Frames(t) \/ FrameOK(t, e)
    BY <2>4, <2>5
  <2>. QED  BY <1>0, <1>1, <2>5, <2>7, <2>10, <2>11, QuietStep
<1>. QED  BY <1>2, <1>4, <1>5 DEF ReserveSlot

\* The commit of a reserved publication, up to the last gate.
LEMMA GuardStep ==
  ASSUME IInv, NEW t \in Threads, Commit(t) \/ CommitGuard(t) \/ Guarded(t)
  PROVE  IInv'
<1>0. /\ stack[t] # <<>> /\ top(t).at \in {"reserved", "guards"} /\ Quiet /\ routed' = routed
      /\ started' = started
  BY DEF Commit, CommitGuard, Guarded, running, Quiet, logs
<1>1. /\ top(t) \in Frame /\ GuardsOK(top(t)) /\ HandoffOK(top(t)) /\ SequenceOK(t, top(t))
      /\ routed \in [Routes -> Seq(Nat)]
      /\ in_order(top(t)) => holds_order(t)
  BY <1>0, TopOK
<1>2. CASE pop_top(t) /\ inbox' = release_permit(top(t).handoff)
  BY <1>0, <1>2, QuietPop DEF Slotted
<1>3. CASE Commit(t) /\ set_top(t, [top(t) EXCEPT !.at = "guards"]) /\ inbox' = inbox
  <2>. DEFINE f == [top(t) EXCEPT !.at = "guards"]
  <2>1. f \in Frame /\ f.at = "guards" /\ f.handoff = top(t).handoff /\ f.held = top(t).held
        /\ f.gates = top(t).gates
    BY <1>1 DEF Frame
  <2>2. set_top(t, f) /\ order_free(t) /\ top(t).at = "reserved"
    BY <1>3 DEF Commit, running
  <2>. HIDE DEF f
  <2>3. FrameOK(t, f)
    BY <1>0, <1>1, <2>1, <2>2 DEF FrameOK, GuardsOK, HandoffOK, SequenceOK, Locked, in_order
  <2>. QED  BY <1>0, <1>1, <1>3, <2>1, <2>2, <2>3, QuietSet DEF Slotted
<1>4. ASSUME NEW g \in top(t).gates, top(t).at = "guards", gate[g] = "published",
             set_top(t, [top(t) EXCEPT !.held = @ \cup {g}]), inbox' = inbox
      PROVE  IInv'
  <2>. DEFINE f == [top(t) EXCEPT !.held = @ \cup {g}]
  <2>1. f \in Frame /\ f.at = top(t).at /\ f.handoff = top(t).handoff
        /\ f.held = top(t).held \cup {g} /\ f.gates = top(t).gates
    BY <1>1, <1>4 DEF Frame
  <2>2. set_top(t, f)
    BY <1>4
  <2>. HIDE DEF f
  <2>3. FrameOK(t, f)
    BY <1>0, <1>1, <1>4, <2>1, <2>2 DEF FrameOK, GuardsOK, HandoffOK, SequenceOK, Locked, in_order
  <2>. QED  BY <1>0, <1>1, <1>4, <2>1, <2>2, <2>3, QuietSet DEF Slotted
<1>5. CASE Guarded(t)
  <2>. DEFINE f == [top(t) EXCEPT !.at = "stamp"]
  <2>1. f \in Frame /\ f.at = "stamp" /\ f.handoff = top(t).handoff /\ f.held = top(t).held
        /\ f.gates = top(t).gates
    BY <1>1 DEF Frame
  <2>2. set_top(t, f) /\ top(t).gates = top(t).held /\ inbox' = inbox /\ top(t).at = "guards"
    BY <1>5 DEF Guarded, running
  <2>. HIDE DEF f
  <2>3. FrameOK(t, f)
    BY <1>0, <1>1, <2>1, <2>2 DEF FrameOK, GuardsOK, HandoffOK, SequenceOK, Locked, in_order
  <2>. QED  BY <1>0, <1>1, <2>1, <2>2, <2>3, QuietSet DEF Slotted
<1>6. CASE Commit(t)
  BY <1>2, <1>3, <1>6 DEF Commit
<1>7. CASE CommitGuard(t)
  BY <1>2, <1>4, <1>7 DEF CommitGuard, running
<1>. QED  BY <1>5, <1>6, <1>7

\* After the observers: publish_order is released and the routes are filled.
LEMMA RouteStep ==
  ASSUME IInv, NEW t \in Threads, Unlock(t) \/ EnqueueRoute(t)
  PROVE  IInv'
<1>0. /\ stack[t] # <<>> /\ top(t).at \in {"observe", "route"} /\ Quiet /\ inbox' = inbox
      /\ started' = started
  BY DEF Unlock, EnqueueRoute, running, Quiet, logs
<1>1. /\ top(t) \in Frame /\ GuardsOK(top(t)) /\ HandoffOK(top(t)) /\ SequenceOK(t, top(t))
      /\ routed \in [Routes -> Seq(Nat)] /\ (in_order(top(t)) => holds_order(t))
  BY <1>0, TopOK
<1>2. ASSUME NEW td \in SUBSET Routes, routed' \in [Routes -> Seq(Nat)],
             set_top(t, [top(t) EXCEPT !.at = "route", !.todo = td])
      PROVE  IInv'
  <2>. DEFINE f == [top(t) EXCEPT !.at = "route", !.todo = td]
  <2>1. f \in Frame /\ f.at = "route" /\ f.handoff = top(t).handoff /\ f.held = top(t).held
        /\ f.gates = top(t).gates /\ f.reserved = top(t).reserved
    BY <1>1 DEF Frame
  <2>2. set_top(t, f)
    BY <1>2
  <2>. HIDE DEF f
  <2>3. FrameOK(t, f)
    BY <1>0, <1>1, <2>1 DEF FrameOK, GuardsOK, HandoffOK, SequenceOK, Locked, in_order
  <2>. QED  BY <1>0, <1>2, <2>1, <2>2, <2>3, QuietSet DEF Slotted
<1>3. CASE Unlock(t)
  BY <1>1, <1>2, <1>3 DEF Unlock, logs
<1>4. CASE EnqueueRoute(t)
  <2>1. CASE pop_top(t) /\ routed' = routed
    BY <1>0, <2>1, QuietPop DEF Slotted
  <2>2. ASSUME NEW r \in top(t).todo, routed' = [routed EXCEPT ![r] = Append(@, top(t).seq)],
               set_top(t, [top(t) EXCEPT !.todo = @ \ {r}])
        PROVE  IInv'
    <3>1. top(t).todo \in SUBSET Routes /\ top(t).seq \in Nat /\ top(t).at = "route"
      BY <1>1, <1>4 DEF Frame, EnqueueRoute, running
    <3>2. routed' \in [Routes -> Seq(Nat)]
      BY <1>1, <2>2, <3>1
    <3>3. [top(t) EXCEPT !.todo = @ \ {r}]
            = [top(t) EXCEPT !.at = "route", !.todo = top(t).todo \ {r}]
      BY <1>1, <3>1 DEF Frame
    <3>. QED  BY <1>2, <2>2, <3>1, <3>2, <3>3
  <2>. QED  BY <1>4, <2>1, <2>2 DEF EnqueueRoute
<1>. QED  BY <1>3, <1>4

\* An edit of one inbox that keeps its permits exact.
LEMMA EditPermits ==
  ASSUME TypeOK, PermitsExact, NEW c \in DOMAIN inbox, NEW b \in Inbox,
         inbox' = [inbox EXCEPT ![c] = b],
         b.permits = Cardinality(holders(c)'), Len(b.queue) + b.permits <= Capacity,
         \A d \in DOMAIN inbox \ {c} : Cardinality(holders(d)') = Cardinality(holders(d))
  PROVE  PermitsExact'
<1>1. /\ inbox' \in Seq(Inbox) /\ DOMAIN inbox' = DOMAIN inbox
      /\ inbox'[c] = b /\ \A d \in DOMAIN inbox \ {c} : inbox'[d] = inbox[d]
  BY InboxEdit
<1>2. ASSUME NEW d \in DOMAIN inbox
      PROVE  inbox'[d].permits = Cardinality(holders(d)') /\ used(d)' <= Capacity
  <2>1. CASE d = c
    BY <1>1, <2>1 DEF used
  <2>2. CASE d # c
    <3>1. inbox'[d] = inbox[d]
      BY <1>1, <2>2
    <3>2. inbox[d].permits = Cardinality(holders(d)) /\ used(d) <= Capacity
      BY DEF PermitsExact
    <3>. QED  BY <2>2, <3>1, <3>2 DEF used
  <2>. QED  BY <2>1, <2>2
<1>. QED  BY <1>1, <1>2 DEF PermitsExact

\* The hand-over of a publication: its permit becomes a queued delivery, an ordinary
\* one takes a free slot or is counted as lagged.
LEMMA HandOver ==
  ASSUME IInv, NEW t \in Threads, Stamp(t), NEW item,
         item = [id |-> top(t).id, seq |-> ipc_seq, reserved |-> top(t).delivery]
  PROVE  /\ inbox' \in Seq(Inbox) /\ Len(inbox') = Len(inbox) /\ DOMAIN inbox' = DOMAIN inbox
         /\ \A c \in DOMAIN inbox : \/ inbox'[c].queue = inbox[c].queue
                                    \/ inbox'[c].queue = Append(inbox[c].queue, item)
         /\ PermitsExact'
<1>0. stack[t] # <<>> /\ top(t).at = "stamp"
  BY DEF Stamp, running
<1>1. /\ TypeOK /\ Suspended /\ PermitsExact /\ top(t) \in Frame /\ HandoffOK(top(t))
      /\ inbox \in Seq(Inbox) /\ Capacity \in Nat /\ ipc_seq \in Nat /\ ordered \in 0 .. Len(inbox)
      /\ DOMAIN inbox = 1 .. Len(inbox)
  <2>1. /\ TypeOK /\ Suspended /\ PermitsExact /\ top(t) \in Frame /\ HandoffOK(top(t))
    BY <1>0, TopOK
  <2>2. inbox \in Seq(Inbox) /\ ipc_seq \in Nat /\ ordered \in 0 .. Len(inbox)
    BY <2>1 DEF TypeOK
  <2>. QED  BY <2>1, <2>2, ConstAssumption
<1>2. PICK h : h = top(t).handoff
  OBVIOUS
<1>3. PICK o : o = ordered
  OBVIOUS
<1>. DEFINE f == [top(t) EXCEPT !.at = "broadcast", !.seq = ipc_seq, !.held = {}]
<1>4. f \in Frame /\ f.at = "broadcast" /\ set_top(t, f)
  BY <1>1 DEF Stamp, guards_dropped, Frame
<1>. HIDE DEF f
<1>5. /\ Moves(t) /\ stack'[t] # <<>> /\ stack'[t][Len(stack'[t])] = f
  BY <1>0, <1>1, <1>4, SetTop DEF Moves
<1>6. \A d : ~Holding(t, d)' /\ (Holding(t, d) <=> d = h)
  BY <1>0, <1>1, <1>2, <1>4, <1>5, HoldingTop, HoldingTopNext DEF Slotted, Moves
<1>7. \A d : /\ Cardinality(holders(d)) \in Nat
             /\ Cardinality(holders(d)') = Cardinality(holders(d)) - (IF d = h THEN 1 ELSE 0)
             /\ d = h => Cardinality(holders(d)) > 0
  <2>. TAKE d
  <2>1. ~Holding(t, d)' /\ (Holding(t, d) <=> d = h)
    BY <1>6
  <2>. QED  BY <1>5, <2>1, HoldersMove DEF Moves
<1>8. item \in Item
  BY <1>1 DEF Item, Frame
<1>9. \A d \in DOMAIN inbox : /\ inbox[d] \in Inbox /\ inbox[d].queue \in Seq(Item)
                              /\ inbox[d].permits \in Nat /\ Len(inbox[d].queue) \in Nat
                              /\ inbox[d].permits = Cardinality(holders(d))
                              /\ Len(inbox[d].queue) + inbox[d].permits <= Capacity
                              /\ Append(inbox[d].queue, item) \in Seq(Item)
                              /\ Len(Append(inbox[d].queue, item)) = Len(inbox[d].queue) + 1
  <2>. TAKE d \in DOMAIN inbox
  <2>1. inbox[d] \in Inbox
    BY <1>1
  <2>2. inbox[d].queue \in Seq(Item) /\ inbox[d].permits \in Nat
    BY <2>1 DEF Inbox, Item
  <2>3. inbox[d].permits = Cardinality(holders(d))
        /\ Len(inbox[d].queue) + inbox[d].permits <= Capacity
    BY <1>1 DEF PermitsExact, used
  <2>. QED  BY <1>8, <2>1, <2>2, <2>3
<1>10. ASSUME NEW c \in DOMAIN inbox, NEW b \in Inbox, inbox' = [inbox EXCEPT ![c] = b],
              b.queue = inbox[c].queue \/ b.queue = Append(inbox[c].queue, item),
              b.permits = Cardinality(holders(c)'), Len(b.queue) + b.permits <= Capacity,
              h \in {0, c}
       PROVE  /\ inbox' \in Seq(Inbox) /\ Len(inbox') = Len(inbox) /\ DOMAIN inbox' = DOMAIN inbox
              /\ \A d \in DOMAIN inbox : \/ inbox'[d].queue = inbox[d].queue
                                         \/ inbox'[d].queue = Append(inbox[d].queue, item)
              /\ PermitsExact'
  <2>1. \A d \in DOMAIN inbox \ {c} : Cardinality(holders(d)') = Cardinality(holders(d))
    BY <1>1, <1>7, <1>10
  <2>2. PermitsExact'
    BY <1>1, <1>10, <2>1, EditPermits
  <2>3. /\ inbox' \in Seq(Inbox) /\ Len(inbox') = Len(inbox) /\ DOMAIN inbox' = DOMAIN inbox
        /\ inbox'[c] = b /\ \A d \in DOMAIN inbox \ {c} : inbox'[d] = inbox[d]
    BY <1>1, <1>10, InboxEdit
  <2>. QED  BY <1>10, <2>2, <2>3
<1>11. CASE h # NoInbox
  <2>1. h \in DOMAIN inbox
    BY <1>1, <1>2, <1>11 DEF HandoffOK, NoInbox
  <2>. DEFINE b == [inbox[h] EXCEPT !.queue = Append(inbox[h].queue, item),
                                    !.permits = inbox[h].permits - 1]
  <2>2. inbox' = [inbox EXCEPT ![h] = b]
    BY <1>2, <1>11 DEF Stamp
  <2>3. inbox[h].permits - 1 \in Nat
    BY <1>7, <1>9, <2>1
  <2>4. b \in Inbox /\ b.queue = Append(inbox[h].queue, item) /\ b.permits = inbox[h].permits - 1
    BY <1>9, <2>1, <2>3 DEF Inbox, Item
  <2>. HIDE DEF b
  <2>5. b.permits = Cardinality(holders(h)') /\ Len(b.queue) + b.permits <= Capacity
    BY <1>1, <1>7, <1>9, <2>1, <2>4
  <2>. QED  BY <1>10, <2>1, <2>2, <2>4, <2>5
<1>12. CASE h = NoInbox /\ o # NoInbox
  <2>1. o \in DOMAIN inbox
    BY <1>1, <1>3, <1>12 DEF NoInbox
  <2>2. Cardinality(holders(o)') = Cardinality(holders(o))
    BY <1>1, <1>7, <1>12, <2>1 DEF NoInbox
  <2>3. CASE used(o) < Capacity /\ inbox[o].open
    <3>. DEFINE b == [inbox[o] EXCEPT !.queue = Append(inbox[o].queue, item)]
    <3>1. inbox' = [inbox EXCEPT ![o] = b]
      BY <1>2, <1>3, <1>12, <2>3 DEF Stamp
    <3>2. b \in Inbox /\ b.queue = Append(inbox[o].queue, item) /\ b.permits = inbox[o].permits
      BY <1>9, <2>1 DEF Inbox, Item
    <3>. HIDE DEF b
    <3>3. Len(inbox[o].queue) + inbox[o].permits < Capacity
      BY <2>3 DEF used
    <3>4. b.permits = Cardinality(holders(o)') /\ Len(b.queue) + b.permits <= Capacity
      BY <1>1, <1>9, <2>1, <2>2, <3>2, <3>3
    <3>. QED  BY <1>10, <1>12, <2>1, <3>1, <3>2, <3>4 DEF NoInbox
  <2>4. CASE ~(used(o) < Capacity /\ inbox[o].open)
    <3>. DEFINE b == [inbox[o] EXCEPT !.lagged = inbox[o].lagged + 1]
    <3>1. inbox' = [inbox EXCEPT ![o] = b]
      <4>. DEFINE room == ordered # NoInbox /\ inbox[ordered].open /\ used(ordered) < Capacity
      <4>1. top(t).handoff = NoInbox /\ ~room /\ ordered # NoInbox
        BY <1>2, <1>3, <1>12, <2>4
      <4>2. inbox' = [inbox EXCEPT ![ordered].lagged = @ + 1]
        BY <4>1 DEF Stamp
      <4>. QED  BY <1>3, <4>2
    <3>2. b \in Inbox /\ b.queue = inbox[o].queue /\ b.permits = inbox[o].permits
      <4>1. inbox[o] \in Inbox
        BY <1>9, <2>1
      <4>2. inbox[o].lagged + 1 \in Nat
        BY <4>1 DEF Inbox
      <4>. QED  BY <4>1, <4>2 DEF Inbox
    <3>. HIDE DEF b
    <3>3. b.permits = Cardinality(holders(o)') /\ Len(b.queue) + b.permits <= Capacity
      BY <1>9, <2>1, <2>2, <3>2
    <3>. QED  BY <1>10, <1>12, <2>1, <3>1, <3>2, <3>3 DEF NoInbox
  <2>. QED  BY <2>3, <2>4
<1>13. CASE h = NoInbox /\ o = NoInbox
  <2>1. inbox' = inbox
    BY <1>2, <1>3, <1>13 DEF Stamp
  <2>2. \A c \in DOMAIN inbox : Holding(t, c)' <=> Holding(t, c)
    BY <1>1, <1>6, <1>13 DEF NoInbox
  <2>3. PermitsExact'
    BY <1>1, <1>5, <2>1, <2>2, PermitsKept DEF Moves
  <2>. QED  BY <1>1, <2>1, <2>3
<1>. QED  BY <1>11, <1>12, <1>13

\* Appending something newer keeps a log increasing.
LEMMA IncreasingAppend ==
  ASSUME NEW s \in Seq(Nat), increasing(s), NEW n \in Nat, \A i \in DOMAIN s : s[i] < n
  PROVE  increasing(Append(s, n))
<1>1. Len(s) \in Nat /\ DOMAIN s = 1 .. Len(s) /\ DOMAIN Append(s, n) = 1 .. Len(s) + 1
      /\ \A i \in 1 .. Len(s) : Append(s, n)[i] = s[i] /\ s[i] \in Nat
      /\ Append(s, n)[Len(s) + 1] = n
  OBVIOUS
<1>. QED  BY <1>1 DEF increasing

\* What an observer saw: a sequence number and the thread that published it.
Sight == [seq : Nat, by : Threads]

\* The logs of the observers hold sights.
LEMMA SightsTyped ==
  TypeOK => \A o \in 1 .. Observers :
              /\ observed[o] \in Seq(Sight)
              /\ \A i \in DOMAIN observed[o] :
                   observed[o][i].seq \in Nat /\ observed[o][i].by \in Threads
<1>. SUFFICES ASSUME TypeOK, NEW o \in 1 .. Observers
              PROVE  /\ observed[o] \in Seq(Sight)
                     /\ \A i \in DOMAIN observed[o] :
                          observed[o][i].seq \in Nat /\ observed[o][i].by \in Threads
  OBVIOUS
<1>1. observed[o] \in Seq(Sight)
  BY DEF TypeOK, Sight
<1>2. \A i \in DOMAIN observed[o] : observed[o][i] \in Sight
  BY <1>1
<1>. QED  BY <1>1, <1>2 DEF Sight

\* The stamp is newer than everything in the transports.
LEMMA StampStep ==
  ASSUME IInv, NEW t \in Threads, Stamp(t)
  PROVE  IInv'
<1>0. stack[t] # <<>> /\ top(t).at = "stamp"
  BY DEF Stamp, running
<1>1. /\ TypeOK /\ Suspended /\ OneOrder /\ top(t) \in Frame /\ GuardsOK(top(t))
      /\ HandoffOK(top(t)) /\ (in_order(top(t)) => holds_order(t))
  BY <1>0, TopOK
<1>2. /\ ipc_seq \in Nat /\ ipc_seq' = ipc_seq + 1 /\ inbox \in Seq(Inbox)
      /\ gate' = gate /\ started' = started /\ admitter' = admitter /\ ordered' = ordered
      /\ draining' = draining /\ broadcast' = broadcast /\ observed' = observed /\ routed' = routed
      /\ broadcast \in Seq(Nat) /\ unreserved \in Seq(Nat)
      /\ observed \in [1 .. Observers -> Seq([seq : Nat, by : Threads])]
  BY <1>1 DEF Stamp, TypeOK
<1>3. PICK item : item = [id |-> top(t).id, seq |-> ipc_seq, reserved |-> top(t).delivery]
  OBVIOUS
<1>4. item \in Item /\ item.seq = ipc_seq /\ top(t).id \in Nat /\ top(t).delivery \in BOOLEAN
  BY <1>1, <1>2, <1>3 DEF Item, Frame
<1>5. /\ inbox' \in Seq(Inbox) /\ Len(inbox') = Len(inbox) /\ DOMAIN inbox' = DOMAIN inbox
      /\ \A c \in DOMAIN inbox : \/ inbox'[c].queue = inbox[c].queue
                                 \/ inbox'[c].queue = Append(inbox[c].queue, item)
      /\ PermitsExact'
  BY <1>3, HandOver
<1>6. unreserved' = unreserved \/ unreserved' = Append(unreserved, ipc_seq)
  BY DEF Stamp
<1>7. committed' \in Seq(Nat) /\ delivered' \in Seq(Nat)
  <2>1. /\ committed' = committed \/ committed' = Append(committed, top(t).id)
        /\ delivered' = delivered \/ delivered' = Append(delivered, top(t).id)
    BY DEF Stamp
  <2>2. committed \in Seq(Nat) /\ delivered \in Seq(Nat)
    BY <1>1 DEF TypeOK
  <2>3. Append(committed, top(t).id) \in Seq(Nat) /\ Append(delivered, top(t).id) \in Seq(Nat)
    BY <1>4, <2>2, AppendProperties
  <2>. QED  BY <2>1, <2>2, <2>3
<1>8. unreserved' \in Seq(Nat)
  <2>1. Append(unreserved, ipc_seq) \in Seq(Nat)
    BY <1>2, AppendProperties
  <2>. QED  BY <1>2, <1>6, <2>1
<1>f. PICK f : f = [top(t) EXCEPT !.at = "broadcast", !.seq = ipc_seq, !.held = {}]
  OBVIOUS
<1>9. f \in Frame /\ f.at = "broadcast" /\ f.seq = ipc_seq /\ f.held = {} /\ f.gates = top(t).gates
      /\ f.handoff = top(t).handoff /\ set_top(t, f)
  <2>1. set_top(t, f)
    BY <1>f DEF Stamp, guards_dropped
  <2>. QED  BY <1>1, <1>2, <1>f, <2>1 DEF Frame
<1>10. Moves(t) /\ Frames(t)' \subseteq Frames(t) \cup {f}
  BY <1>0, <1>1, <1>9, SetTop DEF Moves
<1>11. TypeOK'
  <2>1. ipc_seq' \in Nat
    BY <1>2
  <2>. QED  BY <1>1, <1>2, <1>5, <1>7, <1>8, <1>10, <2>1 DEF TypeOK, Moves
<1>12. OneOrder'
  <2>1. holds_order(t)
    BY <1>0, <1>1 DEF Locked, in_order
  <2>. QED  BY <1>1, <1>2, <1>10, <2>1, OrderStep DEF Moves
<1>13. LogsBelow
  BY DEF IInv
<1>18. \A o \in 1 .. Observers : \A i \in DOMAIN observed[o] :
         observed[o][i].seq < ipc_seq /\ observed[o][i].seq \in Nat
  BY <1>1, <1>13, SightsTyped DEF LogsBelow
<1>14. FramesOK'
  <2>1. GuardsOK(f)'
    <3>1. f.at = "broadcast" /\ f.held = {}
      BY <1>9
    <3>. QED  BY <3>1 DEF GuardsOK
  <2>2. HandoffOK(f)'
    BY <1>1, <1>5, <1>9 DEF HandoffOK, NoInbox
  <2>3. SequenceOK(t, f)'
    <3>1. \A i \in DOMAIN broadcast' : broadcast'[i] < ipc_seq
      BY <1>2, <1>13 DEF LogsBelow
    <3>2. \A o \in 1 .. Observers : \A i \in DOMAIN observed'[o] :
            observed'[o][i].seq < ipc_seq /\ observed'[o][i].seq \in Nat
      BY <1>2, <1>18
    <3>. QED  BY <1>2, <1>9, <3>1, <3>2 DEF SequenceOK
  <2>4. ASSUME NEW u \in Threads, NEW e \in Frames(u)
        PROVE  GuardsOK(e)' /\ HandoffOK(e)' /\ SequenceOK(u, e)'
    <3>0. GuardsOK(e) /\ HandoffOK(e) /\ SequenceOK(u, e) /\ e.seq \in Nat
      <4>1. stack[u] \in Seq(Frame)
        BY <1>1 DEF TypeOK
      <4>2. e \in Frame
        BY <4>1 DEF Frames
      <4>. QED  BY <4>2 DEF IInv, FramesOK, Frame
    <3>1. GuardsOK(e)'
      BY <1>2, <3>0 DEF GuardsOK
    <3>2. HandoffOK(e)'
      BY <1>5, <3>0 DEF HandoffOK, NoInbox
    <3>3. SequenceOK(u, e)'
      BY <1>2, <3>0 DEF SequenceOK
    <3>. QED  BY <3>1, <3>2, <3>3
  <2>5. \A u \in Threads \ {t} : Frames(u)' = Frames(u)
    BY <1>10 DEF Moves, Frames
  <2>6. \A u \in Threads : \A e \in Frames(u)' : GuardsOK(e)' /\ HandoffOK(e)' /\ SequenceOK(u, e)'
    BY <1>10, <2>1, <2>2, <2>3, <2>4, <2>5
  <2>. QED  BY <2>6 DEF FramesOK
<1>15. \A c \in DOMAIN inbox : /\ inbox[c].queue \in Seq(Item)
                               /\ \A i \in DOMAIN inbox[c].queue :
                                    /\ inbox[c].queue[i].seq < ipc_seq
                                    /\ inbox[c].queue[i].seq \in Nat
  <2>. TAKE c \in DOMAIN inbox
  <2>1. inbox[c] \in Inbox
    BY <1>2
  <2>2. inbox[c].queue \in Seq(Item)
    BY <2>1 DEF Inbox, Item
  <2>3. \A i \in DOMAIN inbox[c].queue : inbox[c].queue[i] \in Item
    BY <2>2
  <2>. QED  BY <1>13, <2>2, <2>3 DEF Item, LogsBelow
<1>16. LogsBelow'
  <2>1. ASSUME NEW c \in DOMAIN inbox, NEW i \in DOMAIN inbox'[c].queue
        PROVE  inbox'[c].queue[i].seq < ipc_seq'
    <3>1. CASE inbox'[c].queue = inbox[c].queue
      <4>1. inbox[c].queue[i].seq < ipc_seq /\ inbox[c].queue[i].seq \in Nat
        BY <1>15, <3>1
      <4>. QED  BY <1>2, <3>1, <4>1
    <3>2. CASE inbox'[c].queue = Append(inbox[c].queue, item)
      <4>1. CASE i \in DOMAIN inbox[c].queue
        <5>1. inbox[c].queue[i].seq < ipc_seq /\ inbox[c].queue[i].seq \in Nat
              /\ inbox'[c].queue[i] = inbox[c].queue[i]
          BY <1>15, <3>2, <4>1
        <5>. QED  BY <1>2, <5>1
      <4>2. CASE i \notin DOMAIN inbox[c].queue
        <5>1. inbox'[c].queue[i] = item
          BY <1>15, <3>2, <4>2
        <5>. QED  BY <1>2, <1>4, <5>1
      <4>. QED  BY <4>1, <4>2
    <3>. QED  BY <1>5, <3>1, <3>2
  <2>2. \A i \in DOMAIN broadcast' : broadcast'[i] < ipc_seq'
    BY <1>2, <1>13 DEF LogsBelow
  <2>3. \A i \in DOMAIN unreserved' : unreserved'[i] < ipc_seq'
    <3>1. \A i \in DOMAIN unreserved : unreserved[i] < ipc_seq /\ unreserved[i] \in Nat
      BY <1>2, <1>13 DEF LogsBelow
    <3>2. CASE unreserved' = unreserved
      BY <1>2, <3>1, <3>2
    <3>3. CASE unreserved' = Append(unreserved, ipc_seq)
      BY <1>2, <3>1, <3>3
    <3>. QED  BY <1>6, <3>2, <3>3
  <2>4. \A o \in 1 .. Observers : \A i \in DOMAIN observed'[o] : observed'[o][i].seq < ipc_seq'
    BY <1>2, <1>18
  <2>. QED  BY <1>5, <2>1, <2>2, <2>3, <2>4 DEF LogsBelow
<1>17. TransportOrder'
  <2>0. TransportOrder
    BY DEF IInv
  <2>1. ASSUME NEW c \in DOMAIN inbox
        PROVE  increasing([i \in DOMAIN inbox'[c].queue |-> inbox'[c].queue[i].seq])
    <3>0. increasing([i \in DOMAIN inbox[c].queue |-> inbox[c].queue[i].seq])
      BY <2>0 DEF TransportOrder
    <3>1. CASE inbox'[c].queue = inbox[c].queue
      BY <3>0, <3>1
    <3>2. CASE inbox'[c].queue = Append(inbox[c].queue, item)
      <4>. DEFINE q == inbox[c].queue
                  s == [i \in DOMAIN q |-> q[i].seq]
      <4>1. q \in Seq(Item) /\ \A i \in DOMAIN q : q[i].seq < ipc_seq /\ q[i].seq \in Nat
        BY <1>15
      <4>. HIDE DEF q
      <4>2. s \in Seq(Nat) /\ \A i \in DOMAIN s : s[i] < ipc_seq
        BY <4>1
      <4>3. increasing(Append(s, ipc_seq))
        BY <1>2, <3>0, <4>2, IncreasingAppend DEF q
      <4>4. Append(s, ipc_seq) = [i \in DOMAIN Append(q, item) |-> Append(q, item)[i].seq]
        BY <1>4, <4>1, <4>2
      <4>. QED  BY <3>2, <4>3, <4>4 DEF q
    <3>. QED  BY <1>5, <3>1, <3>2
  <2>2. increasing(unreserved')
    <3>1. increasing(unreserved) /\ \A i \in DOMAIN unreserved : unreserved[i] < ipc_seq
      BY <1>13, <2>0 DEF TransportOrder, LogsBelow
    <3>2. increasing(Append(unreserved, ipc_seq))
      BY <1>2, <3>1, IncreasingAppend
    <3>. QED  BY <1>6, <3>1, <3>2
  <2>. QED  BY <1>2, <1>5, <2>0, <2>1, <2>2 DEF TransportOrder, increasing
<1>. QED  BY <1>5, <1>10, <1>11, <1>12, <1>14, <1>16, <1>17 DEF IInv, Moves

\* After a step, a publication of t is the running one or waits for an observer.
LEMMA TopOrObserve ==
  ASSUME NEW t \in Threads, Moves(t)
  PROVE  \A e \in Frames(t)' : e = stack'[t][Len(stack'[t])] \/ e.at = "observe"
<1>1. stack'[t] \in Seq(Frame) /\ \A i \in 1 .. Len(stack'[t]) - 1 : stack'[t][i].at = "observe"
  BY DEF Moves, Suspended
<1>2. DOMAIN stack'[t] = 1 .. Len(stack'[t]) /\ Len(stack'[t]) \in Nat
  BY <1>1
<1>3. \A i \in DOMAIN stack'[t] : i = Len(stack'[t]) \/ i \in 1 .. Len(stack'[t]) - 1
  BY <1>2
<1>. QED  BY <1>1, <1>3 DEF Frames

\* While t is past publish_order, no other thread is.
LEMMA OthersOutside ==
  ASSUME OneOrder, NEW t \in Threads, holds_order(t), NEW u \in Threads \ {t}, NEW e \in Frames(u)
  PROVE  ~in_order(e)
<1>. QED  BY DEF OneOrder, holds_order, Frames

\* A step under publish_order that leaves locked gates, inboxes and sequence numbers
\* alone.
LEMMA OrderedStep ==
  ASSUME IInv, NEW t \in Threads, stack[t] # <<>>, top(t).at \in {"broadcast", "observe"},
         NEW f \in Frame, set_top(t, f), f.at = "observe",
         f.held = top(t).held, f.gates = top(t).gates, f.handoff = top(t).handoff,
         f.seq = top(t).seq,
         gate' \in [Gates -> {"published", "retired"}],
         \A u \in Threads : \A e \in Frames(u) : \A g \in e.held : gate'[g] = gate[g],
         ipc_seq' = ipc_seq, admitter' = admitter, ordered' = ordered,
         draining' = draining, unreserved' = unreserved, committed' = committed,
         delivered' = delivered, inbox' = inbox, started' = started, routed' = routed,
         broadcast' \in Seq(Nat), observed' \in [1 .. Observers -> Seq(Sight)],
         \A o \in 1 .. Observers : \A i \in DOMAIN observed'[o] :
           /\ observed'[o][i].seq < ipc_seq
           /\ (i \in DOMAIN observed[o] /\ observed'[o][i] = observed[o][i]) \/ observed'[o][i].by = t,
         \A i \in DOMAIN broadcast' : broadcast'[i] < ipc_seq,
         increasing(broadcast'),
         \A o \in 1 .. Observers : \A i, j \in DOMAIN observed'[o] :
           i < j /\ observed'[o][i].seq > observed'[o][j].seq
             => observed'[o][i].by = observed'[o][j].by
  PROVE  IInv'
<1>1. /\ TypeOK /\ Suspended /\ OneOrder /\ PermitsExact /\ top(t) \in Frame
      /\ GuardsOK(top(t)) /\ HandoffOK(top(t)) /\ SequenceOK(t, top(t)) /\ holds_order(t)
      /\ top(t) \in Frames(t)
  BY TopOK DEF Locked, in_order
<1>2. /\ Moves(t) /\ stack'[t] # <<>> /\ stack'[t][Len(stack'[t])] = f
      /\ Frames(t)' \subseteq Frames(t) \cup {f}
  BY <1>1, SetTop DEF Moves
<1>3. TypeOK'
  BY <1>1, <1>2 DEF TypeOK, Moves, Sight
<1>4. OneOrder'
  BY <1>1, <1>2, OrderStep DEF Moves
<1>5. PermitsExact'
  <2>1. \A c \in DOMAIN inbox : Holding(t, c)' <=> Holding(t, c)
    BY <1>1, <1>2, HoldingTop, HoldingTopNext DEF Moves, Slotted
  <2>. QED  BY <1>1, <1>2, <2>1, PermitsKept DEF Moves
<1>6. FramesOK'
  <2>1. ASSUME NEW u \in Threads, NEW e \in Frames(u)'
        PROVE  GuardsOK(e)' /\ HandoffOK(e)' /\ SequenceOK(u, e)'
    <3>1. CASE u = t
      <4>1. e.at = "observe"
        BY <1>2, <3>1, TopOrObserve
      <4>2. GuardsOK(e) /\ HandoffOK(e) /\ SequenceOK(t, e)
        <5>1. CASE e = f
          <6>1. GuardsOK(f)
            BY <1>1 DEF GuardsOK
          <6>2. HandoffOK(f)
            BY <1>1 DEF HandoffOK
          <6>3. SequenceOK(t, f)
            BY <1>1 DEF SequenceOK
          <6>. QED  BY <5>1, <6>1, <6>2, <6>3
        <5>2. CASE e \in Frames(t)
          BY <5>2 DEF IInv, FramesOK
        <5>. QED  BY <1>2, <3>1, <5>1, <5>2
      <4>0. \A g \in e.held : gate'[g] = gate[g]
        BY <1>1, <1>2, <3>1
      <4>3. GuardsOK(e)'
        BY <4>0, <4>2 DEF GuardsOK
      <4>4. HandoffOK(e)'
        BY <4>2 DEF HandoffOK, NoInbox
      <4>5. SequenceOK(t, e)'
        BY <4>1, <4>2 DEF SequenceOK
      <4>. QED  BY <3>1, <4>3, <4>4, <4>5
    <3>2. CASE u # t
      <4>1. e \in Frames(u)
        BY <1>2, <3>2 DEF Frames, Moves
      <4>2. ~in_order(e)
        BY <1>1, <3>2, <4>1, OthersOutside
      <4>3. GuardsOK(e) /\ HandoffOK(e)
        BY <4>1 DEF IInv, FramesOK
      <4>4. GuardsOK(e)'
        BY <4>1, <4>3 DEF GuardsOK
      <4>5. HandoffOK(e)'
        BY <4>3 DEF HandoffOK, NoInbox
      <4>6. SequenceOK(u, e)'
        BY <4>2 DEF SequenceOK, Locked, in_order
      <4>. QED  BY <4>4, <4>5, <4>6
    <3>. QED  BY <3>1, <3>2
  <2>. QED  BY <2>1 DEF FramesOK
<1>7. LogsBelow'
  BY DEF IInv, LogsBelow
<1>8. TransportOrder'
  BY DEF IInv, TransportOrder, increasing
<1>. QED  BY <1>2, <1>3, <1>4, <1>5, <1>6, <1>7, <1>8 DEF IInv, Moves

\* Broadcasting: what is broadcast is newer than all that was.
LEMMA BroadcastStep ==
  ASSUME IInv, NEW t \in Threads, Broadcast(t)
  PROVE  IInv'
<1>0. stack[t] # <<>> /\ top(t).at = "broadcast"
  BY DEF Broadcast, running
<1>1. TypeOK /\ top(t) \in Frame /\ SequenceOK(t, top(t)) /\ LogsBelow /\ TransportOrder
  BY <1>0, TopOK DEF IInv
<1>2. PICK n : n = top(t).seq
  OBVIOUS
<1>3. n \in Nat /\ n < ipc_seq /\ (\A i \in DOMAIN broadcast : broadcast[i] < n)
      /\ ipc_seq \in Nat /\ broadcast \in Seq(Nat)
  <2>1. n \in Nat
    BY <1>1, <1>2 DEF Frame
  <2>. QED  BY <1>0, <1>1, <1>2, <2>1 DEF SequenceOK, TypeOK
<1>4. broadcast' = Append(broadcast, n)
  BY <1>2 DEF Broadcast
<1>5. broadcast' \in Seq(Nat) /\ increasing(broadcast')
  <2>1. Append(broadcast, n) \in Seq(Nat)
    BY <1>3, AppendProperties
  <2>. QED  BY <1>1, <1>3, <1>4, <2>1, IncreasingAppend DEF TransportOrder
<1>6. \A i \in DOMAIN broadcast' : broadcast'[i] < ipc_seq
  BY <1>1, <1>3, <1>4 DEF LogsBelow
<1>. DEFINE f == [top(t) EXCEPT !.at = "observe"]
<1>7. f \in Frame /\ f.at = "observe" /\ f.held = top(t).held /\ f.gates = top(t).gates
      /\ f.handoff = top(t).handoff /\ f.seq = top(t).seq /\ set_top(t, f)
  BY <1>1 DEF Frame, Broadcast
<1>. HIDE DEF f
<1>8. /\ gate' = gate /\ ipc_seq' = ipc_seq /\ admitter' = admitter /\ ordered' = ordered
      /\ draining' = draining /\ unreserved' = unreserved /\ committed' = committed
      /\ delivered' = delivered /\ inbox' = inbox /\ started' = started /\ routed' = routed
      /\ observed' = observed
  BY DEF Broadcast
<1>9. /\ observed' \in [1 .. Observers -> Seq(Sight)]
      /\ \A o \in 1 .. Observers : \A i \in DOMAIN observed'[o] : observed'[o][i].seq < ipc_seq
      /\ \A o \in 1 .. Observers : \A i, j \in DOMAIN observed'[o] :
           i < j /\ observed'[o][i].seq > observed'[o][j].seq
             => observed'[o][i].by = observed'[o][j].by
  <2>1. /\ observed \in [1 .. Observers -> Seq(Sight)]
        /\ \A o \in 1 .. Observers : \A i \in DOMAIN observed[o] : observed[o][i].seq < ipc_seq
        /\ \A o \in 1 .. Observers : \A i, j \in DOMAIN observed[o] :
             i < j /\ observed[o][i].seq > observed[o][j].seq
               => observed[o][i].by = observed[o][j].by
    BY <1>1 DEF TypeOK, Sight, LogsBelow, TransportOrder
  <2>. QED  BY <1>8, <2>1
<1>10. gate' \in [Gates -> {"published", "retired"}]
  BY <1>1, <1>8 DEF TypeOK
<1>. QED  BY <1>0, <1>5, <1>6, <1>7, <1>8, <1>9, <1>10, OrderedStep

\* An observer sees a publication after every older one of another thread.
LEMMA ObserveStep ==
  ASSUME IInv, NEW t \in Threads, Observe(t)
  PROVE  IInv'
<1>0. stack[t] # <<>> /\ top(t).at = "observe"
  BY DEF Observe, running
<1>1. TypeOK /\ top(t) \in Frame /\ SequenceOK(t, top(t)) /\ LogsBelow /\ TransportOrder
  BY <1>0, TopOK DEF IInv
<1>2. PICK n, k : n = top(t).seq /\ k = top(t).next
  OBVIOUS
<1>3. n \in Nat /\ n < ipc_seq /\ k \in Nat /\ ipc_seq \in Nat
      /\ observed \in [1 .. Observers -> Seq(Sight)]
  <2>1. n \in Nat /\ k \in Nat
    BY <1>1, <1>2 DEF Frame
  <2>. QED  BY <1>0, <1>1, <1>2, <2>1 DEF SequenceOK, TypeOK, Sight
<1>. DEFINE x == [seq |-> n, by |-> t]
<1>4. x \in Sight /\ x.seq = n /\ x.by = t
  BY <1>3 DEF Sight
<1>5. observed' = [observed EXCEPT ![k] = Append(@, x)]
  BY <1>2 DEF Observe
<1>. HIDE DEF x
<1>6. \A o \in 1 .. Observers : /\ observed[o] \in Seq(Sight)
                                /\ observed'[o] = observed[o] \/ observed'[o] = Append(observed[o], x)
  BY <1>3, <1>5
<1>7. observed' \in [1 .. Observers -> Seq(Sight)]
  <2>1. \A o \in 1 .. Observers : Append(observed[o], x) \in Seq(Sight)
    BY <1>4, <1>6, AppendProperties
  <2>2. \A o \in 1 .. Observers : observed'[o] \in Seq(Sight)
    BY <1>6, <2>1
  <2>3. DOMAIN observed' = 1 .. Observers /\ observed' = [o \in 1 .. Observers |-> observed'[o]]
    BY <1>3, <1>5
  <2>. QED  BY <2>2, <2>3
<1>8. \A o \in 1 .. Observers : \A i \in DOMAIN observed[o] :
        /\ observed[o][i].seq \in Nat /\ observed[o][i].seq < ipc_seq
        /\ observed[o][i].seq > n => observed[o][i].by = t
  BY <1>0, <1>1, <1>2, SightsTyped DEF LogsBelow, SequenceOK
<1>9. ASSUME NEW o \in 1 .. Observers, NEW i \in DOMAIN observed'[o]
      PROVE  \/ i \in DOMAIN observed[o] /\ observed'[o][i] = observed[o][i]
             \/ i = Len(observed[o]) + 1 /\ observed'[o][i] = x
  BY <1>6
<1>10. \A o \in 1 .. Observers : \A i \in DOMAIN observed'[o] :
         /\ observed'[o][i].seq < ipc_seq
         /\ (i \in DOMAIN observed[o] /\ observed'[o][i] = observed[o][i]) \/ observed'[o][i].by = t
  BY <1>3, <1>4, <1>8, <1>9
<1>11. ASSUME NEW o \in 1 .. Observers, NEW i \in DOMAIN observed'[o], NEW j \in DOMAIN observed'[o],
              i < j, observed'[o][i].seq > observed'[o][j].seq
       PROVE  observed'[o][i].by = observed'[o][j].by
  <2>0. observed[o] \in Seq(Sight) /\ DOMAIN observed[o] = 1 .. Len(observed[o]) /\ Len(observed[o]) \in Nat
    BY <1>6
  <2>1. CASE j \in DOMAIN observed[o] /\ observed'[o][j] = observed[o][j]
    <3>1. i \in DOMAIN observed[o] /\ observed'[o][i] = observed[o][i]
      BY <1>9, <1>11, <2>0, <2>1
    <3>. QED  BY <1>1, <1>11, <2>1, <3>1 DEF TransportOrder
  <2>2. CASE j = Len(observed[o]) + 1 /\ observed'[o][j] = x
    <3>1. i \in DOMAIN observed[o] /\ observed'[o][i] = observed[o][i]
      BY <1>9, <1>11, <2>0, <2>2
    <3>. QED  BY <1>4, <1>8, <1>11, <2>2, <3>1
  <2>. QED  BY <1>9, <2>1, <2>2
<1>. DEFINE f == [top(t) EXCEPT !.next = @ + 1]
<1>12. f \in Frame /\ f.at = "observe" /\ f.held = top(t).held /\ f.gates = top(t).gates
       /\ f.handoff = top(t).handoff /\ f.seq = top(t).seq /\ set_top(t, f)
  <2>1. top(t).next + 1 \in Nat
    BY <1>2, <1>3
  <2>. QED  BY <1>0, <1>1, <2>1 DEF Frame, Observe
<1>. HIDE DEF f
<1>13. /\ gate' = gate /\ ipc_seq' = ipc_seq /\ admitter' = admitter /\ ordered' = ordered
       /\ draining' = draining /\ unreserved' = unreserved /\ committed' = committed
       /\ delivered' = delivered /\ inbox' = inbox /\ started' = started /\ routed' = routed
       /\ broadcast' = broadcast
  BY DEF Observe
<1>14. /\ gate' \in [Gates -> {"published", "retired"}]
       /\ broadcast' \in Seq(Nat) /\ increasing(broadcast')
       /\ \A i \in DOMAIN broadcast' : broadcast'[i] < ipc_seq
  BY <1>1, <1>13 DEF TypeOK, LogsBelow, TransportOrder
<1>. QED  BY <1>0, <1>7, <1>10, <1>11, <1>12, <1>13, <1>14, OrderedStep

\* An observer enters retire(), and leaves it once no publication has the gate locked.
LEMMA ObserverStep ==
  ASSUME IInv, NEW t \in Threads, (\E g \in Gates : ObserverRetire(t, g)) \/ ObserverRetired(t)
  PROVE  IInv'
<1>0. stack[t] # <<>> /\ top(t).at = "observe"
  BY DEF ObserverRetire, ObserverRetired, in_callback, running
<1>1. TypeOK /\ top(t) \in Frame /\ LogsBelow /\ TransportOrder
  BY <1>0, TopOK DEF IInv
<1>2. PICK rs \in SUBSET Gates : set_top(t, [top(t) EXCEPT !.retiring = rs])
  <2>1. CASE ObserverRetired(t)
    BY <2>1 DEF ObserverRetired
  <2>2. ASSUME NEW g \in Gates, ObserverRetire(t, g)
        PROVE  set_top(t, [top(t) EXCEPT !.retiring = {g}])
    BY <2>2 DEF ObserverRetire
  <2>. QED  BY <2>1, <2>2
<1>. DEFINE f == [top(t) EXCEPT !.retiring = rs]
<1>3. f \in Frame /\ f.at = "observe" /\ f.held = top(t).held /\ f.gates = top(t).gates
      /\ f.handoff = top(t).handoff /\ f.seq = top(t).seq /\ set_top(t, f)
  BY <1>0, <1>1, <1>2 DEF Frame
<1>. HIDE DEF f
<1>4. /\ ipc_seq' = ipc_seq /\ admitter' = admitter /\ ordered' = ordered
      /\ draining' = draining /\ unreserved' = unreserved /\ committed' = committed
      /\ delivered' = delivered /\ inbox' = inbox /\ started' = started /\ routed' = routed
      /\ broadcast' = broadcast /\ observed' = observed
  BY DEF ObserverRetire, ObserverRetired, logs
<1>5. gate' \in [Gates -> {"published", "retired"}]
  BY <1>1 DEF ObserverRetire, ObserverRetired, TypeOK
<1>6. ASSUME NEW u \in Threads, NEW e \in Frames(u), NEW g \in e.held PROVE gate'[g] = gate[g]
  <2>1. CASE gate' = gate
    BY <2>1
  <2>2. CASE ObserverRetired(t)
    <3>1. \A h \in top(t).retiring : guard_released(h)
      BY <2>2 DEF ObserverRetired
    <3>2. g \notin top(t).retiring
      BY <1>6, <3>1 DEF guard_released, Frames
    <3>3. g \in Gates
      <4>1. stack[u] \in Seq(Frame)
        BY <1>1 DEF TypeOK
      <4>2. e \in Frame
        BY <1>6, <4>1 DEF Frames
      <4>. QED  BY <1>6, <4>2 DEF Frame
    <3>. QED  BY <2>2, <3>2, <3>3 DEF ObserverRetired
  <2>. QED  BY <2>1, <2>2 DEF ObserverRetire
<1>7. /\ observed' \in [1 .. Observers -> Seq(Sight)]
      /\ \A o \in 1 .. Observers : \A i \in DOMAIN observed'[o] : observed'[o][i].seq < ipc_seq
      /\ \A o \in 1 .. Observers : \A i, j \in DOMAIN observed'[o] :
           i < j /\ observed'[o][i].seq > observed'[o][j].seq
             => observed'[o][i].by = observed'[o][j].by
  <2>1. /\ observed \in [1 .. Observers -> Seq(Sight)]
        /\ \A o \in 1 .. Observers : \A i \in DOMAIN observed[o] : observed[o][i].seq < ipc_seq
        /\ \A o \in 1 .. Observers : \A i, j \in DOMAIN observed[o] :
             i < j /\ observed[o][i].seq > observed[o][j].seq
               => observed[o][i].by = observed[o][j].by
    BY <1>1 DEF TypeOK, Sight, LogsBelow, TransportOrder
  <2>. QED  BY <1>4, <2>1
<1>8. /\ broadcast' \in Seq(Nat) /\ increasing(broadcast')
      /\ \A i \in DOMAIN broadcast' : broadcast'[i] < ipc_seq
  BY <1>1, <1>4 DEF TypeOK, LogsBelow, TransportOrder
<1>. QED  BY <1>0, <1>3, <1>4, <1>5, <1>6, <1>7, <1>8, OrderedStep

\* What an inbox may become when no publication moves: itself, without its oldest
\* delivery, opened or closed; or newly installed.
InboxMoves ==
  /\ inbox' \in Seq(Inbox) /\ Len(inbox) <= Len(inbox') /\ Len(inbox') <= MaxInboxes
  /\ \A c \in DOMAIN inbox' :
       \/ c \notin DOMAIN inbox /\ inbox'[c] = NewInbox
       \/ /\ c \in DOMAIN inbox /\ inbox'[c].permits = inbox[c].permits
          /\ \/ inbox'[c].queue = inbox[c].queue
             \/ inbox[c].queue # <<>> /\ inbox'[c].queue = Tail(inbox[c].queue)

\* A step of the configuration or of the dispatcher, which moves no publication.
LEMMA SurroundStep ==
  ASSUME IInv, InboxMoves, stack' = stack, ipc_seq' = ipc_seq, started' = started,
         unreserved' = unreserved, broadcast' = broadcast, observed' = observed,
         routed' = routed, committed' = committed,
         gate' \in [Gates -> {"published", "retired"}],
         \A t \in Threads : \A f \in Frames(t) : \A g \in f.held : gate'[g] = gate[g],
         admitter' \in {"none", "live", "dead"}, ordered' \in 0 .. Len(inbox'),
         draining' \in BOOLEAN, draining' => (draining \/ order_unlocked) /\ ordered' # NoInbox,
         delivered' \in Seq(Nat)
  PROVE  IInv'
<1>1. /\ TypeOK /\ Suspended /\ OneOrder /\ FramesOK /\ PermitsExact /\ LogsBelow /\ TransportOrder
      /\ inbox \in Seq(Inbox) /\ Capacity \in Nat
  BY ConstAssumption DEF IInv, TypeOK
<1>2. TypeOK' /\ Suspended'
  BY <1>1 DEF TypeOK, Suspended, InboxMoves
<1>3. OneOrder'
  BY <1>1 DEF OneOrder, holds_order, Locked, in_order, order_unlocked, NoInbox
<1>4. FramesOK'
  <2>1. ASSUME NEW t \in Threads, NEW f \in Frames(t)
        PROVE  GuardsOK(f)' /\ HandoffOK(f)' /\ SequenceOK(t, f)'
    <3>1. GuardsOK(f) /\ HandoffOK(f) /\ SequenceOK(t, f)
      BY <1>1 DEF FramesOK
    <3>2. GuardsOK(f)'
      BY <3>1 DEF GuardsOK
    <3>3. HandoffOK(f)'
      BY <1>1, <3>1 DEF HandoffOK, NoInbox, InboxMoves
    <3>4. SequenceOK(t, f)'
      BY <3>1 DEF SequenceOK
    <3>. QED  BY <3>2, <3>3, <3>4
  <2>2. \A t : Frames(t)' = Frames(t)
    BY DEF Frames
  <2>3. \A t \in Threads : \A f \in Frames(t)' : GuardsOK(f)' /\ HandoffOK(f)' /\ SequenceOK(t, f)'
    BY <2>1, <2>2
  <2>. QED  BY <2>3 DEF FramesOK
<1>5. \A c \in DOMAIN inbox : /\ inbox[c] \in Inbox /\ inbox[c].queue \in Seq(Item)
                              /\ inbox[c].permits \in Nat /\ Len(inbox[c].queue) \in Nat
                              /\ \A i \in DOMAIN inbox[c].queue : inbox[c].queue[i].seq \in Nat
  <2>. TAKE c \in DOMAIN inbox
  <2>1. inbox[c] \in Inbox
    BY <1>1
  <2>2. inbox[c].queue \in Seq(Item) /\ inbox[c].permits \in Nat
    BY <2>1 DEF Inbox, Item
  <2>3. \A i \in DOMAIN inbox[c].queue : inbox[c].queue[i] \in Item
    BY <2>2
  <2>. QED  BY <2>1, <2>2, <2>3 DEF Item
<1>6. PermitsExact'
  <2>1. \A c : holders(c)' = holders(c)
    BY DEF holders
  <2>2. ASSUME NEW c \in DOMAIN inbox'
        PROVE  inbox'[c].permits = Cardinality(holders(c)) /\ used(c)' <= Capacity
    <3>1. CASE c \notin DOMAIN inbox /\ inbox'[c] = NewInbox
      <4>1. inbox'[c].permits = 0 /\ inbox'[c].queue = <<>>
        BY <3>1 DEF NewInbox
      <4>2. c \in Nat /\ c > Len(inbox)
        BY <1>1, <3>1 DEF InboxMoves
      <4>3. \A t \in Threads : \A f \in Frames(t) : f.handoff # c
        BY <1>1, <4>2 DEF FramesOK, HandoffOK
      <4>4. holders(c) = {}
        BY <4>3 DEF holders, Frames
      <4>. QED  BY <1>1, <4>1, <4>4, FS_EmptySet DEF used
    <3>2. CASE c \in DOMAIN inbox /\ inbox'[c].permits = inbox[c].permits
               /\ inbox'[c].queue = inbox[c].queue
      BY <1>1, <3>2 DEF PermitsExact, used
    <3>3. CASE c \in DOMAIN inbox /\ inbox'[c].permits = inbox[c].permits
               /\ inbox[c].queue # <<>> /\ inbox'[c].queue = Tail(inbox[c].queue)
      <4>1. Len(inbox'[c].queue) = Len(inbox[c].queue) - 1
        BY <1>5, <3>3
      <4>2. Len(inbox[c].queue) + inbox[c].permits <= Capacity
            /\ inbox[c].permits = Cardinality(holders(c))
        BY <1>1, <3>3 DEF PermitsExact, used
      <4>3. Len(inbox'[c].queue) + inbox'[c].permits <= Capacity
        BY <1>1, <1>5, <3>3, <4>1, <4>2
      <4>. QED  BY <3>3, <4>2, <4>3 DEF used
    <3>. QED  BY <3>1, <3>2, <3>3 DEF InboxMoves
  <2>. QED  BY <2>1, <2>2 DEF PermitsExact
<1>7. ASSUME NEW c \in DOMAIN inbox'
      PROVE  /\ \A i \in DOMAIN inbox'[c].queue : inbox'[c].queue[i].seq < ipc_seq
             /\ increasing([i \in DOMAIN inbox'[c].queue |-> inbox'[c].queue[i].seq])
  <2>1. CASE c \notin DOMAIN inbox /\ inbox'[c] = NewInbox
    BY <2>1 DEF NewInbox, increasing
  <2>2. CASE c \in DOMAIN inbox /\ inbox'[c].queue = inbox[c].queue
    BY <1>1, <2>2 DEF LogsBelow, TransportOrder
  <2>3. CASE c \in DOMAIN inbox
             /\ inbox[c].queue # <<>> /\ inbox'[c].queue = Tail(inbox[c].queue)
    <3>. DEFINE q == inbox[c].queue
    <3>1. q \in Seq(Item) /\ q # <<>>
      BY <1>5, <2>3
    <3>2. /\ \A i \in DOMAIN q : q[i].seq < ipc_seq
          /\ \A i, j \in DOMAIN q : i < j => q[i].seq < q[j].seq
      BY <1>1, <2>3 DEF LogsBelow, TransportOrder, increasing
    <3>. HIDE DEF q
    <3>3. \A i \in DOMAIN Tail(q) : i \in Nat /\ i + 1 \in DOMAIN q /\ Tail(q)[i] = q[i + 1]
      BY <3>1
    <3>4. \A i, j \in DOMAIN Tail(q) : i < j => Tail(q)[i].seq < Tail(q)[j].seq
      BY <3>2, <3>3
    <3>. QED  BY <2>3, <3>2, <3>3, <3>4 DEF increasing, q
  <2>. QED  BY <2>1, <2>2, <2>3 DEF InboxMoves
<1>8. LogsBelow'
  BY <1>1, <1>7 DEF LogsBelow
<1>9. TransportOrder'
  BY <1>1, <1>7 DEF TransportOrder, increasing
<1>. QED  BY <1>2, <1>3, <1>4, <1>6, <1>8, <1>9 DEF IInv

\* The queue of the installed inbox loses its oldest delivery.
LEMMA QueueTail ==
  ASSUME IInv, ordered # NoInbox, inbox[ordered].queue # <<>>,
         inbox' = [inbox EXCEPT ![ordered].queue = Tail(@)],
         delivered' = delivered \o handed(Head(inbox[ordered].queue))
  PROVE  InboxMoves /\ delivered' \in Seq(Nat) /\ ordered \in 0 .. Len(inbox')
<1>1. /\ TypeOK /\ inbox \in Seq(Inbox) /\ ordered \in DOMAIN inbox /\ delivered \in Seq(Nat)
      /\ Len(inbox) <= MaxInboxes /\ Len(inbox) \in Nat
  <2>1. TypeOK /\ inbox \in Seq(Inbox) /\ ordered \in 0 .. Len(inbox) /\ delivered \in Seq(Nat)
        /\ Len(inbox) <= MaxInboxes
    BY DEF IInv, TypeOK
  <2>2. DOMAIN inbox = 1 .. Len(inbox) /\ Len(inbox) \in Nat
    BY <2>1
  <2>. QED  BY <2>1, <2>2 DEF NoInbox
<1>. DEFINE b == [inbox[ordered] EXCEPT !.queue = Tail(inbox[ordered].queue)]
<1>2. inbox[ordered] \in Inbox
  BY <1>1
<1>3. inbox[ordered].queue \in Seq(Item)
  BY <1>2 DEF Inbox, Item
<1>4. Tail(inbox[ordered].queue) \in Seq(Item) /\ Head(inbox[ordered].queue) \in Item
  BY <1>3
<1>5. b \in Inbox /\ b.permits = inbox[ordered].permits /\ b.queue = Tail(inbox[ordered].queue)
  BY <1>2, <1>4 DEF Inbox, Item
<1>6. inbox' = [inbox EXCEPT ![ordered] = b]
  OBVIOUS
<1>. HIDE DEF b
<1>7. /\ inbox' \in Seq(Inbox) /\ Len(inbox') = Len(inbox) /\ DOMAIN inbox' = DOMAIN inbox
      /\ inbox'[ordered] = b /\ \A d \in DOMAIN inbox \ {ordered} : inbox'[d] = inbox[d]
  BY <1>1, <1>5, <1>6, InboxEdit
<1>8. InboxMoves
  BY <1>1, <1>5, <1>7 DEF InboxMoves
<1>9. handed(Head(inbox[ordered].queue)) \in Seq(Nat)
  <2>1. Head(inbox[ordered].queue).id \in Nat
    BY <1>4 DEF Item
  <2>. QED  BY <2>1 DEF handed
<1>10. delivered' \in Seq(Nat)
  BY <1>1, <1>9
<1>. QED  BY <1>1, <1>7, <1>8, <1>10

\* The configuration of the bus and the dispatcher's side.
LEMMA OutsideStep ==
  ASSUME IInv,
         \/ SubscribeOrdered \/ RegisterAdmitter \/ DropAdmitter \/ (\E g \in Gates : Retire(g))
         \/ Recv \/ DropReceiver \/ Drain \/ UNCHANGED vars
  PROVE  IInv'
<1>1. /\ TypeOK /\ inbox \in Seq(Inbox) /\ Len(inbox) \in Nat /\ ordered \in 0 .. Len(inbox)
      /\ gate \in [Gates -> {"published", "retired"}] /\ admitter \in {"none", "live", "dead"}
      /\ draining \in BOOLEAN /\ delivered \in Seq(Nat) /\ Len(inbox) <= MaxInboxes
      /\ MaxInboxes \in Nat /\ DOMAIN inbox = 1 .. Len(inbox)
  <2>1. TypeOK
    BY DEF IInv
  <2>2. /\ inbox \in Seq(Inbox) /\ ordered \in 0 .. Len(inbox)
        /\ gate \in [Gates -> {"published", "retired"}] /\ admitter \in {"none", "live", "dead"}
        /\ draining \in BOOLEAN /\ delivered \in Seq(Nat) /\ Len(inbox) <= MaxInboxes
    BY <2>1 DEF TypeOK
  <2>3. DOMAIN inbox = 1 .. Len(inbox) /\ Len(inbox) \in Nat
    BY <2>2
  <2>. QED  BY <2>1, <2>2, <2>3, ConstAssumption
<1>2. inbox' = inbox => InboxMoves
  BY <1>1 DEF InboxMoves
<1>10. draining => ordered # NoInbox
  BY DEF IInv, OneOrder
<1>3. CASE SubscribeOrdered
  <2>1. NewInbox \in Inbox
    BY DEF NewInbox, Inbox
  <2>2. inbox' = Append(inbox, NewInbox) /\ ordered' = Len(inbox) + 1 /\ Len(inbox) < MaxInboxes
    BY <1>3 DEF SubscribeOrdered
  <2>3. /\ inbox' \in Seq(Inbox) /\ Len(inbox') = Len(inbox) + 1 /\ inbox'[Len(inbox) + 1] = NewInbox
        /\ DOMAIN inbox' = 1 .. Len(inbox) + 1 /\ \A c \in DOMAIN inbox : inbox'[c] = inbox[c]
    BY <1>1, <2>1, <2>2
  <2>4. InboxMoves /\ ordered' \in 0 .. Len(inbox')
    BY <1>1, <2>2, <2>3 DEF InboxMoves
  <2>5. ordered' # NoInbox
    BY <1>1, <2>2 DEF NoInbox
  <2>. QED  BY <1>1, <1>3, <2>4, <2>5, SurroundStep DEF SubscribeOrdered, logs
<1>4. CASE RegisterAdmitter \/ DropAdmitter
  <2>1. /\ gate' = gate /\ inbox' = inbox /\ ordered' = ordered /\ draining' = draining
        /\ delivered' = delivered /\ admitter' \in {"none", "live", "dead"}
        /\ stack' = stack /\ ipc_seq' = ipc_seq /\ started' = started
        /\ unreserved' = unreserved /\ broadcast' = broadcast /\ observed' = observed
        /\ routed' = routed /\ committed' = committed
    BY <1>4 DEF RegisterAdmitter, DropAdmitter, logs
  <2>. QED  BY <1>1, <1>2, <1>10, <2>1, SurroundStep
<1>5. ASSUME NEW g \in Gates, Retire(g) PROVE IInv'
  <2>1. gate' = [gate EXCEPT ![g] = "retired"] /\ guard_released(g)
    BY <1>5 DEF Retire
  <2>2. \A t \in Threads : \A f \in Frames(t) : g \notin f.held
    BY <2>1 DEF guard_released, Frames
  <2>3. gate' \in [Gates -> {"published", "retired"}]
        /\ \A t \in Threads : \A f \in Frames(t) : \A e \in f.held : gate'[e] = gate[e]
    BY <1>1, <2>1, <2>2
  <2>. QED  BY <1>1, <1>2, <1>10, <1>5, <2>3, SurroundStep DEF Retire, logs
<1>6. CASE Recv
  <2>1. InboxMoves /\ delivered' \in Seq(Nat) /\ ordered \in 0 .. Len(inbox')
    BY <1>6, QueueTail DEF Recv
  <2>. QED  BY <1>1, <1>6, <1>10, <2>1, SurroundStep DEF Recv, logs
<1>7. CASE DropReceiver
  <2>1. ordered \in DOMAIN inbox /\ inbox[ordered] \in Inbox
    BY <1>1, <1>7 DEF DropReceiver, NoInbox
  <2>. DEFINE b == [inbox[ordered] EXCEPT !.open = FALSE]
  <2>2. b \in Inbox /\ b.permits = inbox[ordered].permits /\ b.queue = inbox[ordered].queue
    BY <2>1 DEF Inbox
  <2>3. inbox' = [inbox EXCEPT ![ordered] = b]
    BY <1>7 DEF DropReceiver
  <2>. HIDE DEF b
  <2>4. /\ inbox' \in Seq(Inbox) /\ Len(inbox') = Len(inbox) /\ DOMAIN inbox' = DOMAIN inbox
        /\ inbox'[ordered] = b /\ \A d \in DOMAIN inbox \ {ordered} : inbox'[d] = inbox[d]
    BY <1>1, <2>1, <2>2, <2>3, InboxEdit
  <2>5. InboxMoves /\ ordered \in 0 .. Len(inbox')
    BY <1>1, <2>2, <2>4 DEF InboxMoves
  <2>. QED  BY <1>1, <1>7, <2>5, SurroundStep DEF DropReceiver, logs
<1>8. CASE Drain
  <2>1. CASE inbox[ordered].queue # <<>> /\ UNCHANGED draining
             /\ inbox' = [inbox EXCEPT ![ordered].queue = Tail(@)]
             /\ delivered' = delivered \o handed(Head(inbox[ordered].queue))
    <3>1. ordered # NoInbox
      BY <1>8, <1>10 DEF Drain
    <3>2. InboxMoves /\ delivered' \in Seq(Nat) /\ ordered \in 0 .. Len(inbox')
      BY <2>1, <3>1, QueueTail
    <3>. QED  BY <1>1, <1>8, <2>1, <3>1, <3>2, SurroundStep DEF Drain, logs
  <2>2. CASE draining' = FALSE /\ UNCHANGED <<inbox, delivered>>
    BY <1>1, <1>2, <1>10, <1>8, <2>2, SurroundStep DEF Drain, logs
  <2>. QED  BY <1>8, <2>1, <2>2 DEF Drain, drained
<1>9. CASE UNCHANGED vars
  BY <1>1, <1>2, <1>10, <1>9, SurroundStep DEF vars, logs
<1>. QED  BY <1>3, <1>4, <1>5, <1>6, <1>7, <1>8, <1>9

\* At the start nothing is published, installed or configured.
LEMMA InitInv == Init => IInv
<1>. SUFFICES ASSUME Init PROVE IInv
  OBVIOUS
<1>1. \A t \in Threads : stack[t] = <<>> /\ Frames(t) = {} /\ ~holds_order(t)
  BY DEF Init, Frames, holds_order
<1>2. TypeOK
  <2>1. /\ started \in 0 .. MaxEvents /\ ordered \in 0 .. Len(inbox) /\ Len(inbox) <= MaxInboxes
    BY ConstAssumption DEF Init, NoInbox
  <2>2. gate \in [Gates -> {"published", "retired"}] /\ admitter \in {"none", "live", "dead"}
        /\ draining \in BOOLEAN /\ ipc_seq \in Nat
    BY DEF Init
  <2>3. /\ inbox \in Seq(Inbox) /\ stack \in [Threads -> Seq(Frame)]
        /\ unreserved \in Seq(Nat) /\ broadcast \in Seq(Nat)
        /\ committed \in Seq(Nat) /\ delivered \in Seq(Nat)
    BY DEF Init
  <2>4. routed \in [Routes -> Seq(Nat)] /\ observed \in [1 .. Observers -> Seq(Sight)]
    BY DEF Init
  <2>. QED  BY <2>1, <2>2, <2>3, <2>4 DEF TypeOK, Sight
<1>3. Suspended /\ OneOrder /\ FramesOK
  BY <1>1 DEF Suspended, OneOrder, FramesOK, Init
<1>4. PermitsExact /\ LogsBelow /\ TransportOrder
  BY DEF Init, PermitsExact, LogsBelow, TransportOrder, increasing
<1>. QED  BY <1>2, <1>3, <1>4 DEF IInv

\* Every step of the bus keeps the invariant.
LEMMA NextInv == IInv /\ [Next]_vars => IInv'
<1>. SUFFICES ASSUME IInv, [Next]_vars PROVE IInv'
  OBVIOUS
<1>1. ASSUME NEW t \in Threads,
             \/ ReserveStart(t) \/ ReserveDelivery(t) \/ ReserveHandoff(t)
             \/ ReserveSlot(t) \/ Cancel(t) \/ Commit(t) \/ Publish(t) \/ PublishStep(t)
             \/ \E g \in Gates : ObserverRetire(t, g)
      PROVE  IInv'
  BY <1>1, ReserveStep, SlotStep, GuardStep, StampStep, BroadcastStep, ObserveStep, ObserverStep,
         RouteStep
     DEF PublishStep
<1>. QED  BY <1>1, OutsideStep DEF Next

\* The invariant holds of every behaviour of the bus.
THEOREM BusInv == Spec => []IInv
<1>. QED  BY InitInv, NextInv, PTL DEF Spec

\* Slots of the ordered inbox (ordered_delivery.rs, reserve_owned and the permits it
\* returns) are neither leaked nor oversubscribed, for any number of publishers that
\* cancel, fail to commit, commit or publish ordinarily.
THEOREM PermitsTheorem == Spec => []PermitsExact
<1>1. IInv => PermitsExact
  BY DEF IInv
<1>. QED  BY <1>1, BusInv, PTL

\* publish_reserved passes its commit point only while every captured generation is
\* published: retire takes the mutex the commit holds on each of them.
THEOREM CommitFenceTheorem == Spec => []CommitFence
<1>1. IInv => CommitFence
  <2>. SUFFICES ASSUME IInv, NEW t \in Threads, running(t, "stamp"), NEW g \in top(t).gates
                PROVE  gate[g] = "published"
    BY DEF CommitFence
  <2>1. stack[t] # <<>> /\ top(t).at = "stamp"
    BY DEF running
  <2>. QED  BY <2>1, TopOK DEF GuardsOK
<1>. QED  BY <1>1, BusInv, PTL

\* Every transport carries the events in the order of their sequence numbers, and an
\* observer sees an older event after a newer one only of its own thread.
THEOREM TransportTheorem == Spec => []TransportOrder
<1>1. IInv => TransportOrder
  BY DEF IInv
<1>. QED  BY <1>1, BusInv, PTL

-----------------------------------------------------------------------------
(* The reserved lane implements the reliable log *)

\* What the installed inbox still holds.
lane == IF ordered = NoInbox THEN <<>> ELSE inbox[ordered].queue

\* A delivery that was acknowledged to its publisher.
Reserved(d) == d.reserved

\* The lane q against the commits com and the deliveries del: a prefix of the commits
\* was delivered, and the reserved items of the lane are the other commits, in order.
LaneOK(q, com, del) ==
  /\ Len(del) <= Len(com) /\ \A k \in 1 .. Len(del) : del[k] = com[k]
  /\ \A k \in Len(del) + 1 .. Len(com) :
       \E i \in 1 .. Len(q) : Reserved(q[i]) /\ q[i].id = com[k]
  /\ \A i \in 1 .. Len(q) : Reserved(q[i]) =>
       \E k \in Len(del) + 1 .. Len(com) : q[i].id = com[k]
  /\ \A i, j \in 1 .. Len(q) : \A k, l \in 1 .. Len(com) :
       i < j /\ Reserved(q[i]) /\ Reserved(q[j]) /\ q[i].id = com[k] /\ q[j].id = com[l] => k < l

Distinct(s) == \A i, j \in 1 .. Len(s) : s[i] = s[j] => i = j

\* Only the installed inbox holds anything, and once closed and drained it does not.
OneInbox ==
  /\ \A c \in DOMAIN inbox : c # ordered => ~inbox[c].open /\ inbox[c].queue = <<>>
  /\ ordered # NoInbox /\ ~inbox[ordered].open /\ ~draining => inbox[ordered].queue = <<>>
  /\ draining => ~inbox[ordered].open

\* Locations before the commit point.
Pending == {"reserve", "handoff", "slot", "reserved", "guards", "stamp"}

\* A publication that is past the checks of commit_reserved is for the installed inbox.
TargetOK(f) ==
  f.at \in {"guards", "stamp"} /\ (f.handoff # NoInbox \/ f.delivery) =>
    f.handoff = ordered /\ (ordered # NoInbox => inbox[ordered].open)

\* Its identity is its own and was not committed yet.
IdentityOK(f) ==
  /\ f.id \in 1 .. started
  /\ f.at \in Pending => \A k \in 1 .. Len(committed) : committed[k] # f.id

Aimed == \A t \in Threads : \A f \in Frames(t) : TargetOK(f) /\ IdentityOK(f)

Apart ==
  \A t, u \in Threads : \A f \in Frames(t) : \A e \in Frames(u) :
    f.at \in Pending /\ e.at \in Pending /\ f.id = e.id => t = u

Commits ==
  /\ \A k \in 1 .. Len(committed) : committed[k] \in 1 .. started
  /\ Distinct(committed)

\* The invariant of the refinement.
LogInv == OneInbox /\ Aimed /\ Apart /\ Commits /\ LaneOK(lane, committed, delivered)

\* An empty lane: everything committed was delivered.
LEMMA LaneEmpty ==
  ASSUME NEW com \in Seq(Nat), NEW del \in Seq(Nat), LaneOK(<<>>, com, del)
  PROVE  del = com
<1>1. Len(com) \in Nat /\ Len(del) \in Nat
  OBVIOUS
<1>2. Len(del) <= Len(com) /\ \A k \in 1 .. Len(del) : del[k] = com[k]
  BY DEF LaneOK
<1>3. \A k \in Len(del) + 1 .. Len(com) : FALSE
  BY DEF LaneOK
<1>4. Len(del) = Len(com)
  BY <1>1, <1>2, <1>3
<1>. QED  BY <1>2, <1>4, SeqEqual

\* The commit that is delivered at once, with no inbox installed.
LEMMA LaneDirect ==
  ASSUME NEW com \in Seq(Nat)
  PROVE  LaneOK(<<>>, com, com)
<1>1. Len(com) \in Nat
  OBVIOUS
<1>. QED  BY <1>1 DEF LaneOK

\* The hand-over of a reserved publication.
LEMMA LaneReserved ==
  ASSUME NEW q \in Seq(Item), NEW com \in Seq(Nat), NEW del \in Seq(Nat), LaneOK(q, com, del),
         NEW x \in Item, Reserved(x), \A k \in 1 .. Len(com) : com[k] # x.id
  PROVE  LaneOK(Append(q, x), Append(com, x.id), del)
<1>1. Len(com) \in Nat /\ Len(del) \in Nat /\ Len(q) \in Nat
  OBVIOUS
<1>. DEFINE c2 == Append(com, x.id)
            q2 == Append(q, x)
<1>2. x.id \in Nat
  BY DEF Item
<1>3. /\ Len(c2) = Len(com) + 1 /\ c2[Len(com) + 1] = x.id
      /\ \A k \in 1 .. Len(com) : c2[k] = com[k]
  BY <1>1, <1>2
<1>4. /\ Len(q2) = Len(q) + 1 /\ q2[Len(q) + 1] = x /\ \A i \in 1 .. Len(q) : q2[i] = q[i]
  BY <1>1
<1>. HIDE DEF c2, q2
<1>c. \A k \in 1 .. Len(c2) : k \in 1 .. Len(com) \/ k = Len(com) + 1
  BY <1>1, <1>3
<1>d. \A k \in 1 .. Len(q2) : k \in 1 .. Len(q) \/ k = Len(q) + 1
  BY <1>1, <1>4
<1>0. /\ Len(del) <= Len(com) /\ \A k \in 1 .. Len(del) : del[k] = com[k]
      /\ \A k \in Len(del) + 1 .. Len(com) :
           \E i \in 1 .. Len(q) : Reserved(q[i]) /\ q[i].id = com[k]
      /\ \A i \in 1 .. Len(q) : Reserved(q[i]) =>
           \E k \in Len(del) + 1 .. Len(com) : q[i].id = com[k]
      /\ \A i, j \in 1 .. Len(q) : \A k, l \in 1 .. Len(com) :
           i < j /\ Reserved(q[i]) /\ Reserved(q[j]) /\ q[i].id = com[k] /\ q[j].id = com[l] => k < l
  BY DEF LaneOK
<1>5. Len(del) <= Len(c2) /\ \A k \in 1 .. Len(del) : del[k] = c2[k]
  BY <1>0, <1>1, <1>3
<1>6. ASSUME NEW k \in Len(del) + 1 .. Len(c2)
      PROVE  \E i \in 1 .. Len(q2) : Reserved(q2[i]) /\ q2[i].id = c2[k]
  <2>1. CASE k \in Len(del) + 1 .. Len(com)
    <3>1. PICK i \in 1 .. Len(q) : Reserved(q[i]) /\ q[i].id = com[k]
      BY <1>0, <2>1
    <3>2. i \in 1 .. Len(q2) /\ q2[i] = q[i] /\ c2[k] = com[k]
      BY <1>1, <1>3, <1>4, <2>1
    <3>. QED  BY <3>1, <3>2
  <2>2. CASE k = Len(com) + 1
    <3>1. Len(q) + 1 \in 1 .. Len(q2)
      BY <1>1, <1>4
    <3>. QED  BY <1>3, <1>4, <2>2, <3>1
  <2>3. k \in Len(del) + 1 .. Len(com) \/ k = Len(com) + 1
    BY <1>1, <1>3
  <2>. QED  BY <2>1, <2>2, <2>3
<1>7. ASSUME NEW i \in 1 .. Len(q2), Reserved(q2[i])
      PROVE  \E k \in Len(del) + 1 .. Len(c2) : q2[i].id = c2[k]
  <2>1. CASE i \in 1 .. Len(q)
    <3>1. q2[i] = q[i]
      BY <1>4, <2>1
    <3>2. PICK k \in Len(del) + 1 .. Len(com) : q[i].id = com[k]
      BY <1>0, <1>7, <2>1, <3>1
    <3>3. k \in Len(del) + 1 .. Len(c2) /\ c2[k] = com[k]
      BY <1>1, <1>3
    <3>. QED  BY <3>1, <3>2, <3>3
  <2>2. CASE i = Len(q) + 1
    <3>1. Len(com) + 1 \in Len(del) + 1 .. Len(c2)
      BY <1>0, <1>1, <1>3
    <3>. QED  BY <1>3, <1>4, <2>2, <3>1
  <2>3. i \in 1 .. Len(q) \/ i = Len(q) + 1
    BY <1>d
  <2>. QED  BY <2>1, <2>2, <2>3
<1>8. ASSUME NEW i \in 1 .. Len(q2), NEW j \in 1 .. Len(q2), NEW k \in 1 .. Len(c2), NEW l \in 1 .. Len(c2),
             i < j, Reserved(q2[i]), Reserved(q2[j]), q2[i].id = c2[k], q2[j].id = c2[l]
      PROVE  k < l
  <2>1. i \in 1 .. Len(q)
    BY <1>1, <1>4, <1>8
  <2>2. q2[i] = q[i] /\ Reserved(q[i])
    BY <1>4, <1>8, <2>1
  <2>3. PICK m \in Len(del) + 1 .. Len(com) : q[i].id = com[m]
    BY <1>0, <2>1, <2>2
  <2>4. m \in 1 .. Len(com) /\ com[m] # x.id
    BY <1>1
  <2>5. k # Len(com) + 1
    BY <1>3, <1>8, <2>2, <2>3, <2>4
  <2>6. k \in 1 .. Len(com) /\ com[k] = c2[k]
    <3>2. k \in 1 .. Len(com) \/ k = Len(com) + 1
      BY <1>c
    <3>. QED  BY <1>3, <2>5, <3>2
  <2>7. CASE j \in 1 .. Len(q)
    <3>1. q2[j] = q[j] /\ Reserved(q[j])
      BY <1>4, <1>8, <2>7
    <3>2. PICK n \in Len(del) + 1 .. Len(com) : q[j].id = com[n]
      BY <1>0, <2>7, <3>1
    <3>3. n \in 1 .. Len(com) /\ com[n] # x.id
      BY <1>1
    <3>4. l # Len(com) + 1
      BY <1>3, <1>8, <3>1, <3>2, <3>3
    <3>5. l \in 1 .. Len(com) /\ com[l] = c2[l]
      <4>2. l \in 1 .. Len(com) \/ l = Len(com) + 1
        BY <1>c
      <4>. QED  BY <1>3, <3>4, <4>2
    <3>. QED  BY <1>0, <1>8, <2>1, <2>2, <2>6, <2>7, <3>1, <3>5
  <2>8. CASE j = Len(q) + 1
    <3>1. c2[l] = x.id
      BY <1>4, <1>8, <2>8
    <3>2. l \notin 1 .. Len(com)
      BY <1>3, <3>1
    <3>3. l = Len(com) + 1
      <4>2. l \in 1 .. Len(com) \/ l = Len(com) + 1
        BY <1>c
      <4>. QED  BY <3>2, <4>2
    <3>. QED  BY <1>1, <2>6, <3>3
  <2>9. j \in 1 .. Len(q) \/ j = Len(q) + 1
    BY <1>d
  <2>. QED  BY <2>7, <2>8, <2>9
<1>9. LaneOK(q2, c2, del)
  BY <1>5, <1>6, <1>7, <1>8 DEF LaneOK
<1>. QED  BY <1>9 DEF q2, c2

\* The hand-over of an ordinary one.
LEMMA LaneOrdinary ==
  ASSUME NEW q \in Seq(Item), NEW com \in Seq(Nat), NEW del \in Seq(Nat), LaneOK(q, com, del),
         NEW x \in Item, ~Reserved(x)
  PROVE  LaneOK(Append(q, x), com, del)
<1>1. Len(q) \in Nat
  OBVIOUS
<1>. DEFINE q2 == Append(q, x)
<1>2. /\ Len(q2) = Len(q) + 1 /\ q2[Len(q) + 1] = x /\ \A i \in 1 .. Len(q) : q2[i] = q[i]
  BY <1>1
<1>. HIDE DEF q2
<1>3. \A i \in 1 .. Len(q2) : Reserved(q2[i]) => i \in 1 .. Len(q) /\ q2[i] = q[i]
  BY <1>1, <1>2
<1>4. \A i \in 1 .. Len(q) : i \in 1 .. Len(q2) /\ q2[i] = q[i]
  BY <1>1, <1>2
<1>5. \A k \in Len(del) + 1 .. Len(com) :
        \E i \in 1 .. Len(q2) : Reserved(q2[i]) /\ q2[i].id = com[k]
  BY <1>4 DEF LaneOK
<1>6. \A i \in 1 .. Len(q2) : Reserved(q2[i]) =>
        \E k \in Len(del) + 1 .. Len(com) : q2[i].id = com[k]
  <2>. SUFFICES ASSUME NEW i \in 1 .. Len(q2), Reserved(q2[i])
                PROVE  \E k \in Len(del) + 1 .. Len(com) : q2[i].id = com[k]
    OBVIOUS
  <2>1. i \in 1 .. Len(q) /\ q2[i] = q[i] /\ Reserved(q[i])
    BY <1>3
  <2>. QED  BY <2>1 DEF LaneOK
<1>7. \A i, j \in 1 .. Len(q2) : \A k, l \in 1 .. Len(com) :
        i < j /\ Reserved(q2[i]) /\ Reserved(q2[j]) /\ q2[i].id = com[k] /\ q2[j].id = com[l] => k < l
  BY <1>3 DEF LaneOK
<1>8. LaneOK(q2, com, del)
  BY <1>5, <1>6, <1>7 DEF LaneOK
<1>. QED  BY <1>8 DEF q2

\* The oldest item leaves the lane: a reserved one is the oldest commit not delivered.
LEMMA LaneTail ==
  ASSUME NEW q \in Seq(Item), NEW com \in Seq(Nat), NEW del \in Seq(Nat), LaneOK(q, com, del),
         Distinct(com), q # <<>>
  PROVE  /\ LaneOK(Tail(q), com, del \o handed(Head(q)))
         /\ \/ del \o handed(Head(q)) = del
            \/ /\ Len(del) < Len(com)
               /\ del \o handed(Head(q)) = Append(del, com[Len(del) + 1])
<1>1. Len(com) \in Nat /\ Len(del) \in Nat /\ Len(q) \in Nat \ {0} /\ Head(q) = q[1]
  OBVIOUS
<1>2. PICK r : r = Tail(q)
  OBVIOUS
<1>3. Len(r) = Len(q) - 1 /\ \A i \in 1 .. Len(r) : r[i] = q[i + 1]
  BY <1>2
<1>a. \A i \in 1 .. Len(r) : i + 1 \in 1 .. Len(q) /\ 1 < i + 1
  BY <1>1, <1>3
<1>b. \A i \in 1 .. Len(q) : i # 1 => \E j \in 1 .. Len(r) : r[j] = q[i]
  <2>. SUFFICES ASSUME NEW i \in 1 .. Len(q), i # 1 PROVE \E j \in 1 .. Len(r) : r[j] = q[i]
    OBVIOUS
  <2>1. i - 1 \in 1 .. Len(r) /\ (i - 1) + 1 = i
    BY <1>1, <1>3
  <2>2. r[i - 1] = q[(i - 1) + 1]
    BY <1>3, <2>1
  <2>. QED  BY <2>1, <2>2
<1>4. /\ Len(del) <= Len(com) /\ \A k \in 1 .. Len(del) : del[k] = com[k]
      /\ \A k \in Len(del) + 1 .. Len(com) :
           \E i \in 1 .. Len(q) : Reserved(q[i]) /\ q[i].id = com[k]
      /\ \A i \in 1 .. Len(q) : Reserved(q[i]) =>
           \E k \in Len(del) + 1 .. Len(com) : q[i].id = com[k]
      /\ \A i, j \in 1 .. Len(q) : \A k, l \in 1 .. Len(com) :
           i < j /\ Reserved(q[i]) /\ Reserved(q[j]) /\ q[i].id = com[k] /\ q[j].id = com[l] => k < l
  BY DEF LaneOK
<1>6. ASSUME NEW i \in 1 .. Len(r), NEW j \in 1 .. Len(r), NEW k \in 1 .. Len(com), NEW l \in 1 .. Len(com),
             i < j, Reserved(r[i]), Reserved(r[j]), r[i].id = com[k], r[j].id = com[l]
      PROVE  k < l
  <2>1. i + 1 \in 1 .. Len(q) /\ j + 1 \in 1 .. Len(q)
    BY <1>a
  <2>3. i + 1 < j + 1
    BY <1>6
  <2>2. r[i] = q[i + 1] /\ r[j] = q[j + 1]
    BY <1>3
  <2>. QED  BY <1>4, <1>6, <2>1, <2>2, <2>3
<1>7. CASE ~Reserved(q[1])
  <2>1. del \o handed(Head(q)) = del
    <3>1. handed(Head(q)) = <<>>
      BY <1>1, <1>7 DEF handed, Reserved
    <3>. QED  BY <3>1
  <2>2. ASSUME NEW k \in Len(del) + 1 .. Len(com)
        PROVE  \E i \in 1 .. Len(r) : Reserved(r[i]) /\ r[i].id = com[k]
    <3>1. PICK i \in 1 .. Len(q) : Reserved(q[i]) /\ q[i].id = com[k]
      BY <1>4
    <3>2. i # 1
      BY <1>7, <3>1
    <3>. QED  BY <1>b, <3>1, <3>2
  <2>3. \A i \in 1 .. Len(r) : Reserved(r[i]) => \E k \in Len(del) + 1 .. Len(com) : r[i].id = com[k]
    <3>. SUFFICES ASSUME NEW i \in 1 .. Len(r), Reserved(r[i])
                  PROVE  \E k \in Len(del) + 1 .. Len(com) : r[i].id = com[k]
      OBVIOUS
    <3>1. i + 1 \in 1 .. Len(q) /\ r[i] = q[i + 1]
      BY <1>a, <1>3
    <3>. QED  BY <1>4, <3>1
  <2>4. LaneOK(r, com, del)
    BY <1>4, <1>6, <2>2, <2>3 DEF LaneOK
  <2>. QED  BY <1>2, <2>1, <2>4
<1>8. CASE Reserved(q[1])
  <2>0. 1 \in 1 .. Len(q)
    BY <1>1
  <2>1. PICK k \in Len(del) + 1 .. Len(com) : q[1].id = com[k]
    BY <1>4, <1>8, <2>0
  <2>2. Len(del) + 1 \in 1 .. Len(com) /\ Len(del) < Len(com) /\ k \in 1 .. Len(com)
        /\ Len(del) + 1 \in Len(del) + 1 .. Len(com)
    BY <1>1
  <2>3. k = Len(del) + 1
    <3>1. PICK j \in 1 .. Len(q) : Reserved(q[j]) /\ q[j].id = com[Len(del) + 1]
      BY <1>4, <2>2
    <3>2. CASE j = 1
      BY <2>1, <2>2, <3>1, <3>2 DEF Distinct
    <3>3. CASE j # 1
      <4>1. 1 < j
        BY <1>1, <3>3
      <4>2. k < Len(del) + 1
        BY <1>4, <1>8, <2>0, <2>1, <2>2, <3>1, <4>1
      <4>. QED  BY <1>1, <2>1, <4>2
    <3>. QED  BY <3>2, <3>3
  <2>. DEFINE d2 == Append(del, com[Len(del) + 1])
  <2>4. com[Len(del) + 1] \in Nat
    BY <2>2
  <2>5. del \o handed(Head(q)) = d2
    <3>1. Reserved(Head(q)) /\ Head(q).id = com[Len(del) + 1]
      BY <1>1, <1>8, <2>1, <2>3
    <3>2. handed(Head(q)) = <<com[Len(del) + 1]>>
      BY <3>1 DEF handed, Reserved
    <3>3. PICK v : v = com[Len(del) + 1]
      OBVIOUS
    <3>4. del \o <<v>> = Append(del, v)
      OBVIOUS
    <3>. QED  BY <3>2, <3>3, <3>4
  <2>6. /\ Len(d2) = Len(del) + 1
        /\ d2[Len(del) + 1] = com[Len(del) + 1] /\ \A m \in 1 .. Len(del) : d2[m] = del[m]
    BY <1>1, <2>4
  <2>. HIDE DEF d2
  <2>7. Len(d2) <= Len(com) /\ \A m \in 1 .. Len(d2) : d2[m] = com[m]
    <3>1. ASSUME NEW m \in 1 .. Len(d2) PROVE d2[m] = com[m]
      <4>1. m \in 1 .. Len(del) \/ m = Len(del) + 1
        BY <1>1, <2>6
      <4>. QED  BY <1>4, <2>6, <4>1
    <3>. QED  BY <1>1, <2>2, <2>6, <3>1
  <2>8. ASSUME NEW m \in Len(d2) + 1 .. Len(com)
        PROVE  \E i \in 1 .. Len(r) : Reserved(r[i]) /\ r[i].id = com[m]
    <3>1. m \in Len(del) + 1 .. Len(com) /\ m # k /\ m \in 1 .. Len(com)
      BY <1>1, <2>3, <2>6
    <3>2. PICK i \in 1 .. Len(q) : Reserved(q[i]) /\ q[i].id = com[m]
      BY <1>4, <3>1
    <3>3. i # 1
      BY <2>1, <2>2, <3>1, <3>2 DEF Distinct
    <3>. QED  BY <1>b, <3>2, <3>3
  <2>9. ASSUME NEW i \in 1 .. Len(r), Reserved(r[i])
        PROVE  \E m \in Len(d2) + 1 .. Len(com) : r[i].id = com[m]
    <3>1. i + 1 \in 1 .. Len(q) /\ r[i] = q[i + 1] /\ 1 < i + 1
      BY <1>a, <1>3
    <3>2. PICK m \in Len(del) + 1 .. Len(com) : q[i + 1].id = com[m]
      BY <1>4, <2>9, <3>1
    <3>3. m \in 1 .. Len(com)
      BY <1>1
    <3>4. k < m
      BY <1>4, <1>8, <2>0, <2>1, <2>2, <2>9, <3>1, <3>2, <3>3
    <3>5. m \in Len(d2) + 1 .. Len(com)
      BY <1>1, <2>3, <2>6, <3>3, <3>4
    <3>. QED  BY <3>1, <3>2, <3>5
  <2>10. LaneOK(r, com, d2)
    BY <1>6, <2>7, <2>8, <2>9 DEF LaneOK
  <2>. QED  BY <1>2, <2>2, <2>5, <2>10 DEF d2
<1>. QED  BY <1>7, <1>8

\* Publications of t after its step: as before, one of them moved on, or a new one.
Reshapes(t) ==
  \A e \in Frames(t)' :
    \/ e \in Frames(t)
    \/ /\ TargetOK(e)
       /\ \/ e.id = started + 1 /\ started' = started + 1
          \/ \E d \in Frames(t) : e.id = d.id /\ (e.at \in Pending => d.at \in Pending)

\* The reserved lane is left alone.
LaneStays ==
  /\ ordered' = ordered /\ draining' = draining /\ committed' = committed
  /\ delivered' = delivered

\* A step of t that commits and delivers nothing keeps the invariant.
LEMMA LogQuiet ==
  ASSUME IInv, LogInv, NEW t \in Threads, Moves(t), QueuesStay, LaneStays, Reshapes(t),
         started' \in {started, started + 1}
  PROVE  LogInv'
<1>1. /\ TypeOK /\ OneInbox /\ Aimed /\ Apart /\ Commits /\ LaneOK(lane, committed, delivered)
      /\ started \in Nat /\ inbox \in Seq(Inbox) /\ ordered \in 0 .. Len(inbox)
  <2>1. TypeOK /\ OneInbox /\ Aimed /\ Apart /\ Commits /\ LaneOK(lane, committed, delivered)
    BY DEF IInv, LogInv
  <2>2. started \in 0 .. MaxEvents /\ inbox \in Seq(Inbox) /\ ordered \in 0 .. Len(inbox)
    BY <2>1 DEF TypeOK
  <2>3. started \in Nat
    BY <2>2, ConstAssumption
  <2>. QED  BY <2>1, <2>2, <2>3
<1>2. ordered # NoInbox => ordered \in DOMAIN inbox
  BY <1>1 DEF NoInbox
<1>3. OneInbox'
  BY <1>1, <1>2 DEF OneInbox, QueuesStay, LaneStays, NoInbox, IInv, OneOrder
<1>4. lane' = lane
  BY <1>2 DEF lane, QueuesStay, LaneStays, NoInbox
<1>5. LaneOK(lane, committed, delivered)'
  BY <1>1, <1>4 DEF LaneStays, LaneOK, Reserved
<1>6. Commits'
  BY <1>1 DEF Commits, Distinct, LaneStays
<1>7. \A u \in Threads \ {t} : Frames(u)' = Frames(u)
  BY DEF Frames, Moves
<1>8. ASSUME NEW f, TargetOK(f) PROVE TargetOK(f)'
  BY <1>2, <1>8 DEF TargetOK, LaneStays, QueuesStay, NoInbox
<1>9. ASSUME NEW f, IdentityOK(f) PROVE IdentityOK(f)'
  <2>1. f.id \in 1 .. started'
    BY <1>1, <1>9 DEF IdentityOK
  <2>. QED  BY <1>9, <2>1 DEF IdentityOK, LaneStays, Pending
<1>10. ASSUME NEW e \in Frames(t)', e \notin Frames(t) PROVE TargetOK(e) /\ IdentityOK(e)'
  <2>1. TargetOK(e)
    BY <1>10 DEF Reshapes
  <2>2. CASE e.id = started + 1 /\ started' = started + 1
    <3>1. e.id \in 1 .. started'
      BY <1>1, <2>2
    <3>2. \A k \in 1 .. Len(committed) : committed[k] # started + 1
      BY <1>1 DEF Commits
    <3>. QED  BY <2>1, <2>2, <3>1, <3>2 DEF IdentityOK, LaneStays
  <2>3. ASSUME NEW d \in Frames(t), e.id = d.id, e.at \in Pending => d.at \in Pending
        PROVE  IdentityOK(e)
    <3>1. IdentityOK(d)
      BY <1>1 DEF Aimed
    <3>. QED  BY <2>3, <3>1 DEF IdentityOK
  <2>. QED  BY <1>9, <1>10, <2>1, <2>2, <2>3 DEF Reshapes
<1>11. Aimed'
  <2>1. ASSUME NEW u \in Threads, NEW e \in Frames(u)' PROVE TargetOK(e)' /\ IdentityOK(e)'
    <3>1. CASE e \in Frames(u)
      <4>1. TargetOK(e) /\ IdentityOK(e)
        BY <1>1, <3>1 DEF Aimed
      <4>. QED  BY <1>8, <1>9, <4>1
    <3>2. CASE e \notin Frames(u)
      <4>1. u = t
        BY <1>7, <2>1, <3>2
      <4>. QED  BY <1>8, <1>10, <2>1, <3>2, <4>1
    <3>. QED  BY <3>1, <3>2
  <2>. QED  BY <2>1 DEF Aimed
<1>12. ASSUME NEW e \in Frames(t)', NEW u \in Threads \ {t}, NEW f \in Frames(u),
              e.at \in Pending, f.at \in Pending
       PROVE  e.id # f.id
  <2>0. f.id \in 1 .. started
    BY <1>1 DEF Aimed, IdentityOK
  <2>1. CASE e \in Frames(t)
    BY <1>1, <1>12, <2>1 DEF Apart
  <2>2. CASE e.id = started + 1
    BY <1>1, <2>0, <2>2
  <2>3. ASSUME NEW d \in Frames(t), e.id = d.id, e.at \in Pending => d.at \in Pending
        PROVE  e.id # f.id
    BY <1>1, <1>12, <2>3 DEF Apart
  <2>. QED  BY <2>1, <2>2, <2>3 DEF Reshapes
<1>13. Apart'
  <2>. SUFFICES ASSUME NEW v \in Threads, NEW u \in Threads, NEW f \in Frames(v)', NEW e \in Frames(u)',
                       f.at \in Pending, e.at \in Pending, f.id = e.id
                PROVE  v = u
    BY DEF Apart, Pending
  <2>1. CASE v = t /\ u # t
    BY <1>7, <1>12, <2>1
  <2>2. CASE u = t /\ v # t
    BY <1>7, <1>12, <2>2
  <2>3. CASE v # t /\ u # t
    <3>1. f \in Frames(v) /\ e \in Frames(u)
      BY <1>7, <2>3
    <3>. QED  BY <1>1, <3>1 DEF Apart
  <2>. QED  BY <2>1, <2>2, <2>3
<1>. QED  BY <1>3, <1>5, <1>6, <1>11, <1>13 DEF LogInv

\* The running publication moves on.
LEMMA LogSet ==
  ASSUME IInv, LogInv, NEW t \in Threads, stack[t] # <<>>, NEW f \in Frame, set_top(t, f),
         f.id = top(t).id, f.at \in Pending => top(t).at \in Pending, TargetOK(f),
         QueuesStay, LaneStays, started' = started
  PROVE  LogInv'
<1>0. TypeOK /\ Suspended /\ top(t) \in Frames(t)
  BY TopOK
<1>1. Moves(t) /\ Frames(t)' \subseteq Frames(t) \cup {f}
  BY <1>0, SetTop DEF Moves
<1>2. Reshapes(t)
  BY <1>0, <1>1 DEF Reshapes
<1>. QED  BY <1>1, <1>2, LogQuiet

\* It ends.
LEMMA LogPop ==
  ASSUME IInv, LogInv, NEW t \in Threads, stack[t] # <<>>, pop_top(t),
         QueuesStay, LaneStays, started' = started
  PROVE  LogInv'
<1>0. TypeOK /\ Suspended
  BY TopOK
<1>1. Moves(t) /\ Frames(t)' \subseteq Frames(t)
  BY <1>0, PopTop DEF Moves
<1>2. Reshapes(t)
  BY <1>1 DEF Reshapes
<1>. QED  BY <1>1, <1>2, LogQuiet

\* A new one starts.
LEMMA LogPush ==
  ASSUME IInv, LogInv, NEW t \in Threads, NEW f \in Frame, f.id = started + 1, TargetOK(f),
         stack[t] = <<>> \/ top(t).at = "observe",
         stack' = [stack EXCEPT ![t] = Append(stack[t], f)],
         QueuesStay, LaneStays, started' = started + 1
  PROVE  LogInv'
<1>0. TypeOK /\ Suspended
  BY DEF IInv
<1>1. Moves(t) /\ Frames(t)' \subseteq Frames(t) \cup {f}
  BY <1>0, PushTop DEF Moves
<1>2. Reshapes(t)
  BY <1>1 DEF Reshapes
<1>. QED  BY <1>1, <1>2, LogQuiet

\* The inboxes as they were.
LEMMA SameInboxes ==
  ASSUME IInv, inbox' = inbox
  PROVE  QueuesStay
<1>1. inbox \in Seq(Inbox)
  BY DEF IInv, TypeOK
<1>. QED  BY <1>1 DEF QueuesStay

\* The steps of a thread other than the stamp leave the reserved lane alone.
LEMMA LogThread ==
  ASSUME IInv, LogInv, NEW t \in Threads,
         \/ ReserveStart(t) \/ ReserveDelivery(t) \/ ReserveHandoff(t)
         \/ ReserveSlot(t) \/ Cancel(t) \/ Commit(t) \/ Publish(t)
         \/ CommitGuard(t) \/ Guarded(t) \/ Broadcast(t) \/ Observe(t)
         \/ (\E g \in Gates : ObserverRetire(t, g)) \/ ObserverRetired(t)
         \/ Unlock(t) \/ EnqueueRoute(t)
  PROVE  LogInv' /\ UNCHANGED <<committed, delivered>>
<1>0. LaneStays
  BY DEF LaneStays, ReserveStart, ReserveDelivery, ReserveHandoff, ReserveSlot, Cancel, Commit,
         Publish, CommitGuard, Guarded, Broadcast, Observe, ObserverRetire, ObserverRetired,
         Unlock, EnqueueRoute
<1>1. ASSUME stack[t] # <<>>
      PROVE  top(t) \in Frame /\ TargetOK(top(t)) /\ HandoffOK(top(t))
  <2>1. top(t) \in Frame /\ top(t) \in Frames(t) /\ HandoffOK(top(t))
    BY <1>1, TopOK
  <2>. QED  BY <2>1 DEF LogInv, Aimed
<1>2. CASE ReserveStart(t)
  <2>. DEFINE f == NewFrame("reserve", TRUE)
  <2>1. f \in Frame /\ f.id = started + 1 /\ f.at = "reserve"
    BY <1>2, NewFrameOK DEF ReserveStart, NewFrame
  <2>2. stack' = [stack EXCEPT ![t] = <<f>>] /\ stack[t] = <<>> /\ started' = started + 1
        /\ inbox' = inbox
    BY <1>2 DEF ReserveStart
  <2>. HIDE DEF f
  <2>3. stack' = [stack EXCEPT ![t] = Append(stack[t], f)]
    BY <2>2
  <2>4. TargetOK(f)
    BY <2>1 DEF TargetOK
  <2>. QED  BY <1>0, <2>1, <2>2, <2>3, <2>4, SameInboxes, LogPush DEF LaneStays
<1>3. CASE Publish(t)
  <2>. DEFINE f == NewFrame("stamp", FALSE)
  <2>1. f \in Frame /\ f.id = started + 1 /\ f.handoff = NoInbox /\ ~f.delivery
    BY <1>3, NewFrameOK DEF Publish, NewFrame
  <2>2. stack' = [stack EXCEPT ![t] = Append(stack[t], f)] /\ started' = started + 1
        /\ (stack[t] = <<>> \/ top(t).at = "observe") /\ inbox' = inbox
    BY <1>3 DEF Publish, in_callback, running
  <2>. HIDE DEF f
  <2>3. TargetOK(f)
    BY <2>1 DEF TargetOK
  <2>. QED  BY <1>0, <2>1, <2>2, <2>3, SameInboxes, LogPush DEF LaneStays
<1>4. ASSUME stack[t] # <<>>, started' = started, pop_top(t),
             \/ inbox' = inbox
             \/ inbox' = release_permit(top(t).handoff) /\ top(t).at \in Slotted
      PROVE  LogInv'
  <2>1. QueuesStay
    BY <1>4, SameInboxes, PermitReleased DEF QueuesStay
  <2>. QED  BY <1>0, <1>4, <2>1, LogPop
<1>5. ASSUME NEW f \in Frame, stack[t] # <<>>, started' = started, inbox' = inbox, set_top(t, f),
             f.id = top(t).id, f.at \in Pending => top(t).at \in Pending,
             f.at \notin {"guards", "stamp"} \/ TargetOK(f)
      PROVE  LogInv'
  <2>1. TargetOK(f)
    BY <1>5 DEF TargetOK
  <2>. QED  BY <1>0, <1>5, <2>1, SameInboxes, LogSet
<1>6. CASE ReserveDelivery(t)
  <2>1. stack[t] # <<>> /\ top(t).at = "reserve" /\ inbox' = inbox /\ started' = started
    BY <1>6 DEF ReserveDelivery, running
  <2>2. CASE pop_top(t)
    BY <1>0, <1>4, <2>1, <2>2 DEF LaneStays
  <2>3. CASE set_top(t, [top(t) EXCEPT !.at = "handoff"])
    <3>. DEFINE f == [top(t) EXCEPT !.at = "handoff"]
    <3>1. f \in Frame /\ f.at = "handoff" /\ f.id = top(t).id /\ set_top(t, f)
      BY <1>1, <2>1, <2>3 DEF Frame
    <3>. HIDE DEF f
    <3>. QED  BY <1>0, <1>5, <2>1, <3>1 DEF LaneStays, Pending
  <2>4. ASSUME NEW gs \in SUBSET Gates,
               set_top(t, [top(t) EXCEPT !.at = "handoff", !.delivery = TRUE, !.gates = gs])
        PROVE  LogInv'
    <3>. DEFINE f == [top(t) EXCEPT !.at = "handoff", !.delivery = TRUE, !.gates = gs]
    <3>1. f \in Frame /\ f.at = "handoff" /\ f.id = top(t).id /\ set_top(t, f)
      BY <1>1, <2>1, <2>4 DEF Frame
    <3>. HIDE DEF f
    <3>. QED  BY <1>0, <1>5, <2>1, <3>1 DEF LaneStays, Pending
  <2>. QED  BY <1>0, <1>6, <2>2, <2>3, <2>4 DEF ReserveDelivery, LaneStays
<1>7. CASE ReserveHandoff(t)
  <2>1. stack[t] # <<>> /\ top(t).at = "handoff" /\ inbox' = inbox /\ started' = started
    BY <1>7 DEF ReserveHandoff, running
  <2>2. ordered \in 0 .. MaxInboxes
    <3>1. ordered \in 0 .. Len(inbox) /\ Len(inbox) <= MaxInboxes /\ inbox \in Seq(Inbox)
      BY DEF IInv, TypeOK
    <3>. QED  BY <3>1, ConstAssumption
  <2>. DEFINE l == IF ordered = NoInbox THEN "reserved" ELSE "slot"
              f == [top(t) EXCEPT !.at = l, !.handoff = ordered]
  <2>3. f \in Frame /\ f.at \notin {"guards", "stamp"} /\ f.id = top(t).id
    BY <1>1, <2>1, <2>2 DEF Frame
  <2>4. set_top(t, f)
    BY <1>7 DEF ReserveHandoff
  <2>. HIDE DEF f, l
  <2>. QED  BY <1>0, <1>5, <2>1, <2>3, <2>4 DEF LaneStays, Pending
<1>8. CASE ReserveSlot(t)
  <2>0. stack[t] # <<>> /\ top(t).at = "slot" /\ started' = started
    BY <1>8 DEF ReserveSlot, running
  <2>1. PICK c : c = top(t).handoff
    OBVIOUS
  <2>2. c \in DOMAIN inbox /\ inbox[c] \in Inbox /\ TypeOK
    <3>1. inbox \in Seq(Inbox) /\ TypeOK
      BY DEF IInv, TypeOK
    <3>2. c \in 1 .. Len(inbox)
      BY <1>1, <2>0, <2>1 DEF HandoffOK, NoInbox
    <3>. QED  BY <3>1, <3>2
  <2>3. CASE pop_top(t) /\ inbox' = inbox
    BY <1>0, <1>4, <2>0, <2>3 DEF LaneStays
  <2>4. CASE /\ inbox' = [inbox EXCEPT ![c].permits = @ + 1]
             /\ set_top(t, [top(t) EXCEPT !.at = "reserved"])
    <3>. DEFINE b == [inbox[c] EXCEPT !.permits = inbox[c].permits + 1]
                f == [top(t) EXCEPT !.at = "reserved"]
    <3>0. inbox[c] \in Inbox /\ inbox[c].permits + 1 \in Nat
      BY <2>2 DEF Inbox
    <3>1. b \in Inbox /\ b.queue = inbox[c].queue /\ b.open = inbox[c].open
      BY <3>0 DEF Inbox
    <3>2. inbox' = [inbox EXCEPT ![c] = b]
      BY <2>4
    <3>3. f \in Frame /\ f.at = "reserved" /\ f.id = top(t).id /\ set_top(t, f)
      BY <1>1, <2>0, <2>4 DEF Frame
    <3>. HIDE DEF b, f
    <3>4. /\ inbox' \in Seq(Inbox) /\ Len(inbox') = Len(inbox) /\ DOMAIN inbox' = DOMAIN inbox
          /\ inbox'[c] = b /\ \A d \in DOMAIN inbox \ {c} : inbox'[d] = inbox[d]
      BY <2>2, <3>1, <3>2, InboxEdit
    <3>5. QueuesStay
      BY <3>1, <3>4 DEF QueuesStay
    <3>6. TargetOK(f)
      BY <3>3 DEF TargetOK
    <3>. QED  BY <1>0, <2>0, <3>3, <3>5, <3>6, LogSet DEF LaneStays, Pending
  <2>. QED  BY <1>8, <2>1, <2>3, <2>4 DEF ReserveSlot
<1>9. CASE Cancel(t)
  <2>1. /\ stack[t] # <<>> /\ started' = started /\ pop_top(t)
        /\ \/ inbox' = inbox
           \/ inbox' = release_permit(top(t).handoff) /\ top(t).at \in Slotted
    BY <1>9 DEF Cancel, cancelled_inbox, Slotted
  <2>. QED  BY <1>0, <1>4, <2>1 DEF LaneStays
<1>10. CASE Commit(t)
  <2>0. stack[t] # <<>> /\ top(t).at = "reserved" /\ started' = started
    BY <1>10 DEF Commit, running
  <2>1. CASE pop_top(t) /\ inbox' = release_permit(top(t).handoff)
    BY <1>0, <1>4, <2>0, <2>1 DEF LaneStays, Slotted
  <2>2. CASE ~stale(top(t)) /\ set_top(t, [top(t) EXCEPT !.at = "guards"]) /\ inbox' = inbox
    <3>. DEFINE f == [top(t) EXCEPT !.at = "guards"]
    <3>1. f \in Frame /\ f.id = top(t).id /\ f.handoff = top(t).handoff /\ set_top(t, f)
      BY <1>1, <2>0, <2>2 DEF Frame
    <3>. HIDE DEF f
    <3>2. /\ f.handoff = NoInbox => ordered = NoInbox
          /\ f.handoff # NoInbox => inbox[f.handoff].open
      BY <2>2, <3>1 DEF stale
    <3>3. f.handoff # NoInbox => f.handoff \in DOMAIN inbox
      <4>1. inbox \in Seq(Inbox)
        BY DEF IInv, TypeOK
      <4>2. f.handoff \in 0 .. Len(inbox)
        BY <1>1, <2>0, <3>1 DEF HandoffOK
      <4>. QED  BY <4>1, <4>2 DEF NoInbox
    <3>4. f.handoff # NoInbox => f.handoff = ordered
      BY <3>2, <3>3 DEF LogInv, OneInbox
    <3>5. TargetOK(f)
      BY <3>2, <3>4 DEF TargetOK
    <3>. QED  BY <1>0, <1>5, <2>0, <2>2, <3>1, <3>5 DEF LaneStays, Pending
  <2>. QED  BY <1>10, <2>1, <2>2 DEF Commit
<1>11. CASE CommitGuard(t)
  <2>0. stack[t] # <<>> /\ top(t).at = "guards" /\ started' = started
    BY <1>11 DEF CommitGuard, running
  <2>1. CASE pop_top(t) /\ inbox' = release_permit(top(t).handoff)
    BY <1>0, <1>4, <2>0, <2>1 DEF LaneStays, Slotted
  <2>2. ASSUME NEW g \in top(t).gates, set_top(t, [top(t) EXCEPT !.held = @ \cup {g}]), inbox' = inbox
        PROVE  LogInv'
    <3>. DEFINE f == [top(t) EXCEPT !.held = @ \cup {g}]
    <3>1. f \in Frame /\ f.id = top(t).id /\ f.at = top(t).at /\ f.handoff = top(t).handoff
          /\ f.delivery = top(t).delivery /\ set_top(t, f)
      BY <1>1, <2>0, <2>2 DEF Frame
    <3>. HIDE DEF f
    <3>2. TargetOK(f)
      BY <1>1, <2>0, <3>1 DEF TargetOK
    <3>. QED  BY <1>5, <2>0, <2>2, <3>1, <3>2
  <2>. QED  BY <1>0, <1>11, <2>1, <2>2 DEF CommitGuard, LaneStays
<1>12. CASE Guarded(t)
  <2>0. stack[t] # <<>> /\ top(t).at = "guards" /\ started' = started /\ inbox' = inbox
    BY <1>12 DEF Guarded, running
  <2>. DEFINE f == [top(t) EXCEPT !.at = "stamp"]
  <2>1. f \in Frame /\ f.id = top(t).id /\ f.handoff = top(t).handoff
        /\ f.delivery = top(t).delivery /\ set_top(t, f)
    BY <1>1, <1>12, <2>0 DEF Frame, Guarded
  <2>. HIDE DEF f
  <2>2. TargetOK(f)
    BY <1>1, <2>0, <2>1 DEF TargetOK
  <2>. QED  BY <1>0, <1>5, <2>0, <2>1, <2>2 DEF LaneStays, Pending
<1>13. CASE Broadcast(t)
  <2>0. stack[t] # <<>> /\ started' = started /\ inbox' = inbox
    BY <1>13 DEF Broadcast, running
  <2>. DEFINE f == [top(t) EXCEPT !.at = "observe"]
  <2>1. f \in Frame /\ f.id = top(t).id /\ f.at = "observe" /\ set_top(t, f)
    BY <1>1, <1>13, <2>0 DEF Frame, Broadcast
  <2>. HIDE DEF f
  <2>. QED  BY <1>0, <1>5, <2>0, <2>1 DEF LaneStays, Pending
<1>14. CASE Observe(t)
  <2>0. stack[t] # <<>> /\ started' = started /\ inbox' = inbox /\ top(t).at = "observe"
    BY <1>14 DEF Observe, running
  <2>. DEFINE f == [top(t) EXCEPT !.next = @ + 1]
  <2>1. f \in Frame /\ f.id = top(t).id /\ f.at = "observe" /\ set_top(t, f)
    <3>1. top(t).next + 1 \in Nat
      BY <1>1, <2>0 DEF Frame
    <3>. QED  BY <1>1, <1>14, <2>0, <3>1 DEF Frame, Observe
  <2>. HIDE DEF f
  <2>. QED  BY <1>0, <1>5, <2>0, <2>1 DEF LaneStays, Pending
<1>17. CASE (\E g \in Gates : ObserverRetire(t, g)) \/ ObserverRetired(t)
  <2>0. stack[t] # <<>> /\ started' = started /\ inbox' = inbox /\ top(t).at = "observe"
    BY <1>17 DEF ObserverRetire, ObserverRetired, in_callback, running
  <2>1. PICK rs \in SUBSET Gates : set_top(t, [top(t) EXCEPT !.retiring = rs])
    <3>1. CASE ObserverRetired(t)
      BY <3>1 DEF ObserverRetired
    <3>2. ASSUME NEW g \in Gates, ObserverRetire(t, g)
          PROVE  set_top(t, [top(t) EXCEPT !.retiring = {g}])
      BY <3>2 DEF ObserverRetire
    <3>. QED  BY <1>17, <3>1, <3>2
  <2>. DEFINE f == [top(t) EXCEPT !.retiring = rs]
  <2>2. f \in Frame /\ f.id = top(t).id /\ f.at = "observe" /\ set_top(t, f)
    BY <1>1, <2>0, <2>1 DEF Frame
  <2>. HIDE DEF f
  <2>. QED  BY <1>0, <1>5, <2>0, <2>2 DEF LaneStays, Pending
<1>15. CASE Unlock(t)
  <2>0. stack[t] # <<>> /\ started' = started /\ inbox' = inbox
    BY <1>15 DEF Unlock, running
  <2>. DEFINE f == [top(t) EXCEPT !.at = "route", !.todo = Routes]
  <2>1. f \in Frame /\ f.id = top(t).id /\ f.at = "route" /\ set_top(t, f)
    BY <1>1, <1>15, <2>0 DEF Frame, Unlock
  <2>. HIDE DEF f
  <2>. QED  BY <1>0, <1>5, <2>0, <2>1 DEF LaneStays, Pending
<1>16. CASE EnqueueRoute(t)
  <2>0. stack[t] # <<>> /\ started' = started /\ inbox' = inbox /\ top(t).at = "route"
    BY <1>16 DEF EnqueueRoute, running
  <2>1. CASE pop_top(t)
    BY <1>0, <1>4, <2>0, <2>1 DEF LaneStays
  <2>2. ASSUME NEW r \in top(t).todo, set_top(t, [top(t) EXCEPT !.todo = @ \ {r}])
        PROVE  LogInv'
    <3>. DEFINE f == [top(t) EXCEPT !.todo = @ \ {r}]
    <3>1. f \in Frame /\ f.id = top(t).id /\ f.at = "route" /\ set_top(t, f)
      BY <1>1, <2>0, <2>2 DEF Frame
    <3>. HIDE DEF f
    <3>. QED  BY <1>5, <2>0, <3>1 DEF Pending
  <2>. QED  BY <1>0, <1>16, <2>1, <2>2 DEF EnqueueRoute, LaneStays
<1>. QED  BY <1>2, <1>3, <1>6, <1>7, <1>8, <1>9, <1>10, <1>11, <1>12, <1>13, <1>14, <1>15, <1>16,
         <1>17

\* The hand-over goes to the installed inbox, and to an open one.
LEMMA HandOverLane ==
  ASSUME IInv, LogInv, NEW t \in Threads, Stamp(t), NEW item,
         item = [id |-> top(t).id, seq |-> ipc_seq, reserved |-> top(t).delivery]
  PROVE  /\ inbox' \in Seq(Inbox) /\ DOMAIN inbox' = DOMAIN inbox
         /\ \A c \in DOMAIN inbox : inbox'[c].open = inbox[c].open
         /\ \A c \in DOMAIN inbox \ {ordered} : inbox'[c].queue = inbox[c].queue
         /\ ordered # NoInbox /\ inbox'[ordered].queue # inbox[ordered].queue
              => inbox[ordered].open
         /\ lane' = lane \/ lane' = Append(lane, item)
         /\ top(t).delivery /\ ordered # NoInbox => lane' = Append(lane, item)
         /\ top(t).delivery /\ ordered = NoInbox => top(t).handoff = NoInbox
         /\ top(t).handoff # NoInbox => ordered # NoInbox
<1>0. stack[t] # <<>> /\ top(t).at = "stamp" /\ ordered' = ordered
  BY DEF Stamp, running
<1>1. TypeOK /\ top(t) \in Frame /\ top(t) \in Frames(t) /\ HandoffOK(top(t))
  BY <1>0, TopOK
<1>2. inbox \in Seq(Inbox) /\ ordered \in 0 .. Len(inbox) /\ (ordered # NoInbox => ordered \in DOMAIN inbox)
  <2>1. inbox \in Seq(Inbox) /\ ordered \in 0 .. Len(inbox)
    BY <1>1 DEF TypeOK
  <2>. QED  BY <2>1 DEF NoInbox
<1>3. top(t).handoff # NoInbox \/ top(t).delivery =>
        top(t).handoff = ordered /\ (ordered # NoInbox => inbox[ordered].open)
  BY <1>0, <1>1 DEF LogInv, Aimed, TargetOK
<1>4. inbox' \in Seq(Inbox) /\ DOMAIN inbox' = DOMAIN inbox
  BY HandOver
<1>5. CASE top(t).handoff # NoInbox
  <2>1. /\ ordered # NoInbox /\ inbox[ordered].open
        /\ inbox' = [inbox EXCEPT ![ordered].queue = Append(@, item), ![ordered].permits = @ - 1]
    <3>1. inbox' = [inbox EXCEPT ![top(t).handoff].queue = Append(@, item),
                                 ![top(t).handoff].permits = @ - 1]
      BY <1>5 DEF Stamp
    <3>. QED  BY <1>3, <1>5, <3>1
  <2>2. /\ inbox'[ordered].queue = Append(inbox[ordered].queue, item)
        /\ inbox'[ordered].open = inbox[ordered].open
        /\ \A c \in DOMAIN inbox \ {ordered} : inbox'[c] = inbox[c]
    <3>. DEFINE b == [inbox[ordered] EXCEPT !.queue = Append(inbox[ordered].queue, item),
                                            !.permits = inbox[ordered].permits - 1]
    <3>1. inbox[ordered] \in Inbox
      BY <1>2, <2>1
    <3>2. b.queue = Append(inbox[ordered].queue, item) /\ b.open = inbox[ordered].open
      BY <3>1 DEF Inbox
    <3>3. inbox' = [inbox EXCEPT ![ordered] = b]
      BY <2>1
    <3>. HIDE DEF b
    <3>. QED  BY <1>2, <2>1, <3>2, <3>3
  <2>3. lane' = Append(lane, item)
    BY <1>0, <2>1, <2>2 DEF lane, NoInbox
  <2>. QED  BY <1>4, <1>5, <2>1, <2>2, <2>3
<1>6. CASE top(t).handoff = NoInbox /\ ordered # NoInbox
  <2>0. ~top(t).delivery
    BY <1>3, <1>6
  <2>1. CASE inbox[ordered].open /\ used(ordered) < Capacity
    <3>0. inbox' = [inbox EXCEPT ![ordered].queue = Append(@, item)]
      BY <1>6, <2>1 DEF Stamp
    <3>. DEFINE b == [inbox[ordered] EXCEPT !.queue = Append(inbox[ordered].queue, item)]
    <3>1. inbox[ordered] \in Inbox
      BY <1>2, <1>6
    <3>2. b.queue = Append(inbox[ordered].queue, item) /\ b.open = inbox[ordered].open
      BY <3>1 DEF Inbox
    <3>3. inbox' = [inbox EXCEPT ![ordered] = b]
      BY <3>0
    <3>. HIDE DEF b
    <3>4. /\ inbox'[ordered].queue = Append(inbox[ordered].queue, item)
          /\ inbox'[ordered].open = inbox[ordered].open
          /\ \A c \in DOMAIN inbox \ {ordered} : inbox'[c] = inbox[c]
      BY <1>2, <1>6, <3>2, <3>3
    <3>5. lane' = Append(lane, item)
      BY <1>0, <1>6, <3>4 DEF lane, NoInbox
    <3>. QED  BY <1>4, <1>6, <2>0, <2>1, <3>4, <3>5
  <2>2. CASE ~(inbox[ordered].open /\ used(ordered) < Capacity)
    <3>. DEFINE room == ordered # NoInbox /\ inbox[ordered].open /\ used(ordered) < Capacity
    <3>0. inbox' = [inbox EXCEPT ![ordered].lagged = @ + 1]
      <4>1. top(t).handoff = NoInbox /\ ~room /\ ordered # NoInbox
        BY <1>6, <2>2
      <4>. QED  BY <4>1 DEF Stamp
    <3>. DEFINE b == [inbox[ordered] EXCEPT !.lagged = inbox[ordered].lagged + 1]
    <3>1. inbox[ordered] \in Inbox
      BY <1>2, <1>6
    <3>2. b.queue = inbox[ordered].queue /\ b.open = inbox[ordered].open
      BY <3>1 DEF Inbox
    <3>3. inbox' = [inbox EXCEPT ![ordered] = b]
      BY <3>0
    <3>. HIDE DEF b
    <3>4. /\ inbox'[ordered].queue = inbox[ordered].queue
          /\ inbox'[ordered].open = inbox[ordered].open
          /\ \A c \in DOMAIN inbox \ {ordered} : inbox'[c] = inbox[c]
      BY <1>2, <1>6, <3>2, <3>3
    <3>5. lane' = lane
      BY <1>0, <1>6, <3>4 DEF lane, NoInbox
    <3>. QED  BY <1>4, <1>6, <2>0, <3>4, <3>5
  <2>. QED  BY <2>1, <2>2
<1>7. CASE top(t).handoff = NoInbox /\ ordered = NoInbox
  <2>1. inbox' = inbox
    BY <1>7 DEF Stamp
  <2>2. lane' = lane
    BY <1>0, <1>7 DEF lane, NoInbox
  <2>. QED  BY <1>4, <1>7, <2>1, <2>2
<1>. QED  BY <1>5, <1>6, <1>7

\* What the lane, the commits and the deliveries are made of.
LEMMA LaneTyped ==
  ASSUME IInv
  PROVE  /\ lane \in Seq(Item) /\ committed \in Seq(Nat) /\ delivered \in Seq(Nat)
         /\ inbox \in Seq(Inbox) /\ (ordered # NoInbox => ordered \in DOMAIN inbox)
         /\ started \in Nat /\ started <= MaxEvents
<1>1. /\ inbox \in Seq(Inbox) /\ ordered \in 0 .. Len(inbox) /\ committed \in Seq(Nat)
      /\ delivered \in Seq(Nat) /\ started \in 0 .. MaxEvents
  BY DEF IInv, TypeOK
<1>2. ordered # NoInbox => ordered \in DOMAIN inbox
  BY <1>1 DEF NoInbox
<1>3. ordered # NoInbox => inbox[ordered] \in Inbox
  BY <1>1, <1>2
<1>4. lane \in Seq(Item)
  BY <1>3 DEF lane, Inbox, Item
<1>5. started \in Nat /\ started <= MaxEvents
  BY <1>1, ConstAssumption
<1>. QED  BY <1>1, <1>2, <1>4, <1>5

\* The stamp of a reserved publication is the commit of the log.
LEMMA LogStamp ==
  ASSUME IInv, LogInv, NEW t \in Threads, Stamp(t)
  PROVE  LogInv' /\ [Log!Next]_(Log!logVars)
<1>0. stack[t] # <<>> /\ top(t).at = "stamp" /\ ordered' = ordered /\ draining' = draining
      /\ started' = started
  BY DEF Stamp, running
<1>1. /\ TypeOK /\ Suspended /\ top(t) \in Frame /\ top(t) \in Frames(t) /\ GuardsOK(top(t))
      /\ OneInbox /\ Aimed /\ Apart /\ Commits /\ LaneOK(lane, committed, delivered)
  BY <1>0, TopOK DEF LogInv
<1>2. /\ lane \in Seq(Item) /\ committed \in Seq(Nat) /\ delivered \in Seq(Nat)
      /\ (ordered # NoInbox => ordered \in DOMAIN inbox) /\ started \in Nat /\ started <= MaxEvents
  BY LaneTyped
<1>3. PICK item : item = [id |-> top(t).id, seq |-> ipc_seq, reserved |-> top(t).delivery]
  OBVIOUS
<1>4. /\ inbox' \in Seq(Inbox) /\ DOMAIN inbox' = DOMAIN inbox
      /\ \A c \in DOMAIN inbox : inbox'[c].open = inbox[c].open
      /\ \A c \in DOMAIN inbox \ {ordered} : inbox'[c].queue = inbox[c].queue
      /\ ordered # NoInbox /\ inbox'[ordered].queue # inbox[ordered].queue
           => inbox[ordered].open
      /\ lane' = lane \/ lane' = Append(lane, item)
      /\ top(t).delivery /\ ordered # NoInbox => lane' = Append(lane, item)
      /\ top(t).delivery /\ ordered = NoInbox => top(t).handoff = NoInbox
      /\ top(t).handoff # NoInbox => ordered # NoInbox
  BY <1>3, HandOverLane
<1>5. PICK p : p = top(t).id
  OBVIOUS
<1>6. item \in Item /\ item.id = p /\ (Reserved(item) <=> top(t).delivery) /\ p \in Nat
  <2>1. ipc_seq \in Nat
    BY <1>1 DEF TypeOK
  <2>. QED  BY <1>1, <1>3, <1>5, <2>1 DEF Item, Frame, Reserved
<1>7. p \in 1 .. started /\ \A k \in 1 .. Len(committed) : committed[k] # p
  BY <1>0, <1>1, <1>5 DEF Aimed, IdentityOK, Pending
<1>f. PICK f : f = [top(t) EXCEPT !.at = "broadcast", !.seq = ipc_seq, !.held = {}]
  OBVIOUS
<1>8. f \in Frame /\ f.at = "broadcast" /\ f.id = p /\ set_top(t, f)
  <2>1. set_top(t, f)
    BY <1>f DEF Stamp, guards_dropped
  <2>2. ipc_seq \in Nat
    BY <1>1 DEF TypeOK
  <2>. QED  BY <1>1, <1>5, <1>f, <2>1, <2>2 DEF Frame
<1>9. Moves(t) /\ stack'[t][Len(stack'[t])] = f /\ Frames(t)' \subseteq Frames(t) \cup {f}
  BY <1>0, <1>1, <1>8, SetTop DEF Moves
<1>10. \A e \in Frames(t)' : e.at \notin Pending /\ e.at \notin {"guards", "stamp"} /\ e.id \in 1 .. started
  <2>1. ASSUME NEW e \in Frames(t)' PROVE e.at \in {"broadcast", "observe"}
    BY <1>8, <1>9, TopOrObserve
  <2>2. ASSUME NEW e \in Frames(t)' PROVE e.id \in 1 .. started
    <3>1. CASE e = f
      BY <1>7, <1>8, <3>1
    <3>2. CASE e \in Frames(t)
      BY <1>1, <3>2 DEF Aimed, IdentityOK
    <3>. QED  BY <1>9, <3>1, <3>2
  <2>. QED  BY <2>1, <2>2 DEF Pending
<1>11. \A u \in Threads \ {t} : Frames(u)' = Frames(u)
  BY <1>9 DEF Moves, Frames
<1>12. OneInbox'
  BY <1>0, <1>1, <1>2, <1>4 DEF OneInbox, NoInbox, IInv, OneOrder
<1>13. \/ top(t).delivery /\ committed' = Append(committed, p)
       \/ ~top(t).delivery /\ committed' = committed /\ delivered' = delivered
  BY <1>5 DEF Stamp
<1>14. committed' \in {committed, Append(committed, p)}
  BY <1>13
<1>15. /\ Commits'
       /\ \A e \in Frame : (e.at \in Pending => e.id # p) /\ IdentityOK(e) => IdentityOK(e)'
  <2>1. CASE committed' = committed
    BY <1>0, <1>1, <2>1 DEF Commits, Distinct, IdentityOK, Pending
  <2>2. CASE committed' = Append(committed, p)
    <3>1. /\ Len(committed') = Len(committed) + 1 /\ Len(committed) \in Nat
          /\ committed'[Len(committed) + 1] = p
          /\ \A k \in 1 .. Len(committed) : committed'[k] = committed[k]
      BY <1>2, <1>6, <2>2
    <3>2. \A k \in 1 .. Len(committed') : k \in 1 .. Len(committed) \/ k = Len(committed) + 1
      BY <3>1
    <3>3. \A k \in 1 .. Len(committed') : committed'[k] \in 1 .. started
      BY <1>1, <1>7, <3>1, <3>2 DEF Commits
    <3>4. Distinct(committed)
      BY <1>1 DEF Commits
    <3>5. ASSUME NEW i \in 1 .. Len(committed'), NEW j \in 1 .. Len(committed'),
                 committed'[i] = committed'[j]
          PROVE  i = j
      <4>1. CASE i \in 1 .. Len(committed) /\ j \in 1 .. Len(committed)
        BY <3>1, <3>4, <3>5, <4>1 DEF Distinct
      <4>2. CASE i = Len(committed) + 1
        BY <1>7, <3>1, <3>2, <3>5, <4>2
      <4>3. CASE j = Len(committed) + 1
        BY <1>7, <3>1, <3>2, <3>5, <4>3
      <4>. QED  BY <3>2, <4>1, <4>2, <4>3
    <3>6. Commits'
      BY <1>0, <3>3, <3>5 DEF Commits, Distinct
    <3>7. ASSUME NEW e \in Frame, e.at \in Pending => e.id # p, IdentityOK(e) PROVE IdentityOK(e)'
      BY <1>0, <3>1, <3>2, <3>7 DEF IdentityOK, Pending
    <3>. QED  BY <3>6, <3>7
  <2>. QED  BY <1>14, <2>1, <2>2
<1>16. Aimed'
  <2>1. ASSUME NEW e \in Frames(t)' PROVE TargetOK(e)' /\ IdentityOK(e)'
    BY <1>0, <1>10 DEF TargetOK, IdentityOK, Pending
  <2>2. ASSUME NEW u \in Threads \ {t}, NEW e \in Frames(u) PROVE TargetOK(e)' /\ IdentityOK(e)'
    <3>1. TargetOK(e) /\ IdentityOK(e) /\ (e.at \in Pending => e.id # p)
      BY <1>0, <1>1, <1>5 DEF Aimed, Apart, Pending
    <3>2. e \in Frame
      <4>1. stack[u] \in Seq(Frame)
        BY <1>1 DEF TypeOK
      <4>. QED  BY <4>1 DEF Frames
    <3>3. TargetOK(e)'
      BY <1>0, <1>2, <1>4, <3>1 DEF TargetOK, NoInbox
    <3>. QED  BY <1>15, <3>1, <3>2, <3>3
  <2>. QED  BY <1>11, <2>1, <2>2 DEF Aimed
<1>17. Apart'
  <2>. SUFFICES ASSUME NEW v \in Threads, NEW u \in Threads, NEW d \in Frames(v)', NEW e \in Frames(u)',
                       d.at \in Pending, e.at \in Pending, d.id = e.id
                PROVE  v = u
    BY DEF Apart, Pending
  <2>1. v # t /\ u # t
    BY <1>10
  <2>2. d \in Frames(v) /\ e \in Frames(u)
    BY <1>11, <2>1
  <2>. QED  BY <1>1, <2>2 DEF Apart
<1>18. p \in 1 .. MaxEvents /\ \A i \in DOMAIN committed : committed[i] # p
  BY <1>2, <1>7, ConstAssumption
<1>19. LaneOK(lane, committed, delivered)' /\ [Log!Next]_(Log!logVars)
  <2>1. CASE ~top(t).delivery
    <3>1. LaneOK(Append(lane, item), committed, delivered)
      BY <1>1, <1>2, <1>6, <2>1, LaneOrdinary
    <3>2. LaneOK(lane', committed, delivered)
      BY <1>1, <1>4, <3>1
    <3>3. committed' = committed /\ delivered' = delivered
      BY <1>13, <2>1
    <3>4. LaneOK(lane', committed', delivered')
      BY <3>2, <3>3
    <3>5. LaneOK(lane, committed, delivered)'
      BY <3>4 DEF LaneOK, Reserved
    <3>. QED  BY <3>3, <3>5 DEF Log!logVars
  <2>2. CASE top(t).delivery /\ ordered # NoInbox
    <3>1. LaneOK(Append(lane, item), Append(committed, item.id), delivered)
      BY <1>1, <1>2, <1>6, <1>7, <2>2, LaneReserved
    <3>2. lane' = Append(lane, item) /\ committed' = Append(committed, p)
      BY <1>4, <1>13, <2>2
    <3>3. delivered' = delivered
      BY <2>2 DEF Stamp
    <3>4. LaneOK(lane', committed', delivered')
      BY <1>6, <3>1, <3>2, <3>3
    <3>5. Log!Commit(p)
      BY <1>18, <3>2, <3>3 DEF Log!Commit
    <3>6. LaneOK(lane, committed, delivered)'
      BY <3>4 DEF LaneOK, Reserved
    <3>. QED  BY <1>18, <3>5, <3>6 DEF Log!Next
  <2>3. CASE top(t).delivery /\ ordered = NoInbox
    <3>1. lane = <<>> /\ lane' = <<>>
      BY <1>0, <2>3 DEF lane, NoInbox
    <3>2. delivered = committed
      BY <1>1, <1>2, <3>1, LaneEmpty
    <3>3. committed' = Append(committed, p) /\ delivered' = Append(delivered, p)
      BY <1>4, <1>5, <2>3 DEF Stamp
    <3>4. Append(committed, p) \in Seq(Nat)
      BY <1>2, <1>6, AppendProperties
    <3>5. LaneOK(lane', committed', delivered')
      BY <3>1, <3>2, <3>3, <3>4, LaneDirect
    <3>6. Log!CommitAndDeliver(p)
      BY <1>18, <3>2, <3>3 DEF Log!CommitAndDeliver
    <3>7. LaneOK(lane, committed, delivered)'
      BY <3>5 DEF LaneOK, Reserved
    <3>. QED  BY <1>18, <3>6, <3>7 DEF Log!Next
  <2>. QED  BY <2>1, <2>2, <2>3
<1>. QED  BY <1>12, <1>15, <1>16, <1>17, <1>19 DEF LogInv

\* No publication is past the checks of commit_reserved while publish_order is unlocked.
LEMMA NonePast ==
  ASSUME order_unlocked, NEW t \in Threads, NEW f \in Frames(t)
  PROVE  f.at \notin {"guards", "stamp"}
<1>. QED  BY DEF order_unlocked, holds_order, Frames, Locked, in_order

\* A step that moves no publication keeps what is known of them.
LEMMA LogFrames ==
  ASSUME Aimed, Apart, Commits, stack' = stack, committed' = committed, started' = started,
         \/ order_unlocked
         \/ ordered' = ordered /\ (ordered # NoInbox => inbox'[ordered].open = inbox[ordered].open)
  PROVE  Aimed' /\ Apart' /\ Commits'
<1>1. \A t : Frames(t)' = Frames(t)
  BY DEF Frames
<1>2. ASSUME NEW t \in Threads, NEW f \in Frames(t) PROVE TargetOK(f)' /\ IdentityOK(f)'
  <2>1. TargetOK(f) /\ IdentityOK(f)
    BY DEF Aimed
  <2>2. IdentityOK(f)'
    BY <2>1 DEF IdentityOK, Pending
  <2>3. TargetOK(f)'
    BY <2>1, NonePast DEF TargetOK, NoInbox
  <2>. QED  BY <2>2, <2>3
<1>3. Aimed'
  BY <1>1, <1>2 DEF Aimed
<1>4. Apart'
  BY <1>1 DEF Apart, Pending
<1>5. Commits'
  BY DEF Commits, Distinct
<1>. QED  BY <1>3, <1>4, <1>5

\* The dispatcher, or the drain, takes the oldest item: the log delivers, or stutters.
LEMMA LogTail ==
  ASSUME IInv, LogInv, ordered # NoInbox, inbox[ordered].queue # <<>>,
         inbox[ordered].open \/ draining,
         inbox' = [inbox EXCEPT ![ordered].queue = Tail(@)],
         delivered' = delivered \o handed(Head(inbox[ordered].queue)),
         stack' = stack, committed' = committed, started' = started, ordered' = ordered,
         draining' = draining
  PROVE  LogInv' /\ [Log!Next]_(Log!logVars)
<1>1. /\ lane \in Seq(Item) /\ committed \in Seq(Nat) /\ delivered \in Seq(Nat)
      /\ inbox \in Seq(Inbox) /\ ordered \in DOMAIN inbox /\ lane = inbox[ordered].queue
      /\ OneInbox /\ Aimed /\ Apart /\ Commits /\ LaneOK(lane, committed, delivered)
  BY LaneTyped DEF LogInv, lane
<1>2. /\ inbox'[ordered].queue = Tail(inbox[ordered].queue)
      /\ inbox'[ordered].open = inbox[ordered].open
      /\ \A c \in DOMAIN inbox \ {ordered} : inbox'[c] = inbox[c]
      /\ DOMAIN inbox' = DOMAIN inbox
  <2>. DEFINE b == [inbox[ordered] EXCEPT !.queue = Tail(inbox[ordered].queue)]
  <2>1. inbox[ordered] \in Inbox
    BY <1>1
  <2>2. b.queue = Tail(inbox[ordered].queue) /\ b.open = inbox[ordered].open
    BY <2>1 DEF Inbox
  <2>3. inbox' = [inbox EXCEPT ![ordered] = b]
    OBVIOUS
  <2>. HIDE DEF b
  <2>. QED  BY <1>1, <2>2, <2>3
<1>3. OneInbox'
  BY <1>1, <1>2 DEF OneInbox, NoInbox
<1>4. Aimed' /\ Apart' /\ Commits'
  BY <1>1, <1>2, LogFrames
<1>5. lane' = Tail(lane)
  BY <1>1, <1>2 DEF lane, NoInbox
<1>6. /\ LaneOK(Tail(lane), committed, delivered')
      /\ \/ delivered' = delivered
         \/ /\ Len(delivered) < Len(committed)
            /\ delivered' = Append(delivered, committed[Len(delivered) + 1])
  BY <1>1, LaneTail DEF Commits
<1>7. LaneOK(lane, committed, delivered)'
  <2>1. LaneOK(lane', committed', delivered')
    BY <1>5, <1>6
  <2>. QED  BY <2>1 DEF LaneOK, Reserved
<1>8. [Log!Next]_(Log!logVars)
  <2>1. CASE delivered' = delivered
    BY <2>1 DEF Log!logVars
  <2>2. CASE /\ Len(delivered) < Len(committed)
             /\ delivered' = Append(delivered, committed[Len(delivered) + 1])
    BY <2>2 DEF Log!Next, Log!Deliver
  <2>. QED  BY <1>6, <2>1, <2>2
<1>. QED  BY <1>3, <1>4, <1>7, <1>8 DEF LogInv

\* The configuration of the bus and the dispatcher's side.
LEMMA LogOutside ==
  ASSUME IInv, LogInv,
         \/ SubscribeOrdered \/ RegisterAdmitter \/ DropAdmitter \/ (\E g \in Gates : Retire(g))
         \/ Recv \/ DropReceiver \/ Drain \/ UNCHANGED vars
  PROVE  LogInv' /\ [Log!Next]_(Log!logVars)
<1>1. /\ lane \in Seq(Item) /\ committed \in Seq(Nat) /\ delivered \in Seq(Nat)
      /\ inbox \in Seq(Inbox) /\ (ordered # NoInbox => ordered \in DOMAIN inbox)
      /\ OneInbox /\ Aimed /\ Apart /\ Commits /\ LaneOK(lane, committed, delivered)
  BY LaneTyped DEF LogInv
<1>2. ASSUME inbox' = inbox, ordered' = ordered, draining' = draining, stack' = stack,
             started' = started, committed' = committed, delivered' = delivered
      PROVE  LogInv' /\ [Log!Next]_(Log!logVars)
  <2>1. OneInbox'
    BY <1>1, <1>2 DEF OneInbox, NoInbox
  <2>2. Aimed' /\ Apart' /\ Commits'
    BY <1>1, <1>2, LogFrames
  <2>3. lane' = lane
    BY <1>2 DEF lane, NoInbox
  <2>4. LaneOK(lane, committed, delivered)'
    BY <1>1, <1>2, <2>3 DEF LaneOK, Reserved
  <2>. QED  BY <1>2, <2>1, <2>2, <2>4 DEF LogInv, Log!logVars
<1>3. CASE RegisterAdmitter \/ DropAdmitter \/ (\E g \in Gates : Retire(g)) \/ UNCHANGED vars
  BY <1>2, <1>3 DEF RegisterAdmitter, DropAdmitter, Retire, vars
<1>4. CASE SubscribeOrdered
  <2>1. /\ order_unlocked /\ ~draining /\ (ordered # NoInbox => ~inbox[ordered].open)
        /\ inbox' = Append(inbox, NewInbox) /\ ordered' = Len(inbox) + 1 /\ draining' = draining
        /\ stack' = stack /\ started' = started /\ committed' = committed /\ delivered' = delivered
    BY <1>4 DEF SubscribeOrdered, order_unlocked
  <2>2. NewInbox \in Inbox /\ NewInbox.open = TRUE /\ NewInbox.queue = <<>>
    BY DEF NewInbox, Inbox
  <2>3. /\ Len(inbox) \in Nat /\ DOMAIN inbox = 1 .. Len(inbox) /\ DOMAIN inbox' = 1 .. Len(inbox) + 1
        /\ inbox'[Len(inbox) + 1] = NewInbox /\ \A c \in DOMAIN inbox : inbox'[c] = inbox[c]
    BY <1>1, <2>1, <2>2
  <2>4. \A c \in DOMAIN inbox : ~inbox[c].open /\ inbox[c].queue = <<>>
    BY <1>1, <2>1 DEF OneInbox, NoInbox
  <2>5. ASSUME NEW c \in DOMAIN inbox', c # ordered' PROVE ~inbox'[c].open /\ inbox'[c].queue = <<>>
    <3>1. c \in DOMAIN inbox
      BY <2>1, <2>3, <2>5
    <3>. QED  BY <2>3, <2>4, <3>1
  <2>6. inbox'[ordered'] = NewInbox /\ ordered' # NoInbox
    BY <2>1, <2>3 DEF NoInbox
  <2>7. OneInbox'
    BY <2>1, <2>2, <2>5, <2>6 DEF OneInbox
  <2>8. Aimed' /\ Apart' /\ Commits'
    BY <1>1, <2>1, LogFrames
  <2>9. lane = <<>> /\ lane' = <<>>
    BY <1>1, <2>2, <2>4, <2>6 DEF lane, NoInbox
  <2>10. LaneOK(lane, committed, delivered)'
    BY <1>1, <2>1, <2>9 DEF LaneOK, Reserved
  <2>. QED  BY <2>1, <2>7, <2>8, <2>10 DEF LogInv, Log!logVars
<1>5. CASE Recv
  <2>1. draining' = draining /\ ordered' = ordered /\ stack' = stack /\ started' = started
        /\ committed' = committed
    BY <1>5 DEF Recv
  <2>. QED  BY <1>5, <2>1, LogTail DEF Recv
<1>6. CASE DropReceiver
  <2>1. /\ order_unlocked /\ ordered # NoInbox /\ ordered' = ordered /\ draining' = TRUE
        /\ inbox' = [inbox EXCEPT ![ordered].open = FALSE]
        /\ stack' = stack /\ started' = started /\ committed' = committed /\ delivered' = delivered
    BY <1>6 DEF DropReceiver
  <2>2. /\ inbox'[ordered].queue = inbox[ordered].queue /\ ~inbox'[ordered].open
        /\ \A c \in DOMAIN inbox \ {ordered} : inbox'[c] = inbox[c]
        /\ DOMAIN inbox' = DOMAIN inbox
    <3>. DEFINE b == [inbox[ordered] EXCEPT !.open = FALSE]
    <3>1. ordered \in DOMAIN inbox /\ inbox[ordered] \in Inbox
      BY <1>1, <2>1
    <3>2. b.queue = inbox[ordered].queue /\ b.open = FALSE
      BY <3>1 DEF Inbox
    <3>3. inbox' = [inbox EXCEPT ![ordered] = b]
      BY <2>1
    <3>. HIDE DEF b
    <3>. QED  BY <1>1, <3>1, <3>2, <3>3
  <2>3. OneInbox'
    BY <1>1, <2>1, <2>2 DEF OneInbox
  <2>4. Aimed' /\ Apart' /\ Commits'
    BY <1>1, <2>1, LogFrames
  <2>5. lane' = lane
    BY <2>1, <2>2 DEF lane, NoInbox
  <2>6. LaneOK(lane, committed, delivered)'
    BY <1>1, <2>1, <2>5 DEF LaneOK, Reserved
  <2>. QED  BY <2>1, <2>3, <2>4, <2>6 DEF LogInv, Log!logVars
<1>7. CASE Drain
  <2>1. /\ draining /\ ordered' = ordered /\ stack' = stack /\ started' = started
        /\ committed' = committed
    BY <1>7 DEF Drain
  <2>2. ordered # NoInbox
    BY <2>1 DEF IInv, OneOrder
  <2>3. CASE inbox[ordered].queue # <<>> /\ draining' = draining
             /\ inbox' = [inbox EXCEPT ![ordered].queue = Tail(@)]
             /\ delivered' = delivered \o handed(Head(inbox[ordered].queue))
    BY <2>1, <2>2, <2>3, LogTail
  <2>4. CASE inbox[ordered].queue = <<>> /\ draining' = FALSE /\ inbox' = inbox /\ delivered' = delivered
    <3>1. OneInbox'
      BY <1>1, <2>1, <2>4 DEF OneInbox, NoInbox
    <3>2. Aimed' /\ Apart' /\ Commits'
      BY <1>1, <2>1, <2>4, LogFrames
    <3>3. lane' = lane
      BY <2>1, <2>4 DEF lane, NoInbox
    <3>4. LaneOK(lane, committed, delivered)'
      BY <1>1, <2>1, <2>4, <3>3 DEF LaneOK, Reserved
    <3>. QED  BY <2>1, <2>4, <3>1, <3>2, <3>4 DEF LogInv, Log!logVars
  <2>. QED  BY <1>7, <2>3, <2>4 DEF Drain, drained
<1>. QED  BY <1>3, <1>4, <1>5, <1>6, <1>7

\* Every step of the bus is a step of the log or leaves it alone.
LEMMA LogNext ==
  IInv /\ LogInv /\ [Next]_vars => LogInv' /\ [Log!Next]_(Log!logVars)
<1>. SUFFICES ASSUME IInv, LogInv, [Next]_vars PROVE LogInv' /\ [Log!Next]_(Log!logVars)
  OBVIOUS
<1>1. ASSUME NEW t \in Threads,
             \/ ReserveStart(t) \/ ReserveDelivery(t) \/ ReserveHandoff(t)
             \/ ReserveSlot(t) \/ Cancel(t) \/ Commit(t) \/ Publish(t) \/ PublishStep(t)
             \/ \E g \in Gates : ObserverRetire(t, g)
      PROVE  LogInv' /\ [Log!Next]_(Log!logVars)
  <2>1. CASE Stamp(t)
    BY <2>1, LogStamp
  <2>2. CASE ~Stamp(t)
    <3>1. LogInv' /\ UNCHANGED <<committed, delivered>>
      BY <1>1, <2>2, LogThread DEF PublishStep
    <3>. QED  BY <3>1 DEF Log!logVars
  <2>. QED  BY <2>1, <2>2
<1>. QED  BY <1>1, LogOutside DEF Next

\* The initial state of the bus is the initial state of the log.
LEMMA LogInit == Init => LogInv /\ Log!Init
<1>. SUFFICES ASSUME Init PROVE LogInv /\ Log!Init
  OBVIOUS
<1>1. \A t \in Threads : Frames(t) = {}
  BY DEF Init, Frames
<1>2. OneInbox /\ lane = <<>> /\ committed = <<>> /\ delivered = <<>>
  BY DEF Init, OneInbox, lane
<1>3. Aimed /\ Apart
  BY <1>1 DEF Aimed, Apart
<1>4. Commits
  BY <1>2 DEF Commits, Distinct
<1>5. <<>> \in Seq(Nat)
  OBVIOUS
<1>6. LaneOK(<<>>, <<>>, <<>>)
  BY <1>5, LaneDirect
<1>. QED  BY <1>2, <1>3, <1>4, <1>6 DEF LogInv, Log!Init

\* The bus implements the reliable log: a reserved publication is committed once, and
\* committed ones are handed to their consumers in commit order, none lost and none
\* twice, through cancellation, closed inboxes, the drain of a dropped receiver and the
\* installation of the next one.  (That each is handed over eventually is Log!FairSpec.)
THEOREM LogRefinement == Spec => Log!Spec
<1>1. Init => LogInv /\ Log!Init
  BY LogInit
<1>2. IInv /\ LogInv /\ [Next]_vars => LogInv' /\ [Log!Next]_(Log!logVars)
  BY LogNext
<1>. QED  BY <1>1, <1>2, BusInv, PTL DEF Spec, Log!Spec
=============================================================================
