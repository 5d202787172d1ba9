------------------------- MODULE AuditChain_proofs --------------------------
(***************************************************************************)
(* Proofs about the audit log, for any chains, writers, bounds and number  *)
(* of faults: a stored chain never forks and has no gap, its positions are *)
(* exact, a prune keeps what the watermark covers, marks name the entry at *)
(* their position, receipts stay linked and nothing rolls a chain back.    *)
(***************************************************************************)
EXTENDS AuditChain, FiniteSetTheorems, WellFoundedInduction, TLAPS

\* Position of an entry counted from genesis; 0 before the first.
Height(i) == IF i = NoEntry THEN 0 ELSE signed[i].at
Gen(r) == IF r = None THEN 0 ELSE r.gen

-----------------------------------------------------------------------------
(* Signing *)

\* Every entry is signed on an earlier entry of its own chain, or none.
SignedOK ==
  /\ Len(signed) <= MaxEntries
  /\ \A i \in Ids :
       /\ signed[i].prev < i
       /\ signed[i].prev # NoEntry => signed[signed[i].prev].chain = signed[i].chain
       /\ signed[i].at = Height(signed[i].prev) + 1
       /\ signed[i].at <= i

\* Heads, stored and cached, name entries of their chain.
HeadsOK ==
  \A c \in Chains :
    /\ cache[c] # NoEntry => signed[cache[c]].chain = c
    /\ head[c] # NoEntry => signed[head[c]].chain = c
    /\ meta[c].head \in Ids \cup {NoEntry}
    /\ meta[c].head # NoEntry => signed[meta[c].head].chain = c
    /\ meta[c].head = NoEntry => meta[c] = EmptyMeta

\* A writer that is not idle carries the entry it signed.
WritersOK ==
  \A w \in Writers :
    \/ wr[w] = Idle
    \/ /\ wr[w].pc # "idle" /\ wr[w].chain \in Chains
       /\ wr[w].id \in Ids
       /\ signed[wr[w].id].chain = wr[w].chain
       /\ signed[wr[w].id].prev = wr[w].exp

\* The operation under the durable lock and the prune belong to their writers.
OwnersOK ==
  /\ job # None /\ job.op = "append" => wr[job.by].pc = "append"
  /\ job # None /\ job.op = "recover" /\ job.by # None => wr[job.by].pc \in {"store", "hold"}
  /\ job # None /\ job.op = "prune" => pruner # None /\ pruner.pc = "run"
  /\ pruner # None /\ pruner.by # None => wr[pruner.by].pc = "pruning"
  /\ pruner # None /\ pruner.pc # "scan" => pruner.r # None

-----------------------------------------------------------------------------
(* The chains in the store *)

IntentKey == [ord |-> intent.ord, id |-> intent.id]
\* The ordinal the next index key gets
NextOrd ==
  CASE atomic -> seq
    [] ~atomic /\ intent # None /\ IntentKey \notin index -> intent.ord
    [] OTHER -> seq + 1

SameChain(k, l) == signed[k.id].chain = signed[l.id].chain
\* Index order is chain order, and a chain's keys have neither gaps nor forks.
IndexOK ==
  /\ IsFiniteSet(index)
  /\ \A k \in index : k.ord < NextOrd
  /\ \A k, l \in index : k.ord = l.ord => k = l
  /\ \A k, l \in index : SameChain(k, l) =>
       /\ k.ord < l.ord <=> signed[k.id].at < signed[l.id].at
       /\ signed[l.id].at = signed[k.id].at + 1 => signed[l.id].prev = k.id
       /\ \A p \in signed[k.id].at .. signed[l.id].at :
            \E m \in index : SameChain(m, k) /\ signed[m.id].at = p

\* The head in the metadata is indexed unless an interrupted append's entry is,
\* and only that entry lies beyond it.
TopOK ==
  /\ \A c \in Chains : meta[c].head # NoEntry =>
       \/ \E k \in index : k.id = meta[c].head
       \/ intent # None /\ intent.chain = c /\ IntentKey \in index
  /\ \A k \in index :
       \/ signed[k.id].at <= Height(meta[signed[k.id].chain].head)
       \/ intent # None /\ k = IntentKey
  /\ \A i \in entries :
       \/ \E k \in index : k.id = i
       \/ intent # None /\ i = intent.id

\* What an append intent says about the store, whatever faults or prunes have
\* come since it was written.
IntentOK ==
  intent # None =>
    /\ ~atomic
    /\ intent.id \in Ids
    /\ signed[intent.id].chain = intent.chain
    /\ signed[intent.id].prev = intent.expHead
    /\ intent.expMeta.head = intent.expHead
    /\ intent.nextMeta.head = intent.id
    /\ intent.nextMeta.count = intent.expMeta.count + 1
    /\ intent.nextMeta.omitted = intent.expMeta.omitted
    /\ intent.nextMeta.gen = intent.expMeta.gen
    /\ intent.ord = seq + 1 \/ intent.ord = seq
    /\ meta[intent.chain].head \in {intent.expHead, intent.id}
    /\ \A k \in index : k = IntentKey \/ (k.ord < intent.ord /\ k.id # intent.id)
    /\ IntentKey \in index => intent.ord = seq /\ intent.id \in entries
    /\ IntentKey \notin index => meta[intent.chain].head = intent.expHead

\* How far the append or the recovery under the lock has come.
AppendJobOK ==
  job # None /\ job.op # "prune" =>
    /\ intent # None
    /\ job.step # "entry" => intent.id \in entries
    /\ job.step \notin {"entry", "seq"} => intent.ord = seq
    /\ job.step \notin {"entry", "seq", "index"} => IntentKey \in index
    /\ job.step \in {"seg", "global", "remove"} => meta[intent.chain].head = intent.id

\* An index key without its entry: the oldest of its chain, in a prune that
\* deletes it now or never advances again.
HolesOK ==
  \A k \in index : k.id \notin entries =>
    /\ plan[signed[k.id].chain] # None
    /\ ~plan[signed[k.id].chain].complete
    /\ plan[signed[k.id].chain].r.omitted > 0
    /\ k.ord <= plan[signed[k.id].chain].r.cutoff
    /\ \A l \in index : SameChain(k, l) => k.ord <= l.ord
    /\ pruner # None /\ pruner.pc # "scan" =>
         /\ Pruning("unindex")
         /\ k \in job.doomed
         /\ \A l \in job.doomed : k.ord <= l.ord

-----------------------------------------------------------------------------
(* Pruning *)

ReceiptOK(r) ==
  /\ r.gen > 0
  /\ r.omitted = 0 => r.cutoff = None /\ r.last = NoEntry
  /\ r.omitted > 0 => r.cutoff \in Nat /\ r.last \in Ids

\* The keys up to a receipt's cutoff are the entries up to its last one, and at
\* least one key is retained.
Cuts(c, r) ==
  r.omitted > 0 =>
    /\ signed[r.last].chain = c
    /\ \E k \in ChainKeys(c) : r.cutoff < k.ord
    /\ \A k \in ChainKeys(c) : k.ord <= r.cutoff <=> signed[k.id].at <= signed[r.last].at
    /\ \A l \in ChainKeys(c) : \A p \in signed[r.last].at + 1 .. signed[l.id].at :
         \E m \in ChainKeys(c) : signed[m.id].at = p

\* The receipt continues the pruned total of the chain.
Adds(c, r) ==
  r.omitted > 0 /\ meta[c].omitted # Unknown =>
    signed[r.last].at = meta[c].omitted + r.omitted

\* The keys of a chain start right after the entries counted as pruned.
StartsAfter(c, n) ==
  /\ \A k \in ChainKeys(c) : signed[k.id].at > n
  /\ \A l \in ChainKeys(c) : \A p \in n + 1 .. signed[l.id].at :
       \E m \in ChainKeys(c) : signed[m.id].at = p

\* A plan that still has to be counted
Uncounted(c) == plan[c] # None /\ plan[c].r.omitted > 0 /\ meta[c].gen # plan[c].r.gen
\* Nothing is being deleted for the chain.
Settled(c) == plan[c] = None \/ plan[c].r = receipt[c]

PlanOK ==
  \A c \in Chains : plan[c] # None =>
    LET p == plan[c]
    IN  /\ ReceiptOK(p.r)
        /\ \/ p.r = receipt[c] /\ p.complete
           \/ p.r.gen = Gen(receipt[c]) + 1 /\ p.r.prior = Hash(receipt[c])
        /\ p.complete \/ meta[c].gen # p.r.gen
        /\ Cuts(c, p.r)
        /\ p.r.omitted > 0 => /\ p.from <= p.r.cutoff + 1
                              /\ meta[c].head # NoEntry
                              /\ p.complete => \A k \in ChainKeys(c) : p.r.cutoff < k.ord
        /\ p.r.omitted = 0 => p.from = 0
        /\ \A k \in ChainKeys(c) : p.from <= k.ord

\* The pruned total: what a plan will add, or what the keys start after.
TotalsOK ==
  \A c \in Chains :
    /\ meta[c].omitted # Unknown =>
         IF Uncounted(c) THEN Adds(c, plan[c].r) ELSE StartsAfter(c, meta[c].omitted)
    /\ meta[c].gen = 0 =>
         meta[c].omitted = 0 /\ (receipt[c] # None => receipt[c].omitted = 0)
    /\ meta[c].gen > 0 =>
         \/ meta[c].gen = Gen(receipt[c])
         \/ plan[c] # None /\ meta[c].gen = plan[c].r.gen

\* Installed receipts: what they removed is gone, and when no plan is pending
\* their last entry is the last of the pruned total.
ReceiptsOK ==
  \A c \in Chains : receipt[c] # None =>
    /\ ReceiptOK(receipt[c])
    /\ receipt[c] \in history[c]
    /\ receipt[c].omitted > 0 =>
         /\ signed[receipt[c].last].chain = c
         /\ receipt[c].cutoff < NextOrd
         /\ \A k \in ChainKeys(c) : receipt[c].cutoff < k.ord
         /\ Settled(c) /\ meta[c].omitted # Unknown =>
              signed[receipt[c].last].at = meta[c].omitted

\* The receipt a prune signed fits the chain as long as it can be planned.
PrunerOK ==
  pruner # None /\ pruner.r # None =>
    LET c == pruner.chain
        r == pruner.r
    IN  /\ ReceiptOK(r)
        /\ r.gen <= Gen(receipt[c]) + 1
        /\ r.gen = Gen(receipt[c]) + 1 =>
             /\ r.prior = Hash(receipt[c])
             /\ Settled(c) => Cuts(c, r) /\ Adds(c, r)

\* The steps of a prune under the durable lock
PruneJobOK ==
  job # None /\ job.op = "prune" =>
    LET c == pruner.chain
    IN  /\ job.step # "plan" => plan[c] # None
        /\ job.step \in {"page", "delete", "unindex"} => ~plan[c].complete
        /\ job.step \notin {"plan", "page", "delete", "unindex"} => plan[c].complete
        /\ job.step \in {"account", "segment", "history", "receipt", "unplan"} =>
             meta[c].gen = plan[c].r.gen \/ meta[c] = EmptyMeta
        /\ job.step = "receipt" => plan[c].r \in history[c]
        /\ job.step = "unplan" => receipt[c] = plan[c].r

\* The page that is being deleted holds the oldest keys of its chain.
PageOK ==
  Pruning("delete") \/ Pruning("unindex") =>
    LET c == pruner.chain
        r == plan[c].r
    IN  /\ job \in DeleteJob
        /\ job.step = "unindex" =>
             \E d \in job.doomed : d.id \notin entries /\ \A l \in job.doomed : d.ord <= l.ord
        /\ job.doomed \subseteq ChainKeys(c)
        /\ \A d \in job.doomed : r.omitted > 0 /\ d.ord <= r.cutoff
        /\ \A k \in ChainKeys(c) \ job.doomed :
             /\ job.from <= k.ord
             /\ \A d \in job.doomed : d.ord < k.ord
             /\ r.omitted > 0 /\ job.complete => r.cutoff < k.ord
        /\ r.omitted > 0 => job.from <= r.cutoff + 1
        /\ r.omitted = 0 => job.from = 0

\* A receipt of the first generation, or one that follows a recorded receipt
Succeeds(c, h) == h.gen = 1 \/ \E p \in history[c] : p.gen + 1 = h.gen /\ h.prior = Hash(p)

\* The recorded receipts link back to the first generation, one of each.
HistoryOK ==
  \A c \in Chains :
    /\ \A h \in history[c] : Succeeds(c, h)
    /\ \A h, g \in history[c] : h.gen = g.gen => h = g

-----------------------------------------------------------------------------
(* Watermarks *)

Known(c) ==
  /\ meta[c].head # NoEntry
  /\ meta[c].omitted # Unknown
  /\ meta[c].gen = 0 => receipt[c] = None \/ receipt[c].gen = 1

\* A position and the index key it was found at
Names(c, pos, id, ord) ==
  /\ id \in Ids
  /\ signed[id].chain = c
  /\ signed[id].at = pos
  /\ ord \in Nat /\ ord < NextOrd
  /\ \A k \in ChainKeys(c) : ord < k.ord <=> pos < signed[k.id].at

MarksOK ==
  \A c \in Chains : mark[c] # None =>
    /\ Known(c)
    /\ Names(c, mark[c].pos, mark[c].id, mark[c].ord)
    /\ meta[c].omitted <= mark[c].pos
    /\ mark[c].pos <= Height(meta[c].head)
    /\ plan[c] # None /\ plan[c].r.omitted > 0 => signed[plan[c].r.last].at <= mark[c].pos

\* What the marker verified without the lock holds until a prune intervenes.
MarkerOK ==
  marker # None /\ marker.pc \in {"locate", "install"} =>
    LET c == marker.chain
    IN  /\ marker.mark = mark[c]
        /\ mark[c] # None => mark[c].pos < marker.pos
        /\ Gen(marker.receipt) <= Gen(receipt[c])
        /\ Gen(marker.receipt) = Gen(receipt[c]) => marker.receipt = receipt[c]
        /\ plan[c] # None => Gen(marker.receipt) < plan[c].r.gen
        /\ meta[c].head # NoEntry /\ marker.pos <= Height(meta[c].head)
        /\ plan[c] = None /\ receipt[c] = marker.receipt =>
             /\ Known(c)
             /\ marker.omitted = meta[c].omitted /\ marker.omitted <= marker.pos
             /\ marker.pc = "install" => Names(c, marker.pos, marker.id, marker.ord)

IInv ==
  /\ TypeOK /\ SignedOK /\ HeadsOK /\ WritersOK /\ OwnersOK
  /\ IndexOK /\ TopOK /\ IntentOK /\ AppendJobOK /\ HolesOK
  /\ PlanOK /\ TotalsOK /\ ReceiptsOK /\ PrunerOK /\ PruneJobOK /\ PageOK /\ HistoryOK
  /\ MarksOK /\ MarkerOK /\ PositionsExact
-----------------------------------------------------------------------------
(* Sets of index keys *)

\* Keys as a prune or a scan reads them: finitely many, with distinct ordinals
KeySet(S) ==
  /\ S \subseteq Key /\ IsFiniteSet(S)
  /\ \A k, l \in S : k.ord = l.ord => k = l
Below(S, k) == {l \in S : l.ord < k.ord}

\* A set of numbers has a least one.
LEMMA LeastNumber ==
  ASSUME NEW T \in SUBSET Nat, T # {}
  PROVE  \E m \in T : \A n \in T : m <= n
  <1>. DEFINE R == {ss \in Nat \X Nat : ss[1] < ss[2]}
  <1>1. IsWellFoundedOn(R, Nat)
    BY NatLessThanWellFounded DEF OpToRel
  <1>2. PICK m \in T : \A n \in T : ~(<<n, m>> \in R)
    <2>. HIDE DEF R
    <2>. QED BY <1>1, WFMin
  <1>3. ASSUME NEW n \in T
        PROVE  m <= n
    <2>1. m \in Nat /\ n \in Nat
      OBVIOUS
    <2>2. ~(<<n, m>> \in R)
      BY <1>2
    <2>3. ~(n < m)
      BY <2>1, <2>2
    <2>. QED BY <2>1, <2>3
  <1>. QED BY <1>3

\* A set of keys has an oldest key.
LEMMA OldestExists ==
  ASSUME NEW S, KeySet(S), S # {}
  PROVE  \E k \in S : \A l \in S : k.ord <= l.ord
  <1>. DEFINE T == {k.ord : k \in S}
  <1>1. T \in SUBSET Nat /\ T # {}
    BY DEF KeySet, Key
  <1>2. PICK m \in T : \A n \in T : m <= n
    <2>. HIDE DEF T
    <2>. QED BY <1>1, LeastNumber
  <1>. QED BY <1>2

\* The keys below one of some keys are finitely many.
LEMMA BelowFinite ==
  ASSUME NEW S, KeySet(S), NEW k
  PROVE  IsFiniteSet(Below(S, k)) /\ Cardinality(Below(S, k)) \in Nat
  <1>1. Below(S, k) \in SUBSET S
    BY DEF Below
  <1>. QED BY <1>1, FS_Subset, FS_CardinalityType DEF KeySet

\* The first of some keys is the oldest.
LEMMA FirstIsOldest ==
  ASSUME NEW S, KeySet(S), S # {}
  PROVE  Nth(S, 1) \in S /\ \A l \in S : Nth(S, 1).ord <= l.ord
  <1>1. PICK k \in S : \A l \in S : k.ord <= l.ord
    BY OldestExists
  <1>2. \A l \in S : l.ord \in Nat
    BY DEF KeySet, Key
  <1>3. ASSUME NEW l \in S
        PROVE  Cardinality(Below(S, l)) = 0 <=> \A m \in S : l.ord <= m.ord
    <2>1. IsFiniteSet(Below(S, l))
      BY BelowFinite
    <2>2. Cardinality(Below(S, l)) = 0 <=> Below(S, l) = {}
      BY <2>1, FS_EmptySet
    <2>. QED BY <1>2, <2>2 DEF Below
  <1>4. Nth(S, 1) = CHOOSE l \in S : Cardinality(Below(S, l)) = 0
    BY DEF Nth, Below
  <1>. QED BY <1>1, <1>3, <1>4

\* A set of keys has a newest key.
LEMMA NewestExists ==
  ASSUME NEW S, KeySet(S), S # {}, NEW n \in Nat, \A k \in S : k.ord <= n
  PROVE  \E k \in S : \A l \in S : l.ord <= k.ord
  <1>. DEFINE T == {n - k.ord : k \in S}
  <1>1. T \in SUBSET Nat /\ T # {}
    BY DEF KeySet, Key
  <1>2. PICK m \in T : \A i \in T : m <= i
    <2>. HIDE DEF T
    <2>. QED BY <1>1, LeastNumber
  <1>3. PICK k \in S : m = n - k.ord
    OBVIOUS
  <1>4. ASSUME NEW l \in S
        PROVE  l.ord <= k.ord
    <2>1. n - l.ord \in T
      OBVIOUS
    <2>2. n - k.ord <= n - l.ord
      BY <1>2, <1>3, <2>1
    <2>3. k.ord \in Nat /\ l.ord \in Nat
      BY DEF KeySet, Key
    <2>. QED BY <2>2, <2>3
  <1>. QED BY <1>4

\* The last of some keys is the newest.
LEMMA LastIsNewest ==
  ASSUME NEW S, KeySet(S), S # {}, NEW n \in Nat, \A k \in S : k.ord <= n
  PROVE  /\ Nth(S, Cardinality(S)) \in S
         /\ \A l \in S : l.ord <= Nth(S, Cardinality(S)).ord
  <1>1. PICK k \in S : \A l \in S : l.ord <= k.ord
    BY NewestExists
  <1>2. \A l \in S : l.ord \in Nat
    BY DEF KeySet, Key
  <1>3. IsFiniteSet(S) /\ Cardinality(S) \in Nat
    BY FS_CardinalityType DEF KeySet
  <1>4. Below(S, k) = S \ {k}
    BY <1>1, <1>2 DEF Below, KeySet
  <1>5. Cardinality(Below(S, k)) = Cardinality(S) - 1
    BY <1>3, <1>4, FS_RemoveElement
  <1>6. ASSUME NEW l \in S, Cardinality(Below(S, l)) = Cardinality(S) - 1
        PROVE  l = k
    <2>1. Below(S, l) \in SUBSET (S \ {l})
      BY <1>2 DEF Below
    <2>2. IsFiniteSet(S \ {l}) /\ Cardinality(S \ {l}) = Cardinality(S) - 1
      BY <1>3, FS_RemoveElement
    <2>3. Below(S, l) = S \ {l}
      BY <1>6, <2>1, <2>2, FS_Subset
    <2>4. k \in S \ {l} => k.ord < l.ord
      BY <2>3 DEF Below
    <2>. QED BY <1>1, <1>2, <2>4
  <1>7. Nth(S, Cardinality(S)) = CHOOSE l \in S : Cardinality(Below(S, l)) = Cardinality(S) - 1
    BY DEF Nth, Below
  <1>. QED BY <1>1, <1>5, <1>6, <1>7

\* The page that a bounded read of some keys returns
Page(S) == {k \in S : Cardinality(Below(S, k)) < PageSize}

\* A page holds the oldest keys, and is empty only when there are none.
LEMMA PageIsOldest ==
  ASSUME NEW S, KeySet(S)
  PROVE  /\ S # {} => Page(S) # {}
         /\ \A k \in Page(S) : \A l \in S : l.ord < k.ord => l \in Page(S)
  <1>1. PageSize \in Nat /\ PageSize > 0
    BY AuditAssumption
  <1>2. \A l \in S : l.ord \in Nat
    BY DEF KeySet, Key
  <1>3. ASSUME S # {}
        PROVE  Page(S) # {}
    <2>1. PICK k \in S : \A l \in S : k.ord <= l.ord
      BY <1>3, OldestExists
    <2>2. Below(S, k) = {}
      BY <1>2, <2>1 DEF Below
    <2>3. Cardinality(Below(S, k)) = 0
      BY <2>2, FS_EmptySet
    <2>. QED BY <1>1, <2>3 DEF Page
  <1>4. ASSUME NEW k \in Page(S), NEW l \in S, l.ord < k.ord
        PROVE  l \in Page(S)
    <2>1. k \in S /\ Cardinality(Below(S, k)) < PageSize
      BY <1>4 DEF Page
    <2>2. Below(S, l) \in SUBSET Below(S, k)
      BY <1>2, <1>4, <2>1 DEF Below
    <2>3. IsFiniteSet(Below(S, k)) /\ Cardinality(Below(S, k)) \in Nat
          /\ Cardinality(Below(S, l)) \in Nat
      BY BelowFinite
    <2>4. Cardinality(Below(S, l)) <= Cardinality(Below(S, k))
      BY <2>2, <2>3, FS_Subset
    <2>. QED BY <1>1, <2>1, <2>3, <2>4 DEF Page
  <1>. QED BY <1>3, <1>4

\* Keys whose entries are at the positions a + 1 to b, in index order
Spans(S, a, b) ==
  /\ KeySet(S)
  /\ \A k \in S : signed[k.id].at \in a + 1 .. b
  /\ \A p \in a + 1 .. b : \E k \in S : signed[k.id].at = p
  /\ \A k, l \in S : k.ord < l.ord <=> signed[k.id].at < signed[l.id].at

\* The keys below one of them are at the positions between.
LEMMA SpanBelow ==
  ASSUME NEW S, NEW a \in Nat, NEW b \in Nat, Spans(S, a, b), NEW k \in S
  PROVE  Cardinality(Below(S, k)) = signed[k.id].at - a - 1
  <1>. DEFINE B == Below(S, k)
              T == a + 1 .. signed[k.id].at - 1
              f == [l \in B |-> signed[l.id].at]
  <1>1. signed[k.id].at \in a + 1 .. b
    BY DEF Spans
  <1>2. \A l \in S : signed[l.id].at \in a + 1 .. b /\ l.ord \in Nat
    BY DEF Spans, KeySet, Key
  <1>3. \A l \in S : l \in B <=> signed[l.id].at < signed[k.id].at
    BY DEF Spans, Below
  <1>4. f \in [B -> T]
    BY <1>1, <1>2, <1>3 DEF Below
  <1>5. \A l, m \in B : f[l] = f[m] => l = m
    <2>. SUFFICES ASSUME NEW l \in B, NEW m \in B, signed[l.id].at = signed[m.id].at
                  PROVE  l = m
      OBVIOUS
    <2>1. l \in S /\ m \in S
      BY DEF Below
    <2>2. ~(l.ord < m.ord) /\ ~(m.ord < l.ord)
      BY <1>2, <2>1 DEF Spans
    <2>3. l.ord = m.ord
      BY <1>2, <2>1, <2>2
    <2>. QED BY <2>1, <2>3 DEF Spans, KeySet
  <1>6. \A p \in T : \E l \in B : f[l] = p
    <2>. SUFFICES ASSUME NEW p \in T PROVE \E l \in B : f[l] = p
      OBVIOUS
    <2>1. p \in a + 1 .. b /\ p < signed[k.id].at
      BY <1>1
    <2>2. PICK l \in S : signed[l.id].at = p
      BY <2>1 DEF Spans
    <2>. QED BY <1>3, <2>1, <2>2
  <1>7. IsFiniteSet(B)
    BY BelowFinite DEF Spans
  <1>8. ExistsBijection(B, T)
    <2>. HIDE DEF B, T, f
    <2>1. f \in Injection(B, T)
      BY <1>4, <1>5 DEF Injection, IsInjective
    <2>2. f \in Surjection(B, T)
      BY <1>4, <1>6 DEF Surjection
    <2>. QED BY <2>1, <2>2 DEF ExistsBijection, Bijection
  <1>9. Cardinality(T) = Cardinality(B)
    <2>. HIDE DEF B, T
    <2>. QED BY <1>7, <1>8, FS_Bijection
  <1>10. Cardinality(T) = signed[k.id].at - a - 1
    <2>1. a + 1 \in Int /\ signed[k.id].at - 1 \in Int /\ signed[k.id].at \in Int
      BY <1>1
    <2>2. Cardinality(a + 1 .. signed[k.id].at - 1)
            = IF a + 1 > signed[k.id].at - 1 THEN 0 ELSE (signed[k.id].at - 1) - (a + 1) + 1
      BY <2>1, FS_Interval
    <2>. QED BY <1>1, <2>2
  <1>. QED BY <1>9, <1>10

\* The n-th of such keys is at position a + n, and there are b - a of them.
LEMMA SpanNth ==
  ASSUME NEW S, NEW a \in Nat, NEW b \in Nat, Spans(S, a, b), a <= b
  PROVE  /\ Cardinality(S) = b - a
         /\ \A n \in 1 .. b - a : Nth(S, n) \in S /\ signed[Nth(S, n).id].at = a + n
  <1>1. \A k \in S : signed[k.id].at \in a + 1 .. b /\ k.ord \in Nat
    BY DEF Spans, KeySet, Key
  <1>2. ASSUME NEW n \in 1 .. b - a
        PROVE  Nth(S, n) \in S /\ signed[Nth(S, n).id].at = a + n
    <2>1. a + n \in a + 1 .. b
      OBVIOUS
    <2>2. PICK k \in S : signed[k.id].at = a + n
      BY <2>1 DEF Spans
    <2>3. \A l \in S : Cardinality(Below(S, l)) = n - 1 <=> signed[l.id].at = a + n
      <3>. SUFFICES ASSUME NEW l \in S
                    PROVE  Cardinality(Below(S, l)) = n - 1 <=> signed[l.id].at = a + n
        OBVIOUS
      <3>1. Cardinality(Below(S, l)) = signed[l.id].at - a - 1
        BY SpanBelow
      <3>. QED BY <1>1, <3>1
    <2>4. Nth(S, n) = CHOOSE l \in S : Cardinality(Below(S, l)) = n - 1
      BY DEF Nth, Below
    <2>. QED BY <2>2, <2>3, <2>4
  <1>3. Cardinality(S) = b - a
    <2>1. CASE S = {}
      <3>1. ~(a + 1 <= b)
        BY <2>1 DEF Spans
      <3>2. Cardinality(S) = 0
        BY <2>1, FS_EmptySet
      <3>. QED BY <3>1, <3>2
    <2>2. CASE S # {}
      <3>1. PICK k0 \in S : TRUE
        BY <2>2
      <3>2. b \in a + 1 .. b
        BY <1>1, <3>1
      <3>3. PICK k \in S : signed[k.id].at = b
        BY <3>2 DEF Spans
      <3>4. Below(S, k) = S \ {k}
        <4>1. ASSUME NEW l \in S, l # k
              PROVE  l.ord < k.ord
          <5>1. ~(k.ord < l.ord)
            BY <1>1, <3>3 DEF Spans
          <5>2. k.ord # l.ord
            BY <4>1 DEF Spans, KeySet
          <5>. QED BY <1>1, <5>1, <5>2
        <4>. QED BY <1>1, <4>1 DEF Below
      <3>5. Cardinality(Below(S, k)) = b - a - 1
        BY <3>3, SpanBelow
      <3>6. IsFiniteSet(S) /\ Cardinality(S) \in Nat
        BY FS_CardinalityType DEF Spans, KeySet
      <3>7. Cardinality(S \ {k}) = Cardinality(S) - 1
        BY <3>6, FS_RemoveElement
      <3>. QED BY <3>4, <3>5, <3>6, <3>7
    <2>. QED BY <2>1, <2>2
  <1>. QED BY <1>2, <1>3

-----------------------------------------------------------------------------
(* Frames: what a step that leaves some state alone preserves *)

KeyData == <<index, meta, plan, receipt, history, signed>>
Data == <<atomic, entries, index, seq, meta, intent, plan, receipt, history, signed>>

\* The invariants of the keys, of the prunes and of the marks rest on the index,
\* the records of the prunes and the ordinal the next key gets.
LEMMA KeyFrame ==
  ASSUME IInv, UNCHANGED KeyData, NextOrd' = NextOrd
  PROVE  /\ SignedOK' /\ IndexOK'
         /\ PlanOK' /\ TotalsOK' /\ ReceiptsOK' /\ HistoryOK' /\ PositionsExact'
         /\ UNCHANGED mark => MarksOK'
         /\ UNCHANGED <<mark, marker>> => MarkerOK'
  <1>1. SignedOK'
    BY DEF IInv, SignedOK, KeyData, Ids, Height
  <1>2. IndexOK'
    BY DEF IInv, IndexOK, KeyData, SameChain
  <1>3. \A c \in Chains : ChainKeys(c)' = ChainKeys(c)
    BY DEF ChainKeys, KeyData
  <1>4. PlanOK'
    BY <1>3 DEF IInv, PlanOK, KeyData, ReceiptOK, Cuts, Gen, Hash, Ids
  <1>5. TotalsOK'
    BY <1>3 DEF IInv, TotalsOK, KeyData, Uncounted, Adds, StartsAfter, Gen, Unknown
  <1>6. ReceiptsOK'
    BY <1>3 DEF IInv, ReceiptsOK, KeyData, ReceiptOK, Settled, Ids, Unknown
  <1>7. HistoryOK'
    BY DEF IInv, HistoryOK, Succeeds, KeyData
  <1>8. PositionsExact'
    BY DEF IInv, PositionsExact, KeyData, Unknown
  <1>9. ASSUME UNCHANGED mark
        PROVE  MarksOK'
    BY <1>3, <1>9 DEF IInv, MarksOK, KeyData, Known, Names, Height, Unknown, Ids
  <1>10. ASSUME UNCHANGED <<mark, marker>>
         PROVE  MarkerOK'
    <2>1. marker # None => marker.chain \in Chains
      BY NoneIsAbsence DEF IInv, TypeOK, Marker
    <2>. QED BY <1>3, <1>10, <2>1
           DEF IInv, MarkerOK, KeyData, Known, Names, Height, Unknown, Ids, Gen
  <1>. QED BY <1>1, <1>2, <1>4, <1>5, <1>6, <1>7, <1>8, <1>9, <1>10

\* A step that leaves all stored data alone keeps what it says.
LEMMA DataFrame ==
  ASSUME IInv, UNCHANGED Data
  PROVE  /\ SignedOK' /\ IndexOK' /\ TopOK' /\ IntentOK'
         /\ PlanOK' /\ TotalsOK' /\ ReceiptsOK' /\ HistoryOK' /\ PositionsExact'
         /\ UNCHANGED mark => MarksOK'
         /\ UNCHANGED <<mark, marker>> => MarkerOK'
  <1>1. UNCHANGED KeyData /\ NextOrd' = NextOrd
    BY DEF NextOrd, Data, KeyData, IntentKey
  <1>2. TopOK'
    BY DEF IInv, TopOK, Data, IntentKey, Height
  <1>3. IntentOK'
    BY DEF IInv, IntentOK, Data, IntentKey, Ids
  <1>. QED BY <1>1, <1>2, <1>3, KeyFrame

\* The receipt of a running prune fits as long as keys and records stay.
LEMMA PrunerFrame ==
  ASSUME IInv, UNCHANGED KeyData,
         pruner' # None => pruner # None /\ pruner'.r = pruner.r /\ pruner'.chain = pruner.chain
  PROVE  PrunerOK'
  <1>1. pruner # None => pruner.chain \in Chains
    BY DEF IInv, TypeOK, Pruner
  <1>2. \A c \in Chains : ChainKeys(c)' = ChainKeys(c)
    BY DEF ChainKeys, KeyData
  <1>. QED BY <1>1, <1>2
         DEF IInv, PrunerOK, KeyData, ReceiptOK, Gen, Hash, Settled, Cuts, Adds, Ids, Unknown

\* A step outside the operations under the two locks
LEMMA JobFrame ==
  ASSUME IInv, UNCHANGED Data, UNCHANGED <<job, pruner>>
  PROVE  AppendJobOK' /\ HolesOK' /\ PrunerOK' /\ PruneJobOK' /\ PageOK'
  <1>1. pruner # None => pruner.chain \in Chains
    BY DEF IInv, TypeOK, Pruner
  <1>2. job # None /\ job.op = "prune" => pruner # None
    BY DEF IInv, OwnersOK
  <1>3. \A c \in Chains : ChainKeys(c)' = ChainKeys(c)
    BY DEF ChainKeys, Data
  <1>4. AppendJobOK'
    BY DEF IInv, AppendJobOK, Data, IntentKey
  <1>5. HolesOK'
    BY DEF IInv, HolesOK, Data, SameChain, Pruning
  <1>6. PrunerOK'
    BY PrunerFrame DEF Data, KeyData
  <1>7. PruneJobOK'
    BY DEF IInv, PruneJobOK, Data
  <1>8. PageOK'
    BY <1>1, <1>2, <1>3 DEF IInv, PageOK, Data, Pruning
  <1>. QED BY <1>4, <1>5, <1>6, <1>7, <1>8

\* A prune ends: its operation under the durable lock, if any, ends with it.
LEMMA PrunerGone ==
  ASSUME IInv, UNCHANGED Data, pruner' = None,
         job' = None \/ (job' = job /\ ~(job # None /\ job.op = "prune"))
  PROVE  AppendJobOK' /\ HolesOK' /\ PrunerOK' /\ PruneJobOK' /\ PageOK'
  <1>1. AppendJobOK'
    BY DEF IInv, AppendJobOK, Data, IntentKey
  <1>2. HolesOK'
    BY DEF IInv, HolesOK, Data, SameChain
  <1>3. PrunerOK'
    BY DEF PrunerOK
  <1>4. PruneJobOK'
    BY DEF PruneJobOK
  <1>5. PageOK'
    BY DEF PageOK, Pruning
  <1>. QED BY <1>1, <1>2, <1>3, <1>4, <1>5

\* The operation under the durable lock ends, and the prune goes on, if any.
LEMMA JobGone ==
  ASSUME IInv, UNCHANGED Data, UNCHANGED pruner, job' = None,
         ~(Pruning("unindex"))
  PROVE  AppendJobOK' /\ HolesOK' /\ PrunerOK' /\ PruneJobOK' /\ PageOK'
  <1>1. AppendJobOK' /\ PruneJobOK' /\ PageOK'
    BY DEF AppendJobOK, PruneJobOK, PageOK, Pruning
  <1>2. HolesOK'
    BY DEF IInv, HolesOK, Data, SameChain
  <1>3. PrunerOK'
    BY PrunerFrame DEF Data, KeyData
  <1>. QED BY <1>1, <1>2, <1>3

-----------------------------------------------------------------------------
(* Steps of the writers that leave the stored data alone *)

\* A writer becomes idle or moves on with the entry it signed.
Moves(w, v) ==
  \/ v = Idle
  \/ wr[w] # Idle /\ \E p \in WriterPc : p # "idle" /\ v = [wr[w] EXCEPT !.pc = p]

\* What a move of a writer does to the writers' invariants.
LEMMA WriterMoves ==
  ASSUME IInv, UNCHANGED signed, NEW w \in Writers, NEW v, Moves(w, v),
         wr' = [wr EXCEPT ![w] = v]
  PROVE  wr' \in [Writers -> Writer] /\ WritersOK'
  <1>1. wr \in [Writers -> Writer] /\ wr[w] \in Writer
    BY DEF IInv, TypeOK
  <1>2. Idle \in Writer /\ Idle.pc = "idle"
    BY DEF Idle, Writer, WriterPc, NoEntry
  <1>3. v \in Writer
    BY <1>1, <1>2 DEF Moves, Writer
  <1>4. ASSUME NEW u \in Writers
        PROVE  \/ wr'[u] = Idle
               \/ /\ wr'[u].pc # "idle" /\ wr'[u].chain \in Chains
                  /\ wr'[u].id \in Ids'
                  /\ signed'[wr'[u].id].chain = wr'[u].chain
                  /\ signed'[wr'[u].id].prev = wr'[u].exp
    <2>1. wr'[u] = IF u = w THEN v ELSE wr[u]
      BY <1>1
    <2>2. \/ wr[u] = Idle
          \/ /\ wr[u].pc # "idle" /\ wr[u].chain \in Chains
             /\ wr[u].id \in Ids
             /\ signed[wr[u].id].chain = wr[u].chain
             /\ signed[wr[u].id].prev = wr[u].exp
      BY DEF IInv, WritersOK
    <2>3. Ids' = Ids
      BY DEF Ids
    <2>4. CASE u # w
      BY <2>1, <2>2, <2>3, <2>4
    <2>5. CASE u = w /\ v = Idle
      BY <2>1, <2>5
    <2>6. CASE u = w /\ v # Idle
      <3>1. PICK p \in WriterPc : p # "idle" /\ v = [wr[w] EXCEPT !.pc = p]
        BY <2>6 DEF Moves
      <3>2. wr[w] # Idle
        BY <2>6 DEF Moves
      <3>3. v.pc = p /\ v.chain = wr[w].chain /\ v.id = wr[w].id /\ v.exp = wr[w].exp
        BY <1>1, <3>1 DEF Writer
      <3>. QED BY <2>1, <2>2, <2>3, <2>6, <3>1, <3>2, <3>3
    <2>. QED BY <2>4, <2>5, <2>6
  <1>. QED BY <1>1, <1>3, <1>4 DEF WritersOK

\* A writer that owns no operation moves, and may set or drop its chain's
\* cached head.
LEMMA WriterTurn ==
  ASSUME IInv, UNCHANGED Data, UNCHANGED <<mark, marker, job, pruner, head, segs>>,
         global' \in Global,
         NEW w \in Writers, NEW v, Moves(w, v), wr' = [wr EXCEPT ![w] = v],
         wr[w].pc \notin {"append", "pruning"},
         job = None \/ wr[w].pc \notin {"store", "hold"},
         \/ UNCHANGED cache
         \/ wr[w] # Idle /\ cache' = [cache EXCEPT ![wr[w].chain] = NoEntry]
         \/ wr[w] # Idle /\ cache' = [cache EXCEPT ![wr[w].chain] = wr[w].id]
  PROVE  IInv'
  <1>1. UNCHANGED <<signed, atomic, entries, index, seq, meta, intent, plan, receipt, history>>
    BY DEF Data
  <1>2. wr' \in [Writers -> Writer] /\ WritersOK'
    BY <1>1, WriterMoves
  <1>3. wr[w] # Idle => /\ wr[w].chain \in Chains /\ wr[w].id \in Ids
                        /\ signed[wr[w].id].chain = wr[w].chain
    BY DEF IInv, WritersOK
  <1>4. cache \in [Chains -> Ids \cup {NoEntry}]
    BY DEF IInv, TypeOK
  <1>5. cache' \in [Chains -> Ids \cup {NoEntry}]
    BY <1>3, <1>4
  <1>6. TypeOK'
    BY <1>1, <1>2, <1>5 DEF IInv, TypeOK, Ids
  <1>7. HeadsOK'
    <2>1. \A c \in Chains : cache'[c] # NoEntry => signed[cache'[c]].chain = c
      BY <1>3, <1>4 DEF IInv, HeadsOK
    <2>. QED BY <1>1, <2>1 DEF IInv, HeadsOK, Ids, EmptyMeta
  <1>8. OwnersOK'
    <2>1. \A u \in Writers : u # w => wr'[u] = wr[u]
      BY DEF IInv, TypeOK
    <2>2. /\ job # None /\ job.by # None => job.by \in Writers /\ job.by # w
          /\ job # None /\ job.op = "append" => job.by # None
      <3>1. /\ job # None /\ job.by # None => job.by \in Writers /\ job.op \in {"append", "recover"}
            /\ job # None /\ job.op = "append" => job.by \in Writers
        BY DEF IInv, TypeOK, Job, DeleteJob
      <3>. QED BY <3>1, NoneIsAbsence DEF IInv, OwnersOK
    <2>3. pruner # None /\ pruner.by # None => pruner.by \in Writers /\ pruner.by # w
      BY DEF IInv, OwnersOK, TypeOK, Pruner
    <2>. QED BY <2>1, <2>2, <2>3 DEF IInv, OwnersOK
  <1>. QED BY <1>2, <1>6, <1>7, <1>8, DataFrame, JobFrame DEF IInv

\* InvalidateHead, PublishHead, AppendRefused, AppendAtCap and SetHold.
LEMMA InvalidateHeadStep ==
  ASSUME IInv, NEW w \in Writers, InvalidateHead(w)
  PROVE  IInv'
  <1>1. wr[w] \in Writer /\ global \in Global
    BY DEF IInv, TypeOK
  <1>2. wr[w] # Idle
    BY DEF InvalidateHead, Idle
  <1>. DEFINE v == CASE wr[w].pc = "refused" -> [wr[w] EXCEPT !.pc = "retry"]
                     [] wr[w].pc = "full" -> [wr[w] EXCEPT !.pc = "capped"]
                     [] wr[w].pc = "failed" -> Idle
  <1>3. wr' = [wr EXCEPT ![w] = v]
    BY DEF InvalidateHead
  <1>4. Moves(w, v)
    BY <1>2 DEF Moves, InvalidateHead, WriterPc
  <1>5. /\ wr[w].pc \in {"refused", "full", "failed"}
        /\ cache' = [cache EXCEPT ![wr[w].chain] = NoEntry]
        /\ UNCHANGED Data /\ UNCHANGED <<mark, marker, job, pruner, head, segs, global>>
    BY DEF InvalidateHead, Data, store, pruneStore
  <1>. HIDE DEF v
  <1>. QED BY <1>1, <1>2, <1>3, <1>4, <1>5, WriterTurn

\* publish_batch_heads caches the entry the writer made durable.
LEMMA PublishHeadStep ==
  ASSUME IInv, NEW w \in Writers, PublishHead(w)
  PROVE  IInv'
  <1>1. wr[w] # Idle /\ global \in Global
    BY DEF PublishHead, Idle, IInv, TypeOK
  <1>2. /\ wr[w].pc = "publish" /\ wr' = [wr EXCEPT ![w] = Idle]
        /\ cache' = [cache EXCEPT ![wr[w].chain] = wr[w].id]
        /\ UNCHANGED Data /\ UNCHANGED <<mark, marker, job, pruner, head, segs, global>>
    BY DEF PublishHead, Data, store, pruneStore
  <1>3. Moves(w, Idle)
    BY DEF Moves
  <1>. QED BY <1>1, <1>2, <1>3, WriterTurn

\* A refused append, or one at the cap, changes only what its writer does next.
LEMMA AppendRefusedStep ==
  ASSUME IInv, NEW w \in Writers, AppendRefused(w) \/ AppendAtCap(w)
  PROVE  IInv'
  <1>1. wr[w] \in Writer /\ wr[w].pc = "store" /\ job = None /\ global \in Global
    BY DEF AppendRefused, AppendAtCap, AppendReady, Locked, IInv, TypeOK
  <1>2. PICK p \in {"refused", "retry", "full", "capped"} : wr' = [wr EXCEPT ![w].pc = p]
    BY DEF AppendRefused, AppendAtCap, Refused, Full
  <1>. DEFINE v == [wr[w] EXCEPT !.pc = p]
  <1>3. wr' = [wr EXCEPT ![w] = v]
    BY <1>2
  <1>4. Moves(w, v)
    BY <1>1, <1>2 DEF Moves, Idle, WriterPc
  <1>5. UNCHANGED Data /\ UNCHANGED <<mark, marker, job, pruner, head, segs, global, cache>>
    BY DEF AppendRefused, AppendAtCap, Data, store, pruneStore
  <1>. HIDE DEF v
  <1>. QED BY <1>1, <1>3, <1>4, <1>5, WriterTurn

\* Setting the retention hold leaves the chains alone.
LEMMA SetHoldStep ==
  ASSUME IInv, NEW w \in Writers, SetHold(w)
  PROVE  IInv'
  <1>1. wr[w] \in Writer /\ wr[w].pc = "hold" /\ job = None /\ global \in Global
    BY DEF SetHold, Locked, IInv, TypeOK
  <1>. DEFINE v == [wr[w] EXCEPT !.pc = "retry"]
  <1>2. wr' = [wr EXCEPT ![w] = v]
    BY DEF SetHold
  <1>3. Moves(w, v)
    BY <1>1 DEF Moves, Idle, WriterPc
  <1>4. global' \in Global
    BY <1>1 DEF SetHold, Global
  <1>5. UNCHANGED Data /\ UNCHANGED <<mark, marker, job, pruner, head, segs, cache>>
    BY DEF SetHold, Data, pruneStore
  <1>. HIDE DEF v
  <1>. QED BY <1>1, <1>2, <1>3, <1>4, <1>5, WriterTurn

-----------------------------------------------------------------------------
(* The keys of a chain *)

\* The keys of a chain, or some of them, are a set of keys.
LEMMA ChainKeySet ==
  ASSUME IInv, NEW S \in SUBSET index
  PROVE  /\ KeySet(S) /\ seq \in Nat
         /\ \A k \in S : k.ord \in 0 .. seq /\ k.id \in Ids /\ signed[k.id] \in Entry
  <1>1. \A k \in index : k.ord \in 0 .. seq /\ k.id \in Ids /\ k \in Key
    BY DEF IInv, TypeOK, Key, Ids
  <1>2. signed \in Seq(Entry) /\ seq \in Nat
    BY DEF IInv, TypeOK
  <1>3. \A i \in Ids : signed[i] \in Entry
    BY <1>2 DEF Ids
  <1>4. IsFiniteSet(S)
    BY FS_Subset DEF IInv, IndexOK
  <1>5. \A k, l \in S : k.ord = l.ord => k = l
    BY DEF IInv, IndexOK
  <1>. QED BY <1>1, <1>2, <1>3, <1>4, <1>5 DEF KeySet

\* The keys of a chain from some position on are at consecutive positions.
LEMMA SpanFrom ==
  ASSUME IInv, NEW c \in Chains, NEW S \in SUBSET ChainKeys(c), S # {}, NEW a \in Nat,
         \A k \in S : signed[k.id].at > a,
         \A l \in S : \A p \in a + 1 .. signed[l.id].at : \E m \in S : signed[m.id].at = p
  PROVE  \E b \in Nat : a < b /\ Spans(S, a, b)
  <1>1. S \in SUBSET index
    BY DEF ChainKeys
  <1>2. KeySet(S) /\ seq \in Nat /\ \A k \in S : k.ord \in 0 .. seq /\ signed[k.id] \in Entry
    BY <1>1, ChainKeySet
  <1>3. \A k \in S : k.ord <= seq /\ k.ord \in Nat /\ signed[k.id].at \in Nat
    BY <1>2 DEF Entry
  <1>4. PICK t \in S : \A l \in S : l.ord <= t.ord
    BY <1>2, <1>3, NewestExists
  <1>5. \A k, l \in S : k.ord < l.ord <=> signed[k.id].at < signed[l.id].at
    <2>1. \A k, l \in S : SameChain(k, l) /\ k \in index /\ l \in index
      BY DEF ChainKeys, SameChain
    <2>. QED BY <2>1 DEF IInv, IndexOK
  <1>. DEFINE b == signed[t.id].at
  <1>6. b \in Nat /\ a < b
    BY <1>3
  <1>7. \A k \in S : signed[k.id].at \in a + 1 .. b
    <2>. SUFFICES ASSUME NEW k \in S PROVE signed[k.id].at \in a + 1 .. b
      OBVIOUS
    <2>1. ~(t.ord < k.ord)
      BY <1>3, <1>4
    <2>2. ~(b < signed[k.id].at)
      BY <1>5, <2>1
    <2>. QED BY <1>3, <1>6, <2>2
  <1>8. \A p \in a + 1 .. b : \E k \in S : signed[k.id].at = p
    OBVIOUS
  <1>9. Spans(S, a, b)
    BY <1>2, <1>5, <1>7, <1>8 DEF Spans
  <1>. QED BY <1>6, <1>9

\* A chain's keys, or those from one on, are at consecutive positions.
LEMMA SpanExists ==
  ASSUME IInv, NEW c \in Chains, NEW S \in SUBSET ChainKeys(c), S # {},
         \A k \in S, l \in ChainKeys(c) : k.ord < l.ord => l \in S
  PROVE  \E a \in Nat, b \in Nat : a < b /\ Spans(S, a, b)
  <1>1. S \in SUBSET index
    BY DEF ChainKeys
  <1>2. KeySet(S) /\ \A k \in S : k.ord \in Nat /\ k.id \in Ids /\ signed[k.id] \in Entry
    BY <1>1, ChainKeySet
  <1>3. PICK o \in S : \A l \in S : o.ord <= l.ord
    BY <1>2, OldestExists
  <1>4. signed[o.id].at \in Nat /\ signed[o.id].at > 0
    <2>1. signed[o.id].at = Height(signed[o.id].prev) + 1
      BY <1>2 DEF IInv, SignedOK
    <2>2. Height(signed[o.id].prev) \in Nat
      <3>1. signed[o.id].prev = NoEntry \/ signed[o.id].prev \in Ids
        BY <1>2 DEF IInv, SignedOK, Ids, Entry, NoEntry, TypeOK
      <3>2. signed \in Seq(Entry)
        BY DEF IInv, TypeOK
      <3>3. \A i \in Ids : signed[i] \in Entry
        BY <3>2 DEF Ids
      <3>4. \A i \in Ids : signed[i].at \in Nat
        BY <3>3 DEF Entry
      <3>. QED BY <3>1, <3>4 DEF Height
    <2>. QED BY <2>1, <2>2
  <1>. DEFINE a == signed[o.id].at - 1
  <1>5. a \in Nat
    BY <1>4
  <1>6. \A k \in S : signed[k.id].at \in Nat
    BY <1>2 DEF Entry
  <1>7. \A k, l \in ChainKeys(c) :
          /\ k.ord < l.ord <=> signed[k.id].at < signed[l.id].at
          /\ \A p \in signed[k.id].at .. signed[l.id].at :
               \E m \in ChainKeys(c) : signed[m.id].at = p
    <2>1. \A k, l \in ChainKeys(c) : SameChain(k, l) /\ k \in index /\ l \in index
      BY DEF ChainKeys, SameChain
    <2>2. \A k \in ChainKeys(c), m \in index : SameChain(m, k) => m \in ChainKeys(c)
      BY DEF ChainKeys, SameChain
    <2>. QED BY <2>1, <2>2 DEF IInv, IndexOK
  <1>8. \A k \in S : signed[k.id].at > a
    <2>. SUFFICES ASSUME NEW k \in S PROVE signed[k.id].at > a
      OBVIOUS
    <2>1. ~(k.ord < o.ord)
      BY <1>2, <1>3
    <2>2. ~(signed[k.id].at < signed[o.id].at)
      BY <1>7, <2>1
    <2>. QED BY <1>4, <1>6, <2>2
  <1>9. ASSUME NEW l \in S, NEW p \in a + 1 .. signed[l.id].at
        PROVE  \E m \in S : signed[m.id].at = p
    <2>1. p \in signed[o.id].at .. signed[l.id].at
      BY <1>4
    <2>2. PICK m \in ChainKeys(c) : signed[m.id].at = p
      BY <1>7, <2>1
    <2>3. m \in S
      <3>1. CASE p = signed[o.id].at
        <4>1. ~(o.ord < m.ord) /\ ~(m.ord < o.ord)
          BY <1>4, <1>7, <2>2, <3>1
        <4>2. m \in index /\ m.ord \in Nat /\ o \in index /\ o.ord \in Nat
          BY <1>1, ChainKeySet DEF ChainKeys
        <4>3. m.ord = o.ord
          BY <4>1, <4>2
        <4>. QED BY <4>2, <4>3 DEF IInv, IndexOK
      <3>2. CASE p # signed[o.id].at
        BY <1>4, <1>7, <2>1, <2>2, <3>2
      <3>. QED BY <3>1, <3>2
    <2>. QED BY <2>2, <2>3
  <1>. HIDE DEF a
  <1>. QED BY <1>5, <1>8, <1>9, SpanFrom


-----------------------------------------------------------------------------
(* Steps of the operations that leave the stored data alone *)

Ctl == AppendJobOK /\ HolesOK /\ PrunerOK /\ PruneJobOK /\ PageOK

\* A step that leaves the data and the marks alone, and points the stored head
\* of a chain, if any, at an entry of the chain
LEMMA ControlStep ==
  ASSUME IInv, UNCHANGED Data, UNCHANGED <<mark, marker, cache>>,
         \/ UNCHANGED head
         \/ \E c \in Chains, i \in Ids : signed[i].chain = c /\ head' = [head EXCEPT ![c] = i],
         segs' \subseteq Segment, global' \in Global, wr' \in [Writers -> Writer], WritersOK',
         job' \in Job \cup DeleteJob \cup {None}, pruner' \in Pruner \cup {None}, OwnersOK',
         Ctl'
  PROVE  IInv'
  <1>1. UNCHANGED <<atomic, entries, index, seq, meta, intent, plan, receipt, history, signed>>
    BY DEF Data
  <1>2. head \in [Chains -> Ids \cup {NoEntry}]
    BY DEF IInv, TypeOK
  <1>3. /\ head' \in [Chains -> Ids \cup {NoEntry}]
        /\ \A c \in Chains : head'[c] # NoEntry => signed[head'[c]].chain = c
    BY <1>2 DEF IInv, HeadsOK
  <1>4. TypeOK'
    BY <1>1, <1>3 DEF IInv, TypeOK, Ids
  <1>5. HeadsOK'
    BY <1>1, <1>3 DEF IInv, HeadsOK, Ids, EmptyMeta
  <1>. QED BY <1>4, <1>5, DataFrame DEF IInv, Ctl

\* What is known of the operation under the durable lock and of its owner
LEMMA OwnerTypes ==
  ASSUME IInv
  PROVE  /\ wr \in [Writers -> Writer]
         /\ job # None => job \in Job \cup DeleteJob
         /\ job # None /\ job.op # "prune" => job \in Job /\ job.op \in {"append", "recover"}
         /\ job # None /\ job.op = "append" => job.by # None
         /\ job # None /\ job.by # None =>
              /\ job.op # "prune" /\ job.by \in Writers
              /\ wr[job.by] # Idle /\ wr[job.by].pc \in {"append", "store", "hold"}
         /\ job # None /\ job.op = "prune" => pruner # None
         /\ pruner # None => pruner \in Pruner /\ pruner.chain \in Chains
         /\ pruner # None /\ pruner.by # None =>
              pruner.by \in Writers /\ wr[pruner.by] # Idle /\ wr[pruner.by].pc = "pruning"
  <1>1. job # None => job \in Job \cup DeleteJob
    BY DEF IInv, TypeOK
  <1>2. /\ job # None /\ job.op # "prune" => job \in Job /\ job.op \in {"append", "recover"}
        /\ job # None /\ job.op = "append" => job.by \in Writers
        /\ job # None /\ job.by # None => job.op # "prune" /\ job.by \in Writers
    BY <1>1 DEF Job, DeleteJob
  <1>3. job # None /\ job.by # None => wr[job.by].pc \in {"append", "store", "hold"}
    BY <1>2 DEF IInv, OwnersOK
  <1>10. None \notin Writers
    BY NoneIsAbsence
  <1>4. Idle.pc = "idle"
    BY DEF Idle
  <1>5. pruner # None => pruner \in Pruner /\ pruner.chain \in Chains
    BY DEF IInv, TypeOK, Pruner
  <1>6. pruner # None /\ pruner.by # None => pruner.by \in Writers
    BY <1>5 DEF Pruner
  <1>7. pruner # None /\ pruner.by # None => wr[pruner.by].pc = "pruning"
    BY DEF IInv, OwnersOK
  <1>8. job # None /\ job.op = "prune" => pruner # None
    BY DEF IInv, OwnersOK
  <1>9. wr \in [Writers -> Writer]
    BY DEF IInv, TypeOK
  <1>. QED BY <1>1, <1>2, <1>3, <1>4, <1>5, <1>6, <1>7, <1>8, <1>9, <1>10

\* The owner of a failed operation is told, and both locks are consistent.
LEMMA FailOwnerControl ==
  ASSUME IInv, job # None, FailOwner, UNCHANGED signed
  PROVE  /\ wr' \in [Writers -> Writer] /\ WritersOK' /\ OwnersOK'
         /\ job' = None /\ pruner' \in Pruner \cup {None}
         /\ IF job.op = "prune" THEN pruner' = None ELSE pruner' = pruner
  <1>1. /\ job' = None /\ pruner' \in Pruner \cup {None}
        /\ IF job.op = "prune" THEN pruner' = None ELSE pruner' = pruner
    BY OwnerTypes DEF FailOwner
  <1>2. CASE job.by # None
    <2>1. wr' = [wr EXCEPT ![job.by] = Failed(job.by)] /\ pruner' = pruner
      BY <1>2, OwnerTypes DEF FailOwner
    <2>2. /\ job.by \in Writers /\ wr[job.by] # Idle
          /\ wr[job.by].pc \in {"append", "store", "hold"}
      BY <1>2, OwnerTypes
    <2>3. Moves(job.by, Failed(job.by))
      BY <2>2 DEF Moves, Failed, WriterPc
    <2>4. wr' \in [Writers -> Writer] /\ WritersOK'
      BY <2>1, <2>2, <2>3, WriterMoves
    <2>5. pruner # None /\ pruner.by # None => wr'[pruner.by] = wr[pruner.by]
      BY <2>1, <2>2, OwnerTypes
    <2>6. OwnersOK'
      BY <1>1, <2>1, <2>5 DEF IInv, OwnersOK
    <2>. QED BY <1>1, <2>4, <2>6
  <1>4. CASE job.by = None /\ job.op # "prune"
    <2>1. wr' = wr /\ pruner' = pruner
      BY <1>4 DEF FailOwner
    <2>. QED BY <1>1, <2>1 DEF IInv, TypeOK, WritersOK, OwnersOK, Ids
  <1>3. CASE job.by = None /\ job.op = "prune"
    <2>1. /\ pruner' = None
          /\ wr' = IF pruner.by # None THEN [wr EXCEPT ![pruner.by] = Idle] ELSE wr
      BY <1>3 DEF FailOwner
    <2>2. OwnersOK'
      BY <1>1, <2>1 DEF OwnersOK
    <2>3. wr' \in [Writers -> Writer] /\ WritersOK'
      <3>1. CASE pruner.by # None
        <4>1. pruner.by \in Writers
          BY <1>3, <3>1, OwnerTypes
        <4>2. Moves(pruner.by, Idle)
          BY DEF Moves
        <4>. QED BY <2>1, <3>1, <4>1, <4>2, WriterMoves
      <3>2. CASE pruner.by = None
        BY <2>1, <3>2 DEF IInv, TypeOK, WritersOK, Ids
      <3>. QED BY <3>1, <3>2
    <2>. QED BY <1>1, <2>2, <2>3
  <1>. QED BY <1>2, <1>3, <1>4

\* An operation that fails without a write
LEMMA FailStep ==
  ASSUME IInv, job # None, FailOwner, UNCHANGED Data,
         UNCHANGED <<mark, marker, head, segs, cache, global>>
  PROVE  IInv'
  <1>1. UNCHANGED signed
    BY DEF Data
  <1>2. /\ wr' \in [Writers -> Writer] /\ WritersOK' /\ OwnersOK'
        /\ job' = None /\ pruner' \in Pruner \cup {None}
        /\ IF job.op = "prune" THEN pruner' = None ELSE pruner' = pruner
    BY <1>1, FailOwnerControl
  <1>3. Ctl'
    <2>1. CASE job.op = "prune"
      BY <1>2, <2>1, PrunerGone DEF Ctl
    <2>2. CASE job.op # "prune"
      BY <1>2, <2>2, JobGone DEF Ctl, Pruning
    <2>. QED BY <2>1, <2>2
  <1>4. global' \in Global /\ segs' \subseteq Segment
    BY DEF IInv, TypeOK
  <1>. QED BY <1>2, <1>3, <1>4, ControlStep

\* A write fails or its caller is cancelled.
LEMMA FailOperationStep ==
  ASSUME IInv, FailOperation
  PROVE  IInv'
  <1>1. /\ job # None /\ FailOwner /\ UNCHANGED Data
        /\ UNCHANGED <<mark, marker, head, segs, cache, global>>
    BY DEF FailOperation, Data, store, pruneStore
  <1>. QED BY <1>1, FailStep

\* A restart leaves the store and forgets the rest.
LEMMA CrashStep ==
  ASSUME IInv, Crash
  PROVE  IInv'
  <1>1. /\ UNCHANGED Data /\ UNCHANGED <<mark, head, segs, global>>
        /\ job' = None /\ pruner' = None /\ marker' = None
        /\ cache' = [c \in Chains |-> NoEntry] /\ wr' = [w \in Writers |-> Idle]
    BY DEF Crash, Data, store, pruneStore
  <1>2. UNCHANGED <<atomic, entries, index, seq, meta, intent, plan, receipt, history, signed>>
    BY <1>1 DEF Data
  <1>3. Idle \in Writer
    BY DEF Idle, Writer, WriterPc, NoEntry
  <1>4. TypeOK'
    BY <1>1, <1>2, <1>3 DEF IInv, TypeOK, Ids
  <1>5. HeadsOK'
    BY <1>1, <1>2 DEF IInv, HeadsOK, Ids, EmptyMeta
  <1>6. WritersOK' /\ OwnersOK'
    BY <1>1 DEF WritersOK, OwnersOK
  <1>7. Ctl'
    BY <1>1, PrunerGone DEF Ctl
  <1>8. MarkerOK'
    BY <1>1 DEF MarkerOK
  <1>. QED BY <1>1, <1>4, <1>5, <1>6, <1>7, <1>8, DataFrame DEF IInv, Ctl

\* The prune ends, and the append that asked for it goes on.
LEMMA EndPruneControl ==
  ASSUME IInv, pruner # None, NEW pc \in {"idle", "hold", "retry"}, EndPrune(pc),
         UNCHANGED signed,
         job' = None \/ (job' = job /\ ~(job # None /\ job.op = "prune"))
  PROVE  /\ wr' \in [Writers -> Writer] /\ WritersOK' /\ OwnersOK'
         /\ pruner' = None /\ job' \in Job \cup DeleteJob \cup {None}
  <1>1. pruner' = None /\ job' \in Job \cup DeleteJob \cup {None}
    BY OwnerTypes DEF EndPrune
  <1>2. CASE pruner.by = None
    <2>1. wr' = wr
      BY <1>2 DEF EndPrune
    <2>. QED BY <1>1, <2>1 DEF IInv, TypeOK, WritersOK, OwnersOK, Ids
  <1>3. CASE pruner.by # None
    <2>. DEFINE u == pruner.by
                v == IF pc = "idle" THEN Idle ELSE [wr[u] EXCEPT !.pc = pc]
    <2>1. u \in Writers /\ wr[u] # Idle /\ wr[u].pc = "pruning" /\ wr \in [Writers -> Writer]
      BY <1>3, OwnerTypes
    <2>2. wr' = [wr EXCEPT ![u] = v]
      BY <1>3, <2>1 DEF EndPrune
    <2>3. Moves(u, v)
      BY <2>1 DEF Moves, WriterPc
    <2>4. \A x \in Writers : x # u => wr'[x] = wr[x]
      BY <2>1, <2>2
    <2>5. wr' \in [Writers -> Writer] /\ WritersOK'
      <3>. HIDE DEF v
      <3>. QED BY <2>1, <2>2, <2>3, WriterMoves
    <2>6. job' # None =>
            /\ job' = job /\ job.op # "prune"
            /\ job.op = "append" => job.by # None
            /\ job.by # None => job.by \in Writers /\ job.by # u
      BY <2>1, OwnerTypes
    <2>7. OwnersOK'
      BY <1>1, <2>4, <2>6 DEF IInv, OwnersOK
    <2>. QED BY <1>1, <2>5, <2>7
  <1>. QED BY <1>2, <1>3

\* A prune that ends without a write
LEMMA EndPruneStep ==
  ASSUME IInv, pruner # None, NEW pc \in {"idle", "hold", "retry"}, EndPrune(pc),
         UNCHANGED Data, UNCHANGED <<mark, marker, head, segs, cache, global>>,
         job' = None \/ (job' = job /\ ~(job # None /\ job.op = "prune"))
  PROVE  IInv'
  <1>1. UNCHANGED signed
    BY DEF Data
  <1>2. /\ wr' \in [Writers -> Writer] /\ WritersOK' /\ OwnersOK'
        /\ pruner' = None /\ job' \in Job \cup DeleteJob \cup {None}
    BY <1>1, EndPruneControl
  <1>3. Ctl'
    BY <1>2, PrunerGone DEF Ctl
  <1>4. global' \in Global /\ segs' \subseteq Segment
    BY DEF IInv, TypeOK
  <1>. QED BY <1>2, <1>3, <1>4, ControlStep

\* A recovery of an interrupted append starts.
LEMMA StartRecoveryStep ==
  ASSUME IInv, NEW w \in Writers, StartRecovery(w)
  PROVE  IInv'
  <1>1. /\ job = None /\ intent # None /\ wr[w].pc \in {"store", "hold"}
        /\ job' = [op |-> "recover", by |-> w, step |-> "entry"]
        /\ UNCHANGED Data /\ UNCHANGED <<mark, marker, head, segs, cache, global, wr, pruner>>
    BY DEF StartRecovery, Locked, Data, store, pruneStore
  <1>2. UNCHANGED <<atomic, entries, index, seq, meta, intent, plan, receipt, history, signed>>
    BY <1>1 DEF Data
  <1>3. /\ wr' \in [Writers -> Writer] /\ pruner' \in Pruner \cup {None}
        /\ global' \in Global /\ segs' \subseteq Segment /\ job' # None /\ job' \in Job
    BY <1>1, NoneIsAbsence DEF IInv, TypeOK, Job, AppendSteps
  <1>4. WritersOK' /\ OwnersOK'
    BY <1>1, <1>2 DEF IInv, WritersOK, OwnersOK, Ids
  <1>5. AppendJobOK' /\ PruneJobOK' /\ PageOK'
    BY <1>1, <1>2 DEF AppendJobOK, PruneJobOK, PageOK, Pruning
  <1>6. HolesOK'
    BY <1>1, <1>2 DEF IInv, HolesOK, SameChain, Pruning
  <1>7. PrunerOK'
    BY <1>1, PrunerFrame DEF Data, KeyData
  <1>. QED BY <1>1, <1>3, <1>4, <1>5, <1>6, <1>7, ControlStep DEF Ctl

\* A prune starts; it reads the store before it takes the durable lock.
LEMMA PruneStarts ==
  ASSUME IInv, pruner = None, pruner' \in Pruner, pruner'.pc = "scan", pruner'.r = None,
         UNCHANGED Data, UNCHANGED <<mark, marker, head, segs, cache, global, job>>,
         wr' \in [Writers -> Writer], WritersOK',
         job # None /\ job.by # None => wr'[job.by] = wr[job.by],
         pruner'.by # None => wr'[pruner'.by].pc = "pruning"
  PROVE  IInv'
  <1>1. UNCHANGED <<atomic, entries, index, seq, meta, intent, plan, receipt, history, signed>>
    BY DEF Data
  <1>2. job # None => job.op # "prune"
    BY DEF IInv, OwnersOK
  <1>3. pruner' # None
    BY NoneIsAbsence
  <1>4. OwnersOK'
    BY <1>2, <1>3, OwnerTypes DEF IInv, OwnersOK
  <1>5. AppendJobOK' /\ PruneJobOK' /\ PageOK' /\ PrunerOK'
    BY <1>1, <1>2 DEF IInv, AppendJobOK, PruneJobOK, PageOK, PrunerOK, Pruning, IntentKey
  <1>6. HolesOK'
    BY <1>1 DEF IInv, HolesOK, SameChain
  <1>7. global' \in Global /\ segs' \subseteq Segment /\ job' \in Job \cup DeleteJob \cup {None}
    BY DEF IInv, TypeOK
  <1>. QED BY <1>4, <1>5, <1>6, <1>7, ControlStep DEF Ctl

\* The operator's prune, and the prune of an append that met the cap.
LEMMA StartPruneStep ==
  ASSUME IInv, NEW c \in Chains, NEW n \in Retains, StartPrune(c, n)
  PROVE  IInv'
  <1>1. /\ pruner = None
        /\ pruner' = [pc |-> "scan", chain |-> c, retain |-> n, sel |-> None, by |-> None,
                      r |-> None]
        /\ UNCHANGED Data /\ UNCHANGED <<mark, marker, head, segs, cache, global, job, wr>>
    BY DEF StartPrune, Data, store, pruneStore
  <1>2. pruner' \in Pruner
    BY <1>1, AuditAssumption DEF Pruner
  <1>3. wr' \in [Writers -> Writer] /\ WritersOK'
    BY <1>1 DEF IInv, TypeOK, WritersOK, Data, Ids
  <1>. QED BY <1>1, <1>2, <1>3, PruneStarts

\* An append at the cap starts a prune, gives up, or sets the hold next.
LEMMA RelieveCapStep ==
  ASSUME IInv, NEW w \in Writers, RelieveCap(w)
  PROVE  IInv'
  <1>1. /\ wr[w].pc = "capped" /\ pruner = None /\ job = None
        /\ UNCHANGED Data /\ UNCHANGED <<mark, marker, head, segs, cache, global, job>>
    BY DEF RelieveCap, Data, store, pruneStore, Locked
  <1>2. wr \in [Writers -> Writer] /\ wr[w] # Idle /\ global \in Global
    BY <1>1 DEF IInv, TypeOK, Idle
  <1>3. UNCHANGED signed
    BY <1>1 DEF Data
  <1>4. CASE Prunable(1) = {} /\ pruner' = pruner
                /\ wr' = [wr EXCEPT ![w] = IF segs = {} THEN Idle ELSE [@ EXCEPT !.pc = "hold"]]
    <2>. DEFINE v == IF segs = {} THEN Idle ELSE [wr[w] EXCEPT !.pc = "hold"]
    <2>1. wr' = [wr EXCEPT ![w] = v]
      BY <1>2, <1>4
    <2>2. Moves(w, v)
      BY <1>2 DEF Moves, WriterPc
    <2>. HIDE DEF v
    <2>. QED BY <1>1, <1>2, <1>4, <2>1, <2>2, WriterTurn
  <1>5. ASSUME NEW s \in Prunable(1),
               pruner' = [pc |-> "scan", chain |-> s.chain, retain |-> RetainFor(s, 1),
                          sel |-> s, by |-> w, r |-> None],
               wr' = [wr EXCEPT ![w].pc = "pruning"]
        PROVE  IInv'
    <2>1. s \in Segment
      BY DEF Prunable, OldestSegments, IInv, TypeOK
    <2>2. s.chain \in Chains /\ s.count \in Nat /\ meta[s.chain].count \in Nat
      BY <2>1 DEF Segment, IInv, TypeOK, Meta
    <2>3. RetainFor(s, 1) \in Nat \ {0}
      BY <2>2 DEF RetainFor, Larger, Minus
    <2>4. pruner' \in Pruner
      BY <1>5, <2>1, <2>2, <2>3 DEF Pruner
    <2>. DEFINE v == [wr[w] EXCEPT !.pc = "pruning"]
    <2>5. wr' = [wr EXCEPT ![w] = v]
      BY <1>2, <1>5
    <2>6. Moves(w, v)
      BY <1>2 DEF Moves, WriterPc
    <2>7. wr' \in [Writers -> Writer] /\ WritersOK'
      <3>. HIDE DEF v
      <3>. QED BY <1>3, <2>5, <2>6, WriterMoves
    <2>8. wr'[w].pc = "pruning"
      BY <1>2, <1>5 DEF Writer
    <2>. QED BY <1>1, <1>5, <2>4, <2>7, <2>8, PruneStarts
  <1>. QED BY <1>4, <1>5 DEF RelieveCap

\* A prune with a signed receipt goes on to its next phase.
LEMMA PrunerMoves ==
  ASSUME IInv, pruner # None, pruner.pc \in {"check", "archive"}, NEW p \in {"archive", "run"},
         pruner' = [pruner EXCEPT !.pc = p],
         UNCHANGED Data, UNCHANGED <<mark, marker, head, segs, cache, global, wr, job>>
  PROVE  IInv'
  <1>1. UNCHANGED <<atomic, entries, index, seq, meta, intent, plan, receipt, history, signed>>
    BY DEF Data
  <1>2. pruner \in Pruner
    BY OwnerTypes
  <1>3. /\ pruner' \in Pruner /\ pruner' # None /\ pruner'.pc = p /\ pruner'.chain = pruner.chain
        /\ pruner'.r = pruner.r /\ pruner'.by = pruner.by
    BY <1>2, NoneIsAbsence DEF Pruner
  <1>4. job # None => job.op # "prune"
    BY DEF IInv, OwnersOK
  <1>5. OwnersOK' /\ WritersOK'
    BY <1>1, <1>3, <1>4 DEF IInv, OwnersOK, WritersOK, Ids
  <1>6. AppendJobOK' /\ PruneJobOK' /\ PageOK'
    BY <1>1, <1>4 DEF IInv, AppendJobOK, PruneJobOK, PageOK, Pruning, IntentKey
  <1>7. HolesOK'
    BY <1>1, <1>3, <1>4 DEF IInv, HolesOK, SameChain, Pruning
  <1>8. PrunerOK'
    BY <1>3, PrunerFrame DEF Data, KeyData
  <1>9. /\ global' \in Global /\ segs' \subseteq Segment /\ job' \in Job \cup DeleteJob \cup {None}
        /\ wr' \in [Writers -> Writer]
    BY DEF IInv, TypeOK
  <1>. QED BY <1>3, <1>5, <1>6, <1>7, <1>8, <1>9, ControlStep DEF Ctl

\* The check against the watermark before a prune, and the archiving
LEMMA CheckReachStep ==
  ASSUME IInv, CheckReach
  PROVE  IInv'
  <1>1. /\ pruner # None /\ pruner.pc = "check" /\ job = None
        /\ UNCHANGED Data /\ UNCHANGED <<mark, marker, head, segs, cache, global, job>>
        /\ \/ pruner' = [pruner EXCEPT !.pc = "archive"] /\ UNCHANGED wr
           \/ EndPrune("hold")
    BY DEF CheckReach, Data, store, pruneStore, Locked
  <1>. QED BY <1>1, PrunerMoves, EndPruneStep

\* Archiving writes no stored data.
LEMMA ArchivePrunedStep ==
  ASSUME IInv, ArchivePruned
  PROVE  IInv'
  <1>1. /\ pruner # None /\ pruner.pc = "archive"
        /\ UNCHANGED Data /\ UNCHANGED <<mark, marker, head, segs, cache, global, job>>
        /\ \/ pruner' = [pruner EXCEPT !.pc = "run"] /\ UNCHANGED wr
           \/ EndPrune("idle")
    BY DEF ArchivePruned, Data, store
  <1>2. ~(job # None /\ job.op = "prune")
    BY <1>1 DEF IInv, OwnersOK
  <1>. QED BY <1>1, <1>2, PrunerMoves, EndPruneStep

\* The prune takes the durable lock: it finds no key without its entry.
LEMMA CallPruneStep ==
  ASSUME IInv, CallPrune
  PROVE  IInv'
  <1>1. /\ pruner # None /\ pruner.pc = "run" /\ job = None
        /\ job' = [op |-> "prune", by |-> None, step |-> "plan"]
        /\ UNCHANGED Data /\ UNCHANGED <<mark, marker, head, segs, cache, global, wr, pruner>>
    BY DEF CallPrune, Data, store, pruneStore, Locked
  <1>2. UNCHANGED <<atomic, entries, index, seq, meta, intent, plan, receipt, history, signed>>
    BY <1>1 DEF Data
  <1>3. job' \in Job /\ job' # None
    BY <1>1, NoneIsAbsence DEF Job, PruneSteps
  <1>4. OwnersOK' /\ WritersOK'
    BY <1>1, <1>2 DEF IInv, OwnersOK, WritersOK, Ids
  <1>5. AppendJobOK' /\ PruneJobOK' /\ PageOK'
    BY <1>1, <1>2 DEF AppendJobOK, PruneJobOK, PageOK, Pruning
  <1>6. HolesOK'
    BY <1>1, <1>2 DEF IInv, HolesOK, Pruning
  <1>7. PrunerOK'
    BY <1>1, PrunerFrame DEF Data, KeyData
  <1>8. /\ global' \in Global /\ segs' \subseteq Segment /\ pruner' \in Pruner \cup {None}
        /\ wr' \in [Writers -> Writer]
    BY <1>1 DEF IInv, TypeOK
  <1>. QED BY <1>1, <1>3, <1>4, <1>5, <1>6, <1>7, <1>8, ControlStep DEF Ctl

\* A step of the operation under the lock that changes only the session's
\* totals, its segment descriptors or a stored head.
LEMMA JobMoves ==
  ASSUME IInv, job # None, NEW s,
         \/ job.op # "prune" /\ job.step = "head" /\ s = "meta"
         \/ job.op # "prune" /\ job.step = "seg" /\ s = "global"
         \/ job.op # "prune" /\ job.step = "global" /\ s = "remove"
         \/ job.op = "prune" /\ job.step = "account" /\ s = "segment"
         \/ job.op = "prune" /\ job.step = "segment" /\ s = "history",
         job' = [job EXCEPT !.step = s],
         UNCHANGED Data, UNCHANGED <<mark, marker, cache, wr, pruner>>,
         \/ UNCHANGED head
         \/ \E c \in Chains, i \in Ids : signed[i].chain = c /\ head' = [head EXCEPT ![c] = i],
         segs' \subseteq Segment, global' \in Global
  PROVE  IInv'
  <1>1. UNCHANGED <<atomic, entries, index, seq, meta, intent, plan, receipt, history, signed>>
    BY DEF Data
  <1>2. job \in Job
    BY DEF IInv, TypeOK, DeleteJob, Job
  <1>3. /\ job' \in Job /\ job' # None /\ job'.op = job.op /\ job'.by = job.by /\ job'.step = s
    BY <1>2, NoneIsAbsence DEF Job, AppendSteps, PruneSteps
  <1>4. OwnersOK' /\ WritersOK'
    BY <1>1, <1>3 DEF IInv, OwnersOK, WritersOK, Ids
  <1>5. AppendJobOK'
    BY <1>1, <1>3 DEF IInv, AppendJobOK, IntentKey
  <1>6. PruneJobOK' /\ PageOK'
    BY <1>1, <1>3 DEF IInv, PruneJobOK, PageOK, Pruning, EmptyMeta
  <1>7. HolesOK'
    BY <1>1, <1>3 DEF IInv, HolesOK, Pruning, SameChain
  <1>8. PrunerOK'
    BY PrunerFrame DEF Data, KeyData
  <1>9. pruner' \in Pruner \cup {None} /\ wr' \in [Writers -> Writer]
    BY DEF IInv, TypeOK
  <1>. QED BY <1>3, <1>4, <1>5, <1>6, <1>7, <1>8, <1>9, ControlStep DEF Ctl

\* A prune gives back what it removed and drops its segment's descriptor.
LEMMA AccountPrunedStep ==
  ASSUME IInv, AccountPruned \/ RemoveSegment
  PROVE  IInv'
  <1>1. global \in Global /\ segs \subseteq Segment
    BY DEF IInv, TypeOK
  <1>2. CASE AccountPruned
    <2>1. /\ job # None /\ job.op = "prune" /\ job.step = "account"
          /\ job' = [job EXCEPT !.step = "segment"]
          /\ UNCHANGED Data /\ UNCHANGED <<mark, marker, cache, wr, pruner, head, segs>>
      BY <1>2 DEF AccountPruned, Pruning, GoTo, Data, pruneStore
    <2>2. plan[pruner.chain].r.omitted \in Nat
      <3>1. plan[pruner.chain] # None /\ pruner.chain \in Chains
        BY <2>1, OwnerTypes DEF IInv, PruneJobOK
      <3>2. plan[pruner.chain] \in Plan
        BY <3>1 DEF IInv, TypeOK
      <3>. QED BY <3>2 DEF Plan, Receipt
    <2>3. global' \in Global
      <3>. DEFINE n == Minus(global.total, plan[pruner.chain].r.omitted)
      <3>1. global.total \in Nat
        BY <1>1 DEF Global
      <3>2. n \in Nat
        BY <2>2, <3>1 DEF Minus
      <3>3. global' = [global EXCEPT !.total = n, !.hold = FALSE]
        BY <1>2 DEF AccountPruned
      <3>. HIDE DEF n
      <3>. QED BY <1>1, <3>2, <3>3 DEF Global
    <2>. QED BY <1>1, <2>1, <2>3, JobMoves
  <1>3. CASE RemoveSegment
    <2>1. /\ job # None /\ job.op = "prune" /\ job.step = "segment"
          /\ job' = [job EXCEPT !.step = "history"] /\ segs' \subseteq segs
          /\ UNCHANGED Data /\ UNCHANGED <<mark, marker, cache, wr, pruner, head, global>>
      BY <1>3 DEF RemoveSegment, Pruning, GoTo, Data, pruneStore
    <2>. QED BY <1>1, <2>1, JobMoves
  <1>. QED BY <1>2, <1>3

\* The last of some keys is that of the newest.
LEMMA LastIdKey ==
  ASSUME IInv, NEW S \in SUBSET index
  PROVE  /\ LastId(S) \in Nat
         /\ S # {} => \E k \in S : LastId(S) = k.id /\ \A l \in S : l.ord <= k.ord
  <1>1. KeySet(S) /\ seq \in Nat /\ \A k \in S : k.ord \in 0 .. seq /\ k.id \in Ids
    BY ChainKeySet
  <1>2. CASE S = {}
    BY <1>2 DEF LastId, NoEntry
  <1>3. CASE S # {}
    <2>1. \A k \in S : k.ord <= seq
      BY <1>1
    <2>2. Nth(S, Cardinality(S)) \in S /\ \A l \in S : l.ord <= Nth(S, Cardinality(S)).ord
      BY <1>1, <1>3, <2>1, LastIsNewest
    <2>3. LastId(S) = Nth(S, Cardinality(S)).id
      BY <1>3 DEF LastId
    <2>4. LastId(S) \in Nat
      BY <1>1, <2>2, <2>3 DEF Ids
    <2>. QED BY <2>2, <2>3, <2>4
  <1>. QED BY <1>2, <1>3

\* Nothing of a settled chain is still to be counted.
LEMMA SettledCounted ==
  ASSUME IInv, NEW c \in Chains, Settled(c)
  PROVE  /\ ~Uncounted(c)
         /\ meta[c].omitted # Unknown => StartsAfter(c, meta[c].omitted)
  <1>1. ~Uncounted(c)
    <2>1. CASE plan[c] = None
      BY <2>1 DEF Uncounted
    <2>2. CASE plan[c] # None /\ plan[c].r = receipt[c]
      <3>1. plan[c] \in Plan /\ meta[c] \in Meta
        BY <2>2 DEF IInv, TypeOK
      <3>2. receipt[c] # None /\ meta[c].gen \in Nat
        BY <2>2, <3>1, NoneIsAbsence DEF Plan, Meta
      <3>3. meta[c].gen = 0 => receipt[c].omitted = 0
        BY <3>2 DEF IInv, TotalsOK
      <3>4. meta[c].gen > 0 => meta[c].gen = receipt[c].gen
        BY <2>2, <3>2 DEF IInv, TotalsOK, Gen
      <3>. QED BY <2>2, <3>2, <3>3, <3>4 DEF Uncounted
    <2>. QED BY <2>1, <2>2 DEF Settled
  <1>. QED BY <1>1 DEF IInv, TotalsOK

\* The keys of a chain are at consecutive positions, in a settled chain those
\* right after its pruned total.
LEMMA ChainSpan ==
  ASSUME IInv, NEW c \in Chains, ChainKeys(c) # {}
  PROVE  \E a \in Nat, b \in Nat :
           /\ a < b /\ Spans(ChainKeys(c), a, b)
           /\ Settled(c) /\ meta[c].omitted # Unknown => a = meta[c].omitted
  <1>1. CASE Settled(c) /\ meta[c].omitted # Unknown
    <2>1. StartsAfter(c, meta[c].omitted)
      BY <1>1, SettledCounted
    <2>2. meta[c].omitted \in Nat
      BY DEF IInv, TypeOK, Meta
    <2>3. \E b \in Nat : meta[c].omitted < b /\ Spans(ChainKeys(c), meta[c].omitted, b)
      BY <2>1, <2>2, SpanFrom DEF StartsAfter
    <2>. QED BY <2>2, <2>3
  <1>2. CASE ~(Settled(c) /\ meta[c].omitted # Unknown)
    <2>1. \E a \in Nat, b \in Nat : a < b /\ Spans(ChainKeys(c), a, b)
      BY SpanExists
    <2>. QED BY <1>2, <2>1
  <1>. QED BY <1>1, <1>2

\* A digest of a receipt
LEMMA HashType ==
  ASSUME NEW r \in Receipt \cup {None}
  PROVE  Hash(r) \in Digest
  BY DEF Hash, Digest, Receipt

\* The receipt a prune signs over the keys it read fits the chain.
LEMMA SignedReceipt ==
  ASSUME IInv, pruner # None, NEW c, c = pruner.chain, NEW n,
         n = Minus(Cardinality(ChainKeys(c)), pruner.retain), NEW r,
         r = [gen |-> Gen(receipt[c]) + 1, prior |-> Hash(receipt[c]), omitted |-> n,
              cutoff |-> IF n = 0 THEN None ELSE Nth(ChainKeys(c), n).ord,
              last |-> IF n = 0 THEN NoEntry ELSE Nth(ChainKeys(c), n).id,
              rhead |-> LastId(ChainKeys(c)),
              segment |-> IF pruner.sel = None THEN meta[c].segment ELSE pruner.sel.segment,
              ord |-> IF pruner.sel = None THEN meta[c].ord ELSE pruner.sel.ord]
  PROVE  /\ r \in Receipt /\ ReceiptOK(r)
         /\ Settled(c) => Cuts(c, r) /\ Adds(c, r)
  <1>. DEFINE keys == ChainKeys(c)
  <1>1. pruner \in Pruner /\ c \in Chains /\ pruner.retain \in Nat /\ pruner.retain > 0
    BY OwnerTypes DEF Pruner
  <1>2. keys \in SUBSET index /\ KeySet(keys) /\ \A k \in keys : k.ord \in Nat /\ k.id \in Ids
    <2>1. keys \in SUBSET index
      BY DEF ChainKeys
    <2>. HIDE DEF keys
    <2>. QED BY <2>1, ChainKeySet
  <1>3. IsFiniteSet(keys) /\ Cardinality(keys) \in Nat
    BY <1>2, FS_CardinalityType DEF KeySet
  <1>4. n \in Nat /\ (n > 0 => n = Cardinality(keys) - pruner.retain)
    BY <1>1, <1>3 DEF Minus
  <1>5. LastId(keys) \in Nat
    BY <1>2, LastIdKey
  <1>6. receipt[c] \in Receipt \cup {None} /\ meta[c] \in Meta
    BY <1>1 DEF IInv, TypeOK
  <1>7. Gen(receipt[c]) + 1 \in Nat /\ Gen(receipt[c]) + 1 > 0
    BY <1>6 DEF Gen, Receipt
  <1>8. Hash(receipt[c]) \in Digest
    BY <1>6, HashType
  <1>9. r.segment \in Nat /\ r.ord \in Nat
    BY <1>1, <1>6 DEF Meta, Pruner, Segment
  <1>10. CASE n = 0
    <2>1. r \in Receipt
      BY <1>4, <1>5, <1>7, <1>8, <1>9, <1>10 DEF Receipt, NoEntry
    <2>. QED BY <1>7, <1>10, <2>1 DEF ReceiptOK, Cuts, Adds
  <1>11. CASE n > 0
    <2>1. keys # {}
      BY <1>3, <1>4, <1>1, <1>11, FS_EmptySet
    <2>2. PICK a \in Nat, b \in Nat :
            /\ a < b /\ Spans(keys, a, b)
            /\ Settled(c) /\ meta[c].omitted # Unknown => a = meta[c].omitted
      BY <1>1, <2>1, ChainSpan
    <2>. HIDE DEF keys
    <2>3. Cardinality(keys) = b - a
      BY <2>2, SpanNth
    <2>4. n \in 1 .. b - a /\ n < b - a
      BY <1>1, <1>4, <1>11, <2>3
    <2>. DEFINE x == Nth(keys, n)
    <2>5. x \in keys /\ signed[x.id].at = a + n
      <3>1. \A i \in 1 .. b - a : Nth(keys, i) \in keys /\ signed[Nth(keys, i).id].at = a + i
        <4>1. a <= b
          BY <2>2
        <4>. QED BY <2>2, <4>1, SpanNth
      <3>. QED BY <2>4, <3>1
    <2>. HIDE DEF x
    <2>6. /\ r.gen = Gen(receipt[c]) + 1 /\ r.omitted = n /\ r.cutoff = x.ord /\ r.last = x.id
      BY <1>11 DEF x, keys
    <2>7. x.ord \in Nat /\ x.id \in Ids /\ x.id \in Nat
      BY <1>2, <2>5 DEF Ids
    <2>8. r \in Receipt
      BY <1>4, <1>5, <1>7, <1>8, <1>9, <1>11, <2>7 DEF Receipt, x, keys
    <2>9. ReceiptOK(r)
      BY <1>7, <1>11, <2>6, <2>7 DEF ReceiptOK
    <2>10. \A k \in keys : signed[k.id].at \in a + 1 .. b /\ k.ord \in Nat
      BY <1>2, <2>2 DEF Spans
    <2>11. Cuts(c, r)
      <3>1. signed[x.id].chain = c
        BY <2>5 DEF keys, ChainKeys
      <3>2. \E k \in keys : x.ord < k.ord
        <4>1. a + n + 1 \in a + 1 .. b
          BY <2>4
        <4>2. PICK k \in keys : signed[k.id].at = a + n + 1
          BY <2>2, <4>1 DEF Spans
        <4>3. signed[x.id].at < signed[k.id].at
          BY <2>4, <2>5, <4>2
        <4>. QED BY <2>2, <2>5, <4>3 DEF Spans
      <3>3. \A k \in keys : k.ord <= x.ord <=> signed[k.id].at <= signed[x.id].at
        <4>. SUFFICES ASSUME NEW k \in keys
                      PROVE  k.ord <= x.ord <=> signed[k.id].at <= signed[x.id].at
          OBVIOUS
        <4>1. x.ord < k.ord <=> signed[x.id].at < signed[k.id].at
          BY <2>2, <2>5 DEF Spans
        <4>. QED BY <2>10, <2>5, <2>7, <4>1
      <3>4. \A l \in keys : \A p \in signed[x.id].at + 1 .. signed[l.id].at :
              \E m \in keys : signed[m.id].at = p
        <4>. SUFFICES ASSUME NEW l \in keys, NEW p \in signed[x.id].at + 1 .. signed[l.id].at
                      PROVE  \E m \in keys : signed[m.id].at = p
          OBVIOUS
        <4>1. p \in a + 1 .. b
          BY <2>4, <2>5, <2>10
        <4>. QED BY <2>2, <4>1 DEF Spans
      <3>. QED BY <2>6, <3>1, <3>2, <3>3, <3>4 DEF Cuts, keys
    <2>12. Settled(c) => Adds(c, r)
      BY <2>2, <2>5, <2>6 DEF Adds
    <2>. QED BY <2>8, <2>9, <2>11, <2>12
  <1>. QED BY <1>4, <1>10, <1>11

\* A prune reads the chain, or gives up on a key without its entry.
LEMMA ScanChainStep ==
  ASSUME IInv, ScanChain
  PROVE  IInv'
  <1>. DEFINE c == pruner.chain
              n == Minus(Cardinality(ChainKeys(c)), pruner.retain)
              r == [gen |-> Gen(receipt[c]) + 1, prior |-> Hash(receipt[c]), omitted |-> n,
                    cutoff |-> IF n = 0 THEN None ELSE Nth(ChainKeys(c), n).ord,
                    last |-> IF n = 0 THEN NoEntry ELSE Nth(ChainKeys(c), n).id,
                    rhead |-> LastId(ChainKeys(c)),
                    segment |-> IF pruner.sel = None THEN meta[c].segment
                                ELSE pruner.sel.segment,
                    ord |-> IF pruner.sel = None THEN meta[c].ord ELSE pruner.sel.ord]
  <1>1. /\ pruner # None /\ pruner.pc = "scan"
        /\ UNCHANGED Data /\ UNCHANGED <<mark, marker, head, segs, cache, global, job>>
    BY DEF ScanChain, Data, store, pruneStore
  <1>2. pruner \in Pruner /\ c \in Chains
    BY <1>1, OwnerTypes
  <1>3. job # None => job.op # "prune"
    BY <1>1 DEF IInv, OwnersOK
  <1>4. receipt[c] \in Receipt \cup {None}
    BY <1>2 DEF IInv, TypeOK
  <1>5. (IF receipt[c] = None THEN 1 ELSE receipt[c].gen + 1) = Gen(receipt[c]) + 1
    BY <1>4 DEF Gen, Receipt
  <1>6. CASE ~Readable(index)
    <2>1. EndPrune("idle")
      BY <1>6 DEF ScanChain
    <2>. QED BY <1>1, <1>3, <2>1, EndPruneStep
  <1>7. CASE Readable(index)
    <2>1. pruner' = [pruner EXCEPT !.pc = "check", !.r = r] /\ wr' = wr
      BY <1>5, <1>7 DEF ScanChain
    <2>2. r \in Receipt /\ ReceiptOK(r) /\ (Settled(c) => Cuts(c, r) /\ Adds(c, r))
      BY <1>1, SignedReceipt
    <2>3. r.gen = Gen(receipt[c]) + 1 /\ r.prior = Hash(receipt[c])
      OBVIOUS
    <2>. HIDE DEF r
    <2>4. /\ pruner' \in Pruner /\ pruner'.chain = c /\ pruner'.r = r /\ pruner'.by = pruner.by
          /\ pruner'.pc = "check"
      BY <1>2, <2>1, <2>2 DEF Pruner
    <2>5. r # None /\ pruner' # None
      BY <2>2, <2>4, NoneIsAbsence
    <2>. HIDE DEF c
    <2>6. UNCHANGED <<atomic, entries, index, seq, meta, intent, plan, receipt, history, signed>>
      BY <1>1 DEF Data
    <2>7. PrunerOK'
      <3>1. PICK d \in Chains, q \in Receipt : d = c /\ q = r
        BY <1>2, <2>2
      <3>2. ChainKeys(d)' = ChainKeys(d)
        BY <2>6 DEF ChainKeys
      <3>3. /\ ReceiptOK(q)' /\ Gen(receipt[d])' = Gen(receipt[d])
            /\ Hash(receipt[d])' = Hash(receipt[d])
        BY <2>2, <2>6, <3>1 DEF ReceiptOK, Ids, Gen, Hash
      <3>4. Settled(d)' => Cuts(d, q)' /\ Adds(d, q)'
        BY <2>2, <2>6, <3>1, <3>2 DEF Settled, Cuts, Adds, Unknown
      <3>5. Gen(receipt[d]) \in Nat
        BY <1>4, <3>1 DEF Gen, Receipt
      <3>6. pruner'.chain = d /\ pruner'.r = q
        BY <2>4, <3>1
      <3>. QED BY <2>3, <3>1, <3>3, <3>4, <3>5, <3>6 DEF PrunerOK
    <2>8. HolesOK'
      BY <1>7, <2>6 DEF HolesOK, Readable
    <2>9. AppendJobOK' /\ PruneJobOK' /\ PageOK'
      BY <1>1, <1>3, <2>6 DEF IInv, AppendJobOK, PruneJobOK, PageOK, Pruning, IntentKey
    <2>10. OwnersOK' /\ WritersOK'
      BY <1>1, <1>3, <2>1, <2>4, <2>5, <2>6 DEF IInv, OwnersOK, WritersOK, Ids
    <2>11. /\ global' \in Global /\ segs' \subseteq Segment /\ wr' \in [Writers -> Writer]
           /\ job' \in Job \cup DeleteJob \cup {None}
      BY <1>1, <2>1 DEF IInv, TypeOK
    <2>. QED BY <1>1, <2>4, <2>7, <2>8, <2>9, <2>10, <2>11, ControlStep DEF Ctl
  <1>. QED BY <1>6, <1>7

-----------------------------------------------------------------------------
(* Signing *)

\* Every stored record refers to entries that have been signed.
LEMMA SignedRefs ==
  ASSUME IInv
  PROVE  /\ signed \in Seq(Entry) /\ \A i \in Ids : signed[i] \in Entry
         /\ \A k \in index : k.id \in Ids
         /\ entries \subseteq Ids
         /\ \A c \in Chains : meta[c].head # NoEntry => meta[c].head \in Ids
         /\ intent # None => intent.id \in Ids /\ intent.chain \in Chains
         /\ \A c \in Chains : plan[c] # None => ReceiptOK(plan[c].r)
         /\ \A c \in Chains : receipt[c] # None => ReceiptOK(receipt[c])
         /\ pruner # None /\ pruner.r # None => ReceiptOK(pruner.r)
  <1>1. signed \in Seq(Entry)
    BY DEF IInv, TypeOK
  <1>2. \A i \in Ids : signed[i] \in Entry
    BY <1>1 DEF Ids
  <1>3. \A k \in index : k.id \in Ids
    BY DEF IInv, TypeOK
  <1>4. entries \subseteq Ids
    BY DEF IInv, TypeOK
  <1>5. \A c \in Chains : meta[c].head # NoEntry => meta[c].head \in Ids
    BY DEF IInv, HeadsOK
  <1>6. intent # None => intent.id \in Ids
    BY DEF IInv, IntentOK
  <1>7. intent # None => intent.chain \in Chains
    BY DEF IInv, TypeOK, Intent
  <1>8. \A c \in Chains : plan[c] # None => ReceiptOK(plan[c].r)
    BY DEF IInv, PlanOK
  <1>9. \A c \in Chains : receipt[c] # None => ReceiptOK(receipt[c])
    BY DEF IInv, ReceiptsOK
  <1>10. pruner # None /\ pruner.r # None => ReceiptOK(pruner.r)
    BY DEF IInv, PrunerOK
  <1>. QED BY <1>1, <1>2, <1>3, <1>4, <1>5, <1>6, <1>7, <1>8, <1>9, <1>10

\* The history of signed entries grows, and the store stays.
Grows ==
  /\ UNCHANGED <<atomic, entries, index, seq, meta, intent, plan, receipt, history>>
  /\ Ids \subseteq Ids'
  /\ \A i \in Ids : signed'[i] = signed[i]

\* What the store says of its entries does not depend on later signatures.
LEMMA GrowsFrame ==
  ASSUME IInv, Grows
  PROVE  /\ \A c \in Chains : ChainKeys(c)' = ChainKeys(c)
         /\ \A k \in index : signed'[k.id] = signed[k.id]
         /\ \A c \in Chains : Height(meta[c].head)' = Height(meta[c].head)
         /\ NextOrd' = NextOrd
         /\ \A r : ReceiptOK(r) => /\ ReceiptOK(r)'
                                   /\ r.omitted > 0 => signed'[r.last] = signed[r.last]
  <1>1. \A k \in index : signed'[k.id] = signed[k.id]
    BY SignedRefs DEF Grows
  <1>2. \A c \in Chains : ChainKeys(c)' = ChainKeys(c)
    BY <1>1 DEF ChainKeys, Grows
  <1>3. \A c \in Chains : Height(meta[c].head)' = Height(meta[c].head)
    BY SignedRefs DEF Height, Grows
  <1>4. NextOrd' = NextOrd
    BY DEF NextOrd, IntentKey, Grows
  <1>5. \A r : ReceiptOK(r) => /\ ReceiptOK(r)'
                               /\ r.omitted > 0 => signed'[r.last] = signed[r.last]
    BY DEF ReceiptOK, Grows
  <1>. QED BY <1>1, <1>2, <1>3, <1>4, <1>5

\* The chains in the store
LEMMA GrowsStore ==
  ASSUME IInv, Grows
  PROVE  IndexOK' /\ TopOK' /\ IntentOK' /\ PositionsExact' /\ HistoryOK'
  <1>. USE GrowsFrame, SignedRefs
  <1>1. UNCHANGED <<atomic, entries, index, seq, meta, intent, plan, receipt, history>>
    BY DEF Grows
  <1>2. \A k, l \in index : SameChain(k, l)' = SameChain(k, l)
    BY <1>1 DEF SameChain
  <1>3. IndexOK'
    <2>1. \A k, l \in index : SameChain(k, l)' =>
       /\ k.ord < l.ord <=> signed'[k.id].at < signed'[l.id].at
       /\ signed'[l.id].at = signed'[k.id].at + 1 => signed'[l.id].prev = k.id
       /\ \A p \in signed'[k.id].at .. signed'[l.id].at :
            \E m \in index : SameChain(m, k)' /\ signed'[m.id].at = p
      BY <1>1, <1>2 DEF IInv, IndexOK
    <2>. QED BY <1>1, <2>1 DEF IInv, IndexOK
  <1>4. \A k \in index : signed[k.id].chain \in Chains
    BY DEF Entry
  <1>5. TopOK'
    BY <1>1, <1>4 DEF IInv, TopOK, IntentKey
  <1>6. IntentOK'
    BY <1>1 DEF IInv, IntentOK, IntentKey, Grows
  <1>7. PositionsExact'
    BY <1>1 DEF IInv, PositionsExact, Unknown, Grows
  <1>8. HistoryOK'
    BY <1>1 DEF IInv, HistoryOK, Succeeds
  <1>. QED BY <1>3, <1>5, <1>6, <1>7, <1>8

\* Cuts, totals and receipts
LEMMA GrowsPrune ==
  ASSUME IInv, Grows
  PROVE  /\ PlanOK' /\ TotalsOK' /\ ReceiptsOK'
         /\ \A c \in Chains : \A r : ReceiptOK(r) /\ Cuts(c, r) => Cuts(c, r)'
         /\ \A c \in Chains : \A r : ReceiptOK(r) /\ Adds(c, r) => Adds(c, r)'
  <1>1. UNCHANGED <<atomic, entries, index, seq, meta, intent, plan, receipt, history>>
    BY DEF Grows
  <1>2. \A c \in Chains : \A k \in ChainKeys(c) : k \in index
    BY DEF ChainKeys
  <1>3. ASSUME NEW c \in Chains, NEW r, ReceiptOK(r), Cuts(c, r)
        PROVE  Cuts(c, r)'
    BY <1>1, <1>2, <1>3, GrowsFrame DEF Cuts
  <1>4. ASSUME NEW c \in Chains, NEW r, ReceiptOK(r), Adds(c, r)
        PROVE  Adds(c, r)'
    BY <1>1, <1>4, GrowsFrame DEF Adds, Unknown
  <1>5. ASSUME NEW c \in Chains, NEW n, StartsAfter(c, n)
        PROVE  StartsAfter(c, n)'
    BY <1>1, <1>2, <1>5, GrowsFrame DEF StartsAfter
  <1>6. PlanOK'
    <2>. SUFFICES ASSUME NEW c \in Chains, plan[c] # None
                  PROVE  LET p == plan[c]
                         IN  /\ ReceiptOK(p.r)'
                             /\ \/ p.r = receipt[c] /\ p.complete
                                \/ p.r.gen = Gen(receipt[c]) + 1 /\ p.r.prior = Hash(receipt[c])
                             /\ p.complete \/ meta[c].gen # p.r.gen
                             /\ Cuts(c, p.r)'
                             /\ p.r.omitted > 0 =>
                                  /\ p.from <= p.r.cutoff + 1
                                  /\ meta[c].head # NoEntry
                                  /\ p.complete => \A k \in ChainKeys(c) : p.r.cutoff < k.ord
                             /\ p.r.omitted = 0 => p.from = 0
                             /\ \A k \in ChainKeys(c) : p.from <= k.ord
      BY <1>1, GrowsFrame DEF PlanOK, Gen, Hash, Cuts, ReceiptOK
    <2>1. ReceiptOK(plan[c].r) /\ Cuts(c, plan[c].r)
      BY DEF IInv, PlanOK
    <2>2. PICK q : q = plan[c].r
      OBVIOUS
    <2>3. ReceiptOK(q)' /\ Cuts(c, q)'
      BY <1>3, <2>1, <2>2, GrowsFrame
    <2>4. ReceiptOK(plan[c].r)' /\ Cuts(c, plan[c].r)'
      BY <1>1, <2>2, <2>3
    <2>. QED BY <1>1, <2>4 DEF IInv, PlanOK
  <1>7. TotalsOK'
    <2>1. ASSUME NEW c \in Chains, meta[c].omitted # Unknown
          PROVE  (IF Uncounted(c) THEN Adds(c, plan[c].r) ELSE StartsAfter(c, meta[c].omitted))'
      <3>1. Uncounted(c)' = Uncounted(c)
        BY <1>1 DEF Uncounted
      <3>2. PICK q, n : q = plan[c].r /\ n = meta[c].omitted
        OBVIOUS
      <3>3. CASE Uncounted(c)
        <4>1. Adds(c, q) /\ ReceiptOK(q)
          BY <2>1, <3>2, <3>3 DEF IInv, TotalsOK, PlanOK, Uncounted
        <4>2. Adds(c, q)'
          BY <1>4, <4>1
        <4>3. plan'[c].r = q
          BY <1>1, <3>2
        <4>. QED BY <3>1, <3>3, <4>2, <4>3
      <3>4. CASE ~Uncounted(c)
        <4>1. StartsAfter(c, n)
          BY <2>1, <3>2, <3>4 DEF IInv, TotalsOK
        <4>2. StartsAfter(c, n)'
          BY <1>5, <4>1
        <4>3. meta'[c].omitted = n
          BY <1>1, <3>2
        <4>. QED BY <3>1, <3>4, <4>2, <4>3
      <3>. QED BY <3>3, <3>4
    <2>. QED BY <1>1, <2>1 DEF IInv, TotalsOK, Gen, Unknown
  <1>8. ReceiptsOK'
    BY <1>1, GrowsFrame DEF IInv, ReceiptsOK, Settled, Unknown
  <1>. QED BY <1>3, <1>4, <1>6, <1>7, <1>8

\* Watermarks and the operations under the locks
LEMMA GrowsControl ==
  ASSUME IInv, Grows
  PROVE  /\ UNCHANGED mark => MarksOK'
         /\ UNCHANGED <<mark, marker>> => MarkerOK'
         /\ UNCHANGED <<job, pruner>> => Ctl'
  <1>1. UNCHANGED <<atomic, entries, index, seq, meta, intent, plan, receipt, history>>
    BY DEF Grows
  <1>2. \A c \in Chains : \A k \in ChainKeys(c) : k \in index
    BY DEF ChainKeys
  <1>3. ASSUME NEW c \in Chains, NEW pos, NEW id, NEW ord, Names(c, pos, id, ord)
        PROVE  Names(c, pos, id, ord)'
    BY <1>1, <1>2, <1>3, GrowsFrame DEF Names, Grows
  <1>4. \A c \in Chains : Known(c)' = Known(c)
    BY <1>1 DEF Known, Unknown
  <1>5. ASSUME UNCHANGED mark
        PROVE  MarksOK'
    <2>. SUFFICES ASSUME NEW c \in Chains, mark[c] # None
                  PROVE  /\ Known(c)' /\ Names(c, mark[c].pos, mark[c].id, mark[c].ord)'
                         /\ meta[c].omitted <= mark[c].pos
                         /\ mark[c].pos <= Height(meta[c].head)'
                         /\ plan[c] # None /\ plan[c].r.omitted > 0 =>
                              signed'[plan[c].r.last].at <= mark[c].pos
      BY <1>1, <1>5 DEF MarksOK
    <2>1. PICK mk : mk = mark[c]
      OBVIOUS
    <2>2. Names(c, mk.pos, mk.id, mk.ord)'
      BY <1>3, <2>1 DEF IInv, MarksOK
    <2>3. Names(c, mark[c].pos, mark[c].id, mark[c].ord)'
      BY <1>5, <2>1, <2>2
    <2>. QED BY <1>4, <2>3, GrowsFrame, SignedRefs DEF IInv, MarksOK
  <1>6. ASSUME UNCHANGED <<mark, marker>>
        PROVE  MarkerOK'
    <2>. SUFFICES ASSUME marker # None, marker.pc \in {"locate", "install"}, NEW c, c = marker.chain
                  PROVE  /\ marker.mark = mark[c]
                         /\ mark[c] # None => mark[c].pos < marker.pos
                         /\ Gen(marker.receipt) <= Gen(receipt[c])
                         /\ Gen(marker.receipt) = Gen(receipt[c]) => marker.receipt = receipt[c]
                         /\ plan[c] # None => Gen(marker.receipt) < plan[c].r.gen
                         /\ meta[c].head # NoEntry /\ marker.pos <= Height(meta[c].head)'
                         /\ plan[c] = None /\ receipt[c] = marker.receipt =>
                              /\ Known(c)'
                              /\ marker.omitted = meta[c].omitted /\ marker.omitted <= marker.pos
                              /\ marker.pc = "install" =>
                                   Names(c, marker.pos, marker.id, marker.ord)'
      BY <1>1, <1>6 DEF MarkerOK, Gen
    <2>1. c \in Chains
      BY NoneIsAbsence DEF IInv, TypeOK, Marker
    <2>2. PICK mk : mk = marker
      OBVIOUS
    <2>3. Names(c, mk.pos, mk.id, mk.ord) => Names(c, mk.pos, mk.id, mk.ord)'
      BY <1>3, <2>1
    <2>4. Names(c, marker.pos, marker.id, marker.ord) =>
            Names(c, marker.pos, marker.id, marker.ord)'
      BY <1>6, <2>2, <2>3
    <2>. QED BY <1>4, <2>1, <2>4, GrowsFrame DEF IInv, MarkerOK
  <1>7. ASSUME UNCHANGED <<job, pruner>>
        PROVE  Ctl'
    <2>1. AppendJobOK' /\ PruneJobOK'
      BY <1>1, <1>7 DEF IInv, AppendJobOK, PruneJobOK, IntentKey, EmptyMeta
    <2>2. HolesOK'
      BY <1>1, <1>7, GrowsFrame DEF IInv, HolesOK, SameChain, Pruning
    <2>3. PrunerOK'
      <3>. SUFFICES ASSUME pruner # None, pruner.r # None, NEW c, c = pruner.chain,
                           NEW r, r = pruner.r
                    PROVE  /\ ReceiptOK(r)'
                           /\ r.gen <= Gen(receipt[c]) + 1
                           /\ r.gen = Gen(receipt[c]) + 1 =>
                                /\ r.prior = Hash(receipt[c])
                                /\ Settled(c) => Cuts(c, r)' /\ Adds(c, r)'
        BY <1>1, <1>7 DEF PrunerOK, Gen, Hash, Settled
      <3>1. c \in Chains
        BY OwnerTypes
      <3>2. ReceiptOK(r)
        BY SignedRefs
      <3>. QED BY <3>1, <3>2, GrowsFrame, GrowsPrune DEF IInv, PrunerOK
    <2>4. PageOK'
      BY <1>1, <1>7, GrowsFrame, OwnerTypes DEF IInv, PageOK, Pruning
    <2>. QED BY <2>1, <2>2, <2>3, <2>4 DEF Ctl
  <1>. QED BY <1>5, <1>6, <1>7

\* The parent an entry is signed on is an entry of its chain, or none.
LEMMA ParentOfChain ==
  ASSUME IInv, NEW c \in Chains, NEW parent,
         parent = IF cache[c] # NoEntry THEN cache[c] ELSE StoredParent(c)
  PROVE  /\ parent \in Ids \cup {NoEntry}
         /\ parent # NoEntry => signed[parent].chain = c
  <1>1. cache[c] # NoEntry => cache[c] \in Ids /\ signed[cache[c]].chain = c
    BY DEF IInv, TypeOK, HeadsOK
  <1>2. entries \subseteq Ids /\ NoEntry \notin Ids
    BY SignedRefs DEF Ids, NoEntry
  <1>3. meta[c].head \in entries => signed[meta[c].head].chain = c
    BY <1>2 DEF IInv, HeadsOK
  <1>4. head[c] \in entries => signed[head[c]].chain = c
    BY <1>2 DEF IInv, HeadsOK
  <1>5. StoredParent(c) # NoEntry => StoredParent(c) \in Ids /\ signed[StoredParent(c)].chain = c
    BY <1>2, <1>3, <1>4 DEF StoredParent, ChainHead
  <1>. QED BY <1>1, <1>5

\* An append signs its entry and forgets the cached head.
LEMMA SignEntryStep ==
  ASSUME IInv, NEW w \in Writers, NEW c \in Chains, wr[w].pc \in {"idle", "retry"},
         SignEntry(w, c)
  PROVE  IInv'
  <1>1. PICK parent : parent = IF cache[c] # NoEntry THEN cache[c] ELSE StoredParent(c)
    OBVIOUS
  <1>2. PICK e : e = [chain |-> c, prev |-> parent,
                      at |-> IF parent = NoEntry THEN 1 ELSE signed[parent].at + 1]
    OBVIOUS
  <1>3. PICK v : v = [pc |-> "store", chain |-> c, id |-> Len(signed) + 1, exp |-> parent]
    OBVIOUS
  <1>4. /\ Len(signed) < MaxEntries /\ signed' = Append(signed, e)
        /\ wr' = [wr EXCEPT ![w] = v]
        /\ cache' = cache \/ cache' = [cache EXCEPT ![c] = NoEntry]
    BY <1>1, <1>2, <1>3 DEF SignEntry
  <1>5. UNCHANGED <<atomic, entries, index, seq, meta, intent, plan, receipt, history,
                    head, global, segs, mark, job, pruner, marker>>
    BY DEF SignEntry, store, pruneStore
  <1>6. parent \in Ids \cup {NoEntry} /\ (parent # NoEntry => signed[parent].chain = c)
    BY <1>1, ParentOfChain
  <1>7. signed \in Seq(Entry) /\ Len(signed) \in Nat /\ \A i \in Ids : signed[i] \in Entry
    BY SignedRefs
  <1>8. Height(parent) \in Nat /\ Height(parent) <= Len(signed) /\ e.at = Height(parent) + 1
    <2>1. CASE parent = NoEntry
      BY <1>2, <1>7, <2>1 DEF Height
    <2>2. CASE parent # NoEntry
      <3>1. parent \in Ids /\ signed[parent].at \in Nat /\ signed[parent].at <= parent
        BY <1>6, <1>7, <2>2 DEF IInv, SignedOK, Entry
      <3>. QED BY <1>2, <1>7, <2>2, <3>1 DEF Height, Ids
    <2>. QED BY <2>1, <2>2
  <1>9. e \in Entry /\ e.chain = c /\ e.prev = parent
    BY <1>2, <1>6, <1>8 DEF Entry, Ids, NoEntry
  <1>10. /\ signed' \in Seq(Entry) /\ Len(signed') = Len(signed) + 1
         /\ signed'[Len(signed) + 1] = e /\ \A i \in Ids : signed'[i] = signed[i]
    BY <1>4, <1>7, <1>9 DEF Ids
  <1>11. Ids' = Ids \cup {Len(signed) + 1} /\ Len(signed) + 1 \notin Ids
    BY <1>7, <1>10 DEF Ids
  <1>12. Grows
    BY <1>5, <1>10, <1>11 DEF Grows
  <1>13. SignedOK'
    <2>1. Len(signed') <= MaxEntries
      BY <1>4, <1>7, <1>10, AuditAssumption
    <2>2. ASSUME NEW i \in Ids
          PROVE  /\ signed'[i].prev < i
                 /\ signed'[i].prev # NoEntry => signed'[signed'[i].prev].chain = signed'[i].chain
                 /\ signed'[i].at = Height(signed[i].prev)' + 1
                 /\ signed'[i].at <= i
      <3>1. /\ signed[i].prev < i
            /\ signed[i].prev # NoEntry => signed[signed[i].prev].chain = signed[i].chain
            /\ signed[i].at = Height(signed[i].prev) + 1
            /\ signed[i].at <= i
        BY DEF IInv, SignedOK
      <3>2. signed[i].prev # NoEntry => signed[i].prev \in Ids
        BY <1>7, <3>1 DEF Entry, Ids, NoEntry
      <3>. QED BY <1>10, <3>1, <3>2 DEF Height
    <2>3. ASSUME NEW i, i = Len(signed) + 1
          PROVE  /\ signed'[i].prev < i
                 /\ signed'[i].prev # NoEntry => signed'[signed'[i].prev].chain = signed'[i].chain
                 /\ signed'[i].at = Height(signed[i].prev)' + 1
                 /\ signed'[i].at <= i
      <3>1. parent < Len(signed) + 1
        BY <1>6, <1>7 DEF Ids, NoEntry
      <3>2. Height(parent)' = Height(parent)
        BY <1>6, <1>10 DEF Height
      <3>3. parent # NoEntry => signed'[parent].chain = c
        BY <1>6, <1>10
      <3>4. signed'[i] = e
        BY <1>10, <2>3
      <3>. QED BY <1>7, <1>8, <1>9, <2>3, <3>1, <3>2, <3>3, <3>4
    <2>. QED BY <1>11, <2>1, <2>2, <2>3 DEF SignedOK
  <1>14. cache' \in [Chains -> Ids \cup {NoEntry}]
         /\ \A d \in Chains : cache'[d] # NoEntry => cache'[d] \in Ids /\ signed[cache'[d]].chain = d
    BY <1>4 DEF IInv, TypeOK, HeadsOK
  <1>15. HeadsOK'
    <2>1. head \in [Chains -> Ids \cup {NoEntry}]
      BY DEF IInv, TypeOK
    <2>2. \A d \in Chains :
            /\ cache'[d] # NoEntry => signed'[cache'[d]].chain = d
            /\ head[d] # NoEntry => head[d] \in Ids /\ signed[head[d]].chain = d
            /\ meta[d].head # NoEntry => meta[d].head \in Ids /\ signed[meta[d].head].chain = d
            /\ meta[d].head = NoEntry => meta[d] = EmptyMeta
      BY <1>10, <1>14, <2>1 DEF IInv, HeadsOK
    <2>. QED BY <1>5, <1>10, <1>11, <2>2 DEF HeadsOK, EmptyMeta
  <1>16. v \in Writer /\ v.pc = "store" /\ v.chain = c /\ v.id = Len(signed) + 1 /\ v.exp = parent
    BY <1>3, <1>6, <1>7 DEF Writer, WriterPc, Ids, NoEntry
  <1>17. wr' \in [Writers -> Writer] /\ \A u \in Writers : wr'[u] = IF u = w THEN v ELSE wr[u]
    BY <1>4, <1>16 DEF IInv, TypeOK
  <1>18. WritersOK'
    <2>. SUFFICES ASSUME NEW u \in Writers
                  PROVE  \/ wr'[u] = Idle
                         \/ /\ wr'[u].pc # "idle" /\ wr'[u].chain \in Chains
                            /\ wr'[u].id \in Ids'
                            /\ signed'[wr'[u].id].chain = wr'[u].chain
                            /\ signed'[wr'[u].id].prev = wr'[u].exp
      BY DEF WritersOK
    <2>1. CASE u = w
      BY <1>9, <1>10, <1>11, <1>16, <1>17, <2>1
    <2>2. CASE u # w
      BY <1>10, <1>11, <1>17, <2>2 DEF IInv, WritersOK
    <2>. QED BY <2>1, <2>2
  <1>19. OwnersOK'
    <2>1. /\ job # None /\ job.by # None => job.by \in Writers /\ job.by # w
          /\ job # None /\ job.op = "append" => job.by # None
      BY OwnerTypes
    <2>2. pruner # None /\ pruner.by # None => pruner.by \in Writers /\ pruner.by # w
      BY OwnerTypes
    <2>. QED BY <1>5, <1>17, <2>1, <2>2 DEF IInv, OwnersOK
  <1>20. TypeOK'
    <2>1. index' \subseteq [ord : 0 .. seq', id : Ids']
      BY <1>5, <1>11 DEF IInv, TypeOK
    <2>2. head' \in [Chains -> Ids' \cup {NoEntry}] /\ cache' \in [Chains -> Ids' \cup {NoEntry}]
      BY <1>5, <1>11, <1>14 DEF IInv, TypeOK
    <2>3. entries' \subseteq Ids'
      BY <1>5, <1>11, SignedRefs
    <2>. QED BY <1>5, <1>10, <1>17, <2>1, <2>2, <2>3 DEF IInv, TypeOK
  <1>. QED BY <1>5, <1>12, <1>13, <1>15, <1>18, <1>19, <1>20, GrowsStore, GrowsPrune, GrowsControl
         DEF IInv, Ctl

\* A first attempt, or a retry after a refusal or a prune.
LEMMA StartAppendStep ==
  ASSUME IInv, NEW w \in Writers, (\E c \in Chains : StartAppend(w, c)) \/ RetryAppend(w)
  PROVE  IInv'
  <1>1. ASSUME NEW c \in Chains, StartAppend(w, c)
        PROVE  IInv'
    BY <1>1, SignEntryStep DEF StartAppend
  <1>2. ASSUME RetryAppend(w)
        PROVE  IInv'
    <2>1. wr[w].pc = "retry" /\ SignEntry(w, wr[w].chain)
      BY <1>2 DEF RetryAppend
    <2>2. wr[w].chain \in Chains
      BY <2>1 DEF IInv, WritersOK, Idle
    <2>3. PICK c \in Chains : c = wr[w].chain
      BY <2>2
    <2>4. SignEntry(w, c)
      BY <2>1, <2>3
    <2>. QED BY <2>1, <2>4, SignEntryStep
  <1>. QED BY <1>1, <1>2

-----------------------------------------------------------------------------
(* A key is added, or the metadata of a chain advances to its newest key *)

\* Positions count from 1.
LEMMA Positions ==
  ASSUME IInv
  PROVE  /\ NextOrd \in Nat
         /\ \A i \in Ids : signed[i].at \in Nat /\ signed[i].at > 0 /\ signed[i].chain \in Chains
         /\ \A c \in Chains : Height(meta[c].head) \in Nat
         /\ \A i \in Ids : Height(signed[i].prev) \in Nat
  <1>1. \A i \in Ids : signed[i].at \in Nat /\ signed[i].chain \in Chains /\ signed[i].prev \in Nat
    BY SignedRefs DEF Entry
  <1>2. \A i \in Ids : signed[i].prev = NoEntry \/ signed[i].prev \in Ids
    BY <1>1 DEF IInv, SignedOK, Ids, NoEntry, TypeOK
  <1>3. \A i \in Ids : Height(signed[i].prev) \in Nat
    BY <1>1, <1>2 DEF Height
  <1>4. \A i \in Ids : signed[i].at > 0
    BY <1>3 DEF IInv, SignedOK
  <1>5. \A c \in Chains : Height(meta[c].head) \in Nat
    BY <1>1, SignedRefs DEF Height
  <1>6. NextOrd \in Nat
    BY DEF IInv, TypeOK, NextOrd, Intent
  <1>. QED BY <1>1, <1>3, <1>4, <1>5, <1>6

\* An entry that can be indexed next: it was signed on its chain's head.
Fits(x) ==
  /\ x \in Ids
  /\ signed[x].prev = meta[signed[x].chain].head
  /\ intent = None \/ IntentKey \notin index

\* A key that follows all keys of its chain
Follows(c, k) ==
  /\ k.ord = NextOrd /\ k.id \in Ids /\ signed[k.id].chain = c
  /\ signed[k.id].at = Height(meta[c].head) + 1
  /\ signed[k.id].prev = meta[c].head
  /\ \A l \in ChainKeys(c) : l.ord < k.ord /\ signed[l.id].at < signed[k.id].at
  /\ \/ \E h \in ChainKeys(c) : h.id = meta[c].head /\ signed[h.id].at + 1 = signed[k.id].at
     \/ ChainKeys(c) = {} /\ meta[c] = EmptyMeta /\ signed[k.id].at = 1

\* The key of such an entry follows the keys of its chain.
LEMMA FitsFollows ==
  ASSUME IInv, NEW x, Fits(x), NEW c, c = signed[x].chain, NEW nk,
         nk = [ord |-> NextOrd, id |-> x]
  PROVE  /\ c \in Chains /\ Follows(c, nk) /\ nk \notin index
         /\ \A k \in index : k.ord < nk.ord
  <1>1. /\ x \in Ids /\ c \in Chains /\ signed[x].at \in Nat /\ signed[x].at > 0
        /\ Height(meta[c].head) \in Nat /\ NextOrd \in Nat
    BY Positions DEF Fits
  <1>2. nk.ord = NextOrd /\ nk.id = x
    OBVIOUS
  <1>3. signed[x].prev = meta[c].head /\ signed[x].at = Height(meta[c].head) + 1
    BY <1>1 DEF Fits, IInv, SignedOK
  <1>4. \A k \in index : k.ord < nk.ord /\ k.ord \in Nat
    BY <1>2 DEF IInv, IndexOK, TypeOK
  <1>5. nk \notin index
    BY <1>1, <1>2, <1>4
  <1>6. \A l \in ChainKeys(c) : l \in index /\ l.id \in Ids /\ signed[l.id].chain = c
          /\ signed[l.id].at \in Nat /\ signed[l.id].at > 0
    BY Positions, SignedRefs DEF ChainKeys
  <1>7. \A l \in ChainKeys(c) : signed[l.id].at <= Height(meta[c].head)
    BY <1>6 DEF Fits, IInv, TopOK
  <1>8. \A l \in ChainKeys(c) : l.ord < nk.ord /\ signed[l.id].at < signed[x].at
    BY <1>1, <1>3, <1>4, <1>6, <1>7
  <1>9. CASE meta[c].head = NoEntry
    <2>1. Height(meta[c].head) = 0 /\ meta[c] = EmptyMeta
      BY <1>1, <1>9 DEF Height, IInv, HeadsOK
    <2>2. ChainKeys(c) = {}
      BY <1>6, <1>7, <2>1
    <2>. QED BY <1>1, <1>2, <1>3, <1>4, <1>5, <2>1, <2>2 DEF Follows
  <1>10. CASE meta[c].head # NoEntry
    <2>1. PICK h \in index : h.id = meta[c].head
      BY <1>1, <1>10 DEF Fits, IInv, TopOK
    <2>2. h \in ChainKeys(c)
      BY <1>1, <1>10, <2>1 DEF ChainKeys, IInv, HeadsOK
    <2>3. signed[h.id].at + 1 = signed[x].at
      BY <1>3, <1>10, <2>1 DEF Height
    <2>. QED BY <1>1, <1>2, <1>3, <1>4, <1>5, <1>8, <2>1, <2>2, <2>3 DEF Follows
  <1>. QED BY <1>9, <1>10

\* Appending, as the invariants of the prunes and of the marks see it
Extends ==
  /\ UNCHANGED <<signed, plan, receipt, history>>
  /\ \A d \in Chains : /\ meta'[d].omitted = meta[d].omitted /\ meta'[d].gen = meta[d].gen
                       /\ meta[d].head # NoEntry => meta'[d].head # NoEntry
                       /\ Height(meta[d].head)' \in Nat
                       /\ Height(meta[d].head) <= Height(meta[d].head)'
  /\ NextOrd' \in Nat /\ NextOrd <= NextOrd'
  /\ \/ index' = index
     \/ /\ NextOrd < NextOrd'
        /\ \E x \in Ids : Fits(x) /\ index' = index \cup {[ord |-> NextOrd, id |-> x]}

\* The keys of a chain stay, and a new one follows them.
LEMMA ChainExtends ==
  ASSUME IInv, Extends, NEW c \in Chains
  PROVE  /\ ChainKeys(c) \subseteq ChainKeys(c)'
         /\ \A k \in ChainKeys(c)' : k \in ChainKeys(c) \/ Follows(c, k)
  <1>1. signed' = signed
    BY DEF Extends
  <1>2. CASE index' = index
    BY <1>1, <1>2 DEF ChainKeys
  <1>3. ASSUME NEW x \in Ids, Fits(x), index' = index \cup {[ord |-> NextOrd, id |-> x]}
        PROVE  /\ ChainKeys(c) \subseteq ChainKeys(c)'
               /\ \A k \in ChainKeys(c)' : k \in ChainKeys(c) \/ Follows(c, k)
    <2>1. PICK nk : nk = [ord |-> NextOrd, id |-> x]
      OBVIOUS
    <2>2. nk.id = x /\ (c = signed[x].chain => Follows(c, nk))
      BY <1>3, <2>1, FitsFollows
    <2>3. index' = index \cup {nk}
      BY <1>3, <2>1
    <2>. QED BY <1>1, <2>2, <2>3 DEF ChainKeys
  <1>. QED BY <1>2, <1>3 DEF Extends

\* Index order stays chain order.
LEMMA IndexExtends ==
  ASSUME IInv, Extends
  PROVE  IndexOK'
  <1>1. signed' = signed /\ NextOrd \in Nat /\ NextOrd' \in Nat /\ NextOrd <= NextOrd'
    BY Positions DEF Extends
  <1>2. \A k \in index : k.ord \in Nat /\ k.ord < NextOrd /\ signed[k.id].chain \in Chains
    BY Positions, SignedRefs DEF IInv, IndexOK, TypeOK
  <1>3. CASE index' = index
    <2>1. \A k \in index : k.ord < NextOrd'
      BY <1>1, <1>2
    <2>. QED BY <1>1, <1>3, <2>1 DEF IInv, IndexOK, SameChain
  <1>4. ASSUME NEW x \in Ids, Fits(x), index' = index \cup {[ord |-> NextOrd, id |-> x]},
               NextOrd < NextOrd'
        PROVE  IndexOK'
    <2>1. PICK nk : nk = [ord |-> NextOrd, id |-> x]
      OBVIOUS
    <2>2. PICK c : c = signed[x].chain
      OBVIOUS
    <2>3. /\ c \in Chains /\ Follows(c, nk) /\ nk \notin index /\ nk.id = x /\ nk.ord = NextOrd
          /\ \A k \in index : k.ord < nk.ord
      BY <1>4, <2>1, <2>2, FitsFollows
    <2>4. index' = index \cup {nk} /\ IsFiniteSet(index')
      BY <1>4, <2>1, FS_AddElement DEF IInv, IndexOK
    <2>5. \A k \in index' : k.ord \in Nat /\ k.ord < NextOrd'
      BY <1>1, <1>2, <1>4, <2>3, <2>4
    <2>6. \A k, l \in index' : k.ord = l.ord => k = l
      BY <1>2, <2>3, <2>4 DEF IInv, IndexOK
    <2>7. ASSUME NEW k \in index, NEW l \in index, SameChain(k, l)
          PROVE  /\ k.ord < l.ord <=> signed[k.id].at < signed[l.id].at
                 /\ signed[l.id].at = signed[k.id].at + 1 => signed[l.id].prev = k.id
                 /\ \A p \in signed[k.id].at .. signed[l.id].at :
                      \E m \in index : SameChain(m, k) /\ signed[m.id].at = p
      BY <2>7 DEF IInv, IndexOK
    <2>8. ASSUME NEW k \in index, signed[k.id].chain = c
          PROVE  /\ k.ord < nk.ord /\ signed[k.id].at < signed[x].at /\ signed[k.id].at \in Nat
                 /\ signed[x].at = signed[k.id].at + 1 => signed[x].prev = k.id
                 /\ \A p \in signed[k.id].at .. signed[x].at :
                      \E m \in index' : SameChain(m, k) /\ signed[m.id].at = p
      <3>1. k \in ChainKeys(c) /\ ChainKeys(c) \subseteq index
        BY <2>8 DEF ChainKeys
      <3>2. k.ord < nk.ord /\ signed[k.id].at < signed[x].at
        BY <2>3, <3>1 DEF Follows
      <3>3. signed[k.id].at \in Nat /\ signed[x].at \in Nat
        BY Positions, SignedRefs
      <3>4. PICK h \in ChainKeys(c) : h.id = meta[c].head /\ signed[h.id].at + 1 = signed[x].at
        BY <2>3, <3>1 DEF Follows
      <3>5. h \in index /\ signed[h.id].at \in Nat /\ h.ord \in Nat /\ k.ord \in Nat
            /\ SameChain(k, h) /\ SameChain(h, k)
        BY <1>2, <2>8, <3>4, Positions, SignedRefs DEF ChainKeys, SameChain
      <3>6. signed[x].at = signed[k.id].at + 1 => signed[x].prev = k.id
        <4>. SUFFICES ASSUME signed[x].at = signed[k.id].at + 1 PROVE signed[x].prev = k.id
          OBVIOUS
        <4>1. signed[k.id].at = signed[h.id].at
          BY <3>3, <3>4, <3>5
        <4>2. ~(k.ord < h.ord) /\ ~(h.ord < k.ord)
          BY <2>7, <3>3, <3>5, <4>1
        <4>3. k = h
          BY <3>5, <4>2 DEF IInv, IndexOK
        <4>. QED BY <2>3, <3>4, <4>3 DEF Follows
      <3>7. ASSUME NEW p \in signed[k.id].at .. signed[x].at
            PROVE  \E m \in index' : SameChain(m, k) /\ signed[m.id].at = p
        <4>1. CASE p = signed[x].at
          <5>1. SameChain(nk, k)
            BY <2>2, <2>3, <2>8 DEF SameChain
          <5>. QED BY <2>3, <2>4, <4>1, <5>1
        <4>2. CASE p # signed[x].at
          <5>1. p \in signed[k.id].at .. signed[h.id].at
            BY <3>3, <3>4, <3>5, <4>2
          <5>. QED BY <2>4, <2>7, <3>5, <5>1
        <4>. QED BY <4>1, <4>2
      <3>. QED BY <3>2, <3>3, <3>6, <3>7
    <2>9. ASSUME NEW k \in index', NEW l \in index', SameChain(k, l)
          PROVE  /\ k.ord < l.ord <=> signed[k.id].at < signed[l.id].at
                 /\ signed[l.id].at = signed[k.id].at + 1 => signed[l.id].prev = k.id
                 /\ \A p \in signed[k.id].at .. signed[l.id].at :
                      \E m \in index' : SameChain(m, k) /\ signed[m.id].at = p
      <3>1. CASE k \in index /\ l \in index
        BY <2>4, <2>7, <2>9, <3>1
      <3>2. CASE k \in index /\ l = nk
        <4>1. signed[k.id].chain = c
          BY <2>2, <2>3, <2>9, <3>2 DEF SameChain
        <4>. QED BY <2>3, <2>8, <3>2, <4>1
      <3>3. CASE k = nk /\ l \in index
        <4>1. signed[l.id].chain = c
          BY <2>2, <2>3, <2>9, <3>3 DEF SameChain
        <4>2. /\ l.ord < nk.ord /\ signed[l.id].at < signed[x].at /\ signed[l.id].at \in Nat
              /\ signed[x].at \in Nat /\ l.ord \in Nat /\ nk.ord \in Nat
          BY <1>1, <1>2, <2>3, <2>8, <3>3, <4>1, Positions
        <4>. QED BY <2>3, <3>3, <4>2
      <3>4. CASE k = nk /\ l = nk
        <4>1. signed[x].at \in Nat /\ nk.ord \in Nat
          BY <1>1, <2>3, Positions
        <4>2. SameChain(nk, nk)
          BY DEF SameChain
        <4>3. \A p \in signed[x].at .. signed[x].at : p = signed[x].at
          BY <4>1
        <4>. QED BY <2>3, <2>4, <3>4, <4>1, <4>2, <4>3
      <3>. QED BY <2>4, <3>1, <3>2, <3>3, <3>4
    <2>10. \A k, l : SameChain(k, l)' = SameChain(k, l)
      BY <1>1 DEF SameChain
    <2>. HIDE DEF SameChain
    <2>. QED BY <1>1, <2>4, <2>5, <2>6, <2>9, <2>10 DEF IndexOK
  <1>. QED BY <1>3, <1>4 DEF Extends

\* A cut stays where it is.
LEMMA CutsExtend ==
  ASSUME IInv, Extends, NEW c \in Chains, NEW r, ReceiptOK(r), Cuts(c, r)
  PROVE  /\ Cuts(c, r)' /\ ReceiptOK(r)'
         /\ r.omitted > 0 => \A k \in ChainKeys(c)' : k \in ChainKeys(c) \/ r.cutoff < k.ord
  <1>1. signed' = signed /\ Ids' = Ids
    BY DEF Extends, Ids
  <1>2. ReceiptOK(r)'
    BY <1>1 DEF ReceiptOK
  <1>3. CASE ~(r.omitted > 0)
    BY <1>2, <1>3 DEF Cuts
  <1>4. CASE r.omitted > 0
    <2>1. /\ r.cutoff \in Nat /\ r.last \in Ids /\ signed[r.last].at \in Nat /\ NextOrd \in Nat
      BY <1>4, Positions DEF ReceiptOK
    <2>2. PICK k0 \in ChainKeys(c) : r.cutoff < k0.ord
      BY <1>4 DEF Cuts
    <2>3. \A k \in ChainKeys(c) : k.ord \in Nat /\ signed[k.id].at \in Nat
      BY Positions, SignedRefs DEF ChainKeys, IInv, TypeOK
    <2>4. \A k \in ChainKeys(c) : k.ord <= r.cutoff <=> signed[k.id].at <= signed[r.last].at
      BY <1>4 DEF Cuts
    <2>5. signed[r.last].at < signed[k0.id].at
      BY <2>1, <2>2, <2>3, <2>4
    <2>6. \A l \in ChainKeys(c) : \A p \in signed[r.last].at + 1 .. signed[l.id].at :
            \E m \in ChainKeys(c) : signed[m.id].at = p
      BY <1>4 DEF Cuts
    <2>7. ASSUME NEW k, Follows(c, k), k \in ChainKeys(c)'
          PROVE  /\ k.ord \in Nat /\ signed[k.id].at \in Nat
                 /\ r.cutoff < k.ord /\ signed[r.last].at < signed[k.id].at
                 /\ \A p \in signed[r.last].at + 1 .. signed[k.id].at :
                      \E m \in ChainKeys(c)' : signed[m.id].at = p
      <3>1. /\ k.ord \in Nat /\ signed[k.id].at \in Nat
            /\ k0.ord < k.ord /\ signed[k0.id].at < signed[k.id].at
        BY <2>1, <2>7, Positions DEF Follows
      <3>2. r.cutoff < k.ord /\ signed[r.last].at < signed[k.id].at
        BY <2>1, <2>2, <2>3, <2>5, <3>1
      <3>3. PICK h \in ChainKeys(c) : signed[h.id].at + 1 = signed[k.id].at
        BY <2>7 DEF Follows
      <3>4. ASSUME NEW p \in signed[r.last].at + 1 .. signed[k.id].at
            PROVE  \E m \in ChainKeys(c)' : signed[m.id].at = p
        <4>1. CASE p = signed[k.id].at
          BY <2>7, <4>1
        <4>2. CASE p # signed[k.id].at
          <5>1. p \in signed[r.last].at + 1 .. signed[h.id].at
            BY <2>1, <2>3, <3>1, <3>3, <4>2
          <5>. QED BY <2>6, <5>1, ChainExtends
        <4>. QED BY <4>1, <4>2
      <3>. QED BY <3>1, <3>2, <3>4
    <2>8. \E k \in ChainKeys(c)' : r.cutoff < k.ord
      BY <2>2, ChainExtends
    <2>9. ASSUME NEW k \in ChainKeys(c)'
          PROVE  k.ord <= r.cutoff <=> signed[k.id].at <= signed[r.last].at
      <3>1. CASE k \in ChainKeys(c)
        BY <2>4, <3>1
      <3>2. CASE Follows(c, k)
        BY <2>1, <2>7, <3>2
      <3>. QED BY <3>1, <3>2, ChainExtends
    <2>10. ASSUME NEW l \in ChainKeys(c)', NEW p \in signed[r.last].at + 1 .. signed[l.id].at
           PROVE  \E m \in ChainKeys(c)' : signed[m.id].at = p
      <3>1. CASE l \in ChainKeys(c)
        BY <2>6, <3>1, ChainExtends
      <3>2. CASE Follows(c, l)
        BY <2>7, <3>2
      <3>. QED BY <3>1, <3>2, ChainExtends
    <2>11. signed[r.last].chain = c
      BY <1>4 DEF Cuts
    <2>12. Cuts(c, r)'
      BY <1>1, <2>8, <2>9, <2>10, <2>11 DEF Cuts
    <2>. QED BY <1>2, <2>7, <2>12, ChainExtends
  <1>. QED BY <1>3, <1>4

\* So does the start of a chain.
LEMMA StartsExtend ==
  ASSUME IInv, Extends, NEW c \in Chains, NEW n, n = meta[c].omitted, StartsAfter(c, n)
  PROVE  StartsAfter(c, n)'
  <1>1. signed' = signed
    BY DEF Extends
  <1>2. n \in Nat
    BY DEF IInv, TypeOK, Meta
  <1>3. \A k \in ChainKeys(c) : signed[k.id].at \in Nat
    BY Positions, SignedRefs DEF ChainKeys
  <1>4. ASSUME NEW k \in ChainKeys(c)', Follows(c, k)
        PROVE  /\ signed[k.id].at > n
               /\ \A p \in n + 1 .. signed[k.id].at : \E m \in ChainKeys(c)' : signed[m.id].at = p
    <2>1. signed[k.id].at \in Nat
      BY <1>4, Positions DEF Follows
    <2>2. CASE ChainKeys(c) = {} /\ meta[c] = EmptyMeta /\ signed[k.id].at = 1
      <3>1. n = 0
        BY <2>2 DEF EmptyMeta
      <3>2. \A p \in n + 1 .. signed[k.id].at : p = signed[k.id].at
        BY <2>2, <3>1
      <3>. QED BY <2>2, <3>1, <3>2
    <2>3. ASSUME NEW h \in ChainKeys(c), signed[h.id].at + 1 = signed[k.id].at
          PROVE  /\ signed[k.id].at > n
                 /\ \A p \in n + 1 .. signed[k.id].at : \E m \in ChainKeys(c)' : signed[m.id].at = p
      <3>1. signed[h.id].at > n
        BY DEF StartsAfter
      <3>2. ASSUME NEW p \in n + 1 .. signed[k.id].at
            PROVE  \E m \in ChainKeys(c)' : signed[m.id].at = p
        <4>1. CASE p = signed[k.id].at
          BY <4>1
        <4>2. CASE p # signed[k.id].at
          <5>1. p \in n + 1 .. signed[h.id].at
            BY <1>2, <1>3, <2>1, <2>3, <4>2
          <5>. QED BY <5>1, ChainExtends DEF StartsAfter
        <4>. QED BY <4>1, <4>2
      <3>. QED BY <1>2, <1>3, <2>1, <2>3, <3>1, <3>2
    <2>. QED BY <1>4, <2>2, <2>3 DEF Follows
  <1>5. ASSUME NEW k \in ChainKeys(c)
        PROVE  /\ signed[k.id].at > n
               /\ \A p \in n + 1 .. signed[k.id].at : \E m \in ChainKeys(c)' : signed[m.id].at = p
    BY ChainExtends DEF StartsAfter
  <1>. QED BY <1>1, <1>4, <1>5, ChainExtends DEF StartsAfter

\* Plans, totals and receipts are not disturbed by an append.
LEMMA PruneExtends ==
  ASSUME IInv, Extends
  PROVE  /\ PlanOK' /\ TotalsOK' /\ ReceiptsOK' /\ HistoryOK'
         /\ UNCHANGED pruner => PrunerOK'
  <1>1. UNCHANGED <<signed, plan, receipt, history>> /\ Ids' = Ids
    BY DEF Extends, Ids
  <1>2. \A c \in Chains : /\ meta'[c].omitted = meta[c].omitted /\ meta'[c].gen = meta[c].gen
                          /\ meta[c].head # NoEntry => meta'[c].head # NoEntry
    BY DEF Extends
  <1>3. \A c \in Chains : \A r : Adds(c, r)' = Adds(c, r)
    BY <1>1, <1>2 DEF Adds, Unknown
  <1>4. NextOrd \in Nat /\ NextOrd' \in Nat /\ NextOrd <= NextOrd'
    BY Positions DEF Extends
  <1>5. PlanOK'
    <2>. SUFFICES ASSUME NEW c \in Chains, plan[c] # None, NEW p, p = plan[c]
                  PROVE  /\ ReceiptOK(p.r)'
                         /\ \/ p.r = receipt[c] /\ p.complete
                            \/ p.r.gen = Gen(receipt[c]) + 1 /\ p.r.prior = Hash(receipt[c])
                         /\ p.complete \/ meta[c].gen # p.r.gen
                         /\ Cuts(c, p.r)'
                         /\ p.r.omitted > 0 =>
                              /\ p.from <= p.r.cutoff + 1
                              /\ meta'[c].head # NoEntry
                              /\ p.complete => \A k \in ChainKeys(c)' : p.r.cutoff < k.ord
                         /\ p.r.omitted = 0 => p.from = 0
                         /\ \A k \in ChainKeys(c)' : p.from <= k.ord
      BY <1>1, <1>2 DEF PlanOK, Gen, Hash
    <2>1. /\ ReceiptOK(p.r) /\ Cuts(c, p.r)
          /\ \/ p.r = receipt[c] /\ p.complete
             \/ p.r.gen = Gen(receipt[c]) + 1 /\ p.r.prior = Hash(receipt[c])
          /\ p.complete \/ meta[c].gen # p.r.gen
          /\ p.r.omitted > 0 => /\ p.from <= p.r.cutoff + 1
                                /\ meta[c].head # NoEntry
                                /\ p.complete => \A k \in ChainKeys(c) : p.r.cutoff < k.ord
          /\ p.r.omitted = 0 => p.from = 0
          /\ \A k \in ChainKeys(c) : p.from <= k.ord
      BY DEF IInv, PlanOK
    <2>2. p \in Plan /\ p.r.omitted \in Nat /\ p.from \in Nat
      BY DEF IInv, TypeOK, Plan, Receipt
    <2>3. PICK r : r = p.r
      OBVIOUS
    <2>4. /\ Cuts(c, r)' /\ ReceiptOK(r)'
          /\ r.omitted > 0 => \A k \in ChainKeys(c)' : k \in ChainKeys(c) \/ r.cutoff < k.ord
      BY <2>1, <2>3, CutsExtend
    <2>5. \A k \in ChainKeys(c)' : k \in ChainKeys(c) \/ k.ord = NextOrd
      BY ChainExtends DEF Follows
    <2>6. \A k \in ChainKeys(c)' : p.from <= k.ord
      <3>. SUFFICES ASSUME NEW k \in ChainKeys(c)' PROVE p.from <= k.ord
        OBVIOUS
      <3>1. CASE k \in ChainKeys(c)
        BY <2>1, <3>1
      <3>2. CASE k \notin ChainKeys(c) /\ p.r.omitted = 0
        BY <1>4, <2>1, <2>5, <3>2
      <3>3. CASE k \notin ChainKeys(c) /\ p.r.omitted > 0
        <4>1. p.r.cutoff < k.ord /\ k.ord \in Nat /\ p.r.cutoff \in Nat
          BY <1>4, <2>1, <2>3, <2>4, <2>5, <3>3 DEF ReceiptOK
        <4>. QED BY <2>1, <2>2, <3>3, <4>1
      <3>. QED BY <2>2, <3>1, <3>2, <3>3
    <2>. QED BY <1>2, <2>1, <2>3, <2>4, <2>6
  <1>6. TotalsOK'
    <2>1. ASSUME NEW c \in Chains, meta[c].omitted # Unknown
          PROVE  (IF Uncounted(c) THEN Adds(c, plan[c].r) ELSE StartsAfter(c, meta[c].omitted))'
      <3>1. Uncounted(c)' = Uncounted(c)
        BY <1>1, <1>2 DEF Uncounted
      <3>2. PICK q, n : q = plan[c].r /\ n = meta[c].omitted
        OBVIOUS
      <3>3. plan'[c].r = q /\ meta'[c].omitted = n
        BY <1>1, <1>2, <3>2
      <3>4. CASE Uncounted(c)
        BY <1>3, <2>1, <3>1, <3>2, <3>3, <3>4 DEF IInv, TotalsOK
      <3>5. CASE ~Uncounted(c)
        <4>1. StartsAfter(c, n)'
          BY <2>1, <3>2, <3>5, StartsExtend DEF IInv, TotalsOK
        <4>. QED BY <3>1, <3>3, <3>5, <4>1
      <3>. QED BY <3>4, <3>5
    <2>. QED BY <1>1, <1>2, <2>1 DEF IInv, TotalsOK, Gen, Unknown
  <1>7. ReceiptsOK'
    <2>. SUFFICES ASSUME NEW c \in Chains, receipt[c] # None, NEW r, r = receipt[c]
                  PROVE  /\ ReceiptOK(r)' /\ r \in history[c]
                         /\ r.omitted > 0 =>
                              /\ signed[r.last].chain = c
                              /\ r.cutoff < NextOrd'
                              /\ \A k \in ChainKeys(c)' : r.cutoff < k.ord
                              /\ Settled(c) /\ meta[c].omitted # Unknown =>
                                   signed[r.last].at = meta[c].omitted
      BY <1>1, <1>2 DEF ReceiptsOK, Settled, Unknown
    <2>1. /\ ReceiptOK(r) /\ r \in history[c]
          /\ r.omitted > 0 =>
               /\ signed[r.last].chain = c
               /\ r.cutoff < NextOrd
               /\ \A k \in ChainKeys(c) : r.cutoff < k.ord
               /\ Settled(c) /\ meta[c].omitted # Unknown =>
                    signed[r.last].at = meta[c].omitted
      BY DEF IInv, ReceiptsOK
    <2>2. ReceiptOK(r)'
      BY <1>1, <2>1 DEF ReceiptOK
    <2>3. \A k \in ChainKeys(c)' : k \in ChainKeys(c) \/ k.ord = NextOrd
      BY ChainExtends DEF Follows
    <2>4. r.omitted > 0 => r.cutoff < NextOrd'
      BY <1>4, <2>1 DEF ReceiptOK
    <2>. QED BY <2>1, <2>2, <2>3, <2>4
  <1>8. HistoryOK'
    BY <1>1 DEF IInv, HistoryOK, Succeeds
  <1>9. ASSUME UNCHANGED pruner
        PROVE  PrunerOK'
    <2>. SUFFICES ASSUME pruner # None, pruner.r # None, NEW c, c = pruner.chain,
                         NEW r, r = pruner.r
                  PROVE  /\ ReceiptOK(r)'
                         /\ r.gen <= Gen(receipt[c]) + 1
                         /\ r.gen = Gen(receipt[c]) + 1 =>
                              /\ r.prior = Hash(receipt[c])
                              /\ Settled(c) => Cuts(c, r)' /\ Adds(c, r)'
      BY <1>1, <1>9 DEF PrunerOK, Gen, Hash, Settled
    <2>1. c \in Chains /\ ReceiptOK(r)
      BY OwnerTypes, SignedRefs
    <2>2. ReceiptOK(r)'
      BY <1>1, <2>1 DEF ReceiptOK
    <2>. QED BY <1>3, <2>1, <2>2, CutsExtend DEF IInv, PrunerOK
  <1>. QED BY <1>5, <1>6, <1>7, <1>8, <1>9

\* Marks, installed or about to be, keep naming their entry.
LEMMA MarksExtend ==
  ASSUME IInv, Extends
  PROVE  /\ UNCHANGED mark => MarksOK'
         /\ UNCHANGED <<mark, marker>> => MarkerOK'
  <1>1. UNCHANGED <<signed, plan, receipt, history>> /\ Ids' = Ids
    BY DEF Extends, Ids
  <1>2. \A c \in Chains : /\ meta'[c].omitted = meta[c].omitted /\ meta'[c].gen = meta[c].gen
                          /\ meta[c].head # NoEntry => meta'[c].head # NoEntry
                          /\ Height(meta[c].head)' \in Nat
                          /\ Height(meta[c].head) <= Height(meta[c].head)'
    BY DEF Extends
  <1>3. NextOrd \in Nat /\ NextOrd' \in Nat /\ NextOrd <= NextOrd'
    BY Positions DEF Extends
  <1>4. ASSUME NEW c \in Chains, NEW pos \in Nat, NEW id, NEW ord, Names(c, pos, id, ord),
               pos <= Height(meta[c].head)
        PROVE  Names(c, pos, id, ord)' /\ pos <= Height(meta[c].head)'
    <2>1. Height(meta[c].head) \in Nat
      BY Positions
    <2>2. pos <= Height(meta[c].head)'
      BY <1>2, <1>4, <2>1
    <2>3. ord \in Nat /\ ord < NextOrd /\ ord < NextOrd'
      BY <1>3, <1>4 DEF Names
    <2>4. ASSUME NEW k \in ChainKeys(c)', Follows(c, k)
          PROVE  ord < k.ord <=> pos < signed[k.id].at
      BY <1>4, <2>1, <2>3, <2>4 DEF Follows
    <2>5. \A k \in ChainKeys(c)' : ord < k.ord <=> pos < signed[k.id].at
      BY <1>4, <2>4, ChainExtends DEF Names
    <2>. QED BY <1>1, <1>4, <2>2, <2>3, <2>5 DEF Names
  <1>5. \A c \in Chains : Known(c) => Known(c)'
    BY <1>1, <1>2 DEF Known, Unknown
  <1>6. ASSUME UNCHANGED mark
        PROVE  MarksOK'
    <2>. SUFFICES ASSUME NEW c \in Chains, mark[c] # None, NEW mk, mk = mark[c]
                  PROVE  /\ Known(c)' /\ Names(c, mk.pos, mk.id, mk.ord)'
                         /\ meta'[c].omitted <= mk.pos
                         /\ mk.pos <= Height(meta[c].head)'
                         /\ plan[c] # None /\ plan[c].r.omitted > 0 =>
                              signed[plan[c].r.last].at <= mk.pos
      BY <1>1, <1>6 DEF MarksOK
    <2>1. mk.pos \in Nat
      BY DEF IInv, TypeOK, Mark
    <2>. QED BY <1>2, <1>4, <1>5, <2>1 DEF IInv, MarksOK
  <1>7. ASSUME UNCHANGED <<mark, marker>>
        PROVE  MarkerOK'
    <2>. SUFFICES ASSUME marker # None, marker.pc \in {"locate", "install"}, NEW c, c = marker.chain,
                         NEW mk, mk = marker
                  PROVE  /\ mk.mark = mark[c]
                         /\ mark[c] # None => mark[c].pos < mk.pos
                         /\ Gen(mk.receipt) <= Gen(receipt[c])
                         /\ Gen(mk.receipt) = Gen(receipt[c]) => mk.receipt = receipt[c]
                         /\ plan[c] # None => Gen(mk.receipt) < plan[c].r.gen
                         /\ meta'[c].head # NoEntry /\ mk.pos <= Height(meta[c].head)'
                         /\ plan[c] = None /\ receipt[c] = mk.receipt =>
                              /\ Known(c)'
                              /\ mk.omitted = meta'[c].omitted /\ mk.omitted <= mk.pos
                              /\ mk.pc = "install" => Names(c, mk.pos, mk.id, mk.ord)'
      BY <1>1, <1>7 DEF MarkerOK, Gen
    <2>1. c \in Chains /\ mk.pos \in Nat
      BY NoneIsAbsence DEF IInv, TypeOK, Marker
    <2>2. mk.pos <= Height(meta[c].head) /\ Height(meta[c].head) \in Nat
      BY <2>1, Positions DEF IInv, MarkerOK
    <2>3. mk.pos <= Height(meta[c].head)'
      BY <1>2, <2>1, <2>2
    <2>4. Names(c, mk.pos, mk.id, mk.ord) => Names(c, mk.pos, mk.id, mk.ord)'
      BY <1>4, <2>1, <2>2
    <2>. QED BY <1>2, <1>5, <2>1, <2>3, <2>4 DEF IInv, MarkerOK
  <1>. QED BY <1>6, <1>7

-----------------------------------------------------------------------------
(* The steps of an append and of a recovery *)

\* The metadata and totals that an append writes next
LEMMA NextRecords ==
  ASSUME IInv, NEW m \in Meta, NEW id \in Nat, NEW c \in Chains
  PROVE  /\ NextMeta(m, id) \in Meta
         /\ NextMeta(m, id).head = id /\ NextMeta(m, id).count = m.count + 1
         /\ NextMeta(m, id).omitted = m.omitted /\ NextMeta(m, id).gen = m.gen
         /\ NextGlobal(m, NextMeta(m, id)) \in Global
         /\ SegmentOf(c, NextMeta(m, id)) \subseteq Segment
  <1>1. global \in Global /\ SegMax \in Nat
    BY AuditAssumption DEF IInv, TypeOK
  <1>. DEFINE n == IF m.sealed THEN 1 ELSE 1 + (IF m.segCount = 0 THEN m.count ELSE m.segCount)
              s == n >= SegMax
              g == IF m.sealed THEN m.segment + 1 ELSE m.segment
              o == IF s THEN global.ord + 1 ELSE IF m.sealed THEN 0 ELSE m.ord
  <1>2. n \in Nat /\ g \in Nat
    BY DEF Meta
  <1>3. o \in Nat
    BY <1>1 DEF Meta, Global
  <1>4. s \in BOOLEAN
    OBVIOUS
  <1>5. NextMeta(m, id) = [m EXCEPT !.segment = g, !.sealed = s, !.count = m.count + 1,
                                    !.head = id, !.segCount = n, !.ord = o]
    BY DEF NextMeta, Meta
  <1>. HIDE DEF n, s, g, o
  <1>6. m.count + 1 \in Nat
    BY DEF Meta
  <1>7. /\ NextMeta(m, id) \in Meta
        /\ NextMeta(m, id).head = id /\ NextMeta(m, id).count = m.count + 1
        /\ NextMeta(m, id).omitted = m.omitted /\ NextMeta(m, id).gen = m.gen
    BY <1>2, <1>3, <1>4, <1>5, <1>6 DEF Meta
  <1>8. ASSUME NEW next \in Meta
        PROVE  NextGlobal(m, next) \in Global /\ SegmentOf(c, next) \subseteq Segment
    <2>1. NextGlobal(m, next) \in Global
      <3>. DEFINE t == global.total + 1
                  u == IF next.sealed THEN global.ord + 1 ELSE global.ord
                  h == global.hold /\ ~(next.sealed /\ (atomic \/ ~m.sealed))
      <3>1. t \in Nat /\ u \in Nat
        BY <1>1 DEF Global
      <3>2. h \in BOOLEAN
        OBVIOUS
      <3>3. NextGlobal(m, next) = [global EXCEPT !.total = t, !.ord = u, !.hold = h]
        BY <1>1 DEF NextGlobal, Global
      <3>. HIDE DEF t, u, h
      <3>. QED BY <1>1, <3>1, <3>2, <3>3 DEF Global
    <2>2. SegmentOf(c, next) \subseteq Segment
      BY DEF SegmentOf, Segment, Meta
    <2>. QED BY <2>1, <2>2
  <1>. QED BY <1>7, <1>8

\* The holes of the index stay as they are while no prune is at work.
LEMMA HolesStay ==
  ASSUME IInv, ~(job # None /\ job.op = "prune"), UNCHANGED <<plan, signed, pruner>>,
         \A k \in index' : k.id \notin entries' => k \in index /\ k.id \notin entries,
         \A k \in index : \A l \in index' : l \in index \/ k.ord <= l.ord
  PROVE  HolesOK'
  <1>1. ASSUME NEW k \in index', k.id \notin entries'
        PROVE  /\ plan[signed[k.id].chain] # None
               /\ ~plan[signed[k.id].chain].complete
               /\ plan[signed[k.id].chain].r.omitted > 0
               /\ k.ord <= plan[signed[k.id].chain].r.cutoff
               /\ \A l \in index' : SameChain(k, l) => k.ord <= l.ord
               /\ ~(pruner # None /\ pruner.pc # "scan")
    <2>1. k \in index /\ k.id \notin entries
      BY <1>1
    <2>. QED BY <2>1 DEF IInv, HolesOK, Pruning
  <1>. QED BY <1>1 DEF HolesOK, SameChain

\* An append or a recovery goes on to its next write.
LEMMA AppendMoves ==
  ASSUME IInv, job # None, job.op # "prune", NEW s \in AppendSteps,
         job' = [job EXCEPT !.step = s], UNCHANGED <<wr, pruner, signed>>
  PROVE  /\ job' \in Job /\ job' # None /\ job'.op = job.op /\ job'.by = job.by /\ job'.step = s
         /\ OwnersOK' /\ WritersOK' /\ PruneJobOK' /\ PageOK'
         /\ wr' \in [Writers -> Writer] /\ pruner' \in Pruner \cup {None}
  <1>1. job \in Job
    BY OwnerTypes
  <1>2. job' \in Job /\ job' # None /\ job'.op = job.op /\ job'.by = job.by /\ job'.step = s
    BY <1>1, NoneIsAbsence DEF Job
  <1>3. OwnersOK' /\ WritersOK'
    BY <1>2 DEF IInv, OwnersOK, WritersOK, Ids
  <1>4. PruneJobOK' /\ PageOK'
    BY <1>2 DEF PruneJobOK, PageOK, Pruning
  <1>5. wr' \in [Writers -> Writer] /\ pruner' \in Pruner \cup {None}
    BY DEF IInv, TypeOK
  <1>. QED BY <1>2, <1>3, <1>4, <1>5

\* The entry is written first; nothing refers to it yet but the intent.
LEMMA WriteEntryStep ==
  ASSUME IInv, WriteEntry
  PROVE  IInv'
  <1>1. /\ job # None /\ job.op # "prune" /\ job.step = "entry"
        /\ job' = [job EXCEPT !.step = "seq"] /\ entries' = entries \cup {intent.id}
        /\ UNCHANGED <<atomic, index, seq, head, meta, global, segs, intent, plan, receipt,
                       history, mark, cache, wr, pruner, marker, signed>>
    BY DEF WriteEntry, Appending, GoTo, pruneStore
  <1>2. /\ job' \in Job /\ job' # None /\ job'.op = job.op /\ job'.by = job.by /\ job'.step = "seq"
        /\ OwnersOK' /\ WritersOK' /\ PruneJobOK' /\ PageOK'
        /\ wr' \in [Writers -> Writer] /\ pruner' \in Pruner \cup {None}
    BY <1>1, AppendMoves DEF AppendSteps
  <1>3. intent # None /\ intent.id \in Ids
    BY <1>1, SignedRefs DEF IInv, AppendJobOK
  <1>4. TypeOK'
    BY <1>1, <1>2, <1>3 DEF IInv, TypeOK, Ids
  <1>5. UNCHANGED KeyData /\ NextOrd' = NextOrd
    BY <1>1 DEF NextOrd, KeyData, IntentKey
  <1>6. HeadsOK'
    BY <1>1 DEF IInv, HeadsOK, Ids, EmptyMeta
  <1>7. TopOK'
    BY <1>1, <1>3 DEF IInv, TopOK, IntentKey, Height
  <1>8. IntentOK'
    BY <1>1 DEF IInv, IntentOK, IntentKey, Ids
  <1>9. AppendJobOK'
    BY <1>1, <1>2, <1>3 DEF AppendJobOK, IntentKey
  <1>10. HolesOK'
    BY <1>1, HolesStay
  <1>11. PrunerOK'
    BY <1>1, <1>5, PrunerFrame
  <1>. QED BY <1>1, <1>2, <1>4, <1>5, <1>6, <1>7, <1>8, <1>9, <1>10, <1>11, KeyFrame DEF IInv

\* The sequence number is reserved; a recovery may find it reserved.
LEMMA WriteSequenceStep ==
  ASSUME IInv, WriteSequence
  PROVE  IInv'
  <1>1. /\ job # None /\ job.op # "prune" /\ job.step = "seq"
        /\ UNCHANGED <<atomic, entries, index, segs, intent, plan, receipt, history, mark, cache,
                       marker, signed>>
    BY DEF WriteSequence, Appending, pruneStore
  <1>2. CASE FailOwner /\ UNCHANGED <<head, meta, global, seq>>
    BY <1>1, <1>2, FailStep DEF Data
  <1>3. CASE /\ seq' = intent.ord /\ UNCHANGED <<head, meta, global>>
             /\ job' = [job EXCEPT !.step = "index"] /\ UNCHANGED <<wr, pruner>>
    <2>1. /\ job' \in Job /\ job' # None /\ job'.op = job.op /\ job'.by = job.by
          /\ job'.step = "index"
          /\ OwnersOK' /\ WritersOK' /\ PruneJobOK' /\ PageOK'
          /\ wr' \in [Writers -> Writer] /\ pruner' \in Pruner \cup {None}
      BY <1>1, <1>3, AppendMoves DEF AppendSteps
    <2>2. intent # None /\ intent.id \in entries
      BY <1>1 DEF IInv, AppendJobOK
    <2>3. /\ ~atomic /\ (intent.ord = seq + 1 \/ intent.ord = seq)
          /\ IntentKey \in index => intent.ord = seq
      BY <2>2 DEF IInv, IntentOK
    <2>4. seq \in Nat /\ seq' \in Nat /\ seq <= seq'
      BY <1>3, <2>3 DEF IInv, TypeOK
    <2>5. index \subseteq [ord : 0 .. seq', id : Ids]
      <3>1. index \subseteq [ord : 0 .. seq, id : Ids] /\ 0 .. seq \subseteq 0 .. seq'
        BY <2>4 DEF IInv, TypeOK
      <3>. QED BY <3>1
    <2>6. TypeOK'
      BY <1>1, <1>3, <2>1, <2>4, <2>5 DEF IInv, TypeOK, Ids
    <2>7. UNCHANGED KeyData /\ NextOrd' = NextOrd
      BY <1>1, <1>3, <2>2, <2>3 DEF NextOrd, KeyData, IntentKey
    <2>8. HeadsOK'
      BY <1>1, <1>3 DEF IInv, HeadsOK, Ids, EmptyMeta
    <2>9. TopOK'
      BY <1>1, <1>3 DEF IInv, TopOK, IntentKey, Height
    <2>10. IntentOK'
      BY <1>1, <1>3 DEF IInv, IntentOK, IntentKey, Ids
    <2>11. AppendJobOK'
      BY <1>1, <1>3, <2>1, <2>2 DEF AppendJobOK, IntentKey
    <2>12. HolesOK'
      BY <1>1, <1>3, HolesStay
    <2>13. PrunerOK'
      BY <1>3, <2>7, PrunerFrame
    <2>. QED BY <1>1, <2>1, <2>6, <2>7, <2>8, <2>9, <2>10, <2>11, <2>12, <2>13, KeyFrame DEF IInv
  <1>. QED BY <1>2, <1>3 DEF WriteSequence, Swap, GoTo

\* The key of the entry follows the keys of its chain.
LEMMA WriteIndexStep ==
  ASSUME IInv, WriteIndex
  PROVE  IInv'
  <1>1. /\ job # None /\ job.op # "prune" /\ job.step = "index"
        /\ job' = [job EXCEPT !.step = "head"] /\ index' = index \cup {IntentKey}
        /\ UNCHANGED <<atomic, entries, seq, head, meta, global, segs, intent, plan, receipt,
                       history, mark, cache, wr, pruner, marker, signed>>
    BY DEF WriteIndex, Appending, GoTo, pruneStore, IntentKey
  <1>2. /\ job' \in Job /\ job' # None /\ job'.op = job.op /\ job'.by = job.by /\ job'.step = "head"
        /\ OwnersOK' /\ WritersOK' /\ PruneJobOK' /\ PageOK'
        /\ wr' \in [Writers -> Writer] /\ pruner' \in Pruner \cup {None}
    BY <1>1, AppendMoves DEF AppendSteps
  <1>3. /\ intent # None /\ intent.id \in Ids /\ intent.chain \in Chains
        /\ intent.id \in entries /\ intent.ord = seq /\ ~atomic /\ seq \in Nat
    BY <1>1, SignedRefs DEF IInv, AppendJobOK, IntentOK, TypeOK
  <1>4. IntentKey.id = intent.id /\ IntentKey.ord = intent.ord /\ IntentKey' = IntentKey
    BY <1>1 DEF IntentKey
  <1>5. TypeOK'
    <2>1. IntentKey \in [ord : 0 .. seq, id : Ids]
      BY <1>3 DEF IntentKey
    <2>2. index' \subseteq [ord : 0 .. seq', id : Ids']
      BY <1>1, <2>1 DEF IInv, TypeOK, Ids
    <2>. QED BY <1>1, <1>2, <2>2 DEF IInv, TypeOK, Ids
  <1>6. NextOrd' = seq + 1
    BY <1>1, <1>3, <1>4 DEF NextOrd
  <1>7. Extends
    <2>1. \A d \in Chains : /\ meta'[d].omitted = meta[d].omitted /\ meta'[d].gen = meta[d].gen
                            /\ meta[d].head # NoEntry => meta'[d].head # NoEntry
                            /\ Height(meta[d].head)' \in Nat
                            /\ Height(meta[d].head) <= Height(meta[d].head)'
      <3>1. \A d \in Chains : Height(meta[d].head) \in Nat
        BY Positions
      <3>2. \A d \in Chains : Height(meta[d].head)' = Height(meta[d].head)
        BY <1>1 DEF Height
      <3>. QED BY <1>1, <3>1, <3>2
    <2>2. CASE IntentKey \in index
      <3>1. NextOrd = seq + 1 /\ index' = index
        BY <1>1, <1>3, <2>2 DEF NextOrd
      <3>. QED BY <1>1, <1>3, <1>6, <2>1, <3>1 DEF Extends
    <2>3. CASE IntentKey \notin index
      <3>1. NextOrd = seq
        BY <1>3, <2>3 DEF NextOrd
      <3>2. Fits(intent.id)
        BY <1>3, <2>3 DEF Fits, IInv, IntentOK
      <3>3. index' = index \cup {[ord |-> NextOrd, id |-> intent.id]}
        BY <1>1, <1>3, <3>1 DEF IntentKey
      <3>. QED BY <1>1, <1>3, <1>6, <2>1, <3>1, <3>2, <3>3 DEF Extends
    <2>. QED BY <2>2, <2>3
  <1>8. SignedOK' /\ HeadsOK' /\ PositionsExact'
    BY <1>1 DEF IInv, SignedOK, HeadsOK, PositionsExact, Ids, EmptyMeta, Height, Unknown
  <1>9. TopOK'
    BY <1>1, <1>3, <1>4 DEF IInv, TopOK, Height
  <1>10. IntentOK'
    BY <1>1, <1>3, <1>4 DEF IInv, IntentOK, Ids
  <1>11. AppendJobOK'
    BY <1>1, <1>2, <1>3, <1>4 DEF AppendJobOK
  <1>12. HolesOK'
    <2>1. \A k \in index' : k.id \notin entries' => k \in index /\ k.id \notin entries
      BY <1>1, <1>3, <1>4
    <2>2. \A k \in index : \A l \in index' : l \in index \/ k.ord <= l.ord
      <3>1. \A k \in index : k.ord <= seq
        BY DEF IInv, TypeOK
      <3>. QED BY <1>1, <1>3, <1>4, <3>1
    <2>. QED BY <1>1, <2>1, <2>2, HolesStay
  <1>. QED BY <1>1, <1>2, <1>5, <1>7, <1>8, <1>9, <1>10, <1>11, <1>12,
              IndexExtends, PruneExtends, MarksExtend DEF IInv

\* The stored head follows.
LEMMA WriteHeadStep ==
  ASSUME IInv, WriteHead
  PROVE  IInv'
  <1>1. /\ job # None /\ job.op # "prune" /\ job.step = "head"
        /\ UNCHANGED <<atomic, entries, index, segs, intent, plan, receipt, history, mark, cache,
                       marker, signed>>
    BY DEF WriteHead, Appending, pruneStore
  <1>2. CASE FailOwner /\ UNCHANGED <<head, meta, global, seq>>
    BY <1>1, <1>2, FailStep DEF Data
  <1>3. CASE /\ head' = [head EXCEPT ![intent.chain] = intent.id] /\ UNCHANGED <<meta, global, seq>>
             /\ job' = [job EXCEPT !.step = "meta"] /\ UNCHANGED <<wr, pruner>>
    <2>1. intent # None
      BY <1>1 DEF IInv, AppendJobOK
    <2>2. intent.chain \in Chains /\ intent.id \in Ids /\ signed[intent.id].chain = intent.chain
      BY <2>1, SignedRefs DEF IInv, IntentOK
    <2>3. segs' \subseteq Segment /\ global' \in Global
      BY <1>1, <1>3 DEF IInv, TypeOK
    <2>. QED BY <1>1, <1>3, <2>2, <2>3, JobMoves DEF Data
  <1>. QED BY <1>2, <1>3 DEF WriteHead, Swap, GoTo

\* The segment descriptor and the session's totals.
LEMMA WriteTotalsStep ==
  ASSUME IInv, WriteSegment \/ WriteGlobal
  PROVE  IInv'
  <1>1. segs \subseteq Segment /\ global \in Global
    BY DEF IInv, TypeOK
  <1>2. job # None /\ job.op # "prune" /\ intent # None
    BY DEF WriteSegment, WriteGlobal, Appending, IInv, AppendJobOK
  <1>3. intent \in Intent
    BY <1>2 DEF IInv, TypeOK
  <1>4. CASE WriteSegment
    <2>1. /\ job.step = "seg" /\ job' = [job EXCEPT !.step = "global"]
          /\ segs' = segs \cup SegmentOf(intent.chain, intent.nextMeta)
          /\ UNCHANGED Data /\ UNCHANGED <<mark, marker, cache, wr, pruner, head, global>>
      BY <1>4 DEF WriteSegment, Appending, GoTo, Data, pruneStore
    <2>2. SegmentOf(intent.chain, intent.nextMeta) \subseteq Segment
      BY <1>3 DEF SegmentOf, Segment, Meta, Intent
    <2>. QED BY <1>1, <1>2, <2>1, <2>2, JobMoves
  <1>5. CASE WriteGlobal
    <2>1. /\ job.step = "global"
          /\ UNCHANGED <<atomic, entries, index, segs, intent, plan, receipt, history, mark, cache,
                         marker, signed>>
      BY <1>5 DEF WriteGlobal, Appending, pruneStore
    <2>2. CASE FailOwner /\ UNCHANGED <<head, meta, global, seq>>
      BY <1>2, <2>1, <2>2, FailStep DEF Data
    <2>3. CASE /\ global' = intent.nextGlobal /\ UNCHANGED <<head, meta, seq>>
               /\ job' = [job EXCEPT !.step = "remove"] /\ UNCHANGED <<wr, pruner>>
      <3>1. global' \in Global
        BY <1>3, <2>3 DEF Intent
      <3>. QED BY <1>1, <1>2, <2>1, <2>3, <3>1, JobMoves DEF Data
    <2>. QED BY <1>5, <2>2, <2>3 DEF WriteGlobal, Swap, GoTo
  <1>. QED BY <1>4, <1>5

\* The metadata of a chain advances to the entry signed on its head.
LEMMA MetaAdvances ==
  ASSUME IInv, NEW c \in Chains, NEW x \in Ids, signed[x].chain = c,
         signed[x].prev = meta[c].head, NEW m \in Meta, m.head = x,
         m.count = meta[c].count + 1, m.omitted = meta[c].omitted, m.gen = meta[c].gen,
         meta' = [meta EXCEPT ![c] = m], UNCHANGED signed
  PROVE  /\ meta' \in [Chains -> Meta]
         /\ \A d \in Chains : /\ meta'[d].head \in Ids \cup {NoEntry}
                              /\ meta'[d].head # NoEntry => signed[meta'[d].head].chain = d
                              /\ meta'[d].head = NoEntry => meta'[d] = EmptyMeta
                              /\ meta'[d].omitted = meta[d].omitted /\ meta'[d].gen = meta[d].gen
                              /\ meta[d].head # NoEntry => meta'[d].head # NoEntry
                              /\ Height(meta[d].head)' \in Nat
                              /\ Height(meta[d].head) <= Height(meta[d].head)'
         /\ Height(meta[c].head)' = Height(meta[c].head) + 1
         /\ PositionsExact'
  <1>1. meta \in [Chains -> Meta] /\ meta[c] \in Meta
    BY DEF IInv, TypeOK
  <1>2. meta' \in [Chains -> Meta] /\ \A d \in Chains : meta'[d] = IF d = c THEN m ELSE meta[d]
    BY <1>1
  <1>3. x # NoEntry
    BY DEF Ids, NoEntry
  <1>4. signed[x].at = Height(meta[c].head) + 1 /\ Height(meta[c].head) \in Nat
    BY Positions DEF IInv, SignedOK
  <1>5. Height(meta[c].head)' = Height(meta[c].head) + 1
    BY <1>2, <1>3, <1>4 DEF Height
  <1>6. \A d \in Chains : d # c => Height(meta[d].head)' = Height(meta[d].head)
    BY <1>2 DEF Height
  <1>7. \A d \in Chains : Height(meta[d].head)' \in Nat
                          /\ Height(meta[d].head) <= Height(meta[d].head)'
    BY <1>4, <1>5, <1>6, Positions
  <1>8. \A d \in Chains : /\ meta'[d].head \in Ids \cup {NoEntry}
                          /\ meta'[d].head # NoEntry => signed[meta'[d].head].chain = d
                          /\ meta'[d].head = NoEntry => meta'[d] = EmptyMeta
                          /\ meta'[d].omitted = meta[d].omitted /\ meta'[d].gen = meta[d].gen
                          /\ meta[d].head # NoEntry => meta'[d].head # NoEntry
    BY <1>2, <1>3 DEF IInv, HeadsOK
  <1>9. PositionsExact'
    <2>1. meta[c].omitted # Unknown => m.omitted + m.count = signed[x].at
      <3>1. meta[c].omitted \in Nat /\ meta[c].count \in Nat
        BY <1>1 DEF Meta
      <3>2. CASE meta[c].head = NoEntry
        BY <1>4, <3>2 DEF Height, IInv, HeadsOK, EmptyMeta
      <3>3. CASE meta[c].head # NoEntry
        BY <1>4, <3>1, <3>3 DEF Height, IInv, PositionsExact
      <3>. QED BY <3>2, <3>3
    <2>. QED BY <1>2, <2>1 DEF IInv, PositionsExact, Unknown
  <1>. QED BY <1>2, <1>5, <1>7, <1>8, <1>9

\* The metadata is written after the key.
LEMMA WriteMetaStep ==
  ASSUME IInv, WriteMeta
  PROVE  IInv'
  <1>1. /\ job # None /\ job.op # "prune" /\ job.step = "meta"
        /\ UNCHANGED <<atomic, entries, index, segs, intent, plan, receipt, history, mark, cache,
                       marker, signed>>
    BY DEF WriteMeta, Appending, pruneStore
  <1>2. CASE FailOwner /\ UNCHANGED <<head, meta, global, seq>>
    BY <1>1, <1>2, FailStep DEF Data
  <1>3. CASE /\ meta[intent.chain] \in {intent.expMeta, intent.nextMeta}
             /\ meta' = [meta EXCEPT ![intent.chain] = intent.nextMeta]
             /\ UNCHANGED <<head, global, seq>>
             /\ job' = [job EXCEPT !.step = "seg"] /\ UNCHANGED <<wr, pruner>>
    <2>1. /\ job' \in Job /\ job' # None /\ job'.op = job.op /\ job'.by = job.by
          /\ job'.step = "seg"
          /\ OwnersOK' /\ WritersOK' /\ PruneJobOK' /\ PageOK'
          /\ wr' \in [Writers -> Writer] /\ pruner' \in Pruner \cup {None}
      BY <1>1, <1>3, AppendMoves DEF AppendSteps
    <2>2. /\ intent # None /\ intent \in Intent /\ intent.chain \in Chains /\ intent.id \in Ids
          /\ intent.id \in entries /\ intent.ord = seq /\ IntentKey \in index
      BY <1>1, SignedRefs DEF IInv, AppendJobOK, TypeOK
    <2>3. PICK c, x, m : c = intent.chain /\ x = intent.id /\ m = intent.nextMeta
      OBVIOUS
    <2>4. /\ c \in Chains /\ x \in Ids /\ signed[x].chain = c /\ m \in Meta /\ m.head = x
          /\ signed[x].prev = intent.expHead /\ intent.expMeta.head = intent.expHead
          /\ m.count = intent.expMeta.count + 1 /\ m.omitted = intent.expMeta.omitted
          /\ m.gen = intent.expMeta.gen
      BY <2>2, <2>3 DEF IInv, IntentOK, Intent
    <2>5. meta \in [Chains -> Meta] /\ meta' = [meta EXCEPT ![c] = m] /\ signed' = signed
      BY <1>1, <1>3, <2>3 DEF IInv, TypeOK
    <2>6. NextOrd' = NextOrd /\ NextOrd \in Nat
      BY <1>1, <1>3, Positions DEF NextOrd, IntentKey
    <2>7. /\ meta' \in [Chains -> Meta]
          /\ \A d \in Chains : /\ meta'[d].head \in Ids \cup {NoEntry}
                               /\ meta'[d].head # NoEntry => signed[meta'[d].head].chain = d
                               /\ meta'[d].head = NoEntry => meta'[d] = EmptyMeta
                               /\ meta'[d].omitted = meta[d].omitted /\ meta'[d].gen = meta[d].gen
                               /\ meta[d].head # NoEntry => meta'[d].head # NoEntry
                               /\ Height(meta[d].head)' \in Nat
                               /\ Height(meta[d].head) <= Height(meta[d].head)'
          /\ PositionsExact'
      <3>1. CASE meta[c] = intent.expMeta
        BY <2>4, <2>5, <3>1, MetaAdvances
      <3>2. CASE meta[c] = intent.nextMeta
        <4>1. meta' = meta
          BY <2>3, <2>5, <3>2
        <4>2. \A d \in Chains : Height(meta[d].head)' = Height(meta[d].head)
                                /\ Height(meta[d].head) \in Nat
          BY <1>1, <4>1, Positions DEF Height
        <4>3. PositionsExact'
          BY <1>1, <4>1 DEF IInv, PositionsExact, Unknown
        <4>4. \A d \in Chains : Height(meta[d].head)' \in Nat
                                /\ Height(meta[d].head) <= Height(meta[d].head)'
          BY <4>2
        <4>5. \A d \in Chains : /\ meta[d].head \in Ids \cup {NoEntry}
                                /\ meta[d].head # NoEntry => signed[meta[d].head].chain = d
                                /\ meta[d].head = NoEntry => meta[d] = EmptyMeta
          BY DEF IInv, HeadsOK
        <4>. QED BY <2>5, <4>1, <4>3, <4>4, <4>5
      <3>. QED BY <1>3, <2>3, <3>1, <3>2
    <2>8. Extends
      BY <1>1, <2>6, <2>7 DEF Extends
    <2>9. TypeOK'
      BY <1>1, <1>3, <2>1, <2>7 DEF IInv, TypeOK, Ids
    <2>10. SignedOK' /\ HeadsOK'
      <3>1. \A d \in Chains : /\ cache[d] # NoEntry => signed[cache[d]].chain = d
                              /\ head[d] # NoEntry => signed[head[d]].chain = d
        BY DEF IInv, HeadsOK
      <3>2. HeadsOK'
        BY <1>1, <1>3, <2>7, <3>1 DEF HeadsOK, Ids, EmptyMeta
      <3>. QED BY <1>1, <3>2 DEF IInv, SignedOK, Ids, Height
    <2>11. IntentKey' = IntentKey /\ IntentKey.id = x
      BY <1>1, <2>3 DEF IntentKey
    <2>12. meta'[c].head = x
      BY <2>4, <2>5
    <2>13. TopOK'
      <3>1. \A d \in Chains : meta'[d].head # NoEntry =>
              \/ \E k \in index : k.id = meta'[d].head
              \/ intent # None /\ intent.chain = d /\ IntentKey \in index
        <4>. SUFFICES ASSUME NEW d \in Chains, meta'[d].head # NoEntry
                      PROVE  \/ \E k \in index : k.id = meta'[d].head
                             \/ intent # None /\ intent.chain = d /\ IntentKey \in index
          OBVIOUS
        <4>1. CASE d = c
          BY <2>2, <2>3, <4>1
        <4>2. CASE d # c
          BY <2>5, <4>2 DEF IInv, TopOK
        <4>. QED BY <4>1, <4>2
      <3>2. ASSUME NEW k \in index
            PROVE  \/ signed[k.id].at <= Height(meta[signed[k.id].chain].head)'
                   \/ intent # None /\ k = IntentKey
        <4>1. PICK d \in Chains : d = signed[k.id].chain
          BY Positions, SignedRefs
        <4>2. /\ signed[k.id].at \in Nat /\ Height(meta[d].head) \in Nat
              /\ Height(meta[d].head)' \in Nat /\ Height(meta[d].head) <= Height(meta[d].head)'
          BY <2>7, Positions, SignedRefs
        <4>3. \/ signed[k.id].at <= Height(meta[d].head)
              \/ intent # None /\ k = IntentKey
          BY <4>1 DEF IInv, TopOK
        <4>4. Height(meta[signed[k.id].chain].head)' = Height(meta[d].head)'
          BY <1>1, <4>1
        <4>. QED BY <4>2, <4>3, <4>4
      <3>. QED BY <1>1, <2>11, <3>1, <3>2 DEF IInv, TopOK
    <2>14. IntentOK'
      <3>1. meta'[intent.chain].head = intent.id
        BY <2>3, <2>12
      <3>. QED BY <1>1, <1>3, <2>2, <2>11, <3>1 DEF IInv, IntentOK, Ids
    <2>15. AppendJobOK'
      BY <1>1, <1>3, <2>1, <2>2, <2>3, <2>11, <2>12 DEF AppendJobOK
    <2>16. HolesOK'
      BY <1>1, <1>3, HolesStay
    <2>. QED BY <1>1, <1>3, <2>1, <2>7, <2>8, <2>9, <2>10, <2>13, <2>14, <2>15, <2>16,
                IndexExtends, PruneExtends, MarksExtend DEF IInv
  <1>. QED BY <1>2, <1>3 DEF WriteMeta, Swap, GoTo

\* The intent is written before anything it announces.
LEMMA InstallIntentStep ==
  ASSUME IInv, NEW w \in Writers, InstallIntent(w)
  PROVE  IInv'
  <1>1. /\ ~atomic /\ wr[w].pc = "store" /\ job = None /\ intent = None
        /\ job' = [op |-> "append", by |-> w, step |-> "entry"]
        /\ wr' = [wr EXCEPT ![w].pc = "append"]
        /\ UNCHANGED <<atomic, entries, index, seq, meta, global, segs, plan, receipt, history,
                       mark, cache, pruner, marker, signed>>
    BY DEF InstallIntent, AppendReady, Locked, pruneStore
  <1>2. wr[w] # Idle /\ wr \in [Writers -> Writer] /\ wr[w] \in Writer
    BY <1>1 DEF Idle, IInv, TypeOK
  <1>3. PICK c, x, e, m : c = wr[w].chain /\ x = wr[w].id /\ e = wr[w].exp /\ m = meta[c]
    OBVIOUS
  <1>4. /\ c \in Chains /\ x \in Ids /\ signed[x].chain = c /\ signed[x].prev = e
    BY <1>2, <1>3 DEF IInv, WritersOK
  <1>5. meta[c].head = e /\ m.head = e /\ m \in Meta
    BY <1>3, <1>4 DEF InstallIntent, HeadMatches, IInv, TypeOK
  <1>6. PICK next : next = NextMeta(m, x)
    OBVIOUS
  <1>7. PICK g : g = NextGlobal(m, next)
    OBVIOUS
  <1>8. /\ next \in Meta /\ next.head = x /\ next.count = m.count + 1
        /\ next.omitted = m.omitted /\ next.gen = m.gen /\ g \in Global
    <2>1. x \in Nat
      BY <1>4 DEF Ids
    <2>. QED BY <1>4, <1>5, <1>6, <1>7, <2>1, NextRecords
  <1>9. /\ head' = [head EXCEPT ![c] = e]
        /\ intent' = [id |-> x, chain |-> c, ord |-> seq + 1, expHead |-> e, expMeta |-> m,
                      nextMeta |-> next, expGlobal |-> global, nextGlobal |-> g]
    BY <1>3, <1>6, <1>7 DEF InstallIntent
  <1>10. e \in Ids \cup {NoEntry} /\ (e # NoEntry => signed[e].chain = c) /\ e \in Nat
    BY <1>4, <1>5 DEF IInv, HeadsOK, Ids, NoEntry
  <1>11. seq \in Nat /\ global \in Global
    BY DEF IInv, TypeOK
  <1>12. intent' \in Intent /\ intent' # None
    <2>1. intent' \in Intent
      BY <1>4, <1>5, <1>8, <1>9, <1>10, <1>11 DEF Intent, Ids
    <2>. QED BY <2>1, NoneIsAbsence
  <1>13. head' \in [Chains -> Ids \cup {NoEntry}]
         /\ \A d \in Chains : head'[d] # NoEntry => signed[head'[d]].chain = d
    BY <1>9, <1>10 DEF IInv, TypeOK, HeadsOK
  <1>14. wr' \in [Writers -> Writer] /\ WritersOK'
    <2>. DEFINE v == [wr[w] EXCEPT !.pc = "append"]
    <2>1. wr' = [wr EXCEPT ![w] = v] /\ Moves(w, v)
      BY <1>1, <1>2 DEF Moves, WriterPc
    <2>. HIDE DEF v
    <2>. QED BY <1>1, <2>1, WriterMoves
  <1>15. job' \in Job /\ job' # None /\ job'.op = "append" /\ job'.by = w /\ job'.step = "entry"
    BY <1>1, NoneIsAbsence DEF Job, AppendSteps
  <1>16. TypeOK'
    BY <1>1, <1>12, <1>13, <1>14, <1>15 DEF IInv, TypeOK, Ids
  <1>17. HeadsOK'
    BY <1>1, <1>13 DEF IInv, HeadsOK, Ids, EmptyMeta
  <1>18. OwnersOK'
    <2>1. wr'[w].pc = "append"
      BY <1>1, <1>2 DEF Writer
    <2>2. pruner # None /\ pruner.by # None => wr'[pruner.by] = wr[pruner.by]
      BY <1>1, <1>2, OwnerTypes
    <2>. QED BY <1>1, <1>15, <2>1, <2>2 DEF IInv, OwnersOK
  <1>19. IntentKey' = [ord |-> seq + 1, id |-> x] /\ IntentKey' \notin index
    <2>1. IntentKey' = [ord |-> seq + 1, id |-> x]
      BY <1>9 DEF IntentKey
    <2>2. \A k \in index : k.ord <= seq
      BY DEF IInv, TypeOK
    <2>. QED BY <1>11, <2>1, <2>2
  <1>20. UNCHANGED KeyData /\ NextOrd' = NextOrd
    BY <1>1, <1>9, <1>12, <1>19 DEF NextOrd, KeyData
  <1>21. TopOK'
    BY <1>1 DEF IInv, TopOK, Height
  <1>22. IntentOK'
    <2>1. \A k \in index : k.ord < seq + 1 /\ k.id # x
      <3>1. Fits(x)
        BY <1>1, <1>4, <1>5 DEF Fits
      <3>2. \A k \in ChainKeys(c) : signed[k.id].at < signed[x].at
        <4>1. PICK nk : nk = [ord |-> NextOrd, id |-> x]
          OBVIOUS
        <4>. QED BY <1>4, <3>1, <4>1, FitsFollows DEF Follows
      <3>3. signed[x].at \in Nat
        BY <1>4, Positions
      <3>4. \A k \in index : k.id = x => k \in ChainKeys(c)
        BY <1>4 DEF ChainKeys
      <3>5. \A k \in index : k.ord \in Nat /\ k.ord <= seq
        BY DEF IInv, TypeOK
      <3>. QED BY <1>11, <3>2, <3>3, <3>4, <3>5
    <2>2. /\ intent'.id = x /\ intent'.chain = c /\ intent'.ord = seq + 1 /\ intent'.expHead = e
          /\ intent'.expMeta = m /\ intent'.nextMeta = next
      BY <1>9
    <2>. QED BY <1>1, <1>4, <1>5, <1>8, <1>19, <2>1, <2>2 DEF IntentOK, Ids
  <1>23. AppendJobOK' /\ PruneJobOK' /\ PageOK'
    BY <1>12, <1>15 DEF AppendJobOK, PruneJobOK, PageOK, Pruning
  <1>24. HolesOK'
    BY <1>1, HolesStay
  <1>25. PrunerOK'
    BY <1>1, <1>20, PrunerFrame
  <1>. QED BY <1>1, <1>14, <1>16, <1>17, <1>18, <1>20, <1>21, <1>22, <1>23, <1>24, <1>25,
              KeyFrame DEF IInv

\* The append is reported as stored: the writer ends or has its head published.
LEMMA StoredControl ==
  ASSUME IInv, NEW w \in Writers, wr[w] # Idle, Stored(w), UNCHANGED signed
  PROVE  /\ wr' \in [Writers -> Writer] /\ WritersOK'
         /\ \A u \in Writers : u # w => wr'[u] = wr[u]
         /\ cache' \in [Chains -> Ids \cup {NoEntry}]
         /\ \A c \in Chains : cache'[c] # NoEntry => signed[cache'[c]].chain = c
  <1>1. /\ wr[w].chain \in Chains /\ wr[w].id \in Ids /\ signed[wr[w].id].chain = wr[w].chain
        /\ wr \in [Writers -> Writer] /\ cache \in [Chains -> Ids \cup {NoEntry}]
        /\ \A c \in Chains : cache[c] # NoEntry => signed[cache[c]].chain = c
    BY DEF IInv, WritersOK, TypeOK, HeadsOK
  <1>2. \/ UNCHANGED cache
        \/ cache' = [cache EXCEPT ![wr[w].chain] = wr[w].id]
    BY DEF Stored
  <1>3. PICK v : v \in {Idle, [wr[w] EXCEPT !.pc = "publish"]} /\ wr' = [wr EXCEPT ![w] = v]
    BY <1>1 DEF Stored
  <1>4. Moves(w, v)
    BY <1>3 DEF Moves, WriterPc
  <1>5. wr' \in [Writers -> Writer] /\ WritersOK'
    BY <1>3, <1>4, WriterMoves
  <1>6. \A u \in Writers : u # w => wr'[u] = wr[u]
    BY <1>1, <1>3
  <1>. QED BY <1>1, <1>2, <1>5, <1>6

\* The intent is removed last, when all it announced is stored.
LEMMA RemoveIntentStep ==
  ASSUME IInv, RemoveIntent
  PROVE  IInv'
  <1>1. /\ job # None /\ job.op # "prune" /\ job.step = "remove"
        /\ intent' = None /\ job' = None
        /\ UNCHANGED <<atomic, entries, index, seq, head, meta, global, segs, plan, receipt,
                       history, mark, pruner, marker, signed>>
    BY DEF RemoveIntent, Appending, pruneStore
  <1>2. job.op = "append" =>
          job.by \in Writers /\ wr[job.by] # Idle /\ wr[job.by].pc \in {"append", "store", "hold"}
    BY <1>1, OwnerTypes
  <1>3. /\ wr' \in [Writers -> Writer] /\ WritersOK'
        /\ \A u \in Writers : u # job.by \/ job.op # "append" => wr'[u] = wr[u]
        /\ cache' \in [Chains -> Ids \cup {NoEntry}]
        /\ \A c \in Chains : cache'[c] # NoEntry => signed[cache'[c]].chain = c
    <2>1. CASE job.op = "append"
      <3>1. PICK w \in Writers : w = job.by
        BY <1>2, <2>1
      <3>2. Stored(w)
        BY <2>1, <3>1 DEF RemoveIntent
      <3>. QED BY <1>1, <1>2, <2>1, <3>1, <3>2, StoredControl
    <2>2. CASE job.op # "append"
      <3>1. UNCHANGED <<wr, cache, signed>>
        BY <1>1, <2>2 DEF RemoveIntent
      <3>. QED BY <3>1 DEF IInv, TypeOK, WritersOK, HeadsOK, Ids
    <2>. QED BY <2>1, <2>2
  <1>4. /\ intent # None /\ intent.chain \in Chains /\ intent.ord = seq /\ IntentKey \in index
        /\ meta[intent.chain].head = intent.id /\ intent.id \in Ids /\ ~atomic
        /\ signed[intent.id].chain = intent.chain
    BY <1>1, SignedRefs DEF IInv, AppendJobOK, IntentOK
  <1>5. TypeOK'
    BY <1>1, <1>3 DEF IInv, TypeOK, Ids
  <1>6. HeadsOK'
    BY <1>1, <1>3 DEF IInv, HeadsOK, Ids, EmptyMeta
  <1>7. OwnersOK'
    <2>1. pruner # None /\ pruner.by # None => wr'[pruner.by] = wr[pruner.by]
      BY <1>2, <1>3, OwnerTypes
    <2>. QED BY <1>1, <2>1 DEF IInv, OwnersOK
  <1>8. UNCHANGED KeyData /\ NextOrd' = NextOrd
    BY <1>1, <1>4 DEF NextOrd, KeyData
  <1>9. TopOK'
    <2>1. IntentKey.id = intent.id
      BY DEF IntentKey
    <2>2. signed[intent.id].at <= Height(meta[intent.chain].head)
      <3>1. intent.id # NoEntry /\ signed[intent.id].at \in Nat
        BY <1>4, Positions DEF Ids, NoEntry
      <3>. QED BY <1>4, <3>1 DEF Height
    <2>3. \A c \in Chains : meta[c].head # NoEntry => \E k \in index : k.id = meta[c].head
      BY <1>4, <2>1 DEF IInv, TopOK
    <2>4. \A k \in index : signed[k.id].at <= Height(meta[signed[k.id].chain].head)
      BY <1>4, <2>1, <2>2 DEF IInv, TopOK
    <2>5. \A i \in entries : \E k \in index : k.id = i
      BY <1>4, <2>1 DEF IInv, TopOK
    <2>. QED BY <1>1, <2>3, <2>4, <2>5 DEF TopOK, Height
  <1>10. IntentOK' /\ AppendJobOK' /\ PruneJobOK' /\ PageOK'
    BY <1>1 DEF IntentOK, AppendJobOK, PruneJobOK, PageOK, Pruning
  <1>11. HolesOK'
    BY <1>1, HolesStay
  <1>12. PrunerOK'
    BY <1>1, <1>8, PrunerFrame
  <1>. QED BY <1>1, <1>3, <1>5, <1>6, <1>7, <1>8, <1>9, <1>10, <1>11, <1>12, KeyFrame DEF IInv

\* All records of an append at once, on a store with atomic batches.
LEMMA AppendBatchStep ==
  ASSUME IInv, NEW w \in Writers, AppendBatch(w)
  PROVE  IInv'
  <1>1. /\ atomic /\ wr[w].pc = "store" /\ job = None /\ intent = None /\ Stored(w)
        /\ seq' = seq + 1
        /\ UNCHANGED <<atomic, intent, plan, receipt, history, mark, job, pruner, marker, signed>>
    BY DEF AppendBatch, AppendReady, Locked, pruneStore
  <1>2. wr[w] # Idle /\ wr \in [Writers -> Writer] /\ wr[w] \in Writer
    BY <1>1 DEF Idle, IInv, TypeOK
  <1>3. PICK c, x, m : c = wr[w].chain /\ x = wr[w].id /\ m = meta[c]
    OBVIOUS
  <1>4. /\ c \in Chains /\ x \in Ids /\ signed[x].chain = c /\ signed[x].prev = wr[w].exp
    BY <1>2, <1>3 DEF IInv, WritersOK
  <1>5. signed[x].prev = meta[c].head /\ m \in Meta
    BY <1>3, <1>4 DEF AppendBatch, HeadMatches, IInv, TypeOK
  <1>6. PICK next : next = NextMeta(m, x)
    OBVIOUS
  <1>7. /\ next \in Meta /\ next.head = x /\ next.count = meta[c].count + 1
        /\ next.omitted = meta[c].omitted /\ next.gen = meta[c].gen
        /\ NextGlobal(m, next) \in Global /\ SegmentOf(c, next) \subseteq Segment
    <2>1. x \in Nat
      BY <1>4 DEF Ids
    <2>. QED BY <1>3, <1>4, <1>5, <1>6, <2>1, NextRecords
  <1>8. PICK nk : nk = [ord |-> seq, id |-> x]
    OBVIOUS
  <1>9. /\ entries' = entries \cup {x} /\ index' = index \cup {nk}
        /\ head' = [head EXCEPT ![c] = x] /\ meta' = [meta EXCEPT ![c] = next]
        /\ global' \in Global /\ segs' \subseteq Segment
    BY <1>3, <1>6, <1>7, <1>8 DEF AppendBatch, IInv, TypeOK
  <1>10. /\ meta' \in [Chains -> Meta]
         /\ \A d \in Chains : /\ meta'[d].head \in Ids \cup {NoEntry}
                              /\ meta'[d].head # NoEntry => signed[meta'[d].head].chain = d
                              /\ meta'[d].head = NoEntry => meta'[d] = EmptyMeta
                              /\ meta'[d].omitted = meta[d].omitted /\ meta'[d].gen = meta[d].gen
                              /\ meta[d].head # NoEntry => meta'[d].head # NoEntry
                              /\ Height(meta[d].head)' \in Nat
                              /\ Height(meta[d].head) <= Height(meta[d].head)'
         /\ Height(meta[c].head)' = Height(meta[c].head) + 1
         /\ PositionsExact'
    BY <1>1, <1>4, <1>5, <1>7, <1>9, MetaAdvances
  <1>11. /\ wr' \in [Writers -> Writer] /\ WritersOK'
         /\ \A u \in Writers : u # w => wr'[u] = wr[u]
         /\ cache' \in [Chains -> Ids \cup {NoEntry}]
         /\ \A d \in Chains : cache'[d] # NoEntry => signed[cache'[d]].chain = d
    BY <1>1, <1>2, StoredControl
  <1>12. seq \in Nat /\ NextOrd = seq /\ NextOrd' = seq + 1
    BY <1>1 DEF IInv, TypeOK, NextOrd
  <1>13. Fits(x)
    BY <1>1, <1>4, <1>5 DEF Fits
  <1>14. Extends
    BY <1>1, <1>4, <1>8, <1>9, <1>10, <1>12, <1>13 DEF Extends
  <1>15. nk.ord = seq /\ nk.id = x /\ Follows(c, nk)
    BY <1>4, <1>8, <1>12, <1>13, FitsFollows
  <1>16. head' \in [Chains -> Ids \cup {NoEntry}]
         /\ \A d \in Chains : head'[d] # NoEntry => signed[head'[d]].chain = d
    BY <1>4, <1>9 DEF IInv, TypeOK, HeadsOK
  <1>17. TypeOK'
    <2>1. index' \subseteq [ord : 0 .. seq', id : Ids]
      <3>1. index \subseteq [ord : 0 .. seq, id : Ids] /\ 0 .. seq \subseteq 0 .. seq + 1
            /\ seq \in 0 .. seq + 1
        BY <1>12 DEF IInv, TypeOK
      <3>2. nk \in [ord : 0 .. seq + 1, id : Ids]
        BY <1>4, <1>8, <3>1
      <3>3. index \subseteq [ord : 0 .. seq + 1, id : Ids]
        BY <3>1
      <3>. QED BY <1>1, <1>9, <3>2, <3>3
    <2>2. entries' \subseteq Ids /\ seq' \in Nat /\ Ids' = Ids
      BY <1>1, <1>4, <1>9, <1>12, SignedRefs DEF Ids
    <2>. QED BY <1>1, <1>9, <1>10, <1>11, <1>16, <2>1, <2>2 DEF IInv, TypeOK
  <1>18. SignedOK' /\ HeadsOK'
    <2>1. HeadsOK'
      BY <1>1, <1>10, <1>11, <1>16 DEF HeadsOK, Ids, EmptyMeta
    <2>. QED BY <1>1, <2>1 DEF IInv, SignedOK, Ids, Height
  <1>19. OwnersOK'
    <2>1. pruner # None /\ pruner.by # None => wr'[pruner.by] = wr[pruner.by]
      BY <1>1, <1>11, OwnerTypes
    <2>. QED BY <1>1, <2>1 DEF IInv, OwnersOK
  <1>20. TopOK'
    <2>1. \A d \in Chains : meta'[d].head # NoEntry => \E k \in index' : k.id = meta'[d].head
      <3>. SUFFICES ASSUME NEW d \in Chains, meta'[d].head # NoEntry
                    PROVE  \E k \in index' : k.id = meta'[d].head
        OBVIOUS
      <3>1. meta \in [Chains -> Meta]
        BY DEF IInv, TypeOK
      <3>2. CASE d = c
        BY <1>7, <1>9, <1>15, <3>1, <3>2
      <3>3. CASE d # c
        BY <1>1, <1>9, <3>1, <3>3 DEF IInv, TopOK
      <3>. QED BY <3>2, <3>3
    <2>2. ASSUME NEW k \in index'
          PROVE  signed[k.id].at <= Height(meta[signed[k.id].chain].head)'
      <3>1. CASE k \in index
        <4>1. PICK d \in Chains : d = signed[k.id].chain
          BY <3>1, Positions, SignedRefs
        <4>2. /\ signed[k.id].at \in Nat /\ Height(meta[d].head) \in Nat
              /\ Height(meta[d].head)' \in Nat /\ Height(meta[d].head) <= Height(meta[d].head)'
          BY <1>10, <3>1, Positions, SignedRefs
        <4>3. signed[k.id].at <= Height(meta[d].head)
          BY <1>1, <3>1, <4>1 DEF IInv, TopOK
        <4>4. Height(meta[signed[k.id].chain].head)' = Height(meta[d].head)'
          BY <1>1, <4>1
        <4>. QED BY <4>2, <4>3, <4>4
      <3>2. CASE k = nk
        <4>1. signed[x].at = Height(meta[c].head)' /\ signed[x].at \in Nat
          BY <1>4, <1>10, <1>15, Positions DEF Follows
        <4>2. Height(meta[signed[k.id].chain].head)' = Height(meta[c].head)'
          BY <1>1, <1>4, <1>15, <3>2
        <4>. QED BY <1>15, <3>2, <4>1, <4>2
      <3>. QED BY <1>9, <3>1, <3>2
    <2>3. \A i \in entries' : \E k \in index' : k.id = i
      BY <1>1, <1>9, <1>15 DEF IInv, TopOK
    <2>. QED BY <1>1, <2>1, <2>2, <2>3 DEF TopOK
  <1>21. IntentOK' /\ AppendJobOK' /\ PruneJobOK' /\ PageOK'
    BY <1>1 DEF IntentOK, AppendJobOK, PruneJobOK, PageOK, Pruning
  <1>22. HolesOK'
    <2>1. \A k \in index' : k.id \notin entries' => k \in index /\ k.id \notin entries
      BY <1>9, <1>15
    <2>2. \A k \in index : \A l \in index' : l \in index \/ k.ord <= l.ord
      <3>1. \A k \in index : k.ord <= seq
        BY DEF IInv, TypeOK
      <3>. QED BY <1>9, <1>15, <3>1
    <2>. QED BY <1>1, <2>1, <2>2, HolesStay
  <1>. QED BY <1>1, <1>10, <1>11, <1>14, <1>17, <1>18, <1>19, <1>20, <1>21, <1>22,
              IndexExtends, PruneExtends, MarksExtend DEF IInv

-----------------------------------------------------------------------------
(* The steps of a prune under the durable lock: the plan and its pages *)

\* Every indexed entry is stored while a prune is not between deleting an entry
\* and its key.
LEMMA NoHoles ==
  ASSUME IInv, job # None, job.op = "prune", job.step # "unindex"
  PROVE  /\ \A k \in index : k.id \in entries
         /\ pruner # None /\ pruner \in Pruner /\ pruner.pc = "run" /\ pruner.chain \in Chains
         /\ pruner.r \in Receipt
  <1>1. pruner # None /\ pruner.pc = "run"
    BY DEF IInv, OwnersOK
  <1>2. pruner.r # None
    BY <1>1 DEF IInv, OwnersOK
  <1>3. pruner.r \in Receipt
    BY <1>1, <1>2, OwnerTypes DEF Pruner
  <1>. QED BY <1>1, <1>3, OwnerTypes DEF IInv, HolesOK, Pruning

\* What is known of the plan a prune works on
LEMMA PlanFacts ==
  ASSUME IInv, NEW c \in Chains, plan[c] # None
  PROVE  /\ plan[c] \in Plan /\ plan[c].r \in Receipt /\ plan[c].r # None
         /\ plan[c].r.omitted \in Nat /\ plan[c].r.gen \in Nat /\ plan[c].r.gen > 0
         /\ plan[c].from \in Nat /\ plan[c].complete \in BOOLEAN
         /\ Gen(receipt[c]) \in Nat /\ meta[c] \in Meta /\ meta[c].gen \in Nat
         /\ meta[c].omitted \in Nat
         /\ ReceiptOK(plan[c].r) /\ Cuts(c, plan[c].r)
         /\ \/ plan[c].r = receipt[c] /\ plan[c].complete
            \/ plan[c].r.gen = Gen(receipt[c]) + 1 /\ plan[c].r.prior = Hash(receipt[c])
  <1>1. plan[c] \in Plan
    BY DEF IInv, TypeOK
  <1>2. plan[c].r \in Receipt /\ plan[c].from \in Nat /\ plan[c].complete \in BOOLEAN
    BY <1>1 DEF Plan
  <1>3. plan[c].r # None
    BY <1>2, NoneIsAbsence
  <1>4. ReceiptOK(plan[c].r) /\ Cuts(c, plan[c].r)
    BY DEF IInv, PlanOK
  <1>5. \/ plan[c].r = receipt[c] /\ plan[c].complete
        \/ plan[c].r.gen = Gen(receipt[c]) + 1 /\ plan[c].r.prior = Hash(receipt[c])
    BY DEF IInv, PlanOK
  <1>6. receipt[c] \in Receipt \cup {None} /\ meta[c] \in Meta
    BY DEF IInv, TypeOK
  <1>7. Gen(receipt[c]) \in Nat
    BY <1>6 DEF Gen, Receipt
  <1>8. plan[c].r.omitted \in Nat /\ plan[c].r.gen \in Nat
    BY <1>2 DEF Receipt
  <1>9. plan[c].r.gen > 0
    BY <1>4 DEF ReceiptOK
  <1>10. meta[c].gen \in Nat /\ meta[c].omitted \in Nat
    BY <1>6 DEF Meta
  <1>. QED BY <1>1, <1>2, <1>3, <1>4, <1>5, <1>6, <1>7, <1>8, <1>9, <1>10

\* The pruned total that readers resolve is the one in the metadata.
LEMMA OmittedKnown ==
  ASSUME IInv, NEW c \in Chains
  PROVE  /\ Known(c) => Omitted(c, FALSE) = meta[c].omitted
         /\ meta[c].head # NoEntry /\ Omitted(c, FALSE) # Unknown =>
              Known(c) /\ Omitted(c, FALSE) = meta[c].omitted
  <1>1. meta[c] \in Meta /\ meta[c].gen \in Nat /\ receipt[c] \in Receipt \cup {None}
    BY DEF IInv, TypeOK, Meta
  <1>2. meta[c].gen = 0 => meta[c].omitted = 0 /\ (receipt[c] # None => receipt[c].omitted = 0)
    BY DEF IInv, TotalsOK
  <1>3. Unknown # 0
    BY AuditAssumption DEF Unknown
  <1>4. CASE meta[c].gen > 0
    BY <1>1, <1>4 DEF Omitted, Known
  <1>5. CASE meta[c].gen = 0 /\ receipt[c] = None
    BY <1>2, <1>3, <1>5 DEF Omitted, Known
  <1>6. CASE meta[c].gen = 0 /\ receipt[c] # None
    BY <1>2, <1>3, <1>6 DEF Omitted, Known
  <1>7. meta[c].gen > 0 \/ meta[c].gen = 0
    BY <1>1
  <1>. HIDE DEF Omitted, Known
  <1>. QED BY <1>4, <1>5, <1>6, <1>7, Zenon

\* A receipt that is planned has a head to keep.
LEMMA CutHasHead ==
  ASSUME IInv, NEW c \in Chains, NEW r, ReceiptOK(r), Cuts(c, r), r.omitted > 0
  PROVE  meta[c].head # NoEntry
  <1>1. PICK k \in ChainKeys(c) : r.cutoff < k.ord
    BY DEF Cuts
  <1>2. /\ k \in index /\ k.id \in Ids /\ signed[k.id].chain = c /\ k.ord \in Nat
        /\ signed[k.id].at \in Nat
    BY Positions, SignedRefs DEF ChainKeys, IInv, TypeOK
  <1>3. r.cutoff \in Nat /\ r.last \in Ids /\ signed[r.last].at \in Nat /\ signed[r.last].at > 0
    BY Positions DEF ReceiptOK
  <1>4. signed[k.id].at > 1
    <2>1. k.ord <= r.cutoff <=> signed[k.id].at <= signed[r.last].at
      BY DEF Cuts
    <2>. QED BY <1>1, <1>2, <1>3, <2>1
  <1>5. Height(meta[c].head) \in Nat
    BY Positions
  <1>6. CASE signed[k.id].at <= Height(meta[c].head)
    <2>1. Height(meta[c].head) > 0
      BY <1>2, <1>4, <1>5, <1>6
    <2>. QED BY <2>1 DEF Height
  <1>7. CASE intent # None /\ k = IntentKey
    <2>1. intent.id \in Ids /\ k.id = intent.id /\ intent.chain = c
      BY <1>2, <1>7 DEF IntentKey, IInv, IntentOK
    <2>2. signed[intent.id].at = Height(intent.expHead) + 1
      BY <1>7, <2>1 DEF IInv, IntentOK, SignedOK
    <2>3. intent.expHead # NoEntry
      BY <1>4, <2>1, <2>2 DEF Height
    <2>4. intent.id # NoEntry
      BY <2>1 DEF Ids, NoEntry
    <2>. QED BY <1>7, <2>1, <2>3, <2>4 DEF IInv, IntentOK
  <1>. QED BY <1>2, <1>6, <1>7 DEF IInv, TopOK

\* A step under the durable lock that leaves the stored data alone
LEMMA PruneMoves ==
  ASSUME IInv, job # None, job.op = "prune", job.step # "unindex",
         job' \in Job \cup DeleteJob, job'.op = "prune", job'.step # "unindex",
         UNCHANGED Data, UNCHANGED <<mark, marker, head, segs, cache, global, wr, pruner>>,
         PruneJobOK', PageOK'
  PROVE  IInv'
  <1>1. UNCHANGED <<atomic, entries, index, seq, meta, intent, plan, receipt, history, signed>>
    BY DEF Data
  <1>2. job' # None
    BY NoneIsAbsence
  <1>3. pruner # None /\ pruner.pc = "run" /\ \A k \in index : k.id \in entries
    BY NoHoles
  <1>4. OwnersOK' /\ WritersOK'
    BY <1>1, <1>2, <1>3 DEF IInv, OwnersOK, WritersOK, Ids
  <1>5. AppendJobOK' /\ HolesOK'
    BY <1>1, <1>3 DEF AppendJobOK, HolesOK
  <1>6. PrunerOK'
    BY <1>1, PrunerFrame DEF KeyData
  <1>7. /\ global' \in Global /\ segs' \subseteq Segment /\ wr' \in [Writers -> Writer]
        /\ pruner' \in Pruner \cup {None}
    BY DEF IInv, TypeOK
  <1>. QED BY <1>4, <1>5, <1>6, <1>7, ControlStep DEF Ctl

\* A new plan: the receipt continues the chain's receipts and total, and stays
\* behind the watermark.
LEMMA NewPlan ==
  ASSUME IInv, job # None, job.op = "prune", job.step = "plan",
         NEW c, c = pruner.chain, NEW r, r = pruner.r,
         plan[c] = None, Linked(c, r), PlanAllowed(c, r),
         NEW s \in SUBSET Segment, NEW p, p = [r |-> r, from |-> 0, complete |-> FALSE, segs |-> s],
         plan' = [plan EXCEPT ![c] = p], job' = [job EXCEPT !.step = "page"],
         UNCHANGED <<atomic, entries, index, seq, head, meta, global, segs, intent, receipt,
                     history, mark, cache, marker, signed, wr, pruner>>
  PROVE  IInv'
  <1>1. /\ \A k \in index : k.id \in entries
        /\ pruner # None /\ pruner \in Pruner /\ pruner.pc = "run" /\ c \in Chains /\ r \in Receipt
    BY NoHoles
  <1>2. /\ receipt[c] \in Receipt \cup {None} /\ meta[c] \in Meta /\ r # None
        /\ plan \in [Chains -> Plan \cup {None}]
    BY <1>1, NoneIsAbsence DEF IInv, TypeOK
  <1>3. Gen(receipt[c]) \in Nat /\ r.gen \in Nat /\ r.omitted \in Nat /\ meta[c].gen \in Nat
        /\ meta[c].omitted \in Nat
    BY <1>1, <1>2 DEF Gen, Receipt, Meta
  <1>4. ReceiptOK(r) /\ r.gen > 0 /\ r.gen <= Gen(receipt[c]) + 1
    BY <1>1, <1>2 DEF IInv, PrunerOK, ReceiptOK
  <1>5. r.gen = Gen(receipt[c]) + 1
    <2>1. CASE receipt[c] = None
      BY <1>3, <1>4, <2>1 DEF Gen
    <2>2. CASE receipt[c] # None
      BY <2>2 DEF Gen, Linked
    <2>. QED BY <2>1, <2>2
  <1>6. Settled(c)
    BY DEF Settled
  <1>7. r.prior = Hash(receipt[c]) /\ Cuts(c, r) /\ Adds(c, r)
    BY <1>1, <1>2, <1>5, <1>6 DEF IInv, PrunerOK
  <1>8. meta[c].gen # r.gen
    <2>1. meta[c].gen > 0 => meta[c].gen = Gen(receipt[c])
      BY <1>1 DEF IInv, TotalsOK
    <2>. QED BY <1>3, <1>4, <1>5, <2>1
  <1>9. /\ p \in Plan /\ p # None /\ p.r = r /\ p.from = 0 /\ p.complete = FALSE
    <2>1. p \in Plan
      BY <1>1 DEF Plan
    <2>. QED BY <2>1, NoneIsAbsence
  <1>10. plan' \in [Chains -> Plan \cup {None}] /\ \A d \in Chains : plan'[d] = IF d = c THEN p ELSE plan[d]
    BY <1>1, <1>2, <1>9
  <1>11. job' \in Job /\ job' # None /\ job'.op = "prune" /\ job'.step = "page"
    <2>1. job \in Job
      BY DEF IInv, TypeOK, Job, DeleteJob
    <2>. QED BY <2>1, NoneIsAbsence DEF Job, PruneSteps
  <1>12. TypeOK'
    BY <1>10, <1>11 DEF IInv, TypeOK, Ids
  <1>13. /\ NextOrd' = NextOrd /\ Ids' = Ids
         /\ \A d \in Chains : ChainKeys(d)' = ChainKeys(d)
    BY DEF NextOrd, IntentKey, Ids, ChainKeys
  <1>14. /\ SignedOK' /\ HeadsOK' /\ WritersOK' /\ IndexOK' /\ TopOK' /\ IntentOK'
         /\ HistoryOK' /\ PositionsExact'
    <2>1. SignedOK' /\ HeadsOK' /\ WritersOK'
      BY <1>13 DEF IInv, SignedOK, HeadsOK, WritersOK, EmptyMeta, Height
    <2>2. IndexOK'
      BY <1>13 DEF IInv, IndexOK, SameChain
    <2>3. TopOK' /\ IntentOK'
      BY <1>13 DEF IInv, TopOK, IntentOK, IntentKey, Height
    <2>4. HistoryOK' /\ PositionsExact'
      BY DEF IInv, HistoryOK, Succeeds, PositionsExact, Unknown
    <2>. QED BY <2>1, <2>2, <2>3, <2>4
  <1>15. OwnersOK' /\ AppendJobOK' /\ HolesOK' /\ PageOK' /\ PruneJobOK'
    BY <1>1, <1>9, <1>10, <1>11 DEF IInv, OwnersOK, AppendJobOK, HolesOK, PageOK, PruneJobOK, Pruning
  <1>16. PlanOK'
    <2>. SUFFICES ASSUME NEW d \in Chains, plan'[d] # None, NEW q, q = plan'[d]
                  PROVE  /\ ReceiptOK(q.r)
                         /\ \/ q.r = receipt[d] /\ q.complete
                            \/ q.r.gen = Gen(receipt[d]) + 1 /\ q.r.prior = Hash(receipt[d])
                         /\ q.complete \/ meta[d].gen # q.r.gen
                         /\ Cuts(d, q.r)
                         /\ q.r.omitted > 0 =>
                              /\ q.from <= q.r.cutoff + 1
                              /\ meta[d].head # NoEntry
                              /\ q.complete => \A k \in ChainKeys(d) : q.r.cutoff < k.ord
                         /\ q.r.omitted = 0 => q.from = 0
                         /\ \A k \in ChainKeys(d) : q.from <= k.ord
      BY <1>13 DEF PlanOK, ReceiptOK, Gen, Hash, Cuts
    <2>1. CASE d # c
      BY <1>10, <2>1 DEF IInv, PlanOK
    <2>2. CASE d = c
      <3>1. q = p
        BY <1>10, <2>2
      <3>2. r.omitted > 0 => meta[c].head # NoEntry
        BY <1>1, <1>4, <1>7, CutHasHead
      <3>3. r.omitted > 0 => r.cutoff \in Nat
        BY <1>4 DEF ReceiptOK
      <3>4. \A k \in ChainKeys(c) : k.ord \in Nat
        BY DEF ChainKeys, IInv, TypeOK
      <3>. QED BY <1>4, <1>5, <1>7, <1>8, <1>9, <2>2, <3>1, <3>2, <3>3, <3>4
    <2>. QED BY <2>1, <2>2
  <1>17. TotalsOK'
    <2>. SUFFICES ASSUME NEW d \in Chains
                  PROVE  /\ meta[d].omitted # Unknown =>
                              IF Uncounted(d)' THEN Adds(d, plan'[d].r)
                              ELSE StartsAfter(d, meta[d].omitted)
                         /\ meta[d].gen = 0 =>
                              meta[d].omitted = 0 /\ (receipt[d] # None => receipt[d].omitted = 0)
                         /\ meta[d].gen > 0 =>
                              \/ meta[d].gen = Gen(receipt[d])
                              \/ plan'[d] # None /\ meta[d].gen = plan'[d].r.gen
      BY <1>13 DEF TotalsOK, Adds, StartsAfter, Gen, Unknown
    <2>1. CASE d # c
      BY <1>10, <2>1 DEF IInv, TotalsOK, Uncounted
    <2>2. CASE d = c
      <3>1. Uncounted(c)' <=> r.omitted > 0
        BY <1>1, <1>8, <1>9, <1>10 DEF Uncounted
      <3>2. meta[c].omitted # Unknown => StartsAfter(c, meta[c].omitted)
        BY <1>1, <1>6, SettledCounted
      <3>3. plan'[c].r = r
        BY <1>1, <1>9, <1>10
      <3>. QED BY <1>1, <1>7, <2>2, <3>1, <3>2, <3>3 DEF IInv, TotalsOK
    <2>. QED BY <2>1, <2>2
  <1>18. ~Settled(c)' /\ \A d \in Chains : d # c => Settled(d)' = Settled(d)
    <2>1. r # receipt[c]
      <3>1. CASE receipt[c] = None
        BY <1>2, <3>1
      <3>2. CASE receipt[c] # None
        BY <1>3, <1>5, <3>2 DEF Gen
      <3>. QED BY <3>1, <3>2
    <2>. QED BY <1>1, <1>9, <1>10, <2>1 DEF Settled
  <1>19. ReceiptsOK'
    <2>. SUFFICES ASSUME NEW d \in Chains, receipt[d] # None
                  PROVE  /\ ReceiptOK(receipt[d]) /\ receipt[d] \in history[d]
                         /\ receipt[d].omitted > 0 =>
                              /\ signed[receipt[d].last].chain = d
                              /\ receipt[d].cutoff < NextOrd
                              /\ \A k \in ChainKeys(d) : receipt[d].cutoff < k.ord
                              /\ Settled(d)' /\ meta[d].omitted # Unknown =>
                                   signed[receipt[d].last].at = meta[d].omitted
      BY <1>13 DEF ReceiptsOK, ReceiptOK, Unknown
    <2>. QED BY <1>18 DEF IInv, ReceiptsOK
  <1>20. PrunerOK'
    <2>1. ReceiptOK(r)' /\ Gen(receipt[c])' = Gen(receipt[c]) /\ Hash(receipt[c])' = Hash(receipt[c])
      BY <1>4, <1>13 DEF ReceiptOK, Gen, Hash
    <2>. QED BY <1>4, <1>7, <1>18, <2>1 DEF PrunerOK
  <1>21. MarksOK'
    <2>. SUFFICES ASSUME NEW d \in Chains, mark[d] # None
                  PROVE  /\ Known(d)
                         /\ Names(d, mark[d].pos, mark[d].id, mark[d].ord)
                         /\ meta[d].omitted <= mark[d].pos
                         /\ mark[d].pos <= Height(meta[d].head)
                         /\ plan'[d] # None /\ plan'[d].r.omitted > 0 =>
                              signed[plan'[d].r.last].at <= mark[d].pos
      BY <1>13 DEF MarksOK, Known, Names, Height, Unknown
    <2>1. CASE d # c
      BY <1>10, <2>1 DEF IInv, MarksOK
    <2>2. CASE d = c
      <3>1. Known(c)
        BY <2>2 DEF IInv, MarksOK
      <3>2. Omitted(c, FALSE) = meta[c].omitted
        BY <1>1, <3>1, OmittedKnown
      <3>3. r.omitted > 0 => meta[c].omitted + r.omitted <= mark[c].pos
        BY <2>2, <3>2 DEF PlanAllowed, WithinMark
      <3>4. r.omitted > 0 => signed[r.last].at = meta[c].omitted + r.omitted
        BY <1>7, <3>1 DEF Adds, Known
      <3>5. plan'[c].r = r
        BY <1>1, <1>9, <1>10
      <3>. QED BY <2>2, <3>3, <3>4, <3>5 DEF IInv, MarksOK
    <2>. QED BY <2>1, <2>2
  <1>22. MarkerOK'
    <2>. SUFFICES ASSUME marker # None, marker.pc \in {"locate", "install"}, NEW d, d = marker.chain
                  PROVE  /\ marker.mark = mark[d]
                         /\ mark[d] # None => mark[d].pos < marker.pos
                         /\ Gen(marker.receipt) <= Gen(receipt[d])
                         /\ Gen(marker.receipt) = Gen(receipt[d]) => marker.receipt = receipt[d]
                         /\ plan'[d] # None => Gen(marker.receipt) < plan'[d].r.gen
                         /\ meta[d].head # NoEntry /\ marker.pos <= Height(meta[d].head)
                         /\ plan'[d] = None /\ receipt[d] = marker.receipt =>
                              /\ Known(d)
                              /\ marker.omitted = meta[d].omitted /\ marker.omitted <= marker.pos
                              /\ marker.pc = "install" =>
                                   Names(d, marker.pos, marker.id, marker.ord)
      <3>1. marker # None => marker.chain \in Chains
        BY NoneIsAbsence DEF IInv, TypeOK, Marker
      <3>. QED BY <1>13, <3>1 DEF MarkerOK, Known, Names, Height, Unknown, Gen
    <2>1. d \in Chains /\ marker.receipt \in Receipt \cup {None}
      BY NoneIsAbsence DEF IInv, TypeOK, Marker
    <2>2. CASE d # c
      BY <1>10, <2>1, <2>2 DEF IInv, MarkerOK
    <2>3. CASE d = c
      <3>1. Gen(marker.receipt) \in Nat /\ Gen(marker.receipt) <= Gen(receipt[c])
        BY <2>1, <2>3 DEF IInv, MarkerOK, Gen, Receipt
      <3>2. plan'[c] = p
        BY <1>1, <1>10
      <3>. QED BY <1>3, <1>5, <1>9, <2>3, <3>1, <3>2 DEF IInv, MarkerOK
    <2>. QED BY <2>2, <2>3
  <1>. QED BY <1>12, <1>14, <1>15, <1>16, <1>17, <1>19, <1>20, <1>21, <1>22 DEF IInv

\* A prune resumes the plan it finds, refuses its receipt or writes a new plan.
LEMMA LoadPlanStep ==
  ASSUME IInv, LoadPlan
  PROVE  IInv'
  <1>1. /\ job # None /\ job.op = "prune" /\ job.step = "plan"
        /\ UNCHANGED <<atomic, entries, index, seq, head, meta, global, segs, intent, receipt,
                       history, mark, cache, marker, signed>>
    BY DEF LoadPlan, Pruning, store
  <1>2. pruner # None /\ pruner.chain \in Chains
    BY <1>1, NoHoles
  <1>3. CASE /\ plan[pruner.chain] # None /\ UNCHANGED <<plan, wr, pruner>>
             /\ job' = [job EXCEPT !.step = IF plan[pruner.chain].complete THEN "retain" ELSE "page"]
    <2>1. PICK s \in {"retain", "page"} :
            /\ s = IF plan[pruner.chain].complete THEN "retain" ELSE "page"
            /\ job' = [job EXCEPT !.step = s]
      BY <1>3
    <2>2. job \in Job
      BY <1>1 DEF IInv, TypeOK, Job, DeleteJob
    <2>3. job' \in Job /\ job'.op = "prune" /\ job'.step = s
      BY <1>1, <2>1, <2>2 DEF Job, PruneSteps
    <2>4. PruneJobOK' /\ PageOK'
      BY <1>1, <1>3, <2>1, <2>3 DEF PruneJobOK, PageOK, Pruning
    <2>. QED BY <1>1, <1>3, <2>1, <2>3, <2>4, PruneMoves DEF Data
  <1>4. CASE FailOwner /\ UNCHANGED plan
    BY <1>1, <1>4, FailStep DEF Data
  <1>5. CASE job' = None /\ EndPrune("hold") /\ UNCHANGED plan
    BY <1>1, <1>2, <1>5, EndPruneStep DEF Data
  <1>6. CASE /\ plan[pruner.chain] = None /\ Linked(pruner.chain, pruner.r)
             /\ PlanAllowed(pruner.chain, pruner.r)
             /\ plan' = [plan EXCEPT ![pruner.chain] =
                           [r |-> pruner.r, from |-> 0, complete |-> FALSE,
                            segs |-> {s \in segs : /\ pruner.r.omitted > 0
                                                   /\ s.chain = pruner.chain
                                                   /\ s.segment = pruner.r.segment
                                                   /\ s.ord = pruner.r.ord}]]
             /\ job' = [job EXCEPT !.step = "page"] /\ UNCHANGED <<wr, pruner>>
    <2>1. PICK c, r : c = pruner.chain /\ r = pruner.r
      OBVIOUS
    <2>2. segs \subseteq Segment
      BY DEF IInv, TypeOK
    <2>3. PICK s \in SUBSET Segment :
            s = {t \in segs : r.omitted > 0 /\ t.chain = c /\ t.segment = r.segment /\ t.ord = r.ord}
      BY <2>2
    <2>4. PICK p : p = [r |-> r, from |-> 0, complete |-> FALSE, segs |-> s]
      OBVIOUS
    <2>5. plan' = [plan EXCEPT ![c] = p]
      BY <1>6, <2>1, <2>3, <2>4
    <2>. QED BY <1>1, <1>6, <2>1, <2>4, <2>5, NewPlan
  <1>7. CASE plan[pruner.chain] # None
    BY <1>3, <1>7 DEF LoadPlan, GoTo
  <1>8. CASE plan[pruner.chain] = None /\ (seq = 0 \/ ~Linked(pruner.chain, pruner.r))
    <2>1. FailOwner /\ UNCHANGED plan
      <3>1. seq \in Nat
        BY DEF IInv, TypeOK
      <3>. HIDE DEF IInv
      <3>2. CASE seq = 0
        BY <1>8, <3>1, <3>2 DEF LoadPlan
      <3>3. CASE ~Linked(pruner.chain, pruner.r)
        BY <1>8, <3>1, <3>3 DEF LoadPlan
      <3>. QED BY <1>8, <3>2, <3>3
    <2>. QED BY <1>4, <2>1
  <1>9. CASE plan[pruner.chain] = None /\ seq > 0 /\ Linked(pruner.chain, pruner.r)
    <2>1. ~(seq = 0)
      BY <1>9 DEF IInv, TypeOK
    <2>2. CASE ~PlanAllowed(pruner.chain, pruner.r)
      BY <1>5, <1>9, <2>1, <2>2 DEF LoadPlan
    <2>3. CASE PlanAllowed(pruner.chain, pruner.r)
      BY <1>6, <1>9, <2>1, <2>3 DEF LoadPlan, GoTo
    <2>. QED BY <2>2, <2>3
  <1>10. seq = 0 \/ seq > 0
    BY DEF IInv, TypeOK
  <1>. QED BY <1>7, <1>8, <1>9, <1>10

\* The page that a prune reads next, the keys it deletes and where it goes on
PlanPage(c) == Page({k \in index : k.ord >= plan[c].from})
PlanUpTo(c) == {k \in PlanPage(c) : k.ord <= plan[c].r.cutoff}
PlanDoomed(c) == {k \in PlanUpTo(c) : signed[k.id].chain = c}
PlanFrom(c) ==
  IF PlanUpTo(c) = {} THEN plan[c].from ELSE Nth(PlanUpTo(c), Cardinality(PlanUpTo(c))).ord + 1
PlanEnds(c) == PlanPage(c) = {} \/ \E l \in PlanPage(c) : l.ord >= plan[c].r.cutoff

\* What a page read finds: the doomed keys are the oldest of the chain, the
\* rest of the chain is at or after the next page's start.
LEMMA PageRead ==
  ASSUME IInv, NEW c \in Chains, plan[c] # None, plan[c].r.cutoff # None
  PROVE  /\ plan[c].r.omitted > 0 /\ PlanDoomed(c) \subseteq Key /\ PlanFrom(c) \in Nat
         /\ PlanDoomed(c) \subseteq ChainKeys(c)
         /\ \A d \in PlanDoomed(c) : d.ord <= plan[c].r.cutoff
         /\ \A k \in ChainKeys(c) \ PlanDoomed(c) :
              /\ PlanFrom(c) <= k.ord
              /\ \A d \in PlanDoomed(c) : d.ord < k.ord
              /\ PlanEnds(c) => plan[c].r.cutoff < k.ord
         /\ PlanFrom(c) <= plan[c].r.cutoff + 1
  <1>. DEFINE p == plan[c]
              r == plan[c].r
              rest == {k \in index : k.ord >= p.from}
              page == PlanPage(c)
              upTo == PlanUpTo(c)
              doomed == PlanDoomed(c)
              from == PlanFrom(c)
  <1>1. p \in Plan /\ r \in Receipt /\ r.omitted \in Nat /\ p.from \in Nat /\ ReceiptOK(r)
    BY PlanFacts
  <1>2. r.omitted > 0 /\ r.cutoff \in Nat
    BY <1>1 DEF ReceiptOK
  <1>3. p.from <= r.cutoff + 1 /\ \A k \in ChainKeys(c) : p.from <= k.ord
    BY <1>2 DEF IInv, PlanOK
  <1>4. rest \in SUBSET index /\ page \in SUBSET index /\ upTo \in SUBSET index
    BY DEF Page, PlanPage, PlanUpTo
  <1>5. /\ KeySet(rest) /\ KeySet(upTo) /\ seq \in Nat
        /\ \A k \in index : k.ord \in Nat /\ k \in Key
        /\ \A k \in upTo : k.ord <= seq
    <2>1. KeySet(rest) /\ KeySet(upTo) /\ KeySet(index) /\ seq \in Nat
      BY <1>4, ChainKeySet
    <2>2. \A k \in upTo : k.ord \in 0 .. seq
      BY <1>4, ChainKeySet
    <2>. QED BY <2>1, <2>2 DEF KeySet, Key
  <1>6. \A k \in rest \ page : \A l \in page : l.ord < k.ord
    <2>. SUFFICES ASSUME NEW k \in rest \ page, NEW l \in page
                  PROVE  l.ord < k.ord
      OBVIOUS
    <2>1. ~(k.ord < l.ord)
      BY <1>5, PageIsOldest DEF PlanPage
    <2>2. l \in rest /\ k # l
      BY DEF Page, PlanPage
    <2>3. k.ord # l.ord
      BY <1>5, <2>2 DEF KeySet
    <2>. QED BY <1>4, <1>5, <2>1, <2>2, <2>3
  <1>7. rest # {} => page # {}
    BY <1>5, PageIsOldest DEF PlanPage
  <1>8. from \in Nat /\ from <= r.cutoff + 1
        /\ (from = p.from \/ \E u \in upTo : from = u.ord + 1)
    <2>1. CASE upTo = {}
      BY <1>1, <1>3, <2>1 DEF PlanFrom
    <2>2. CASE upTo # {}
      <3>1. Nth(upTo, Cardinality(upTo)) \in upTo
        BY <1>5, <2>2, LastIsNewest
      <3>2. PICK u \in upTo : u = Nth(upTo, Cardinality(upTo))
        BY <3>1
      <3>3. from = u.ord + 1
        BY <2>2, <3>2 DEF PlanFrom
      <3>4. u.ord \in Nat /\ u.ord <= r.cutoff
        BY <1>4, <1>5 DEF PlanUpTo
      <3>5. \E v \in upTo : from = v.ord + 1
        BY <3>3
      <3>6. from \in Nat /\ from <= r.cutoff + 1
        BY <1>2, <3>3, <3>4
      <3>. QED BY <3>5, <3>6
    <2>. QED BY <2>1, <2>2
  <1>9. doomed \subseteq ChainKeys(c) /\ doomed \subseteq Key /\ \A d \in doomed : d.ord <= r.cutoff
    BY <1>4, <1>5 DEF ChainKeys, PlanDoomed, PlanUpTo
  <1>10. ASSUME NEW k \in ChainKeys(c) \ doomed
         PROVE  /\ from <= k.ord
                /\ \A d \in doomed : d.ord < k.ord
                /\ PlanEnds(c) => r.cutoff < k.ord
    <2>1. k \in index /\ k.ord \in Nat /\ k \in rest /\ signed[k.id].chain = c
      BY <1>1, <1>3, <1>5 DEF ChainKeys
    <2>2. CASE k \in page
      <3>1. r.cutoff < k.ord
        BY <1>2, <2>1, <2>2 DEF PlanDoomed, PlanUpTo
      <3>2. \A u \in upTo : u.ord < k.ord /\ u.ord \in Nat
        BY <1>2, <1>4, <1>5, <2>1, <3>1 DEF PlanUpTo
      <3>3. from <= k.ord
        BY <1>3, <1>8, <2>1, <3>2
      <3>. QED BY <3>1, <3>2, <3>3 DEF PlanDoomed
    <2>3. CASE k \notin page
      <3>1. \A l \in page : l.ord < k.ord /\ l.ord \in Nat
        BY <1>4, <1>5, <1>6, <2>1, <2>3
      <3>2. from <= k.ord
        BY <1>3, <1>8, <2>1, <3>1 DEF PlanUpTo
      <3>3. page # {}
        BY <1>7, <2>1
      <3>4. PlanEnds(c) => r.cutoff < k.ord
        BY <1>2, <2>1, <3>1, <3>3 DEF PlanEnds
      <3>. QED BY <3>1, <3>2, <3>4 DEF PlanDoomed, PlanUpTo
    <2>. QED BY <2>2, <2>3
  <1>. QED BY <1>2, <1>8, <1>9, <1>10

\* A prune reads its next page, which fails on a key without its entry.
LEMMA ReadPageStep ==
  ASSUME IInv, ReadPage
  PROVE  IInv'
  <1>1. /\ job # None /\ job.op = "prune" /\ job.step = "page"
        /\ UNCHANGED <<atomic, entries, index, seq, head, meta, global, segs, intent, plan,
                       receipt, history, mark, cache, marker, signed>>
    BY DEF ReadPage, Pruning, store, pruneStore
  <1>2. pruner # None /\ pruner.chain \in Chains
    BY <1>1, NoHoles
  <1>3. PICK c \in Chains : c = pruner.chain
    BY <1>2
  <1>4. plan[c] # None /\ ~plan[c].complete
    BY <1>1, <1>3 DEF IInv, PruneJobOK
  <1>5. PICK p, r : p = plan[c] /\ r = p.r
    OBVIOUS
  <1>6. p.from \in Nat /\ r.omitted \in Nat /\ ReceiptOK(r)
    BY <1>4, <1>5, PlanFacts
  <1>7. ASSUME NEW doomed, NEW from, NEW complete,
               job' = [op |-> "prune", by |-> None, step |-> "delete", doomed |-> doomed,
                       from |-> from, complete |-> complete],
               UNCHANGED <<wr, pruner>>,
               doomed \subseteq Key, from \in Nat, complete \in BOOLEAN,
               doomed \subseteq ChainKeys(c),
               \A d \in doomed : r.omitted > 0 /\ d.ord <= r.cutoff,
               \A k \in ChainKeys(c) \ doomed :
                 /\ from <= k.ord
                 /\ \A d \in doomed : d.ord < k.ord
                 /\ r.omitted > 0 /\ complete => r.cutoff < k.ord,
               r.omitted > 0 => from <= r.cutoff + 1,
               r.omitted = 0 => from = 0
        PROVE  IInv'
    <2>1. /\ job' \in DeleteJob /\ job'.op = "prune" /\ job'.step = "delete"
          /\ job'.doomed = doomed /\ job'.from = from /\ job'.complete = complete
      BY <1>7 DEF DeleteJob
    <2>2. ChainKeys(c)' = ChainKeys(c) /\ c = pruner'.chain /\ plan'[c].r = r
      BY <1>1, <1>3, <1>5, <1>7 DEF ChainKeys
    <2>3. PageOK'
      BY <1>7, <2>1, <2>2 DEF PageOK
    <2>4. PruneJobOK'
      BY <1>1, <1>3, <1>4, <1>7, <2>1 DEF PruneJobOK
    <2>. QED BY <1>1, <1>7, <2>1, <2>3, <2>4, PruneMoves DEF Data
  <1>8. CASE r.cutoff = None
    <2>1. r.omitted = 0
      BY <1>6, <1>8, NoneIsAbsence DEF ReceiptOK
    <2>2. p.from = 0
      BY <1>4, <1>5, <2>1 DEF IInv, PlanOK
    <2>3. /\ job' = [op |-> "prune", by |-> None, step |-> "delete", doomed |-> {},
                     from |-> p.from, complete |-> TRUE]
          /\ UNCHANGED <<wr, pruner>>
      BY <1>3, <1>5, <1>8 DEF ReadPage
    <2>4. \A k \in ChainKeys(c) : 0 <= k.ord
      BY DEF ChainKeys, IInv, TypeOK
    <2>5. PICK doomed, from, complete : doomed = {} /\ from = p.from /\ complete = TRUE
      OBVIOUS
    <2>6. job' = [op |-> "prune", by |-> None, step |-> "delete", doomed |-> doomed,
                  from |-> from, complete |-> complete]
      BY <2>3, <2>5
    <2>7. /\ doomed \subseteq Key /\ from \in Nat /\ complete \in BOOLEAN
          /\ doomed \subseteq ChainKeys(c)
          /\ \A d \in doomed : r.omitted > 0 /\ d.ord <= r.cutoff
          /\ \A k \in ChainKeys(c) \ doomed :
               /\ from <= k.ord
               /\ \A d \in doomed : d.ord < k.ord
               /\ r.omitted > 0 /\ complete => r.cutoff < k.ord
          /\ r.omitted > 0 => from <= r.cutoff + 1
          /\ r.omitted = 0 => from = 0
      BY <2>1, <2>2, <2>4, <2>5
    <2>. QED BY <1>7, <2>3, <2>6, <2>7
  <1>9. CASE r.cutoff # None
    <2>1. CASE ~Readable(PlanPage(c))
      <3>1. FailOwner
        BY <1>3, <1>5, <1>9, <2>1 DEF ReadPage, PlanPage, Page, Below
      <3>. QED BY <1>1, <3>1, FailStep DEF Data
    <2>2. CASE Readable(PlanPage(c))
      <3>1. PICK doomed, from : doomed = PlanDoomed(c) /\ from = PlanFrom(c)
        OBVIOUS
      <3>2. PICK complete \in BOOLEAN : complete = PlanEnds(c)
        BY DEF PlanEnds
      <3>3. /\ job' = [op |-> "prune", by |-> None, step |-> "delete", doomed |-> doomed,
                       from |-> from, complete |-> complete]
            /\ UNCHANGED <<wr, pruner>>
        BY <1>3, <1>5, <1>9, <2>2, <3>1, <3>2
           DEF ReadPage, PlanPage, Page, Below, PlanUpTo, PlanDoomed, PlanFrom, PlanEnds
      <3>4. /\ r.omitted > 0 /\ doomed \subseteq Key /\ from \in Nat
            /\ doomed \subseteq ChainKeys(c)
            /\ \A d \in doomed : d.ord <= r.cutoff
            /\ \A k \in ChainKeys(c) \ doomed :
                 /\ from <= k.ord
                 /\ \A d \in doomed : d.ord < k.ord
                 /\ PlanEnds(c) => r.cutoff < k.ord
            /\ from <= r.cutoff + 1
        BY <1>4, <1>5, <1>9, <3>1, PageRead
      <3>5. r.omitted # 0
        BY <1>6, <3>4
      <3>. QED BY <1>7, <3>2, <3>3, <3>4, <3>5
    <2>. QED BY <2>1, <2>2
  <1>. QED BY <1>8, <1>9

\* What is known of the key that a page deletes next: it is the oldest of its
\* chain, behind the receipt's cutoff, and not that of an interrupted append.
LEMMA OldestGoes ==
  ASSUME IInv, job # None, job.op = "prune", job.step \in {"delete", "unindex"},
         job.doomed # {}, NEW c, c = pruner.chain, NEW o, o = Oldest(job.doomed)
  PROVE  /\ pruner # None /\ pruner.pc = "run" /\ c \in Chains
         /\ plan[c] # None /\ ~plan[c].complete /\ plan[c].r.omitted > 0
         /\ job \in DeleteJob /\ job.doomed \subseteq ChainKeys(c)
         /\ o \in job.doomed /\ o \in ChainKeys(c)
         /\ \A l \in job.doomed : l = o \/ o.ord < l.ord
         /\ \A l \in ChainKeys(c) : l = o \/ o.ord < l.ord
         /\ o.ord <= plan[c].r.cutoff
         /\ signed[o.id].at <= signed[plan[c].r.last].at
         /\ \E k \in ChainKeys(c) : k # o /\ plan[c].r.cutoff < k.ord
         /\ \A k \in index : k.id = o.id => k = o
         /\ intent # None => o # IntentKey /\ o.id # intent.id
         /\ job.step = "unindex" => o.id \notin entries
  <1>1. pruner # None /\ pruner.pc = "run" /\ c \in Chains
    BY OwnerTypes DEF IInv, OwnersOK
  <1>2. plan[c] # None /\ ~plan[c].complete
    BY DEF IInv, PruneJobOK
  <1>3. PICK r : r = plan[c].r
    OBVIOUS
  <1>4. /\ job \in DeleteJob /\ job.doomed \subseteq ChainKeys(c)
        /\ \A d \in job.doomed : r.omitted > 0 /\ d.ord <= r.cutoff
        /\ \A k \in ChainKeys(c) \ job.doomed : \A d \in job.doomed : d.ord < k.ord
        /\ job.step = "unindex" =>
             \E d \in job.doomed : d.id \notin entries /\ \A l \in job.doomed : d.ord <= l.ord
    BY <1>3 DEF IInv, PageOK, Pruning
  <1>5. job.doomed \in SUBSET index
    BY <1>4 DEF ChainKeys
  <1>6. KeySet(job.doomed) /\ KeySet(index) /\ \A k \in index : k.ord \in Nat
    <2>1. KeySet(job.doomed)
      BY <1>5, ChainKeySet
    <2>2. KeySet(index)
      BY ChainKeySet
    <2>. QED BY <2>1, <2>2 DEF KeySet, Key
  <1>7. o \in job.doomed /\ \A l \in job.doomed : o.ord <= l.ord
    BY <1>6, FirstIsOldest DEF Oldest
  <1>8. o \in ChainKeys(c) /\ o \in index /\ signed[o.id].chain = c /\ o.ord \in Nat
    BY <1>4, <1>6, <1>7 DEF ChainKeys
  <1>9. \A l \in job.doomed : l = o \/ o.ord < l.ord
    BY <1>5, <1>6, <1>7, <1>8 DEF KeySet
  <1>10. \A l \in ChainKeys(c) : l = o \/ o.ord < l.ord
    BY <1>4, <1>7, <1>9
  <1>11. r.omitted > 0 /\ o.ord <= r.cutoff
    BY <1>4, <1>7
  <1>12. Cuts(c, r) /\ ReceiptOK(r)
    BY <1>1, <1>2, <1>3, PlanFacts
  <1>13. r.cutoff \in Nat
    BY <1>11, <1>12 DEF ReceiptOK
  <1>14. signed[o.id].at <= signed[r.last].at
    BY <1>8, <1>11, <1>12 DEF Cuts
  <1>15. PICK k0 \in ChainKeys(c) : r.cutoff < k0.ord
    BY <1>11, <1>12 DEF Cuts
  <1>16. k0 \in index /\ k0.ord \in Nat /\ k0 # o /\ o.ord < k0.ord
    BY <1>6, <1>8, <1>11, <1>13, <1>15 DEF ChainKeys
  <1>17. \A k \in index : k.id = o.id => k = o
    <2>. SUFFICES ASSUME NEW k \in index, k.id = o.id
                  PROVE  k = o
      OBVIOUS
    <2>1. SameChain(k, o) /\ SameChain(o, k)
      BY DEF SameChain
    <2>2. signed[k.id].at \in Nat /\ signed[o.id].at = signed[k.id].at
      BY SignedRefs, Positions
    <2>3. ~(k.ord < o.ord) /\ ~(o.ord < k.ord)
      BY <1>8, <2>1, <2>2 DEF IInv, IndexOK
    <2>4. k.ord = o.ord
      BY <1>6, <1>8, <2>3
    <2>. QED BY <1>6, <1>8, <2>4 DEF KeySet
  <1>18. ASSUME intent # None
         PROVE  o # IntentKey /\ o.id # intent.id
    <2>1. \A k \in index : k = IntentKey \/ (k.ord < intent.ord /\ k.id # intent.id)
      BY <1>18 DEF IInv, IntentOK
    <2>2. o # IntentKey
      <3>. SUFFICES ASSUME o = IntentKey
                    PROVE  FALSE
        OBVIOUS
      <3>1. o.ord = intent.ord
        BY DEF IntentKey
      <3>2. k0.ord < intent.ord
        BY <1>16, <2>1
      <3>. QED BY <1>8, <1>16, <3>1, <3>2
    <2>. QED BY <1>8, <2>1, <2>2
  <1>19. ASSUME job.step = "unindex"
         PROVE  o.id \notin entries
    <2>1. PICK d \in job.doomed : d.id \notin entries /\ \A l \in job.doomed : d.ord <= l.ord
      BY <1>4, <1>19
    <2>2. d.ord <= o.ord /\ d.ord \in Nat
      BY <1>5, <1>6, <1>7, <2>1
    <2>3. d = o
      BY <1>8, <1>9, <2>2
    <2>. QED BY <2>1, <2>3
  <1>20. \E k \in ChainKeys(c) : k # o /\ r.cutoff < k.ord
    BY <1>15, <1>16
  <1>. QED BY <1>1, <1>2, <1>3, <1>4, <1>7, <1>8, <1>9, <1>10, <1>11, <1>14, <1>17, <1>18, <1>19, <1>20

\* The entry goes first: its key is the only one without an entry.
LEMMA DeleteEntryStep ==
  ASSUME IInv, DeleteEntry
  PROVE  IInv'
  <1>1. PICK c, o : c = pruner.chain /\ o = Oldest(job.doomed)
    OBVIOUS
  <1>2. /\ job # None /\ job.op = "prune" /\ job.step = "delete" /\ job.doomed # {}
        /\ job' = [job EXCEPT !.step = "unindex"] /\ entries' = entries \ {o.id}
        /\ UNCHANGED <<atomic, index, seq, head, meta, global, segs, intent, plan, receipt,
                       history, mark, cache, wr, pruner, marker, signed>>
    BY <1>1 DEF DeleteEntry, Pruning, GoTo, pruneStore
  <1>3. /\ pruner # None /\ pruner.pc = "run" /\ c \in Chains
        /\ plan[c] # None /\ ~plan[c].complete /\ plan[c].r.omitted > 0
        /\ job \in DeleteJob /\ job.doomed \subseteq ChainKeys(c)
        /\ o \in job.doomed /\ o \in ChainKeys(c)
        /\ \A l \in job.doomed : l = o \/ o.ord < l.ord
        /\ \A l \in ChainKeys(c) : l = o \/ o.ord < l.ord
        /\ o.ord <= plan[c].r.cutoff
        /\ \A k \in index : k.id = o.id => k = o
        /\ intent # None => o # IntentKey /\ o.id # intent.id
    BY <1>1, <1>2, OldestGoes
  <1>4. o.ord \in Nat /\ signed[o.id].chain = c /\ o \in index
    BY <1>3 DEF ChainKeys, IInv, TypeOK
  <1>17. /\ \A l \in index : signed[l.id].chain = c => o.ord <= l.ord
         /\ \A l \in job.doomed : o.ord <= l.ord
    <2>1. \A l \in ChainKeys(c) : l.ord \in Nat
      BY DEF ChainKeys, IInv, TypeOK
    <2>2. \A l \in ChainKeys(c) : o.ord <= l.ord
      BY <1>3, <1>4, <2>1
    <2>. QED BY <1>3, <2>2 DEF ChainKeys
  <1>5. /\ job' \in DeleteJob /\ job' # None /\ job'.op = "prune" /\ job'.step = "unindex"
        /\ job'.doomed = job.doomed /\ job'.from = job.from /\ job'.complete = job.complete
    <2>1. job' \in DeleteJob
      BY <1>2, <1>3 DEF DeleteJob
    <2>. QED BY <1>2, <1>3, <2>1, NoneIsAbsence DEF DeleteJob
  <1>6. \A k \in index : k.id \in entries
    BY <1>2, NoHoles
  <1>7. UNCHANGED KeyData /\ NextOrd' = NextOrd
    BY <1>2 DEF NextOrd, KeyData, IntentKey
  <1>8. TypeOK'
    BY <1>2, <1>5 DEF IInv, TypeOK, Ids
  <1>9. HeadsOK' /\ WritersOK'
    BY <1>2 DEF IInv, HeadsOK, WritersOK, Ids, EmptyMeta
  <1>10. OwnersOK' /\ AppendJobOK'
    BY <1>2, <1>3, <1>5 DEF IInv, OwnersOK, AppendJobOK
  <1>11. TopOK'
    BY <1>2 DEF IInv, TopOK, IntentKey, Height
  <1>12. IntentOK'
    BY <1>2, <1>3 DEF IInv, IntentOK, IntentKey, Ids
  <1>13. HolesOK'
    <2>1. \A k \in index : k.id \notin entries' => k = o
      BY <1>2, <1>3, <1>6
    <2>2. \A l \in index : signed[l.id].chain = c => o.ord <= l.ord
      BY <1>17
    <2>3. \A l \in job.doomed : o.ord <= l.ord
      BY <1>17
    <2>. QED BY <1>2, <1>3, <1>4, <1>5, <2>1, <2>2, <2>3 DEF HolesOK, SameChain, Pruning
  <1>14. PruneJobOK'
    BY <1>1, <1>2, <1>3, <1>5 DEF PruneJobOK
  <1>15. PageOK'
    <2>1. ChainKeys(c)' = ChainKeys(c) /\ plan'[c] = plan[c] /\ pruner'.chain = c
      BY <1>1, <1>2 DEF ChainKeys
    <2>2. \E d \in job.doomed : d.id \notin entries' /\ \A l \in job.doomed : d.ord <= l.ord
      BY <1>2, <1>3, <1>17
    <2>3. /\ \A d \in job.doomed : plan[c].r.omitted > 0 /\ d.ord <= plan[c].r.cutoff
          /\ \A k \in ChainKeys(c) \ job.doomed :
               /\ job.from <= k.ord
               /\ \A d \in job.doomed : d.ord < k.ord
               /\ plan[c].r.omitted > 0 /\ job.complete => plan[c].r.cutoff < k.ord
          /\ plan[c].r.omitted > 0 => job.from <= plan[c].r.cutoff + 1
          /\ plan[c].r.omitted = 0 => job.from = 0
      BY <1>1, <1>2 DEF IInv, PageOK, Pruning
    <2>. QED BY <1>3, <1>5, <2>1, <2>2, <2>3 DEF PageOK
  <1>16. PrunerOK'
    BY <1>2, <1>7, PrunerFrame
  <1>. QED BY <1>2, <1>7, <1>8, <1>9, <1>10, <1>11, <1>12, <1>13, <1>14, <1>15, <1>16, KeyFrame DEF IInv

\* The key goes last: the chain now starts at the next key, and nothing above
\* the receipt's last entry is touched.
LEMMA KeyGoes ==
  ASSUME IInv, DeleteKey, NEW c, c = pruner.chain, NEW o, o = Oldest(job.doomed), job.doomed # {}
  PROVE  /\ index' = index \ {o} /\ NextOrd' = NextOrd
         /\ UNCHANGED <<atomic, entries, seq, head, meta, global, segs, intent, plan, receipt,
                        history, mark, cache, wr, pruner, marker, signed>>
         /\ \A d \in Chains : ChainKeys(d)' = ChainKeys(d) \ {o}
         /\ \A d \in Chains : d # c => ChainKeys(d)' = ChainKeys(d)
         /\ \A d \in Chains : \A k \in ChainKeys(d)' : k \in ChainKeys(d)
         /\ \A k \in index' : k \in index /\ k # o
         /\ IntentKey' = IntentKey /\ (intent # None => (IntentKey \in index' <=> IntentKey \in index))
         /\ \A k \in index : k.id \notin entries => k = o
  <1>1. /\ index' = index \ {o} /\ job # None /\ job.op = "prune" /\ job.step = "unindex"
        /\ UNCHANGED <<atomic, entries, seq, head, meta, global, segs, intent, plan, receipt,
                       history, mark, cache, wr, pruner, marker, signed>>
    BY DEF DeleteKey, Pruning, pruneStore
  <1>2. /\ o \in ChainKeys(c) /\ intent # None => o # IntentKey
        /\ pruner # None /\ pruner.pc = "run" /\ job.doomed \subseteq ChainKeys(c)
        /\ \A l \in job.doomed : l = o \/ o.ord < l.ord
        /\ o \in job.doomed
    BY <1>1, OldestGoes
  <1>3. IntentKey' = IntentKey
    BY <1>1 DEF IntentKey
  <1>4. intent # None => (IntentKey \in index' <=> IntentKey \in index)
    BY <1>1, <1>2
  <1>5. NextOrd' = NextOrd
    BY <1>1, <1>3, <1>4 DEF NextOrd
  <1>6. \A d \in Chains : ChainKeys(d)' = ChainKeys(d) \ {o}
    BY <1>1 DEF ChainKeys
  <1>7. \A d \in Chains : d # c => ChainKeys(d)' = ChainKeys(d)
    BY <1>1, <1>2 DEF ChainKeys
  <1>8. ASSUME NEW k \in index, k.id \notin entries
        PROVE  k = o
    <2>1. k \in job.doomed /\ \A l \in job.doomed : k.ord <= l.ord
      BY <1>2, <1>8 DEF IInv, HolesOK
    <2>2. k.ord \in Nat /\ o.ord \in Nat /\ k.ord <= o.ord
      BY <1>2, <2>1 DEF ChainKeys, IInv, TypeOK
    <2>. QED BY <1>2, <2>1, <2>2
  <1>. QED BY <1>1, <1>3, <1>4, <1>5, <1>6, <1>7, <1>8

\* The store when the oldest key of a chain goes
LEMMA KeyGoesStore ==
  ASSUME IInv, DeleteKey, NEW c, c = pruner.chain, NEW o, o = Oldest(job.doomed), job.doomed # {}
  PROVE  IndexOK' /\ TopOK' /\ IntentOK' /\ HolesOK'
  <1>1. /\ index' = index \ {o} /\ NextOrd' = NextOrd
        /\ UNCHANGED <<atomic, entries, seq, meta, intent, signed>>
        /\ \A k \in index' : k \in index /\ k # o
        /\ IntentKey' = IntentKey /\ (intent # None => (IntentKey \in index' <=> IntentKey \in index))
        /\ \A k \in index : k.id \notin entries => k = o
    BY KeyGoes
  <1>2. /\ c \in Chains /\ o \in ChainKeys(c)
        /\ \A l \in ChainKeys(c) : l = o \/ o.ord < l.ord
        /\ plan[c].r.omitted > 0 /\ o.ord <= plan[c].r.cutoff
        /\ \E k \in ChainKeys(c) : k # o /\ plan[c].r.cutoff < k.ord
        /\ intent # None => o # IntentKey /\ o.id # intent.id
        /\ o.id \notin entries
    BY OldestGoes DEF DeleteKey, Pruning
  <1>3. o \in index /\ signed[o.id].chain = c
    BY <1>2 DEF ChainKeys
  <1>4. IndexOK'
    <2>1. IsFiniteSet(index')
      BY <1>1, FS_RemoveElement DEF IInv, IndexOK
    <2>2. ASSUME NEW k \in index', NEW l \in index', SameChain(k, l),
                 NEW p \in signed[k.id].at .. signed[l.id].at
          PROVE  \E m \in index' : SameChain(m, k) /\ signed[m.id].at = p
      <3>1. k \in index /\ l \in index /\ k # o
        BY <1>1
      <3>2. PICK m \in index : SameChain(m, k) /\ signed[m.id].at = p
        BY <2>2, <3>1 DEF IInv, IndexOK
      <3>3. m # o
        <4>. SUFFICES ASSUME m = o
                      PROVE  FALSE
          OBVIOUS
        <4>1. k \in ChainKeys(c) /\ SameChain(o, k)
          BY <1>3, <3>1, <3>2 DEF SameChain, ChainKeys
        <4>2. o.ord < k.ord
          BY <1>2, <3>1, <4>1
        <4>3. signed[o.id].at < signed[k.id].at
          BY <1>3, <3>1, <4>1, <4>2 DEF IInv, IndexOK
        <4>4. signed[o.id].at \in Nat /\ signed[k.id].at \in Nat
          BY <1>3, <3>1, SignedRefs, Positions
        <4>. QED BY <3>2, <4>3, <4>4
      <3>. QED BY <1>1, <3>2, <3>3
    <2>3. \A k, l \in index' : SameChain(k, l)' <=> SameChain(k, l)
      BY <1>1 DEF SameChain
    <2>4. \A k, l \in index' : SameChain(k, l) =>
            /\ k.ord < l.ord <=> signed[k.id].at < signed[l.id].at
            /\ signed[l.id].at = signed[k.id].at + 1 => signed[l.id].prev = k.id
      BY <1>1 DEF IInv, IndexOK
    <2>5. \A k \in index' : k.ord < NextOrd
      BY <1>1 DEF IInv, IndexOK
    <2>6. \A k, l \in index' : k.ord = l.ord => k = l
      BY <1>1 DEF IInv, IndexOK
    <2>. QED BY <1>1, <2>1, <2>2, <2>4, <2>5, <2>6 DEF IndexOK, SameChain
  <1>5. TopOK'
    <2>1. ASSUME NEW d \in Chains, meta[d].head # NoEntry
          PROVE  \/ \E k \in index' : k.id = meta[d].head
                 \/ intent # None /\ intent.chain = d /\ IntentKey \in index'
      <3>1. CASE o.id = meta[d].head
        <4>1. d = c
          BY <1>3, <2>1, <3>1 DEF IInv, HeadsOK
        <4>2. PICK k0 \in ChainKeys(c) : k0 # o /\ plan[c].r.cutoff < k0.ord
          BY <1>2
        <4>3. k0 \in index /\ signed[k0.id].chain = c /\ o.ord < k0.ord
          BY <1>2, <4>2 DEF ChainKeys
        <4>4. signed[o.id].at < signed[k0.id].at
          BY <1>3, <4>3 DEF IInv, IndexOK, SameChain
        <4>5. signed[o.id].at \in Nat /\ signed[k0.id].at \in Nat
          BY <1>3, <4>3, SignedRefs, Positions
        <4>6. Height(meta[c].head) = signed[o.id].at
          BY <2>1, <3>1, <4>1 DEF Height
        <4>7. intent # None /\ k0 = IntentKey
          BY <4>3, <4>4, <4>5, <4>6 DEF IInv, TopOK
        <4>8. intent.chain = c
          BY <4>3, <4>7 DEF IInv, IntentOK, IntentKey
        <4>. QED BY <1>1, <4>1, <4>3, <4>7, <4>8
      <3>2. CASE o.id # meta[d].head
        BY <1>1, <2>1, <3>2 DEF IInv, TopOK
      <3>. QED BY <3>1, <3>2
    <2>2. \A k \in index' : \/ signed[k.id].at <= Height(meta[signed[k.id].chain].head)
                            \/ intent # None /\ k = IntentKey
      BY <1>1 DEF IInv, TopOK
    <2>3. \A i \in entries : (\E k \in index' : k.id = i) \/ (intent # None /\ i = intent.id)
      BY <1>1, <1>2 DEF IInv, TopOK
    <2>. QED BY <1>1, <2>1, <2>2, <2>3 DEF TopOK, Height
  <1>6. IntentOK'
    BY <1>1 DEF IInv, IntentOK, Ids
  <1>7. HolesOK'
    BY <1>1 DEF HolesOK
  <1>. QED BY <1>4, <1>5, <1>6, <1>7

\* The plan, the totals and the receipts when the oldest key of a chain goes
LEMMA KeyGoesPrune ==
  ASSUME IInv, DeleteKey, NEW c, c = pruner.chain, NEW o, o = Oldest(job.doomed), job.doomed # {}
  PROVE  PlanOK' /\ TotalsOK' /\ ReceiptsOK' /\ PrunerOK'
  <1>1. /\ NextOrd' = NextOrd
        /\ UNCHANGED <<meta, plan, receipt, history, pruner, signed>>
        /\ \A d \in Chains : ChainKeys(d)' = ChainKeys(d) \ {o}
        /\ \A d \in Chains : d # c => ChainKeys(d)' = ChainKeys(d)
        /\ \A d \in Chains : \A k \in ChainKeys(d)' : k \in ChainKeys(d)
    BY KeyGoes
  <1>2. /\ c \in Chains /\ o \in ChainKeys(c) /\ plan[c] # None /\ ~plan[c].complete
        /\ plan[c].r.omitted > 0
        /\ signed[o.id].at <= signed[plan[c].r.last].at
        /\ \E k \in ChainKeys(c) : k # o /\ plan[c].r.cutoff < k.ord
    BY OldestGoes DEF DeleteKey, Pruning
  <1>3. PICK r : r = plan[c].r
    OBVIOUS
  <1>4. ReceiptOK(r) /\ Cuts(c, r) /\ r.gen = Gen(receipt[c]) + 1 /\ meta[c].gen # r.gen
    <2>1. ReceiptOK(r) /\ Cuts(c, r) /\ r.gen = Gen(receipt[c]) + 1
      BY <1>2, <1>3, PlanFacts
    <2>2. meta[c].gen # r.gen
      BY <1>2, <1>3 DEF IInv, PlanOK
    <2>. QED BY <2>1, <2>2
  <1>5. signed[o.id].at \in Nat /\ signed[r.last].at \in Nat
    <2>1. o.id \in Ids /\ r.last \in Ids
      BY <1>2, <1>3, <1>4, SignedRefs DEF ChainKeys, ReceiptOK
    <2>. QED BY <2>1, Positions
  <1>6. Cuts(c, r)'
    <2>1. \A l \in ChainKeys(c) : \A p \in signed[r.last].at + 1 .. signed[l.id].at :
            \E m \in ChainKeys(c)' : signed[m.id].at = p
      <3>. SUFFICES ASSUME NEW l \in ChainKeys(c), NEW p \in signed[r.last].at + 1 .. signed[l.id].at
                    PROVE  \E m \in ChainKeys(c)' : signed[m.id].at = p
        OBVIOUS
      <3>1. PICK m \in ChainKeys(c) : signed[m.id].at = p
        BY <1>2, <1>3, <1>4 DEF Cuts
      <3>2. signed[l.id].at \in Nat
        BY SignedRefs, Positions DEF ChainKeys
      <3>3. m # o
        BY <1>2, <1>3, <1>5, <3>1, <3>2
      <3>. QED BY <1>1, <1>2, <3>1, <3>3
    <2>2. \E k \in ChainKeys(c)' : r.cutoff < k.ord
      BY <1>1, <1>2, <1>3
    <2>3. /\ signed[r.last].chain = c
          /\ \A k \in ChainKeys(c)' : k.ord <= r.cutoff <=> signed[k.id].at <= signed[r.last].at
      BY <1>1, <1>2, <1>3, <1>4 DEF Cuts
    <2>. QED BY <1>1, <1>2, <2>1, <2>2, <2>3 DEF Cuts
  <1>7. PlanOK'
    <2>. SUFFICES ASSUME NEW d \in Chains, plan[d] # None, NEW q, q = plan[d]
                  PROVE  /\ ReceiptOK(q.r)
                         /\ \/ q.r = receipt[d] /\ q.complete
                            \/ q.r.gen = Gen(receipt[d]) + 1 /\ q.r.prior = Hash(receipt[d])
                         /\ q.complete \/ meta[d].gen # q.r.gen
                         /\ Cuts(d, q.r)'
                         /\ q.r.omitted > 0 =>
                              /\ q.from <= q.r.cutoff + 1
                              /\ meta[d].head # NoEntry
                              /\ q.complete => \A k \in ChainKeys(d)' : q.r.cutoff < k.ord
                         /\ q.r.omitted = 0 => q.from = 0
                         /\ \A k \in ChainKeys(d)' : q.from <= k.ord
      BY <1>1 DEF PlanOK, ReceiptOK, Gen, Hash, Ids
    <2>1. Cuts(d, q.r)'
      <3>1. CASE d = c
        BY <1>3, <1>6, <3>1
      <3>2. CASE d # c
        <4>1. Cuts(d, q.r)
          BY DEF IInv, PlanOK
        <4>. QED BY <1>1, <3>2, <4>1 DEF Cuts
      <3>. QED BY <3>1, <3>2
    <2>. QED BY <1>1, <2>1 DEF IInv, PlanOK
  <1>8. TotalsOK'
    <2>. SUFFICES ASSUME NEW d \in Chains
                  PROVE  meta[d].omitted # Unknown =>
                           IF Uncounted(d) THEN Adds(d, plan[d].r)
                           ELSE StartsAfter(d, meta[d].omitted)'
      <3>1. \A d \in Chains : Uncounted(d)' = Uncounted(d) /\ Adds(d, plan[d].r)' = Adds(d, plan[d].r)
        BY <1>1 DEF Uncounted, Adds, Unknown
      <3>2. \A d \in Chains : Gen(receipt[d])' = Gen(receipt[d])
        BY <1>1 DEF Gen
      <3>3. Unknown' = Unknown
        BY DEF Unknown
      <3>. QED BY <1>1, <3>1, <3>2, <3>3 DEF IInv, TotalsOK
    <2>1. CASE d = c
      <3>1. Uncounted(c)
        BY <1>2, <1>3, <1>4 DEF Uncounted
      <3>. QED BY <1>2, <2>1, <3>1 DEF IInv, TotalsOK
    <2>2. CASE d # c
      <3>1. StartsAfter(d, meta[d].omitted)' = StartsAfter(d, meta[d].omitted)
        BY <1>1, <2>2 DEF StartsAfter
      <3>. QED BY <3>1 DEF IInv, TotalsOK
    <2>. QED BY <2>1, <2>2
  <1>9. ReceiptsOK'
    <2>1. \A d \in Chains : Settled(d)' = Settled(d)
      BY <1>1 DEF Settled
    <2>. QED BY <1>1, <2>1 DEF IInv, ReceiptsOK, ReceiptOK, Unknown, Ids
  <1>10. PrunerOK'
    <2>1. ~Settled(c)'
      <3>1. receipt[c] \in Receipt \cup {None}
        BY <1>2 DEF IInv, TypeOK
      <3>2. r # None
        BY <1>2, <1>3, PlanFacts
      <3>3. receipt[c] # None => receipt[c].gen \in Nat /\ Gen(receipt[c]) = receipt[c].gen
        BY <3>1 DEF Gen, Receipt
      <3>4. r # receipt[c]
        BY <1>4, <3>2, <3>3
      <3>. QED BY <1>1, <1>2, <1>3, <3>4 DEF Settled
    <2>2. Gen(receipt[c])' = Gen(receipt[c]) /\ Hash(receipt[c])' = Hash(receipt[c]) /\ Ids' = Ids
      BY <1>1 DEF Gen, Hash, Ids
    <2>. QED BY <1>1, <2>1, <2>2 DEF IInv, PrunerOK, ReceiptOK
  <1>. QED BY <1>7, <1>8, <1>9, <1>10

\* A page deletes its oldest key.
LEMMA DeleteKeyStep ==
  ASSUME IInv, DeleteKey
  PROVE  IInv'
  <1>1. PICK c, o : c = pruner.chain /\ o = Oldest(job.doomed)
    OBVIOUS
  <1>2. /\ job # None /\ job.op = "prune" /\ job.step = "unindex"
        /\ job' = [job EXCEPT !.step = "delete", !.doomed = @ \ {o}]
    BY <1>1 DEF DeleteKey, Pruning
  <1>3. job.doomed # {}
    BY <1>2 DEF IInv, PageOK, Pruning
  <1>4. /\ index' = index \ {o} /\ NextOrd' = NextOrd
        /\ UNCHANGED <<atomic, entries, seq, head, meta, global, segs, intent, plan, receipt,
                       history, mark, cache, wr, pruner, marker, signed>>
        /\ \A d \in Chains : ChainKeys(d)' = ChainKeys(d) \ {o}
        /\ \A d \in Chains : \A k \in ChainKeys(d)' : k \in ChainKeys(d)
    BY <1>1, <1>3, KeyGoes
  <1>5. /\ pruner # None /\ pruner.pc = "run" /\ c \in Chains
        /\ plan[c] # None /\ ~plan[c].complete /\ plan[c].r.omitted > 0
        /\ job \in DeleteJob /\ job.doomed \subseteq ChainKeys(c)
        /\ o \in job.doomed
    BY <1>1, <1>2, <1>3, OldestGoes
  <1>6. /\ job' \in DeleteJob /\ job' # None /\ job'.op = "prune" /\ job'.step = "delete"
        /\ job'.doomed = job.doomed \ {o} /\ job'.from = job.from /\ job'.complete = job.complete
    <2>1. job' \in DeleteJob
      BY <1>2, <1>5 DEF DeleteJob
    <2>. QED BY <1>2, <1>5, <2>1, NoneIsAbsence DEF DeleteJob
  <1>7. TypeOK'
    BY <1>4, <1>6 DEF IInv, TypeOK, Ids
  <1>8. SignedOK' /\ HeadsOK' /\ WritersOK' /\ HistoryOK' /\ PositionsExact'
    BY <1>4 DEF IInv, SignedOK, HeadsOK, WritersOK, HistoryOK, Succeeds, PositionsExact, Ids, EmptyMeta,
                Height, Unknown
  <1>9. OwnersOK' /\ AppendJobOK'
    BY <1>2, <1>4, <1>5, <1>6 DEF IInv, OwnersOK, AppendJobOK
  <1>10. PruneJobOK'
    BY <1>1, <1>4, <1>5, <1>6 DEF PruneJobOK
  <1>11. PageOK'
    <2>1. ChainKeys(c)' = ChainKeys(c) \ {o} /\ plan'[c] = plan[c] /\ pruner'.chain = c
      BY <1>1, <1>4, <1>5
    <2>2. /\ \A d \in job.doomed : plan[c].r.omitted > 0 /\ d.ord <= plan[c].r.cutoff
          /\ \A k \in ChainKeys(c) \ job.doomed :
               /\ job.from <= k.ord
               /\ \A d \in job.doomed : d.ord < k.ord
               /\ plan[c].r.omitted > 0 /\ job.complete => plan[c].r.cutoff < k.ord
          /\ plan[c].r.omitted > 0 => job.from <= plan[c].r.cutoff + 1
          /\ plan[c].r.omitted = 0 => job.from = 0
      BY <1>1, <1>2 DEF IInv, PageOK, Pruning
    <2>3. (ChainKeys(c) \ {o}) \ (job.doomed \ {o}) = ChainKeys(c) \ job.doomed
      BY <1>5
    <2>. QED BY <1>5, <1>6, <2>1, <2>2, <2>3 DEF PageOK
  <1>12. IndexOK' /\ TopOK' /\ IntentOK' /\ HolesOK'
    BY <1>1, <1>3, KeyGoesStore
  <1>13. PlanOK' /\ TotalsOK' /\ ReceiptsOK' /\ PrunerOK'
    BY <1>1, <1>3, KeyGoesPrune
  <1>14. \A d \in Chains : Known(d)' = Known(d) /\ Height(meta[d].head)' = Height(meta[d].head)
    BY <1>4 DEF Known, Height, Unknown
  <1>15. \A d \in Chains : \A pos, id, ord : Names(d, pos, id, ord) => Names(d, pos, id, ord)'
    BY <1>4 DEF Names, Ids
  <1>16. MarksOK'
    BY <1>4, <1>14, <1>15 DEF IInv, MarksOK
  <1>17. MarkerOK'
    <2>1. marker # None => marker.chain \in Chains
      BY NoneIsAbsence DEF IInv, TypeOK, Marker
    <2>2. Gen(marker.receipt)' = Gen(marker.receipt) /\ \A d \in Chains : Gen(receipt[d])' = Gen(receipt[d])
      BY <1>4 DEF Gen
    <2>. QED BY <1>4, <1>14, <1>15, <2>1, <2>2 DEF IInv, MarkerOK
  <1>. QED BY <1>7, <1>8, <1>9, <1>10, <1>11, <1>12, <1>13, <1>16, <1>17 DEF IInv

\* A page ends: the plan keeps how far it has come.
LEMMA SavePlanStep ==
  ASSUME IInv, SavePlan
  PROVE  IInv'
  <1>1. PICK c : c = pruner.chain
    OBVIOUS
  <1>2. /\ job # None /\ job.op = "prune" /\ job.step = "delete" /\ job.doomed = {}
        /\ plan' = [plan EXCEPT ![c].from = job.from, ![c].complete = job.complete]
        /\ job' = IF job.complete THEN [op |-> "prune", by |-> None, step |-> "retain"] ELSE None
        /\ UNCHANGED <<atomic, entries, index, seq, head, meta, global, segs, intent, receipt,
                       history, mark, cache, wr, pruner, marker, signed>>
    BY <1>1 DEF SavePlan, Pruning, store
  <1>25. UNCHANGED <<atomic, entries, index, seq, head, meta, global, segs, intent, receipt,
                     history, mark, cache, wr, pruner, marker, signed>>
    BY <1>2
  <1>3. /\ \A k \in index : k.id \in entries
        /\ pruner # None /\ pruner \in Pruner /\ pruner.pc = "run" /\ c \in Chains
    BY <1>1, <1>2, NoHoles
  <1>4. plan[c] # None /\ ~plan[c].complete
    BY <1>1, <1>2 DEF IInv, PruneJobOK
  <1>5. PICK r : r = plan[c].r
    OBVIOUS
  <1>6. /\ job \in DeleteJob
        /\ \A k \in ChainKeys(c) :
             job.from <= k.ord /\ (r.omitted > 0 /\ job.complete => r.cutoff < k.ord)
        /\ r.omitted > 0 => job.from <= r.cutoff + 1
        /\ r.omitted = 0 => job.from = 0
    BY <1>1, <1>2, <1>5 DEF IInv, PageOK, Pruning
  <1>7. job.from \in Nat /\ job.complete \in BOOLEAN
    BY <1>6 DEF DeleteJob
  <1>8. PICK p : p = plan'[c]
    OBVIOUS
  <1>9. /\ p \in Plan /\ p # None /\ p.r = r /\ p.from = job.from /\ p.complete = job.complete
        /\ plan' \in [Chains -> Plan \cup {None}]
        /\ \A d \in Chains : d # c => plan'[d] = plan[d]
    <2>1. plan \in [Chains -> Plan \cup {None}] /\ plan[c] \in Plan
      BY <1>3, <1>4 DEF IInv, TypeOK
    <2>2. p = [plan[c] EXCEPT !.from = job.from, !.complete = job.complete]
      BY <1>2, <1>3, <1>8, <2>1
    <2>3. p \in Plan /\ p.r = r /\ p.from = job.from /\ p.complete = job.complete
      BY <1>5, <1>7, <2>1, <2>2 DEF Plan
    <2>4. plan' \in [Chains -> Plan \cup {None}] /\ \A d \in Chains : d # c => plan'[d] = plan[d]
      BY <1>2, <1>3, <1>8, <2>1, <2>3
    <2>. QED BY <2>3, <2>4, NoneIsAbsence
  <1>10. /\ \A d \in Chains : plan'[d] # None <=> plan[d] # None
         /\ \A d \in Chains : plan[d] # None => plan'[d].r = plan[d].r
    BY <1>4, <1>5, <1>8, <1>9
  <1>11. /\ job' \in Job \cup {None} /\ (job' # None => job'.op = "prune" /\ job'.step = "retain")
         /\ job' # None => job.complete
    BY <1>2 DEF Job, PruneSteps
  <1>12. TypeOK'
    BY <1>25, <1>9, <1>11 DEF IInv, TypeOK, Ids
  <1>13. /\ NextOrd' = NextOrd /\ Ids' = Ids
         /\ \A d \in Chains : ChainKeys(d)' = ChainKeys(d)
    BY <1>25 DEF NextOrd, IntentKey, Ids, ChainKeys
  <1>14. /\ SignedOK' /\ HeadsOK' /\ WritersOK' /\ IndexOK' /\ TopOK' /\ IntentOK'
         /\ HistoryOK' /\ PositionsExact'
    <2>1. SignedOK' /\ HeadsOK' /\ WritersOK'
      BY <1>25, <1>13 DEF IInv, SignedOK, HeadsOK, WritersOK, EmptyMeta, Height
    <2>2. IndexOK'
      BY <1>25, <1>13 DEF IInv, IndexOK, SameChain
    <2>3. TopOK' /\ IntentOK'
      BY <1>25, <1>13 DEF IInv, TopOK, IntentOK, IntentKey, Height
    <2>4. HistoryOK' /\ PositionsExact'
      BY <1>25 DEF IInv, HistoryOK, Succeeds, PositionsExact, Unknown
    <2>. QED BY <2>1, <2>2, <2>3, <2>4
  <1>15. OwnersOK' /\ AppendJobOK' /\ HolesOK' /\ PageOK'
    BY <1>25, <1>3, <1>11 DEF IInv, OwnersOK, AppendJobOK, HolesOK, PageOK, Pruning
  <1>16. PruneJobOK'
    BY <1>1, <1>25, <1>8, <1>9, <1>11 DEF PruneJobOK
  <1>17. PlanOK'
    <2>. SUFFICES ASSUME NEW d \in Chains, plan'[d] # None, NEW q, q = plan'[d]
                  PROVE  /\ ReceiptOK(q.r)
                         /\ \/ q.r = receipt[d] /\ q.complete
                            \/ q.r.gen = Gen(receipt[d]) + 1 /\ q.r.prior = Hash(receipt[d])
                         /\ q.complete \/ meta[d].gen # q.r.gen
                         /\ Cuts(d, q.r)
                         /\ q.r.omitted > 0 =>
                              /\ q.from <= q.r.cutoff + 1
                              /\ meta[d].head # NoEntry
                              /\ q.complete => \A k \in ChainKeys(d) : q.r.cutoff < k.ord
                         /\ q.r.omitted = 0 => q.from = 0
                         /\ \A k \in ChainKeys(d) : q.from <= k.ord
      BY <1>25, <1>13 DEF PlanOK, ReceiptOK, Gen, Hash, Cuts
    <2>1. CASE d # c
      BY <1>9, <2>1 DEF IInv, PlanOK
    <2>2. CASE d = c
      <3>1. q = p
        BY <1>8, <2>2
      <3>2. /\ ReceiptOK(r) /\ Cuts(c, r)
            /\ r.gen = Gen(receipt[c]) + 1 /\ r.prior = Hash(receipt[c])
        BY <1>3, <1>4, <1>5, PlanFacts
      <3>3. meta[c].gen # r.gen /\ (r.omitted > 0 => meta[c].head # NoEntry)
        BY <1>3, <1>4, <1>5 DEF IInv, PlanOK
      <3>. QED BY <1>6, <1>9, <2>2, <3>1, <3>2, <3>3
    <2>. QED BY <2>1, <2>2
  <1>18. \A d \in Chains : Uncounted(d)' = Uncounted(d) /\ Settled(d)' = Settled(d)
    BY <1>25, <1>10 DEF Uncounted, Settled
  <1>19. TotalsOK'
    <2>. SUFFICES ASSUME NEW d \in Chains
                  PROVE  /\ meta[d].omitted # Unknown =>
                              IF Uncounted(d) THEN Adds(d, plan'[d].r)
                              ELSE StartsAfter(d, meta[d].omitted)
                         /\ meta[d].gen > 0 =>
                              \/ meta[d].gen = Gen(receipt[d])
                              \/ plan'[d] # None /\ meta[d].gen = plan'[d].r.gen
      <3>1. \A d \in Chains : meta[d].gen = 0 =>
              meta[d].omitted = 0 /\ (receipt[d] # None => receipt[d].omitted = 0)
        BY DEF IInv, TotalsOK
      <3>. QED BY <1>25, <1>13, <1>18, <3>1 DEF TotalsOK, Adds, StartsAfter, Gen, Unknown
    <2>1. Uncounted(d) => plan'[d].r = plan[d].r
      BY <1>10 DEF Uncounted
    <2>. QED BY <1>10, <2>1 DEF IInv, TotalsOK
  <1>20. ReceiptsOK'
    BY <1>25, <1>13, <1>18 DEF IInv, ReceiptsOK, ReceiptOK, Unknown
  <1>21. PrunerOK'
    BY <1>25, <1>3, <1>13, <1>18 DEF IInv, PrunerOK, ReceiptOK, Gen, Hash, Cuts, Adds, Unknown, Pruner
  <1>22. /\ \A d \in Chains : Known(d)' = Known(d) /\ Height(meta[d].head)' = Height(meta[d].head)
         /\ \A d \in Chains : \A pos, id, ord : Names(d, pos, id, ord)' = Names(d, pos, id, ord)
    BY <1>25, <1>13 DEF Known, Height, Unknown, Names
  <1>23. MarksOK'
    BY <1>25, <1>10, <1>22 DEF IInv, MarksOK
  <1>24. MarkerOK'
    <2>1. marker # None => marker.chain \in Chains
      BY NoneIsAbsence DEF IInv, TypeOK, Marker
    <2>2. Gen(marker.receipt)' = Gen(marker.receipt) /\ \A d \in Chains : Gen(receipt[d])' = Gen(receipt[d])
      BY <1>25 DEF Gen
    <2>. QED BY <1>25, <1>10, <1>22, <2>1, <2>2 DEF IInv, MarkerOK
  <1>. QED BY <1>12, <1>14, <1>15, <1>16, <1>17, <1>19, <1>20, <1>21, <1>23, <1>24 DEF IInv

-----------------------------------------------------------------------------
(* The retained chain is counted *)

\* count_prune adds a receipt to the pruned total once.
LEMMA CountFacts ==
  ASSUME IInv, NEW c \in Chains, plan[c] # None, plan[c].complete,
         NEW r, r = plan[c].r, NEW m, m = CountPrune(meta[c], r, receipt[c])
  PROVE  /\ m \in Meta /\ m.gen = r.gen
         /\ m.omitted # Unknown =>
              /\ meta[c].omitted # Unknown
              /\ m.omitted = IF Uncounted(c) THEN signed[r.last].at ELSE meta[c].omitted
              /\ StartsAfter(c, m.omitted)
         /\ Known(c) => m.omitted # Unknown
  <1>1. /\ r \in Receipt /\ r.omitted \in Nat /\ r.gen \in Nat /\ r.gen > 0
        /\ Gen(receipt[c]) \in Nat /\ meta[c] \in Meta /\ meta[c].gen \in Nat
        /\ meta[c].omitted \in Nat /\ ReceiptOK(r) /\ Cuts(c, r)
        /\ r = receipt[c] \/ r.gen = Gen(receipt[c]) + 1
    BY PlanFacts
  <1>2. Unknown \in Nat /\ Unknown > 0
    BY AuditAssumption DEF Unknown
  <1>3. receipt[c] \in Receipt \cup {None}
    BY DEF IInv, TypeOK
  <1>4. /\ meta[c].gen = 0 =>
             meta[c].omitted = 0 /\ (receipt[c] # None => receipt[c].omitted = 0)
        /\ meta[c].gen > 0 => meta[c].gen = Gen(receipt[c]) \/ meta[c].gen = r.gen
        /\ meta[c].omitted # Unknown =>
             IF Uncounted(c) THEN Adds(c, r) ELSE StartsAfter(c, meta[c].omitted)
    BY DEF IInv, TotalsOK
  <1>5. CASE meta[c].gen = r.gen
    <2>1. m = meta[c]
      BY <1>5 DEF CountPrune
    <2>2. ~Uncounted(c)
      BY <1>5 DEF Uncounted
    <2>. QED BY <1>1, <1>4, <1>5, <2>1, <2>2 DEF Known
  <1>6. CASE meta[c].gen # r.gen
    <2>. DEFINE before == IF meta[c].gen > 0
                THEN IF meta[c].gen = r.gen - 1 THEN meta[c].omitted ELSE Unknown
                ELSE CASE r.gen = 1 -> 0
                       [] r.gen = 2 /\ receipt[c] # None -> IF receipt[c].gen = 1
                                                          THEN receipt[c].omitted ELSE Unknown
                       [] OTHER -> Unknown
    <2>1. before = meta[c].omitted \/ before = Unknown
      <3>1. CASE meta[c].gen > 0
        BY <3>1
      <3>2. CASE meta[c].gen = 0
        <4>1. ~(meta[c].gen > 0)
          BY <3>2
        <4>2. CASE r.gen = 1
          BY <1>4, <3>2, <4>1, <4>2
        <4>3. CASE r.gen = 2 /\ receipt[c] # None
          BY <1>4, <3>2, <4>1, <4>3
        <4>4. CASE r.gen # 1 /\ ~(r.gen = 2 /\ receipt[c] # None)
          BY <4>1, <4>4
        <4>. QED BY <4>2, <4>3, <4>4
      <3>. QED BY <1>1, <3>1, <3>2
    <2>2. Known(c) => before = meta[c].omitted
      <3>. SUFFICES ASSUME Known(c)
                    PROVE  before = meta[c].omitted
        OBVIOUS
      <3>1. CASE meta[c].gen > 0
        <4>1. meta[c].gen = Gen(receipt[c])
          BY <1>4, <1>6, <3>1
        <4>2. r # receipt[c]
          <5>1. r # None
            BY PlanFacts
          <5>. QED BY <1>6, <4>1, <5>1 DEF Gen
        <4>3. meta[c].gen = r.gen - 1
          BY <1>1, <4>1, <4>2
        <4>. QED BY <3>1, <4>3
      <3>2. CASE meta[c].gen = 0
        <4>1. ~(meta[c].gen > 0) /\ meta[c].omitted = 0
          BY <1>4, <3>2
        <4>2. receipt[c] = None \/ receipt[c].gen = 1
          BY <3>2 DEF Known
        <4>3. CASE r.gen = 1
          BY <4>1, <4>3
        <4>4. CASE r.gen # 1
          <5>1. r # None
            BY PlanFacts
          <5>2. receipt[c] # None /\ receipt[c].gen = 1 /\ r.gen = 2
            <6>1. CASE receipt[c] = None
              BY <1>1, <4>4, <5>1, <6>1 DEF Gen
            <6>2. CASE receipt[c] # None
              <7>1. receipt[c].gen = 1
                BY <4>2, <6>2
              <7>2. Gen(receipt[c]) = 1
                BY <6>2, <7>1 DEF Gen
              <7>. QED BY <1>1, <4>4, <6>2, <7>1, <7>2
            <6>. QED BY <6>1, <6>2
          <5>3. receipt[c].omitted = 0
            BY <1>4, <3>2, <5>2
          <5>. QED BY <4>1, <5>2, <5>3
        <4>. QED BY <4>3, <4>4
      <3>. QED BY <1>1, <3>1, <3>2
    <2>3. m = [meta[c] EXCEPT !.gen = r.gen,
                              !.omitted = IF before = Unknown THEN Unknown ELSE before + r.omitted]
      BY <1>6 DEF CountPrune
    <2>. HIDE DEF before
    <2>4. before \in Nat
      BY <1>1, <1>2, <2>1
    <2>5. PICK n \in Nat : n = IF before = Unknown THEN Unknown ELSE before + r.omitted
      BY <1>1, <1>2, <2>4
    <2>6. m \in Meta /\ m.gen = r.gen /\ m.omitted = n
      BY <1>1, <2>3, <2>5 DEF Meta
    <2>7. r.omitted > 0 <=> Uncounted(c)
      BY <1>6 DEF Uncounted
    <2>8. ASSUME before # Unknown
          PROVE  /\ meta[c].omitted # Unknown /\ n # Unknown
                 /\ n = IF Uncounted(c) THEN signed[r.last].at ELSE meta[c].omitted
                 /\ StartsAfter(c, n)
      <3>1. n = meta[c].omitted + r.omitted /\ meta[c].omitted # Unknown
        BY <2>1, <2>5, <2>8
      <3>2. CASE r.omitted > 0
        <4>1. n = signed[r.last].at
          BY <1>4, <2>7, <3>1, <3>2 DEF Adds
        <4>2. r.last \in Ids /\ r.cutoff \in Nat
          BY <1>1, <3>2 DEF ReceiptOK
        <4>3. signed[r.last].at <= r.last /\ r.last <= Len(signed) /\ Len(signed) <= MaxEntries
              /\ Len(signed) \in Nat /\ r.last \in Nat
          BY <4>2, SignedRefs DEF IInv, SignedOK, Ids
        <4>4. n # Unknown
          BY <4>1, <4>3, AuditAssumption DEF Unknown
        <4>5. \A k \in ChainKeys(c) : r.cutoff < k.ord
          BY <3>2 DEF IInv, PlanOK
        <4>6. \A k \in ChainKeys(c) : signed[k.id].at > n
          <5>. SUFFICES ASSUME NEW k \in ChainKeys(c)
                        PROVE  signed[k.id].at > n
            OBVIOUS
          <5>1. k.ord \in Nat /\ signed[k.id].at \in Nat
            BY SignedRefs, Positions DEF ChainKeys, IInv, TypeOK
          <5>2. k.ord <= r.cutoff <=> signed[k.id].at <= signed[r.last].at
            BY <1>1, <3>2 DEF Cuts
          <5>. QED BY <4>1, <4>2, <4>5, <5>1, <5>2
        <4>7. StartsAfter(c, n)
          BY <1>1, <3>2, <4>1, <4>6 DEF Cuts, StartsAfter
        <4>. QED BY <2>7, <3>1, <3>2, <4>1, <4>4, <4>7
      <3>3. CASE r.omitted = 0
        <4>1. n = meta[c].omitted /\ ~Uncounted(c)
          BY <1>1, <2>7, <3>1, <3>3
        <4>. QED BY <1>4, <3>1, <4>1
      <3>. QED BY <1>1, <3>2, <3>3
    <2>9. before = Unknown => n = Unknown
      BY <2>5
    <2>10. Known(c) => before # Unknown
      BY <2>2 DEF Known
    <2>. QED BY <2>6, <2>8, <2>9, <2>10
  <1>. QED BY <1>5, <1>6

\* The newest key of a chain with a head: the head's, or an interrupted append's.
LEMMA NewestKey ==
  ASSUME IInv, NEW c \in Chains, meta[c].head # NoEntry
  PROVE  /\ ChainKeys(c) # {}
         /\ \E k \in ChainKeys(c) :
              /\ k = Nth(ChainKeys(c), Cardinality(ChainKeys(c)))
              /\ LastId(ChainKeys(c)) = k.id
              /\ \A l \in ChainKeys(c) : l.ord <= k.ord /\ signed[l.id].at <= signed[k.id].at
              /\ Height(meta[c].head) <= signed[k.id].at
              /\ \/ k.id = meta[c].head
                 \/ intent # None /\ intent.chain = c /\ k = IntentKey
              /\ intent # None /\ IntentKey \in ChainKeys(c) => k = IntentKey
  <1>1. \/ \E h \in ChainKeys(c) : h.id = meta[c].head
        \/ intent # None /\ intent.chain = c /\ IntentKey \in ChainKeys(c)
    BY DEF IInv, TopOK, HeadsOK, IntentOK, ChainKeys, IntentKey
  <1>2. ChainKeys(c) # {} /\ ChainKeys(c) \in SUBSET index
    BY <1>1 DEF ChainKeys
  <1>3. KeySet(ChainKeys(c)) /\ seq \in Nat /\ \A k \in ChainKeys(c) : k.ord <= seq
    <2>1. KeySet(ChainKeys(c)) /\ seq \in Nat /\ \A k \in ChainKeys(c) : k.ord \in 0 .. seq
      BY <1>2, ChainKeySet
    <2>. QED BY <2>1
  <1>4. PICK k : k = Nth(ChainKeys(c), Cardinality(ChainKeys(c)))
    OBVIOUS
  <1>5. k \in ChainKeys(c) /\ \A l \in ChainKeys(c) : l.ord <= k.ord
    BY <1>2, <1>3, <1>4, LastIsNewest
  <1>6. LastId(ChainKeys(c)) = k.id
    BY <1>2, <1>4 DEF LastId
  <1>7. \A l \in ChainKeys(c) : l \in index /\ l.ord \in Nat /\ signed[l.id].at \in Nat
                                /\ signed[l.id].chain = c
    BY SignedRefs, Positions DEF ChainKeys, IInv, TypeOK
  <1>8. \A l, n \in ChainKeys(c) : l.ord < n.ord <=> signed[l.id].at < signed[n.id].at
    BY <1>7 DEF IInv, IndexOK, SameChain
  <1>9. \A l \in ChainKeys(c) : signed[l.id].at <= signed[k.id].at
    BY <1>5, <1>7, <1>8
  <1>10. intent # None /\ IntentKey \in ChainKeys(c) => k = IntentKey
    <2>. SUFFICES ASSUME intent # None, IntentKey \in ChainKeys(c)
                  PROVE  k = IntentKey
      OBVIOUS
    <2>1. k = IntentKey \/ k.ord < intent.ord
      BY <1>5, <1>7 DEF IInv, IntentOK
    <2>2. IntentKey.ord = intent.ord /\ intent.ord \in Nat
      BY <1>7 DEF IntentKey
    <2>3. ~(k.ord < intent.ord)
      BY <1>5, <1>7, <2>2
    <2>. QED BY <2>1, <2>3
  <1>11. CASE intent # None /\ IntentKey \in ChainKeys(c)
    <2>1. k = IntentKey /\ k.id = intent.id
      BY <1>10, <1>11 DEF IntentKey
    <2>2. intent.id \in Ids /\ intent.id # NoEntry /\ intent.chain = c
      BY <1>5, <1>7, <1>11, <2>1, SignedRefs DEF IInv, IntentOK, Ids, NoEntry
    <2>3. signed[intent.id].at = Height(intent.expHead) + 1 /\ Height(intent.expHead) \in Nat
      BY <1>11, <2>2, Positions DEF IInv, IntentOK, SignedOK
    <2>4. meta[c].head \in {intent.expHead, intent.id}
      BY <1>11, <2>2 DEF IInv, IntentOK
    <2>5. Height(meta[c].head) <= signed[k.id].at
      <3>1. CASE meta[c].head = intent.expHead
        BY <2>1, <2>3, <3>1
      <3>2. CASE meta[c].head = intent.id
        <4>1. Height(meta[c].head) = signed[k.id].at
          BY <2>1, <2>2, <3>2 DEF Height
        <4>. QED BY <1>5, <1>7, <4>1
      <3>. QED BY <2>4, <3>1, <3>2
    <2>. QED BY <1>2, <1>4, <1>5, <1>6, <1>9, <1>11, <2>1, <2>2, <2>5
  <1>12. CASE ~(intent # None /\ IntentKey \in ChainKeys(c))
    <2>1. PICK h \in ChainKeys(c) : h.id = meta[c].head
      BY <1>1, <1>12
    <2>2. ~(intent # None /\ k = IntentKey)
      BY <1>5, <1>12
    <2>3. Height(meta[c].head) = signed[h.id].at
      BY <2>1 DEF Height
    <2>4. signed[k.id].at <= Height(meta[c].head)
      BY <1>5, <1>7, <2>2 DEF IInv, TopOK
    <2>5. signed[k.id].at = signed[h.id].at
      BY <1>5, <1>7, <1>9, <2>3, <2>4
    <2>6. k.ord = h.ord
      BY <1>5, <1>7, <1>8, <2>5
    <2>7. k = h
      BY <1>3, <1>5, <2>6 DEF KeySet
    <2>8. Height(meta[c].head) <= signed[k.id].at
      BY <1>5, <1>7, <2>3, <2>5
    <2>. QED BY <1>2, <1>4, <1>5, <1>6, <1>9, <1>12, <2>1, <2>7, <2>8
  <1>. QED BY <1>11, <1>12

\* What a prune leaves in the metadata of its chain: the newest key as the head,
\* and the keys counted after the pruned total.
LEMMA RetainFacts ==
  ASSUME IInv, RetainChain, NEW c, c = pruner.chain, NEW r, r = plan[c].r,
         meta[c].head # NoEntry
  PROVE  \E n \in Meta, k \in ChainKeys(c) :
           /\ meta' = [meta EXCEPT ![c] = n]
           /\ n.head = k.id /\ n.gen = r.gen
           /\ n.omitted # Unknown =>
                /\ meta[c].omitted # Unknown
                /\ n.omitted = IF Uncounted(c) THEN signed[r.last].at ELSE meta[c].omitted
                /\ StartsAfter(c, n.omitted)
                /\ n.omitted + n.count = signed[k.id].at
           /\ Known(c) => n.omitted # Unknown
           /\ \A l \in ChainKeys(c) : signed[l.id].at <= signed[k.id].at
           /\ Height(meta[c].head) <= signed[k.id].at
           /\ \/ k.id = meta[c].head
              \/ intent # None /\ intent.chain = c /\ k = IntentKey
           /\ intent # None /\ IntentKey \in ChainKeys(c) => k = IntentKey
  <1>1. job # None /\ job.op = "prune" /\ job.step = "retain"
    BY DEF RetainChain, Pruning
  <1>2. c \in Chains /\ \A k \in index : k.id \in entries
    BY <1>1, NoHoles
  <1>3. plan[c] # None /\ plan[c].complete
    BY <1>1 DEF IInv, PruneJobOK
  <1>4. Survivors(c) = ChainKeys(c)
    BY <1>2 DEF Survivors, ChainKeys
  <1>5. PICK k \in ChainKeys(c) :
              /\ k = Nth(ChainKeys(c), Cardinality(ChainKeys(c)))
              /\ LastId(ChainKeys(c)) = k.id
              /\ \A l \in ChainKeys(c) : l.ord <= k.ord /\ signed[l.id].at <= signed[k.id].at
              /\ Height(meta[c].head) <= signed[k.id].at
              /\ \/ k.id = meta[c].head
                 \/ intent # None /\ intent.chain = c /\ k = IntentKey
              /\ intent # None /\ IntentKey \in ChainKeys(c) => k = IntentKey
    BY <1>2, NewestKey
  <1>6. PICK m : m = CountPrune(meta[c], r, receipt[c])
    OBVIOUS
  <1>7. /\ m \in Meta /\ m.gen = r.gen
        /\ m.omitted # Unknown =>
             /\ meta[c].omitted # Unknown
             /\ m.omitted = IF Uncounted(c) THEN signed[r.last].at ELSE meta[c].omitted
             /\ StartsAfter(c, m.omitted)
        /\ Known(c) => m.omitted # Unknown
    BY <1>2, <1>3, <1>6, CountFacts
  <1>8. ChainKeys(c) \in SUBSET index /\ ChainKeys(c) # {}
    BY <1>5 DEF ChainKeys
  <1>9. PICK q \in Nat : q = Cardinality(ChainKeys(c))
    BY <1>8, ChainKeySet, FS_CardinalityType DEF KeySet
  <1>10. k.id \in Nat
    <2>1. k.id \in Ids
      BY <1>5, SignedRefs DEF ChainKeys
    <2>2. Len(signed) \in Nat
      BY SignedRefs
    <2>. QED BY <2>1, <2>2 DEF Ids
  <1>11. PICK kept : kept = [m EXCEPT !.count = q, !.head = k.id]
    OBVIOUS
  <1>12. PICK n : n = IF meta[c].head = r.rhead
                      THEN [kept EXCEPT !.sealed = TRUE, !.segCount = q] ELSE kept
    OBVIOUS
  <1>13. meta[c] # EmptyMeta
    BY DEF EmptyMeta
  <1>14. meta' = [meta EXCEPT ![c] = n]
    <2>1. KeptHead(c) = k.id
      BY <1>4, <1>5 DEF KeptHead
    <2>. QED BY <1>4, <1>6, <1>9, <1>11, <1>12, <1>13, <2>1 DEF RetainChain
  <1>15. /\ kept \in Meta /\ kept.head = k.id /\ kept.gen = r.gen /\ kept.omitted = m.omitted
         /\ kept.count = q
    BY <1>7, <1>9, <1>10, <1>11 DEF Meta
  <1>16. /\ n \in Meta /\ n.head = k.id /\ n.gen = r.gen /\ n.omitted = m.omitted
         /\ n.count = q
    <2>1. CASE meta[c].head = r.rhead
      BY <1>9, <1>12, <1>15, <2>1 DEF Meta
    <2>2. CASE meta[c].head # r.rhead
      BY <1>12, <1>15, <2>2
    <2>. QED BY <2>1, <2>2
  <1>17. ASSUME m.omitted # Unknown
         PROVE  m.omitted + q = signed[k.id].at
    <2>1. PICK a \in Nat : a = m.omitted
      BY <1>7 DEF Meta
    <2>2. PICK b \in Nat : a < b /\ Spans(ChainKeys(c), a, b)
      <3>1. StartsAfter(c, a)
        BY <1>7, <1>17, <2>1
      <3>. QED BY <1>2, <1>8, <3>1, SpanFrom DEF StartsAfter
    <2>3. q = b - a /\ \A i \in 1 .. b - a : signed[Nth(ChainKeys(c), i).id].at = a + i
      <3>1. a <= b
        BY <2>2
      <3>2. PICK S : S = ChainKeys(c)
        OBVIOUS
      <3>3. Cardinality(S) = b - a /\ \A i \in 1 .. b - a : signed[Nth(S, i).id].at = a + i
        BY <2>2, <3>1, <3>2, SpanNth
      <3>. QED BY <1>9, <3>2, <3>3
    <2>4. b - a \in 1 .. b - a
      BY <2>2
    <2>5. signed[k.id].at = a + (b - a)
      BY <1>5, <1>9, <2>3, <2>4
    <2>. QED BY <2>1, <2>3, <2>5
  <1>. QED BY <1>5, <1>7, <1>14, <1>16, <1>17

\* The metadata when the retained chain is counted
LEMMA RetainStore ==
  ASSUME IInv, UNCHANGED <<atomic, entries, index, seq, intent, signed>>,
         NEW c \in Chains, meta[c].head # NoEntry,
         NEW n \in Meta, NEW k \in ChainKeys(c), meta' = [meta EXCEPT ![c] = n], n.head = k.id,
         n.omitted # Unknown => n.omitted + n.count = signed[k.id].at,
         \A l \in ChainKeys(c) : signed[l.id].at <= signed[k.id].at,
         \/ k.id = meta[c].head
         \/ intent # None /\ intent.chain = c /\ k = IntentKey,
         intent # None /\ IntentKey \in ChainKeys(c) => k = IntentKey,
         UNCHANGED <<head, cache>>
  PROVE  /\ meta' \in [Chains -> Meta]
         /\ HeadsOK' /\ IndexOK' /\ TopOK' /\ IntentOK' /\ PositionsExact'
         /\ Height(meta[c].head)' = signed[k.id].at
  <1>1. /\ k \in index /\ signed[k.id].chain = c /\ k.id \in Ids /\ k.id # NoEntry
    BY SignedRefs DEF ChainKeys, Ids, NoEntry
  <1>2. meta \in [Chains -> Meta]
    BY DEF IInv, TypeOK
  <1>3. /\ meta' \in [Chains -> Meta] /\ meta'[c] = n
        /\ \A d \in Chains : d # c => meta'[d] = meta[d]
    BY <1>2
  <1>4. /\ NextOrd' = NextOrd /\ Ids' = Ids /\ IntentKey' = IntentKey
    BY DEF NextOrd, Ids, IntentKey
  <1>5. HeadsOK'
    <2>1. \A d \in Chains : /\ meta'[d].head \in Ids \cup {NoEntry}
                            /\ meta'[d].head # NoEntry => signed[meta'[d].head].chain = d
                            /\ meta'[d].head = NoEntry => meta'[d] = EmptyMeta
      BY <1>1, <1>3 DEF IInv, HeadsOK
    <2>2. \A d \in Chains : /\ cache[d] # NoEntry => signed[cache[d]].chain = d
                            /\ head[d] # NoEntry => signed[head[d]].chain = d
      BY DEF IInv, HeadsOK
    <2>. QED BY <1>4, <2>1, <2>2 DEF HeadsOK, EmptyMeta
  <1>6. IndexOK'
    BY <1>4 DEF IInv, IndexOK, SameChain
  <1>7. /\ Height(meta[c].head)' = signed[k.id].at
        /\ \A d \in Chains : d # c => Height(meta[d].head)' = Height(meta[d].head)
    BY <1>1, <1>3 DEF Height
  <1>8. TopOK'
    <2>1. \A d \in Chains : meta'[d].head # NoEntry =>
            \/ \E l \in index : l.id = meta'[d].head
            \/ intent # None /\ intent.chain = d /\ IntentKey \in index
      BY <1>1, <1>3 DEF IInv, TopOK
    <2>2. \A l \in index : \/ signed[l.id].at <= Height(meta[signed[l.id].chain].head)'
                           \/ intent # None /\ l = IntentKey
      <3>. SUFFICES ASSUME NEW l \in index
                    PROVE  \/ signed[l.id].at <= Height(meta[signed[l.id].chain].head)'
                           \/ intent # None /\ l = IntentKey
        OBVIOUS
      <3>1. PICK d \in Chains : d = signed[l.id].chain
        BY SignedRefs, Positions
      <3>2. CASE d = c
        BY <1>7, <3>1, <3>2 DEF ChainKeys
      <3>3. CASE d # c
        <4>1. Height(meta[d].head)' = Height(meta[d].head)
          BY <1>7, <3>3
        <4>2. \/ signed[l.id].at <= Height(meta[d].head)
              \/ intent # None /\ l = IntentKey
          BY <3>1 DEF IInv, TopOK
        <4>. QED BY <3>1, <4>1, <4>2
      <3>. QED BY <3>2, <3>3
    <2>3. \A i \in entries : (\E l \in index : l.id = i) \/ (intent # None /\ i = intent.id)
      BY DEF IInv, TopOK
    <2>. QED BY <1>4, <2>1, <2>2, <2>3 DEF TopOK
  <1>9. IntentOK'
    <2>. SUFFICES ASSUME intent # None
                  PROVE  /\ meta'[intent.chain].head \in {intent.expHead, intent.id}
                         /\ IntentKey \notin index => meta'[intent.chain].head = intent.expHead
      BY <1>4 DEF IInv, IntentOK
    <2>1. intent.chain \in Chains
      BY SignedRefs
    <2>2. CASE intent.chain # c
      BY <1>3, <2>1, <2>2 DEF IInv, IntentOK
    <2>3. CASE intent.chain = c
      <3>1. k.id = meta[c].head \/ (k = IntentKey /\ k.id = intent.id)
        BY DEF IntentKey
      <3>2. k.id = meta[c].head => n.head \in {intent.expHead, intent.id}
        BY <2>3 DEF IInv, IntentOK
      <3>3. IntentKey \notin index => n.head = intent.expHead
        BY <1>1, <2>3, <3>1 DEF IInv, IntentOK
      <3>. QED BY <1>3, <2>3, <3>1, <3>2, <3>3
    <2>. QED BY <2>2, <2>3
  <1>10. PositionsExact'
    <2>1. Unknown' = Unknown
      BY DEF Unknown
    <2>. QED BY <1>3, <2>1 DEF IInv, PositionsExact
  <1>. QED BY <1>3, <1>5, <1>6, <1>7, <1>8, <1>9, <1>10

\* The surviving entries are counted and their newest becomes the head.
LEMMA RetainChainStep ==
  ASSUME IInv, RetainChain
  PROVE  IInv'
  <1>1. /\ job # None /\ job.op = "prune" /\ job.step = "retain"
        /\ job' = [job EXCEPT !.step = "account"]
        /\ UNCHANGED <<atomic, entries, index, seq, head, global, segs, intent, plan, receipt,
                       history, mark, cache, wr, pruner, marker, signed>>
    BY DEF RetainChain, Pruning, GoTo, pruneStore
  <1>2. PICK c, r : c = pruner.chain /\ r = plan[c].r
    OBVIOUS
  <1>3. /\ \A k \in index : k.id \in entries
        /\ pruner # None /\ pruner \in Pruner /\ pruner.pc = "run" /\ c \in Chains
    BY <1>1, <1>2, NoHoles
  <1>4. plan[c] # None /\ plan[c].complete
    BY <1>1, <1>2 DEF IInv, PruneJobOK
  <1>5. job' \in Job /\ job' # None /\ job'.op = "prune" /\ job'.step = "account"
    <2>1. job \in Job
      BY <1>1 DEF IInv, TypeOK, Job, DeleteJob
    <2>2. job' \in Job /\ job'.op = "prune" /\ job'.step = "account"
      BY <1>1, <2>1 DEF Job, PruneSteps
    <2>. QED BY <2>2, NoneIsAbsence
  <1>6. CASE meta[c].head = NoEntry
    <2>1. meta[c] = EmptyMeta
      BY <1>3, <1>6 DEF IInv, HeadsOK
    <2>2. UNCHANGED meta
      BY <1>2, <2>1 DEF RetainChain
    <2>3. PruneJobOK' /\ PageOK'
      BY <1>1, <1>2, <1>4, <1>5, <2>1, <2>2 DEF PruneJobOK, PageOK, Pruning, EmptyMeta
    <2>. QED BY <1>1, <1>5, <2>2, <2>3, PruneMoves DEF Data
  <1>7. CASE meta[c].head # NoEntry
    <2>1. PICK n \in Meta, k \in ChainKeys(c) :
           /\ meta' = [meta EXCEPT ![c] = n]
           /\ n.head = k.id /\ n.gen = r.gen
           /\ n.omitted # Unknown =>
                /\ meta[c].omitted # Unknown
                /\ n.omitted = IF Uncounted(c) THEN signed[r.last].at ELSE meta[c].omitted
                /\ StartsAfter(c, n.omitted)
                /\ n.omitted + n.count = signed[k.id].at
           /\ Known(c) => n.omitted # Unknown
           /\ \A l \in ChainKeys(c) : signed[l.id].at <= signed[k.id].at
           /\ Height(meta[c].head) <= signed[k.id].at
           /\ \/ k.id = meta[c].head
              \/ intent # None /\ intent.chain = c /\ k = IntentKey
           /\ intent # None /\ IntentKey \in ChainKeys(c) => k = IntentKey
      BY <1>2, <1>7, RetainFacts
    <2>2. UNCHANGED <<atomic, entries, index, seq, intent, signed>> /\ UNCHANGED <<head, cache>>
      BY <1>1
    <2>3. /\ meta' \in [Chains -> Meta]
          /\ HeadsOK' /\ IndexOK' /\ TopOK' /\ IntentOK' /\ PositionsExact'
          /\ Height(meta[c].head)' = signed[k.id].at
      BY <1>3, <1>7, <2>1, <2>2, RetainStore
    <2>4. meta'[c] = n /\ \A d \in Chains : d # c => meta'[d] = meta[d]
      BY <1>3, <2>1 DEF IInv, TypeOK
    <2>5. n.head # NoEntry
      BY <2>1, SignedRefs DEF ChainKeys, Ids, NoEntry
    <2>6. UNCHANGED <<plan, receipt, history, mark, marker, pruner, wr, signed>>
      BY <1>1
    <2>7. /\ NextOrd' = NextOrd /\ Ids' = Ids /\ Unknown' = Unknown
          /\ \A d \in Chains : ChainKeys(d)' = ChainKeys(d)
          /\ \A d \in Chains : Gen(receipt[d])' = Gen(receipt[d]) /\ Hash(receipt[d])' = Hash(receipt[d])
      BY <1>1 DEF NextOrd, IntentKey, Ids, ChainKeys, Unknown, Gen, Hash
    <2>8. /\ r.gen \in Nat /\ r.gen > 0
      BY <1>2, <1>3, <1>4, PlanFacts
    <2>9. TypeOK'
      BY <1>1, <1>5, <2>3 DEF IInv, TypeOK, Ids
    <2>10. SignedOK' /\ WritersOK' /\ HistoryOK'
      BY <2>6, <2>7 DEF IInv, SignedOK, WritersOK, HistoryOK, Succeeds, Height, Hash
    <2>11. OwnersOK' /\ AppendJobOK' /\ HolesOK' /\ PageOK'
      BY <1>1, <1>3, <1>5 DEF IInv, OwnersOK, AppendJobOK, HolesOK, PageOK, Pruning
    <2>12. PruneJobOK'
      BY <1>2, <1>4, <1>5, <2>1, <2>4, <2>6 DEF PruneJobOK
    <2>13. PlanOK'
      <3>. SUFFICES ASSUME NEW d \in Chains, plan[d] # None
                    PROVE  /\ plan[d].complete \/ meta'[d].gen # plan[d].r.gen
                           /\ plan[d].r.omitted > 0 => meta'[d].head # NoEntry
        <4>1. \A d \in Chains : \A q : Cuts(d, q)' = Cuts(d, q) /\ ReceiptOK(q)' = ReceiptOK(q)
          BY <2>6, <2>7 DEF Cuts, ReceiptOK
        <4>. QED BY <2>6, <2>7, <4>1 DEF IInv, PlanOK
      <3>. QED BY <1>4, <2>4, <2>5 DEF IInv, PlanOK
    <2>14. TotalsOK'
      <3>. SUFFICES ASSUME NEW d \in Chains
                    PROVE  /\ meta'[d].omitted # Unknown =>
                                IF Uncounted(d)' THEN Adds(d, plan[d].r)'
                                ELSE StartsAfter(d, meta'[d].omitted)
                           /\ meta'[d].gen = 0 =>
                                meta'[d].omitted = 0 /\ (receipt[d] # None => receipt[d].omitted = 0)
                           /\ meta'[d].gen > 0 =>
                                \/ meta'[d].gen = Gen(receipt[d])
                                \/ plan[d] # None /\ meta'[d].gen = plan[d].r.gen
        BY <2>6, <2>7 DEF TotalsOK, StartsAfter
      <3>1. CASE d = c
        <4>1. ~Uncounted(c)'
          BY <1>2, <2>1, <2>4, <2>6 DEF Uncounted
        <4>. QED BY <1>2, <1>4, <2>1, <2>4, <2>8, <3>1, <4>1
      <3>2. CASE d # c
        <4>1. meta'[d] = meta[d]
          BY <2>4, <3>2
        <4>2. Uncounted(d)' = Uncounted(d) /\ Adds(d, plan[d].r)' = Adds(d, plan[d].r)
          BY <2>6, <2>7, <4>1 DEF Uncounted, Adds
        <4>. QED BY <4>1, <4>2 DEF IInv, TotalsOK
      <3>. QED BY <3>1, <3>2
    <2>15. \A d \in Chains : Settled(d)' = Settled(d)
      BY <2>6 DEF Settled
    <2>16. Settled(c) => (n.omitted # Unknown => meta[c].omitted # Unknown /\ n.omitted = meta[c].omitted)
      BY <1>3, <2>1, SettledCounted
    <2>17. ReceiptsOK'
      <3>. SUFFICES ASSUME NEW d \in Chains, receipt[d] # None, receipt[d].omitted > 0,
                           Settled(d), meta'[d].omitted # Unknown
                    PROVE  signed[receipt[d].last].at = meta'[d].omitted
        BY <2>6, <2>7, <2>15 DEF IInv, ReceiptsOK, ReceiptOK
      <3>1. meta[d].omitted # Unknown /\ meta'[d].omitted = meta[d].omitted
        BY <2>4, <2>16
      <3>. QED BY <3>1 DEF IInv, ReceiptsOK
    <2>18. PrunerOK'
      <3>. SUFFICES ASSUME pruner.r # None, Settled(c), NEW q, q = pruner.r, Cuts(c, q), Adds(c, q)
                    PROVE  Cuts(c, q)' /\ Adds(c, q)'
        BY <1>2, <1>3, <2>6, <2>7, <2>15 DEF IInv, PrunerOK, ReceiptOK
      <3>1. Cuts(c, q)'
        BY <1>3, <2>6, <2>7 DEF Cuts
      <3>2. Adds(c, q)'
        BY <1>3, <2>4, <2>6, <2>7, <2>16 DEF Adds
      <3>. QED BY <3>1, <3>2
    <2>19. \A d \in Chains : \A pos, id, ord : Names(d, pos, id, ord)' = Names(d, pos, id, ord)
      BY <2>6, <2>7 DEF Names
    <2>20. /\ Height(meta[c].head) \in Nat /\ signed[k.id].at \in Nat
           /\ \A d \in Chains : d # c => Height(meta[d].head)' = Height(meta[d].head)
      BY <1>3, <2>1, <2>4, <2>6, Positions, SignedRefs DEF Height, ChainKeys
    <2>21. \A d \in Chains : d # c => Known(d)' = Known(d)
      BY <2>4, <2>6, <2>7 DEF Known
    <2>22. MarksOK'
      <3>. SUFFICES ASSUME NEW d \in Chains, mark[d] # None
                    PROVE  /\ Known(d)'
                           /\ meta'[d].omitted <= mark[d].pos
                           /\ mark[d].pos <= Height(meta[d].head)'
        BY <2>6, <2>7, <2>19 DEF IInv, MarksOK
      <3>1. CASE d # c
        BY <2>4, <2>20, <2>21, <3>1 DEF IInv, MarksOK
      <3>2. CASE d = c
        <4>1. /\ Known(c) /\ meta[c].omitted <= mark[c].pos /\ mark[c].pos <= Height(meta[c].head)
              /\ plan[c].r.omitted > 0 => signed[plan[c].r.last].at <= mark[c].pos
          BY <1>4, <3>2 DEF IInv, MarksOK
        <4>2. mark[c].pos \in Nat
          BY <3>2 DEF IInv, TypeOK, Mark
        <4>3. n.omitted # Unknown
          BY <2>1, <4>1
        <4>4. Known(c)'
          BY <1>3, <2>1, <2>4, <2>5, <2>7, <2>8, <4>3 DEF Known
        <4>5. n.omitted <= mark[c].pos
          <5>1. CASE Uncounted(c)
            BY <1>2, <2>1, <4>1, <4>3, <5>1 DEF Uncounted
          <5>2. CASE ~Uncounted(c)
            BY <2>1, <4>1, <4>3, <5>2
          <5>. QED BY <5>1, <5>2
        <4>6. mark[c].pos <= Height(meta[c].head)'
          BY <2>1, <2>3, <2>20, <4>1, <4>2
        <4>. QED BY <2>4, <3>2, <4>4, <4>5, <4>6
      <3>. QED BY <3>1, <3>2
    <2>23. MarkerOK'
      <3>1. marker # None => marker.chain \in Chains /\ marker.pos \in Nat
        BY NoneIsAbsence DEF IInv, TypeOK, Marker
      <3>2. Gen(marker.receipt)' = Gen(marker.receipt)
        BY <2>6 DEF Gen
      <3>. SUFFICES ASSUME marker # None, marker.pc \in {"locate", "install"}, NEW d \in Chains, d = marker.chain
                    PROVE  /\ meta'[d].head # NoEntry /\ marker.pos <= Height(meta[d].head)'
                           /\ plan[d] = None /\ receipt[d] = marker.receipt =>
                                /\ Known(d)'
                                /\ marker.omitted = meta'[d].omitted /\ marker.omitted <= marker.pos
        BY <2>6, <2>7, <2>19, <3>1, <3>2 DEF IInv, MarkerOK
      <3>3. CASE d # c
        BY <2>4, <2>20, <2>21, <3>3 DEF IInv, MarkerOK
      <3>4. CASE d = c
        <4>1. marker.pos <= Height(meta[c].head)
          BY <3>4 DEF IInv, MarkerOK
        <4>2. marker.pos <= Height(meta[c].head)'
          BY <2>1, <2>3, <2>20, <3>1, <4>1
        <4>. QED BY <1>4, <2>4, <2>5, <3>4, <4>2
      <3>. QED BY <3>3, <3>4
    <2>. QED BY <2>3, <2>9, <2>10, <2>11, <2>12, <2>13, <2>14, <2>17, <2>18, <2>22, <2>23 DEF IInv
  <1>. QED BY <1>6, <1>7

-----------------------------------------------------------------------------
(* The receipt of a prune *)

\* A prune moves on among its last steps.
LEMMA LastSteps ==
  ASSUME IInv, job # None, job.op = "prune", job.step \in {"history", "receipt"},
         NEW s \in {"receipt", "unplan"}, job' = [job EXCEPT !.step = s],
         UNCHANGED <<atomic, entries, index, seq, head, meta, global, segs, intent, plan, mark,
                     cache, wr, pruner, marker, signed>>
  PROVE  /\ job' \in Job /\ job' # None /\ job'.op = "prune" /\ job'.step = s
         /\ SignedOK' /\ HeadsOK' /\ WritersOK' /\ OwnersOK' /\ IndexOK' /\ TopOK' /\ IntentOK'
         /\ AppendJobOK' /\ HolesOK' /\ PageOK' /\ PositionsExact'
         /\ NextOrd' = NextOrd /\ Ids' = Ids /\ Unknown' = Unknown
         /\ \A d \in Chains : ChainKeys(d)' = ChainKeys(d)
         /\ \A d \in Chains : \A pos, id, ord : Names(d, pos, id, ord)' = Names(d, pos, id, ord)
         /\ \A d \in Chains : Height(meta[d].head)' = Height(meta[d].head)
         /\ \A d \in Chains : \A q : /\ Cuts(d, q)' = Cuts(d, q)
                                     /\ Adds(d, q)' = Adds(d, q) /\ ReceiptOK(q)' = ReceiptOK(q)
         /\ \A d \in Chains : Uncounted(d)' = Uncounted(d)
         /\ \A d \in Chains : \A n : StartsAfter(d, n)' = StartsAfter(d, n)
         /\ \A q : Gen(q)' = Gen(q) /\ Hash(q)' = Hash(q)
  <1>1. /\ \A k \in index : k.id \in entries
        /\ pruner # None /\ pruner.pc = "run"
    BY NoHoles
  <1>2. job' \in Job /\ job' # None /\ job'.op = "prune" /\ job'.step = s
    <2>1. job \in Job
      BY DEF IInv, TypeOK, Job, DeleteJob
    <2>2. job' \in Job /\ job'.op = "prune" /\ job'.step = s
      BY <2>1 DEF Job, PruneSteps
    <2>. QED BY <2>2, NoneIsAbsence
  <1>3. /\ NextOrd' = NextOrd /\ Ids' = Ids /\ Unknown' = Unknown
        /\ \A d \in Chains : ChainKeys(d)' = ChainKeys(d)
    BY DEF NextOrd, IntentKey, Ids, ChainKeys, Unknown
  <1>4. SignedOK' /\ HeadsOK' /\ WritersOK'
    BY <1>3 DEF IInv, SignedOK, HeadsOK, WritersOK, EmptyMeta, Height
  <1>5. IndexOK'
    BY <1>3 DEF IInv, IndexOK, SameChain
  <1>6. TopOK' /\ IntentOK' /\ PositionsExact'
    BY <1>3 DEF IInv, TopOK, IntentOK, IntentKey, Height, PositionsExact
  <1>7. OwnersOK' /\ AppendJobOK' /\ HolesOK' /\ PageOK'
    BY <1>1, <1>2 DEF IInv, OwnersOK, AppendJobOK, HolesOK, PageOK, Pruning
  <1>8. \A d \in Chains : \A pos, id, ord : Names(d, pos, id, ord)' = Names(d, pos, id, ord)
    BY <1>3 DEF Names
  <1>9. \A d \in Chains : Height(meta[d].head)' = Height(meta[d].head) /\ Uncounted(d)' = Uncounted(d)
    BY DEF Height, Uncounted
  <1>10. \A d \in Chains : \A q : /\ Cuts(d, q)' = Cuts(d, q)
                                  /\ Adds(d, q)' = Adds(d, q) /\ ReceiptOK(q)' = ReceiptOK(q)
    BY <1>3 DEF Cuts, Adds, ReceiptOK
  <1>11. \A d \in Chains : \A n : StartsAfter(d, n)' = StartsAfter(d, n)
    BY <1>3 DEF StartsAfter
  <1>12. \A q : Gen(q)' = Gen(q) /\ Hash(q)' = Hash(q)
    BY DEF Gen, Hash
  <1>. QED BY <1>2, <1>3, <1>4, <1>5, <1>6, <1>7, <1>8, <1>9, <1>10, <1>11, <1>12

\* The history gets the receipt that is replaced and the new one, which links to it.
LEMMA RecordHistoryStep ==
  ASSUME IInv, RecordHistory
  PROVE  IInv'
  <1>1. /\ job # None /\ job.op = "prune" /\ job.step = "history"
        /\ UNCHANGED <<atomic, entries, index, seq, head, meta, global, segs, intent, plan,
                       receipt, mark, cache, marker, signed>>
    BY DEF RecordHistory, Pruning, store
  <1>2. PICK c : c = pruner.chain
    OBVIOUS
  <1>3. c \in Chains /\ pruner # None
    BY <1>1, <1>2, NoHoles
  <1>4. plan[c] # None /\ plan[c].complete /\ (meta[c].gen = plan[c].r.gen \/ meta[c] = EmptyMeta)
    BY <1>1, <1>2 DEF IInv, PruneJobOK
  <1>5. CASE FailOwner /\ UNCHANGED history
    BY <1>1, <1>5, FailStep DEF Data
  <1>6. CASE /\ \A h \in history[c], n \in NewReceipts(c) : h.gen = n.gen => h = n
             /\ history' = [history EXCEPT ![c] = @ \cup NewReceipts(c)]
             /\ job' = [job EXCEPT !.step = "receipt"] /\ UNCHANGED <<wr, pruner>>
    <2>1. PICK new : new = NewReceipts(c)
      OBVIOUS
    <2>2. receipt[c] \in Receipt \cup {None} /\ plan[c].r \in Receipt /\ plan[c].r # None
      BY <1>3, <1>4, PlanFacts DEF IInv, TypeOK
    <2>3. new \subseteq Receipt /\ plan[c].r \in new
      BY <2>1, <2>2 DEF NewReceipts
    <2>4. /\ history' \in [Chains -> SUBSET Receipt]
          /\ history'[c] = history[c] \cup new
          /\ \A d \in Chains : d # c => history'[d] = history[d]
      BY <1>3, <1>6, <2>1, <2>3 DEF IInv, TypeOK
    <2>5. /\ UNCHANGED <<atomic, entries, index, seq, head, meta, global, segs, intent, plan, mark,
                         cache, wr, pruner, marker, signed>>
      BY <1>1, <1>6
    <2>6. /\ job' \in Job /\ job' # None /\ job'.op = "prune" /\ job'.step = "receipt"
          /\ SignedOK' /\ HeadsOK' /\ WritersOK' /\ OwnersOK' /\ IndexOK' /\ TopOK' /\ IntentOK'
          /\ AppendJobOK' /\ HolesOK' /\ PageOK' /\ PositionsExact'
          /\ NextOrd' = NextOrd /\ Ids' = Ids /\ Unknown' = Unknown
          /\ \A d \in Chains : ChainKeys(d)' = ChainKeys(d)
          /\ \A d \in Chains : \A pos, id, ord : Names(d, pos, id, ord)' = Names(d, pos, id, ord)
          /\ \A d \in Chains : Height(meta[d].head)' = Height(meta[d].head)
          /\ \A d \in Chains : \A q : /\ Cuts(d, q)' = Cuts(d, q)
                                      /\ Adds(d, q)' = Adds(d, q) /\ ReceiptOK(q)' = ReceiptOK(q)
          /\ \A d \in Chains : Uncounted(d)' = Uncounted(d)
          /\ \A d \in Chains : \A n : StartsAfter(d, n)' = StartsAfter(d, n)
          /\ \A q : Gen(q)' = Gen(q) /\ Hash(q)' = Hash(q)
      BY <1>1, <1>6, <2>5, LastSteps
    <2>7. UNCHANGED <<meta, plan, receipt, mark, marker, pruner>>
      BY <1>1, <1>6
    <2>8. TypeOK'
      BY <1>1, <1>6, <2>4, <2>6 DEF IInv, TypeOK
    <2>9. \A d \in Chains : Settled(d)' = Settled(d) /\ Known(d)' = Known(d)
      BY <2>6, <2>7 DEF Settled, Known
    <2>10. PlanOK'
      BY <2>6, <2>7 DEF IInv, PlanOK
    <2>11. TotalsOK'
      BY <2>6, <2>7 DEF IInv, TotalsOK
    <2>12. ReceiptsOK'
      <3>1. \A d \in Chains : history[d] \subseteq history'[d]
        BY <2>4
      <3>. QED BY <1>1, <2>6, <2>7, <2>9, <3>1 DEF IInv, ReceiptsOK
    <2>13. PrunerOK'
      BY <1>2, <1>3, <2>6, <2>7, <2>9 DEF IInv, PrunerOK
    <2>14. PruneJobOK'
      BY <1>2, <1>4, <2>3, <2>4, <2>6, <2>7 DEF PruneJobOK, EmptyMeta
    <2>15. HistoryOK'
      <3>1. \A d \in Chains : history[d] \subseteq history'[d]
        BY <2>4
      <3>2. \A d \in Chains : \A h \in history[d] :
              h.gen = 1 \/ \E p \in history'[d] : p.gen + 1 = h.gen /\ h.prior = Hash(p)
        BY <3>1 DEF IInv, HistoryOK, Succeeds
      <3>3. receipt[c] # None => receipt[c] \in history[c]
        BY <1>3 DEF IInv, ReceiptsOK
      <3>4. \A h \in new : h = receipt[c] \/ h = plan[c].r
        BY <2>1 DEF NewReceipts
      <3>5. /\ plan[c].r.gen \in Nat /\ Gen(receipt[c]) \in Nat
            /\ \/ plan[c].r = receipt[c]
               \/ plan[c].r.gen = Gen(receipt[c]) + 1 /\ plan[c].r.prior = Hash(receipt[c])
        BY <1>3, <1>4, PlanFacts
      <3>6. \A h \in new :
              h.gen = 1 \/ \E p \in history'[c] : p.gen + 1 = h.gen /\ h.prior = Hash(p)
        <4>. SUFFICES ASSUME NEW h \in new
                      PROVE  h.gen = 1 \/ \E p \in history'[c] :
                                              p.gen + 1 = h.gen /\ h.prior = Hash(p)
          OBVIOUS
        <4>1. CASE h = receipt[c]
          <5>1. h \in history[c]
            BY <2>1, <3>3, <4>1 DEF NewReceipts
          <5>. QED BY <1>3, <3>2, <5>1
        <4>2. CASE h # receipt[c]
          <5>1. h = plan[c].r /\ h.gen = Gen(receipt[c]) + 1 /\ h.prior = Hash(receipt[c])
            BY <3>4, <3>5, <4>2
          <5>2. CASE receipt[c] = None
            BY <5>1, <5>2 DEF Gen
          <5>3. CASE receipt[c] # None
            BY <1>3, <3>1, <3>3, <5>1, <5>3 DEF Gen
          <5>. QED BY <5>2, <5>3
        <4>. QED BY <4>1, <4>2
      <3>7. \A h, g \in history'[c] : h.gen = g.gen => h = g
        <4>1. \A h, g \in history[c] : h.gen = g.gen => h = g
          BY <1>3 DEF IInv, HistoryOK, Succeeds
        <4>2. \A h \in history[c], g \in new : h.gen = g.gen => h = g
          BY <1>6, <2>1
        <4>3. \A h, g \in new : h.gen = g.gen => h = g
          <5>1. CASE plan[c].r = receipt[c]
            BY <3>4, <5>1
          <5>2. CASE receipt[c] = None
            BY <2>1, <3>4, <5>2 DEF NewReceipts
          <5>3. CASE receipt[c] # None /\ plan[c].r.gen = receipt[c].gen + 1
            <6>1. receipt[c].gen \in Nat
              BY <3>5, <5>3 DEF Gen
            <6>. QED BY <3>4, <5>3, <6>1
          <5>. QED BY <3>5, <5>1, <5>2, <5>3 DEF Gen
        <4>. QED BY <2>4, <4>1, <4>2, <4>3
      <3>8. \A d \in Chains : \A h, g \in history'[d] : h.gen = g.gen => h = g
        BY <2>4, <3>7 DEF IInv, HistoryOK, Succeeds
      <3>9. \A d \in Chains : \A h \in history'[d] :
              h.gen = 1 \/ \E p \in history'[d] : p.gen + 1 = h.gen /\ h.prior = Hash(p)
        BY <2>4, <3>2, <3>6
      <3>. QED BY <2>6, <3>8, <3>9 DEF HistoryOK, Succeeds
    <2>16. MarksOK'
      BY <1>1, <2>6, <2>7, <2>9 DEF IInv, MarksOK
    <2>17. MarkerOK'
      <3>1. marker # None => marker.chain \in Chains
        BY NoneIsAbsence DEF IInv, TypeOK, Marker
      <3>. QED BY <2>6, <2>7, <2>9, <3>1 DEF IInv, MarkerOK
    <2>. QED BY <2>6, <2>8, <2>10, <2>11, <2>12, <2>13, <2>14, <2>15, <2>16, <2>17 DEF IInv
  <1>. QED BY <1>2, <1>5, <1>6 DEF RecordHistory, GoTo

\* What a counted and completed plan says of its receipt
LEMMA CountedReceipt ==
  ASSUME IInv, NEW c \in Chains, plan[c] # None, plan[c].complete, NEW r, r = plan[c].r,
         meta[c].gen = r.gen \/ meta[c] = EmptyMeta
  PROVE  /\ r.omitted > 0 => meta[c].gen = r.gen
         /\ meta[c].head # NoEntry => meta[c].gen = r.gen
         /\ meta[c].gen = 0 => r.omitted = 0
         /\ r.omitted > 0 =>
              /\ signed[r.last].chain = c
              /\ r.cutoff < NextOrd
              /\ \A k \in ChainKeys(c) : r.cutoff < k.ord
              /\ meta[c].omitted # Unknown => signed[r.last].at = meta[c].omitted
  <1>1. /\ r.omitted \in Nat /\ r.gen \in Nat /\ r.gen > 0 /\ meta[c].gen \in Nat
        /\ meta[c].omitted \in Nat /\ ReceiptOK(r) /\ Cuts(c, r)
    BY PlanFacts
  <1>2. r.omitted > 0 => meta[c].head # NoEntry
    BY DEF IInv, PlanOK
  <1>3. meta[c].head # NoEntry => meta[c].gen = r.gen
    BY DEF EmptyMeta
  <1>4. meta[c].gen = 0 => r.omitted = 0
    BY <1>1, <1>2, <1>3
  <1>5. ASSUME r.omitted > 0
        PROVE  /\ signed[r.last].chain = c
               /\ r.cutoff < NextOrd
               /\ \A k \in ChainKeys(c) : r.cutoff < k.ord
               /\ meta[c].omitted # Unknown => signed[r.last].at = meta[c].omitted
    <2>1. signed[r.last].chain = c /\ r.cutoff \in Nat /\ r.last \in Ids
      BY <1>1, <1>5 DEF Cuts, ReceiptOK
    <2>2. PICK k \in ChainKeys(c) : r.cutoff < k.ord
      BY <1>1, <1>5 DEF Cuts
    <2>3. k \in index /\ k.ord \in Nat /\ k.ord < NextOrd
      BY DEF ChainKeys, IInv, TypeOK, IndexOK
    <2>4. r.cutoff < NextOrd
      BY <2>1, <2>2, <2>3, Positions
    <2>5. \A l \in ChainKeys(c) : r.cutoff < l.ord
      BY <1>5 DEF IInv, PlanOK
    <2>6. ASSUME meta[c].omitted # Unknown
          PROVE  signed[r.last].at = meta[c].omitted
      <3>1. ~Uncounted(c)
        BY <1>2, <1>3, <1>5 DEF Uncounted
      <3>2. StartsAfter(c, meta[c].omitted)
        BY <2>6, <3>1 DEF IInv, TotalsOK
      <3>3. \A l \in ChainKeys(c) : signed[l.id].at \in Nat /\ l.ord \in Nat
        BY SignedRefs, Positions DEF ChainKeys, IInv, TypeOK
      <3>4. signed[r.last].at \in Nat
        BY <2>1, Positions
      <3>5. \A l \in ChainKeys(c) : signed[l.id].at > signed[r.last].at
        <4>. SUFFICES ASSUME NEW l \in ChainKeys(c)
                      PROVE  signed[l.id].at > signed[r.last].at
          OBVIOUS
        <4>1. l.ord <= r.cutoff <=> signed[l.id].at <= signed[r.last].at
          BY <1>1, <1>5 DEF Cuts
        <4>. QED BY <2>1, <2>5, <3>3, <3>4, <4>1
      <3>6. signed[k.id].at > meta[c].omitted
        BY <3>2 DEF StartsAfter
      <3>7. meta[c].omitted + 1 \in meta[c].omitted + 1 .. signed[k.id].at
        BY <1>1, <3>3, <3>6
      <3>8. PICK m \in ChainKeys(c) : signed[m.id].at = meta[c].omitted + 1
        BY <3>2, <3>7 DEF StartsAfter
      <3>9. signed[r.last].at + 1 \in signed[r.last].at + 1 .. signed[k.id].at
        BY <3>3, <3>4, <3>5
      <3>10. PICK n \in ChainKeys(c) : signed[n.id].at = signed[r.last].at + 1
        BY <1>1, <1>5, <3>9 DEF Cuts
      <3>11. signed[n.id].at > meta[c].omitted
        BY <3>2 DEF StartsAfter
      <3>. QED BY <1>1, <3>4, <3>5, <3>8, <3>10, <3>11
    <2>. QED BY <2>1, <2>4, <2>5, <2>6
  <1>. QED BY <1>2, <1>3, <1>4, <1>5

\* The receipt of the plan becomes the chain's.
LEMMA InstallReceiptStep ==
  ASSUME IInv, InstallReceipt
  PROVE  IInv'
  <1>1. PICK c, r : c = pruner.chain /\ r = plan[c].r
    OBVIOUS
  <1>2. /\ job # None /\ job.op = "prune" /\ job.step = "receipt"
        /\ job' = [job EXCEPT !.step = "unplan"]
        /\ receipt' = [receipt EXCEPT ![c] = r]
        /\ UNCHANGED <<atomic, entries, index, seq, head, meta, global, segs, intent, plan, mark,
                       cache, wr, pruner, marker, signed>>
        /\ UNCHANGED history
    BY <1>1 DEF InstallReceipt, Pruning, GoTo, store
  <1>3. c \in Chains /\ pruner # None
    BY <1>1, <1>2, NoHoles
  <1>4. /\ plan[c] # None /\ plan[c].complete /\ (meta[c].gen = r.gen \/ meta[c] = EmptyMeta)
        /\ r \in history[c]
    BY <1>1, <1>2 DEF IInv, PruneJobOK
  <1>5. /\ r \in Receipt /\ r # None /\ r.omitted \in Nat /\ r.gen \in Nat /\ r.gen > 0
        /\ Gen(receipt[c]) \in Nat /\ meta[c].gen \in Nat /\ ReceiptOK(r) /\ Cuts(c, r)
        /\ r = receipt[c] \/ r.gen = Gen(receipt[c]) + 1
    BY <1>1, <1>3, <1>4, PlanFacts
  <1>6. /\ receipt' \in [Chains -> Receipt \cup {None}] /\ receipt'[c] = r
        /\ \A d \in Chains : d # c => receipt'[d] = receipt[d]
    BY <1>2, <1>3, <1>5 DEF IInv, TypeOK
  <1>7. /\ r.omitted > 0 => meta[c].gen = r.gen
        /\ meta[c].head # NoEntry => meta[c].gen = r.gen
        /\ meta[c].gen = 0 => r.omitted = 0
        /\ r.omitted > 0 =>
             /\ signed[r.last].chain = c
             /\ r.cutoff < NextOrd
             /\ \A k \in ChainKeys(c) : r.cutoff < k.ord
             /\ meta[c].omitted # Unknown => signed[r.last].at = meta[c].omitted
    BY <1>1, <1>3, <1>4, CountedReceipt
  <1>8. /\ UNCHANGED <<atomic, entries, index, seq, head, meta, global, segs, intent, plan, mark,
                       cache, wr, pruner, marker, signed>>
    BY <1>2
  <1>9. /\ job' \in Job /\ job' # None /\ job'.op = "prune" /\ job'.step = "unplan"
        /\ SignedOK' /\ HeadsOK' /\ WritersOK' /\ OwnersOK' /\ IndexOK' /\ TopOK' /\ IntentOK'
        /\ AppendJobOK' /\ HolesOK' /\ PageOK' /\ PositionsExact'
        /\ NextOrd' = NextOrd /\ Ids' = Ids /\ Unknown' = Unknown
        /\ \A d \in Chains : ChainKeys(d)' = ChainKeys(d)
        /\ \A d \in Chains : \A pos, id, ord : Names(d, pos, id, ord)' = Names(d, pos, id, ord)
        /\ \A d \in Chains : Height(meta[d].head)' = Height(meta[d].head)
        /\ \A d \in Chains : \A q : /\ Cuts(d, q)' = Cuts(d, q)
                                    /\ Adds(d, q)' = Adds(d, q) /\ ReceiptOK(q)' = ReceiptOK(q)
        /\ \A d \in Chains : Uncounted(d)' = Uncounted(d)
        /\ \A d \in Chains : \A n : StartsAfter(d, n)' = StartsAfter(d, n)
        /\ \A q : Gen(q)' = Gen(q) /\ Hash(q)' = Hash(q)
    BY <1>2, <1>8, LastSteps
  <1>10. TypeOK'
    BY <1>2, <1>6, <1>9 DEF IInv, TypeOK
  <1>11. HistoryOK'
    BY <1>2, <1>9 DEF IInv, HistoryOK, Succeeds
  <1>12. /\ \A d \in Chains : d # c => Settled(d)' = Settled(d) /\ Known(d)' = Known(d)
         /\ Settled(c)' /\ Gen(r) = r.gen
    BY <1>1, <1>3, <1>5, <1>6, <1>8, <1>9 DEF Settled, Known, Gen
  <1>13. PlanOK'
    <2>. SUFFICES ASSUME NEW d \in Chains, plan[d] # None
                  PROVE  \/ plan[d].r = receipt'[d] /\ plan[d].complete
                         \/ plan[d].r.gen = Gen(receipt'[d]) + 1 /\ plan[d].r.prior = Hash(receipt'[d])
      BY <1>8, <1>9 DEF IInv, PlanOK, Gen, Hash
    <2>1. CASE d = c
      BY <1>1, <1>4, <1>6, <2>1
    <2>2. CASE d # c
      BY <1>6, <2>2 DEF IInv, PlanOK
    <2>. QED BY <2>1, <2>2
  <1>14. TotalsOK'
    <2>. SUFFICES ASSUME NEW d \in Chains
                  PROVE  /\ meta[d].gen = 0 => (receipt'[d] # None => receipt'[d].omitted = 0)
                         /\ meta[d].gen > 0 =>
                              \/ meta[d].gen = Gen(receipt'[d])
                              \/ plan[d] # None /\ meta[d].gen = plan[d].r.gen
      BY <1>8, <1>9 DEF IInv, TotalsOK, Gen
    <2>1. CASE d = c
      <3>1. meta[c].gen > 0 => meta[c].gen = r.gen
        BY <1>4 DEF EmptyMeta
      <3>. QED BY <1>1, <1>4, <1>6, <1>7, <2>1, <3>1
    <2>2. CASE d # c
      BY <1>6, <2>2 DEF IInv, TotalsOK
    <2>. QED BY <2>1, <2>2
  <1>15. ReceiptsOK'
    <2>. SUFFICES ASSUME NEW d \in Chains, receipt'[d] # None, NEW q, q = receipt'[d]
                  PROVE  /\ ReceiptOK(q) /\ q \in history[d]
                         /\ q.omitted > 0 =>
                              /\ signed[q.last].chain = d
                              /\ q.cutoff < NextOrd
                              /\ \A k \in ChainKeys(d) : q.cutoff < k.ord
                              /\ Settled(d)' /\ meta[d].omitted # Unknown =>
                                   signed[q.last].at = meta[d].omitted
      BY <1>2, <1>8, <1>9 DEF ReceiptsOK
    <2>1. CASE d = c
      BY <1>4, <1>5, <1>6, <1>7, <2>1
    <2>2. CASE d # c
      BY <1>6, <1>12, <2>2 DEF IInv, ReceiptsOK
    <2>. QED BY <2>1, <2>2
  <1>16. PrunerOK'
    <2>. SUFFICES ASSUME pruner.r # None, NEW q, q = pruner.r
                  PROVE  /\ ReceiptOK(q) /\ q.gen <= Gen(r) + 1
                         /\ q.gen = Gen(r) + 1 =>
                              q.prior = Hash(r) /\ Cuts(c, q) /\ Adds(c, q)
      <3>1. receipt'[c] = r
        BY <1>6
      <3>. QED BY <1>1, <1>3, <1>8, <1>9, <3>1 DEF PrunerOK, Gen, Hash
    <2>1. /\ ReceiptOK(q) /\ q.gen <= Gen(receipt[c]) + 1
          /\ q.gen = Gen(receipt[c]) + 1 =>
               q.prior = Hash(receipt[c]) /\ (Settled(c) => Cuts(c, q) /\ Adds(c, q))
      BY <1>1, <1>3 DEF IInv, PrunerOK
    <2>2. q.gen \in Nat
      BY <1>3, OwnerTypes DEF Pruner, Receipt
    <2>3. CASE r = receipt[c]
      BY <1>1, <2>1, <2>3 DEF Settled
    <2>4. CASE r.gen = Gen(receipt[c]) + 1
      BY <1>5, <1>12, <2>1, <2>2, <2>4
    <2>. QED BY <1>5, <2>3, <2>4
  <1>17. PruneJobOK'
    BY <1>1, <1>4, <1>6, <1>8, <1>9 DEF PruneJobOK, EmptyMeta
  <1>18. MarksOK'
    <2>1. ASSUME Known(c)
          PROVE  Known(c)'
      <3>1. meta[c].gen # 0
        BY <1>5, <1>7, <2>1 DEF Known
      <3>. QED BY <1>8, <1>9, <2>1, <3>1 DEF Known
    <2>2. \A d \in Chains : Known(d) => Known(d)'
      BY <1>12, <2>1
    <2>. QED BY <1>8, <1>9, <2>2 DEF IInv, MarksOK
  <1>19. MarkerOK'
    <2>1. marker # None => marker.chain \in Chains /\ marker.receipt \in Receipt \cup {None}
      BY NoneIsAbsence DEF IInv, TypeOK, Marker
    <2>. SUFFICES ASSUME marker # None, marker.pc \in {"locate", "install"}, NEW d \in Chains, d = marker.chain
                  PROVE  /\ Gen(marker.receipt) <= Gen(receipt'[d])
                         /\ Gen(marker.receipt) = Gen(receipt'[d]) => marker.receipt = receipt'[d]
                         /\ plan[d] = None /\ receipt'[d] = marker.receipt =>
                              /\ Known(d)'
                              /\ receipt[d] = marker.receipt
      BY <1>8, <1>9, <2>1 DEF IInv, MarkerOK, Gen
    <2>2. CASE d # c
      BY <1>6, <1>12, <2>2 DEF IInv, MarkerOK
    <2>3. CASE d = c
      <3>1. /\ Gen(marker.receipt) <= Gen(receipt[c])
            /\ Gen(marker.receipt) = Gen(receipt[c]) => marker.receipt = receipt[c]
        BY <2>3 DEF IInv, MarkerOK
      <3>2. Gen(marker.receipt) \in Nat
        BY <2>1 DEF Gen, Receipt
      <3>3. CASE r = receipt[c]
        BY <1>4, <1>6, <2>3, <3>1, <3>3
      <3>4. CASE r.gen = Gen(receipt[c]) + 1
        BY <1>4, <1>5, <1>6, <1>12, <2>3, <3>1, <3>2, <3>4
      <3>. QED BY <1>5, <3>3, <3>4
    <2>. QED BY <2>2, <2>3
  <1>. QED BY <1>9, <1>10, <1>11, <1>13, <1>14, <1>15, <1>16, <1>17, <1>18, <1>19 DEF IInv

\* The plan is deleted: the chain is settled again.
LEMMA RemovePlanStep ==
  ASSUME IInv, RemovePlan
  PROVE  IInv'
  <1>1. PICK c : c = pruner.chain
    OBVIOUS
  <1>2. /\ job # None /\ job.op = "prune" /\ job.step = "unplan" /\ job' = None
        /\ plan' = [plan EXCEPT ![c] = None]
    BY <1>1 DEF RemovePlan, Pruning
  <1>3. UNCHANGED <<atomic, entries, index, seq, head, meta, global, segs, intent, receipt,
                    history, mark, cache, marker, signed>>
    BY DEF RemovePlan, store
  <1>4. /\ \A k \in index : k.id \in entries
        /\ pruner # None /\ pruner \in Pruner /\ pruner.pc = "run" /\ c \in Chains
    BY <1>1, <1>2, NoHoles
  <1>5. plan[c] # None /\ plan[c].complete /\ receipt[c] = plan[c].r
    BY <1>1, <1>2 DEF IInv, PruneJobOK
  <1>6. /\ plan' \in [Chains -> Plan \cup {None}] /\ plan'[c] = None
        /\ \A d \in Chains : d # c => plan'[d] = plan[d]
    BY <1>2, <1>4 DEF IInv, TypeOK
  <1>7. /\ wr' \in [Writers -> Writer] /\ WritersOK' /\ OwnersOK'
        /\ pruner' = None \/ pruner' = pruner
    <2>1. CASE receipt[c] = pruner.r
      <3>1. EndPrune("retry") /\ UNCHANGED signed
        BY <1>1, <1>3, <2>1 DEF RemovePlan
      <3>. QED BY <1>2, <1>4, <3>1, EndPruneControl
    <2>2. CASE receipt[c] # pruner.r
      <3>1. UNCHANGED <<wr, pruner, signed>>
        BY <1>1, <1>3, <2>2 DEF RemovePlan
      <3>. QED BY <1>2, <3>1 DEF IInv, TypeOK, WritersOK, OwnersOK, Ids
    <2>. QED BY <2>1, <2>2
  <1>8. TypeOK'
    BY <1>2, <1>3, <1>4, <1>6, <1>7 DEF IInv, TypeOK, Ids
  <1>9. /\ NextOrd' = NextOrd /\ Ids' = Ids /\ Unknown' = Unknown
        /\ \A d \in Chains : ChainKeys(d)' = ChainKeys(d)
        /\ \A q : Gen(q)' = Gen(q) /\ Hash(q)' = Hash(q)
    BY <1>3 DEF NextOrd, IntentKey, Ids, ChainKeys, Unknown, Gen, Hash
  <1>10. SignedOK' /\ HeadsOK' /\ HistoryOK' /\ PositionsExact'
    BY <1>3, <1>9 DEF IInv, SignedOK, HeadsOK, HistoryOK, Succeeds, PositionsExact, EmptyMeta, Height
  <1>11. IndexOK'
    BY <1>3, <1>9 DEF IInv, IndexOK, SameChain
  <1>12. TopOK' /\ IntentOK'
    BY <1>3, <1>9 DEF IInv, TopOK, IntentOK, IntentKey, Height
  <1>13. AppendJobOK' /\ HolesOK' /\ PageOK' /\ PruneJobOK'
    BY <1>2, <1>3, <1>4 DEF AppendJobOK, HolesOK, PageOK, PruneJobOK, Pruning
  <1>14. /\ \A d \in Chains : \A q : /\ Cuts(d, q)' = Cuts(d, q)
                                     /\ Adds(d, q)' = Adds(d, q) /\ ReceiptOK(q)' = ReceiptOK(q)
         /\ \A d \in Chains : \A n : StartsAfter(d, n)' = StartsAfter(d, n)
    BY <1>3, <1>9 DEF Cuts, Adds, ReceiptOK, StartsAfter
  <1>15. Settled(c) /\ Settled(c)' /\ ~Uncounted(c)'
         /\ \A d \in Chains : d # c => Settled(d)' = Settled(d) /\ Uncounted(d)' = Uncounted(d)
    BY <1>3, <1>5, <1>6 DEF Settled, Uncounted
  <1>16. PlanOK'
    <2>. SUFFICES ASSUME NEW d \in Chains, plan'[d] # None
                  PROVE  plan'[d] = plan[d]
      BY <1>3, <1>9, <1>14 DEF IInv, PlanOK
    <2>. QED BY <1>6
  <1>17. TotalsOK'
    <2>. SUFFICES ASSUME NEW d \in Chains
                  PROVE  /\ meta[d].omitted # Unknown =>
                              IF Uncounted(d)' THEN Adds(d, plan'[d].r)
                              ELSE StartsAfter(d, meta[d].omitted)
                         /\ meta[d].gen > 0 =>
                              \/ meta[d].gen = Gen(receipt[d])
                              \/ plan'[d] # None /\ meta[d].gen = plan'[d].r.gen
      <3>1. \A d \in Chains : meta[d].gen = 0 =>
              meta[d].omitted = 0 /\ (receipt[d] # None => receipt[d].omitted = 0)
        BY DEF IInv, TotalsOK
      <3>. QED BY <1>3, <1>9, <1>14, <3>1 DEF TotalsOK, Adds, StartsAfter, Gen
    <2>1. CASE d = c
      <3>1. meta[c].omitted # Unknown => StartsAfter(c, meta[c].omitted)
        BY <1>4, <1>15, SettledCounted
      <3>2. receipt[c] # None
        BY <1>4, <1>5, PlanFacts
      <3>3. meta[c].gen > 0 => meta[c].gen = Gen(receipt[c])
        BY <1>4, <1>5, <3>2 DEF IInv, TotalsOK, Gen
      <3>. QED BY <1>15, <2>1, <3>1, <3>3
    <2>2. CASE d # c
      BY <1>6, <1>15, <2>2 DEF IInv, TotalsOK
    <2>. QED BY <2>1, <2>2
  <1>18. ReceiptsOK'
    <2>1. \A d \in Chains : Settled(d)' <=> Settled(d)
      BY <1>15
    <2>. QED BY <1>3, <1>9, <1>14, <2>1 DEF IInv, ReceiptsOK
  <1>19. PrunerOK'
    BY <1>1, <1>3, <1>4, <1>7, <1>9, <1>14, <1>15 DEF IInv, PrunerOK
  <1>20. /\ \A d \in Chains : Known(d)' = Known(d) /\ Height(meta[d].head)' = Height(meta[d].head)
         /\ \A d \in Chains : \A pos, id, ord : Names(d, pos, id, ord)' = Names(d, pos, id, ord)
    BY <1>3, <1>9 DEF Known, Height, Names
  <1>21. MarksOK'
    <2>1. \A d \in Chains : plan'[d] # None => plan'[d] = plan[d]
      BY <1>6
    <2>. QED BY <1>3, <1>20, <2>1 DEF IInv, MarksOK
  <1>22. MarkerOK'
    <2>1. marker # None => marker.chain \in Chains /\ marker.receipt \in Receipt \cup {None}
      BY NoneIsAbsence DEF IInv, TypeOK, Marker
    <2>. SUFFICES ASSUME marker # None, marker.pc \in {"locate", "install"}, NEW d \in Chains, d = marker.chain
                  PROVE  /\ plan'[d] # None => plan'[d] = plan[d]
                         /\ plan'[d] = None /\ receipt[d] = marker.receipt => plan[d] = None
      BY <1>3, <1>9, <1>20, <2>1 DEF IInv, MarkerOK
    <2>2. CASE d = c
      <3>1. Gen(marker.receipt) < receipt[c].gen
        BY <1>5, <2>2 DEF IInv, MarkerOK
      <3>2. receipt[c] # None /\ receipt[c].gen \in Nat
        BY <1>4, <1>5, PlanFacts
      <3>3. receipt[c] # marker.receipt
        BY <3>1, <3>2 DEF Gen
      <3>. QED BY <1>6, <2>2, <3>3
    <2>3. CASE d # c
      BY <1>6, <2>3
    <2>. QED BY <2>2, <2>3
  <1>. QED BY <1>7, <1>8, <1>10, <1>11, <1>12, <1>13, <1>16, <1>17, <1>18, <1>19, <1>21, <1>22 DEF IInv

-----------------------------------------------------------------------------
(* Watermarks *)

\* A step of a mark touches nothing else but the hold.
LEMMA MarkFrame ==
  ASSUME IInv, UNCHANGED Data, UNCHANGED <<job, pruner, wr, head, cache, segs>>,
         global' \in Global, marker' \in Marker \cup {None}, mark' \in [Chains -> Mark \cup {None}],
         MarksOK', MarkerOK'
  PROVE  IInv'
  <1>1. UNCHANGED <<atomic, entries, index, seq, meta, intent, plan, receipt, history, signed>>
    BY DEF Data
  <1>2. TypeOK'
    BY <1>1 DEF IInv, TypeOK, Ids
  <1>3. HeadsOK' /\ WritersOK' /\ OwnersOK'
    BY <1>1 DEF IInv, HeadsOK, WritersOK, OwnersOK, Ids, EmptyMeta
  <1>. QED BY <1>2, <1>3, DataFrame, JobFrame DEF IInv

\* Positions and predicates of the marks that such a step does not touch
LEMMA MarkTerms ==
  ASSUME UNCHANGED Data
  PROVE  /\ \A d \in Chains : Known(d)' = Known(d) /\ Height(meta[d].head)' = Height(meta[d].head)
         /\ \A d \in Chains : \A pos, id, ord : Names(d, pos, id, ord)' = Names(d, pos, id, ord)
         /\ \A q : Gen(q)' = Gen(q)
  <1>1. NextOrd' = NextOrd
    BY DEF NextOrd, Data, IntentKey
  <1>2. \A c \in Chains : ChainKeys(c)' = ChainKeys(c)
    BY DEF ChainKeys, Data
  <1>. QED BY <1>1, <1>2 DEF Known, Names, Height, Unknown, Ids, Gen, Data

\* What a mark verified stays verified under a new location.
MarkedAt(m, c) ==
  /\ m.mark = mark[c]
  /\ mark[c] # None => mark[c].pos < m.pos
  /\ Gen(m.receipt) <= Gen(receipt[c])
  /\ Gen(m.receipt) = Gen(receipt[c]) => m.receipt = receipt[c]
  /\ plan[c] # None => Gen(m.receipt) < plan[c].r.gen
  /\ meta[c].head # NoEntry /\ m.pos <= Height(meta[c].head)
  /\ plan[c] = None /\ receipt[c] = m.receipt =>
       /\ Known(c)
       /\ m.omitted = meta[c].omitted /\ m.omitted <= m.pos
       /\ m.pc = "install" => Names(c, m.pos, m.id, m.ord)

\* A step of a mark up to its installation
LEMMA MarkMoves ==
  ASSUME IInv, UNCHANGED Data, UNCHANGED <<job, pruner, wr, head, cache, segs, global, mark>>,
         NEW m, m \in Marker, marker' = m, MarkedAt(m, m.chain)
  PROVE  IInv'
  <1>1. global' \in Global /\ mark' \in [Chains -> Mark \cup {None}]
    BY DEF IInv, TypeOK
  <1>2. MarksOK'
    BY DataFrame
  <1>3. UNCHANGED <<meta, plan, receipt>>
    BY DEF Data
  <1>4. m.chain \in Chains
    BY DEF Marker
  <1>5. MarkerOK'
    BY <1>3, <1>4, MarkTerms DEF MarkerOK, MarkedAt
  <1>. QED BY <1>1, <1>2, <1>5, MarkFrame

\* A mark reads the positions it will verify.
LEMMA StartMarkStep ==
  ASSUME IInv, NEW c \in Certified, NEW pos \in 1 .. MaxEntries, StartMark(c, pos)
  PROVE  IInv'
  <1>1. c \in Chains /\ pos \in Nat
    BY AuditAssumption
  <1>2. PICK m : m = [pc |-> "locate", chain |-> c, pos |-> pos, omitted |-> Omitted(c, FALSE),
                      receipt |-> receipt[c], mark |-> mark[c], id |-> NoEntry, ord |-> None]
    OBVIOUS
  <1>3. /\ marker' = m /\ plan[c] = None /\ meta[c] # EmptyMeta /\ Omitted(c, FALSE) # Unknown
        /\ pos \in Larger(1, Omitted(c, FALSE)) .. Omitted(c, FALSE) + meta[c].count
        /\ Advances(c, pos)
        /\ UNCHANGED <<job, pruner, wr, head, cache, segs, global, mark>>
    BY <1>2 DEF StartMark, store
  <1>4. UNCHANGED Data
    BY DEF StartMark, store, pruneStore, Data
  <1>5. meta[c].head # NoEntry
    BY <1>1, <1>3 DEF IInv, HeadsOK
  <1>6. Known(c) /\ Omitted(c, FALSE) = meta[c].omitted
    BY <1>1, <1>3, <1>5, OmittedKnown
  <1>7. PICK n \in Nat : n = meta[c].omitted
    BY <1>1 DEF IInv, TypeOK, Meta
  <1>8. meta[c].count \in Nat /\ Height(meta[c].head) = n + meta[c].count
    <2>1. meta[c].count \in Nat
      BY <1>1 DEF IInv, TypeOK, Meta
    <2>2. meta[c].omitted # Unknown
      BY <1>6 DEF Known
    <2>. QED BY <1>1, <1>5, <1>7, <2>1, <2>2 DEF IInv, PositionsExact, Height
  <1>9. n <= pos /\ pos <= Height(meta[c].head)
    <2>1. pos \in Larger(1, n) .. n + meta[c].count
      BY <1>3, <1>6, <1>7
    <2>2. Larger(1, n) \in Nat /\ n <= Larger(1, n)
      BY DEF Larger
    <2>. QED BY <1>1, <1>8, <2>1, <2>2
  <1>10. receipt[c] \in Receipt \cup {None} /\ mark[c] \in Mark \cup {None}
    BY <1>1 DEF IInv, TypeOK
  <1>11. m \in Marker
    BY <1>1, <1>2, <1>6, <1>7, <1>10 DEF Marker, NoEntry
  <1>12. /\ m.chain = c /\ m.pos = pos /\ m.omitted = n /\ m.receipt = receipt[c]
         /\ m.mark = mark[c] /\ m.pc = "locate"
    BY <1>2, <1>6, <1>7
  <1>13. Gen(receipt[c]) \in Nat
    BY <1>10 DEF Gen, Receipt
  <1>14. mark[c] # None => mark[c].pos < pos
    <2>1. mark[c] # None => mark[c].pos \in Nat
      BY <1>10 DEF Mark
    <2>. QED BY <1>1, <1>3, <2>1 DEF Advances
  <1>15. MarkedAt(m, c)
    BY <1>3, <1>5, <1>6, <1>7, <1>9, <1>12, <1>13, <1>14 DEF MarkedAt
  <1>. QED BY <1>3, <1>4, <1>11, <1>12, <1>15, MarkMoves

\* The keys after a watermark of a settled chain follow it without a gap.
LEMMA OnwardSpan ==
  ASSUME IInv, NEW c \in Chains, Settled(c), mark[c] # None, NEW S,
         S = {k \in ChainKeys(c) : k.ord > mark[c].ord}, S # {}
  PROVE  \E b \in Nat : mark[c].pos < b /\ Spans(S, mark[c].pos, b)
  <1>1. /\ Known(c) /\ Names(c, mark[c].pos, mark[c].id, mark[c].ord)
        /\ meta[c].omitted <= mark[c].pos
    BY DEF IInv, MarksOK
  <1>2. PICK a \in Nat : a = mark[c].pos
    BY DEF IInv, TypeOK, Mark
  <1>3. StartsAfter(c, meta[c].omitted) /\ meta[c].omitted \in Nat
    BY <1>1, SettledCounted DEF Known, IInv, TypeOK, Meta
  <1>4. S \in SUBSET ChainKeys(c) /\ mark[c].ord \in Nat
    BY <1>1 DEF Names
  <1>5. \A k \in ChainKeys(c) : k.ord \in Nat /\ signed[k.id].at \in Nat
    BY SignedRefs, Positions DEF ChainKeys, IInv, TypeOK
  <1>6. \A k \in ChainKeys(c) : k \in S <=> signed[k.id].at > a
    BY <1>1, <1>2, <1>4, <1>5 DEF Names
  <1>7. ASSUME NEW l \in S, NEW p \in a + 1 .. signed[l.id].at
        PROVE  \E m \in S : signed[m.id].at = p
    <2>1. l \in ChainKeys(c) /\ signed[l.id].at \in Nat
      BY <1>4, <1>5
    <2>2. p \in meta[c].omitted + 1 .. signed[l.id].at
      BY <1>1, <1>2, <1>3, <2>1
    <2>3. PICK m \in ChainKeys(c) : signed[m.id].at = p
      BY <1>3, <2>1, <2>2 DEF StartsAfter
    <2>4. m \in S
      BY <1>6, <2>1, <2>3
    <2>. QED BY <2>3, <2>4
  <1>8. \E b \in Nat : a < b /\ Spans(S, a, b)
    BY <1>4, <1>6, <1>7, SpanFrom
  <1>. QED BY <1>2, <1>8

\* A located key names its position.
LEMMA KeyNames ==
  ASSUME IInv, NEW c \in Chains, NEW o \in ChainKeys(c), NEW pos, signed[o.id].at = pos
  PROVE  Names(c, pos, o.id, o.ord)
  <1>1. o \in index /\ o.id \in Ids /\ o.ord \in Nat /\ signed[o.id].chain = c
    BY SignedRefs DEF ChainKeys, IInv, TypeOK
  <1>2. o.ord < NextOrd
    BY <1>1 DEF IInv, IndexOK
  <1>3. \A k \in ChainKeys(c) : o.ord < k.ord <=> pos < signed[k.id].at
    BY <1>1 DEF ChainKeys, IInv, IndexOK, SameChain
  <1>. QED BY <1>1, <1>2, <1>3 DEF Names

\* The located entry is at its position unless a prune came in between.
LEMMA LocatePositionStep ==
  ASSUME IInv, LocatePosition
  PROVE  IInv'
  <1>1. /\ marker # None /\ marker.pc = "locate"
        /\ UNCHANGED <<job, pruner, wr, head, cache, segs, global, mark>>
    BY DEF LocatePosition, store
  <1>2. UNCHANGED Data
    BY DEF LocatePosition, store, pruneStore, Data
  <1>3. PICK m, c : m = marker /\ c = m.chain
    OBVIOUS
  <1>4. /\ m \in Marker /\ c \in Chains /\ m.pos \in Nat /\ m.omitted \in Nat
        /\ m.receipt \in Receipt \cup {None} /\ m.mark \in Mark \cup {None}
    BY <1>1, <1>3 DEF IInv, TypeOK, Marker
  <1>5. MarkedAt(m, c)
    BY <1>1, <1>3 DEF IInv, MarkerOK, MarkedAt
  <1>6. ASSUME NEW id \in Nat, NEW ord \in Nat \cup {None},
               marker' = [m EXCEPT !.pc = "install", !.ord = ord, !.id = id],
               plan[c] = None /\ receipt[c] = m.receipt => Names(c, m.pos, id, ord)
        PROVE  IInv'
    <2>1. PICK n : n = [m EXCEPT !.pc = "install", !.ord = ord, !.id = id]
      OBVIOUS
    <2>2. /\ n \in Marker /\ n.chain = c /\ n.pos = m.pos /\ n.omitted = m.omitted
          /\ n.receipt = m.receipt /\ n.mark = m.mark /\ n.id = id /\ n.ord = ord
      BY <1>3, <1>4, <2>1 DEF Marker
    <2>3. MarkedAt(n, c)
      BY <1>5, <1>6, <2>2 DEF MarkedAt
    <2>. QED BY <1>1, <1>2, <1>6, <2>1, <2>2, <2>3, MarkMoves
  <1>7. CASE marker' = None
    <2>1. global' \in Global /\ mark' \in [Chains -> Mark \cup {None}]
      BY <1>1 DEF IInv, TypeOK
    <2>2. MarksOK'
      BY <1>1, <1>2, DataFrame
    <2>3. MarkerOK'
      BY <1>7 DEF MarkerOK
    <2>. QED BY <1>1, <1>2, <1>7, <2>1, <2>2, <2>3, MarkFrame
  <1>8. CASE /\ m.pos = m.omitted /\ m.receipt # None /\ m.receipt.last # NoEntry
             /\ marker' = [m EXCEPT !.pc = "install", !.ord = m.receipt.cutoff,
                                    !.id = m.receipt.last]
    <2>1. PICK id \in Nat, ord \in Nat \cup {None} : id = m.receipt.last /\ ord = m.receipt.cutoff
      BY <1>4, <1>8 DEF Receipt
    <2>2. marker' = [m EXCEPT !.pc = "install", !.ord = ord, !.id = id]
      BY <1>8, <2>1
    <2>3. ASSUME plan[c] = None, receipt[c] = m.receipt
          PROVE  Names(c, m.pos, id, ord)
      <3>1. Known(c) /\ m.omitted = meta[c].omitted
        BY <1>5, <2>3 DEF MarkedAt
      <3>2. Settled(c) /\ meta[c].omitted # Unknown
        BY <2>3, <3>1 DEF Settled, Known
      <3>3. ReceiptOK(m.receipt) /\ m.receipt.omitted \in Nat
        BY <1>4, <1>8, <2>3 DEF IInv, ReceiptsOK, Receipt
      <3>4. m.receipt.omitted > 0 /\ ord \in Nat /\ id \in Ids
        BY <1>8, <2>1, <3>3 DEF ReceiptOK
      <3>5. /\ signed[id].chain = c /\ ord < NextOrd /\ signed[id].at = m.pos
            /\ \A k \in ChainKeys(c) : ord < k.ord
        BY <1>4, <1>8, <2>1, <2>3, <3>1, <3>2, <3>4 DEF IInv, ReceiptsOK
      <3>6. \A k \in ChainKeys(c) : m.pos < signed[k.id].at
        <4>1. StartsAfter(c, meta[c].omitted)
          BY <1>4, <3>2, SettledCounted
        <4>2. \A k \in ChainKeys(c) : signed[k.id].at \in Nat
          BY SignedRefs, Positions DEF ChainKeys
        <4>. QED BY <1>4, <1>8, <3>1, <4>1, <4>2 DEF StartsAfter
      <3>. QED BY <3>4, <3>5, <3>6 DEF Names
    <2>. QED BY <1>6, <2>2, <2>3
  <1>9. PICK onward, rest, keys, n :
          /\ onward = (m.mark # None /\ m.mark.pos >= m.omitted)
          /\ rest = IF onward THEN {k \in index : k.ord > m.mark.ord} ELSE index
          /\ keys = {k \in rest : signed[k.id].chain = c}
          /\ n = m.pos - (IF onward THEN m.mark.pos ELSE m.omitted)
    OBVIOUS
  <1>10. CASE /\ m.pos # m.omitted /\ n \in 1 .. Cardinality(keys)
              /\ marker' = [m EXCEPT !.pc = "install", !.ord = Nth(keys, n).ord,
                                     !.id = Nth(keys, n).id]
    <2>1. /\ m.mark # None /\ m.mark.pos >= m.omitted =>
               keys = {k \in ChainKeys(c) : k.ord > m.mark.ord} /\ n = m.pos - m.mark.pos
          /\ ~(m.mark # None /\ m.mark.pos >= m.omitted) =>
               keys = ChainKeys(c) /\ n = m.pos - m.omitted
      BY <1>9 DEF ChainKeys
    <2>2. keys \in SUBSET ChainKeys(c) /\ \A k \in keys, l \in ChainKeys(c) : k.ord < l.ord => l \in keys
      <3>1. CASE m.mark # None /\ m.mark.pos >= m.omitted
        <4>1. m.mark.ord \in Nat /\ \A k \in ChainKeys(c) : k.ord \in Nat
          BY <1>4, <3>1 DEF Mark, ChainKeys, IInv, TypeOK
        <4>. QED BY <2>1, <3>1, <4>1
      <3>2. CASE ~(m.mark # None /\ m.mark.pos >= m.omitted)
        BY <2>1, <3>2
      <3>. QED BY <3>1, <3>2
    <2>3. keys # {}
      <3>1. Cardinality({}) = 0
        BY FS_EmptySet
      <3>. QED BY <1>10, <3>1
    <2>4. PICK a \in Nat, b \in Nat :
            /\ a < b /\ Spans(keys, a, b)
            /\ plan[c] = None /\ receipt[c] = m.receipt => n = m.pos - a
      <3>1. CASE ~(plan[c] = None /\ receipt[c] = m.receipt)
        <4>1. \E a \in Nat, b \in Nat : a < b /\ Spans(keys, a, b)
          BY <1>4, <2>2, <2>3, SpanExists
        <4>. QED BY <3>1, <4>1
      <3>2. CASE plan[c] = None /\ receipt[c] = m.receipt
        <4>1. Known(c) /\ m.omitted = meta[c].omitted /\ m.mark = mark[c]
          BY <1>5, <3>2 DEF MarkedAt
        <4>2. Settled(c) /\ meta[c].omitted # Unknown
          BY <3>2, <4>1 DEF Settled, Known
        <4>3. CASE m.mark # None /\ m.mark.pos >= m.omitted
          <5>1. \E b \in Nat : mark[c].pos < b /\ Spans(keys, mark[c].pos, b)
            BY <1>4, <2>1, <2>3, <4>1, <4>2, <4>3, OnwardSpan
          <5>2. mark[c].pos \in Nat
            BY <1>4, <4>1, <4>3 DEF Mark
          <5>. QED BY <2>1, <4>1, <4>3, <5>1, <5>2
        <4>4. CASE ~(m.mark # None /\ m.mark.pos >= m.omitted)
          <5>1. \E a \in Nat, b \in Nat : /\ a < b /\ Spans(ChainKeys(c), a, b)
                                          /\ a = meta[c].omitted
            BY <1>4, <2>1, <2>3, <4>2, <4>4, ChainSpan
          <5>. QED BY <2>1, <4>1, <4>4, <5>1
        <4>. QED BY <4>3, <4>4
      <3>. QED BY <3>1, <3>2
    <2>5. n \in 1 .. b - a /\ a <= b
      BY <1>10, <2>4, SpanNth
    <2>6. Nth(keys, n) \in keys /\ signed[Nth(keys, n).id].at = a + n
      BY <2>4, <2>5, SpanNth
    <2>7. PICK o \in ChainKeys(c) : o = Nth(keys, n)
      BY <2>2, <2>6
    <2>8. o.id \in Nat /\ o.ord \in Nat
      BY SignedRefs DEF ChainKeys, IInv, TypeOK, Ids
    <2>9. PICK id \in Nat, ord \in Nat \cup {None} : id = o.id /\ ord = o.ord
      BY <2>8
    <2>10. marker' = [m EXCEPT !.pc = "install", !.ord = ord, !.id = id]
      BY <1>10, <2>7, <2>9
    <2>11. ASSUME plan[c] = None, receipt[c] = m.receipt
           PROVE  Names(c, m.pos, id, ord)
      <3>1. signed[o.id].at = m.pos
        BY <1>4, <2>4, <2>5, <2>6, <2>7, <2>11
      <3>. QED BY <1>4, <2>9, <3>1, KeyNames
    <2>. QED BY <1>6, <2>10, <2>11
  <1>. QED BY <1>3, <1>7, <1>8, <1>9, <1>10 DEF LocatePosition

\* A mark is installed only if no prune came in between.
LEMMA InstallMarkStep ==
  ASSUME IInv, InstallMark
  PROVE  IInv'
  <1>1. /\ marker # None /\ marker.pc = "install"
        /\ UNCHANGED <<job, pruner, wr, head, cache, segs, global>>
    BY DEF InstallMark, store
  <1>2. UNCHANGED Data
    BY DEF InstallMark, store, pruneStore, Data
  <1>3. PICK m, c : m = marker /\ c = m.chain
    OBVIOUS
  <1>4. m \in Marker /\ c \in Chains /\ m.pos \in Nat /\ m.id \in Nat
    BY <1>1, <1>3 DEF IInv, TypeOK, Marker
  <1>5. global' \in Global /\ mark \in [Chains -> Mark \cup {None}]
    BY <1>1 DEF IInv, TypeOK
  <1>6. CASE MarkCurrent(c)
    <2>1. /\ plan[c] = None /\ receipt[c] = m.receipt
      BY <1>3, <1>6 DEF MarkCurrent
    <2>2. /\ Known(c) /\ meta[c].omitted <= m.pos /\ m.pos <= Height(meta[c].head)
          /\ Names(c, m.pos, m.id, m.ord)
      BY <1>1, <1>3, <2>1 DEF IInv, MarkerOK
    <2>3. PICK k : k = [pos |-> m.pos, id |-> m.id, ord |-> m.ord]
      OBVIOUS
    <2>4. mark' = [mark EXCEPT ![c] = k] /\ marker' = [m EXCEPT !.pc = "clear"]
      BY <1>3, <1>6, <2>3 DEF InstallMark
    <2>5. k \in Mark /\ k # None /\ k.pos = m.pos /\ k.id = m.id /\ k.ord = m.ord
      <3>1. m.ord \in Nat
        BY <2>2 DEF Names
      <3>2. k \in Mark /\ k.pos = m.pos /\ k.id = m.id /\ k.ord = m.ord
        BY <1>4, <2>3, <3>1 DEF Mark
      <3>. QED BY <3>2, NoneIsAbsence
    <2>6. /\ mark' \in [Chains -> Mark \cup {None}] /\ mark'[c] = k
          /\ \A d \in Chains : d # c => mark'[d] = mark[d]
      BY <1>4, <1>5, <2>4, <2>5
    <2>7. marker' \in Marker /\ marker'.pc = "clear"
      BY <1>4, <2>4 DEF Marker
    <2>8. MarkerOK'
      BY <2>7 DEF MarkerOK
    <2>9. UNCHANGED <<meta, plan, signed>>
      BY <1>2 DEF Data
    <2>10. MarksOK'
      <3>. SUFFICES ASSUME NEW d \in Chains, mark'[d] # None
                    PROVE  /\ Known(d)
                           /\ Names(d, mark'[d].pos, mark'[d].id, mark'[d].ord)
                           /\ meta[d].omitted <= mark'[d].pos
                           /\ mark'[d].pos <= Height(meta[d].head)
                           /\ plan[d] # None /\ plan[d].r.omitted > 0 =>
                                signed[plan[d].r.last].at <= mark'[d].pos
        BY <1>2, <2>9, MarkTerms DEF MarksOK
      <3>1. CASE d = c
        BY <2>1, <2>2, <2>5, <2>6, <3>1
      <3>2. CASE d # c
        BY <2>6, <3>2 DEF IInv, MarksOK
      <3>. QED BY <3>1, <3>2
    <2>. QED BY <1>1, <1>2, <1>5, <2>6, <2>7, <2>8, <2>10, MarkFrame
  <1>7. CASE ~MarkCurrent(c)
    <2>1. marker' = None /\ UNCHANGED mark
      BY <1>3, <1>7 DEF InstallMark
    <2>2. MarksOK'
      BY <1>2, <2>1, DataFrame
    <2>3. MarkerOK'
      BY <2>1 DEF MarkerOK
    <2>. QED BY <1>1, <1>2, <1>5, <2>1, <2>2, <2>3, MarkFrame
  <1>. QED BY <1>6, <1>7

\* A mark takes the durable lock to recover an interrupted append before it
\* clears the hold.
LEMMA RecoverForClearStep ==
  ASSUME IInv, RecoverForClear
  PROVE  IInv'
  <1>1. /\ job = None /\ intent # None /\ marker # None
        /\ job' = [op |-> "recover", by |-> None, step |-> "entry"]
        /\ marker' = [marker EXCEPT !.pc = "unhold"]
        /\ UNCHANGED Data /\ UNCHANGED <<mark, head, segs, cache, global, wr, pruner>>
    BY DEF RecoverForClear, Locked, Data, store, pruneStore
  <1>2. UNCHANGED <<atomic, entries, index, seq, meta, intent, plan, receipt, history, signed>>
    BY <1>1 DEF Data
  <1>3. /\ job' # None /\ job' \in Job /\ job'.op = "recover" /\ job'.by = None
        /\ job'.step = "entry"
    BY <1>1, NoneIsAbsence DEF Job, AppendSteps
  <1>4. marker' \in Marker /\ marker'.pc = "unhold"
    BY <1>1 DEF IInv, TypeOK, Marker
  <1>5. TypeOK'
    BY <1>1, <1>2, <1>3, <1>4 DEF IInv, TypeOK, Ids
  <1>6. HeadsOK' /\ WritersOK' /\ OwnersOK'
    BY <1>1, <1>2, <1>3 DEF IInv, HeadsOK, WritersOK, OwnersOK, Ids, EmptyMeta
  <1>7. AppendJobOK' /\ PruneJobOK' /\ PageOK'
    BY <1>1, <1>2 DEF AppendJobOK, PruneJobOK, PageOK, Pruning
  <1>8. HolesOK'
    BY <1>1, <1>2 DEF IInv, HolesOK, SameChain, Pruning
  <1>9. PrunerOK'
    BY <1>1, PrunerFrame DEF Data, KeyData
  <1>10. MarkerOK'
    BY <1>4 DEF MarkerOK
  <1>. QED BY <1>1, <1>5, <1>6, <1>7, <1>8, <1>9, <1>10, DataFrame DEF IInv

\* A mark ends by clearing the hold.
LEMMA ClearHoldStep ==
  ASSUME IInv, ClearHold
  PROVE  IInv'
  <1>1. /\ marker' = None /\ UNCHANGED <<job, pruner, wr, head, cache, segs, mark>>
        /\ global' = [global EXCEPT !.hold = @ /\ intent # None]
    BY DEF ClearHold
  <1>2. UNCHANGED Data
    BY DEF ClearHold, pruneStore, Data
  <1>3. global' \in Global
    BY <1>1 DEF IInv, TypeOK, Global
  <1>4. mark' \in [Chains -> Mark \cup {None}]
    BY <1>1 DEF IInv, TypeOK
  <1>5. MarksOK'
    BY <1>1, <1>2, DataFrame
  <1>6. MarkerOK'
    BY <1>1 DEF MarkerOK
  <1>. QED BY <1>1, <1>2, <1>3, <1>4, <1>5, <1>6, MarkFrame

-----------------------------------------------------------------------------
(* The inductive invariant *)

\* An empty store, idle tasks and no signed entry satisfy the invariant.
LEMMA InitIInv ==
  Init => IInv
  <1>. SUFFICES ASSUME Init
                PROVE  IInv
    OBVIOUS
  <1>1. /\ entries = {} /\ index = {} /\ seq = 0 /\ segs = {}
        /\ atomic \in BOOLEAN /\ global = [total |-> 0, ord |-> 0, hold |-> FALSE]
        /\ intent = None /\ job = None /\ pruner = None /\ marker = None
        /\ signed = << >> /\ head = [c \in Chains |-> NoEntry] /\ cache = [c \in Chains |-> NoEntry]
        /\ meta = [c \in Chains |-> EmptyMeta] /\ plan = [c \in Chains |-> None]
        /\ receipt = [c \in Chains |-> None] /\ history = [c \in Chains |-> {}]
        /\ mark = [c \in Chains |-> None] /\ wr = [w \in Writers |-> Idle]
    BY DEF Init
  <1>2. signed \in Seq(Entry) /\ Len(signed) = 0 /\ Ids = {}
    BY <1>1 DEF Ids
  <1>3. EmptyMeta \in Meta /\ EmptyMeta.head = NoEntry /\ EmptyMeta.omitted = 0 /\ EmptyMeta.gen = 0
    BY DEF EmptyMeta, Meta, NoEntry
  <1>4. Idle \in Writer
    BY DEF Idle, Writer, WriterPc, NoEntry
  <1>5. TypeOK
    BY <1>1, <1>2, <1>3, <1>4 DEF TypeOK, Global, NoEntry
  <1>6. SignedOK /\ HeadsOK /\ WritersOK /\ OwnersOK
    BY <1>1, <1>2, <1>3, AuditAssumption DEF SignedOK, HeadsOK, WritersOK, OwnersOK
  <1>7. IsFiniteSet(index)
    BY <1>1, FS_EmptySet
  <1>8. IndexOK /\ TopOK /\ IntentOK /\ AppendJobOK /\ HolesOK
    BY <1>1, <1>3, <1>7 DEF IndexOK, TopOK, IntentOK, AppendJobOK, HolesOK
  <1>9. \A c \in Chains : ChainKeys(c) = {}
    BY <1>1 DEF ChainKeys
  <1>10. PlanOK /\ ReceiptsOK /\ HistoryOK
    BY <1>1 DEF PlanOK, ReceiptsOK, HistoryOK
  <1>11. TotalsOK
    <2>1. \A c \in Chains : ~Uncounted(c)
      BY <1>1 DEF Uncounted
    <2>2. \A c \in Chains : StartsAfter(c, meta[c].omitted)
      BY <1>9 DEF StartsAfter
    <2>3. \A c \in Chains : meta[c].gen = 0 /\ meta[c].omitted = 0 /\ receipt[c] = None
      BY <1>1, <1>3
    <2>. QED BY <2>1, <2>2, <2>3 DEF TotalsOK
  <1>12. PrunerOK /\ PruneJobOK /\ PageOK
    BY <1>1 DEF PrunerOK, PruneJobOK, PageOK, Pruning
  <1>13. MarksOK /\ MarkerOK /\ PositionsExact
    BY <1>1, <1>3 DEF MarksOK, MarkerOK, PositionsExact
  <1>. QED BY <1>5, <1>6, <1>8, <1>10, <1>11, <1>12, <1>13 DEF IInv

\* A step that changes nothing preserves it.
LEMMA StutterStep ==
  ASSUME IInv, UNCHANGED vars
  PROVE  IInv'
  <1>1. /\ UNCHANGED <<atomic, entries, index, seq, meta, intent, plan, receipt, history, signed>>
        /\ UNCHANGED <<job, pruner, wr, head, cache, segs, global, mark, marker>>
    BY DEF vars, store, pruneStore
  <1>2. UNCHANGED Data
    BY <1>1 DEF Data
  <1>3. global' \in Global /\ marker' \in Marker \cup {None} /\ mark' \in [Chains -> Mark \cup {None}]
    BY <1>1 DEF IInv, TypeOK
  <1>4. MarksOK' /\ MarkerOK'
    BY <1>1, <1>2, DataFrame
  <1>. QED BY <1>1, <1>2, <1>3, <1>4, MarkFrame

\* Every step of the writers, the store, the prunes, the marks and the faults
\* preserves it.
LEMMA NextIInv ==
  IInv /\ [Next]_vars => IInv'
  <1>. SUFFICES ASSUME IInv, [Next]_vars
                PROVE  IInv'
    OBVIOUS
  <1>1. ASSUME NEW w \in Writers, WriterStep(w)
        PROVE  IInv'
    <2>1. CASE (\E c \in Chains : StartAppend(w, c)) \/ RetryAppend(w)
      BY <2>1, StartAppendStep
    <2>2. CASE InvalidateHead(w)
      BY <2>2, InvalidateHeadStep
    <2>3. CASE PublishHead(w)
      BY <2>3, PublishHeadStep
    <2>4. CASE AppendRefused(w) \/ AppendAtCap(w)
      BY <2>4, AppendRefusedStep
    <2>5. CASE AppendBatch(w)
      BY <2>5, AppendBatchStep
    <2>6. CASE InstallIntent(w)
      BY <2>6, InstallIntentStep
    <2>7. CASE StartRecovery(w)
      BY <2>7, StartRecoveryStep
    <2>8. CASE RelieveCap(w)
      BY <2>8, RelieveCapStep
    <2>9. CASE SetHold(w)
      BY <2>9, SetHoldStep
    <2>. QED BY <1>1, <2>1, <2>2, <2>3, <2>4, <2>5, <2>6, <2>7, <2>8, <2>9 DEF WriterStep
  <1>2. CASE AppendStep
    <2>1. CASE WriteEntry
      BY <2>1, WriteEntryStep
    <2>2. CASE WriteSequence
      BY <2>2, WriteSequenceStep
    <2>3. CASE WriteIndex
      BY <2>3, WriteIndexStep
    <2>4. CASE WriteHead
      BY <2>4, WriteHeadStep
    <2>5. CASE WriteMeta
      BY <2>5, WriteMetaStep
    <2>6. CASE WriteSegment \/ WriteGlobal
      BY <2>6, WriteTotalsStep
    <2>7. CASE RemoveIntent
      BY <2>7, RemoveIntentStep
    <2>. QED BY <1>2, <2>1, <2>2, <2>3, <2>4, <2>5, <2>6, <2>7 DEF AppendStep
  <1>3. CASE PruneStep
    <2>1. ASSUME NEW c \in Chains, NEW n \in Retains, StartPrune(c, n)
          PROVE  IInv'
      BY <2>1, StartPruneStep
    <2>2. CASE ScanChain
      BY <2>2, ScanChainStep
    <2>3. CASE CheckReach
      BY <2>3, CheckReachStep
    <2>4. CASE ArchivePruned
      BY <2>4, ArchivePrunedStep
    <2>5. CASE CallPrune
      BY <2>5, CallPruneStep
    <2>6. CASE LoadPlan
      BY <2>6, LoadPlanStep
    <2>7. CASE ReadPage
      BY <2>7, ReadPageStep
    <2>8. CASE DeleteEntry
      BY <2>8, DeleteEntryStep
    <2>9. CASE DeleteKey
      BY <2>9, DeleteKeyStep
    <2>10. CASE SavePlan
      BY <2>10, SavePlanStep
    <2>11. CASE RetainChain
      BY <2>11, RetainChainStep
    <2>12. CASE AccountPruned \/ RemoveSegment
      BY <2>12, AccountPrunedStep
    <2>13. CASE RecordHistory
      BY <2>13, RecordHistoryStep
    <2>14. CASE InstallReceipt
      BY <2>14, InstallReceiptStep
    <2>15. CASE RemovePlan
      BY <2>15, RemovePlanStep
    <2>. QED BY <1>3, <2>1, <2>2, <2>3, <2>4, <2>5, <2>6, <2>7, <2>8, <2>9, <2>10, <2>11,
                <2>12, <2>13, <2>14, <2>15 DEF PruneStep
  <1>4. CASE MarkStep
    <2>1. ASSUME NEW c \in Certified, NEW pos \in 1 .. MaxEntries, StartMark(c, pos)
          PROVE  IInv'
      BY <2>1, StartMarkStep
    <2>2. CASE LocatePosition
      BY <2>2, LocatePositionStep
    <2>3. CASE InstallMark
      BY <2>3, InstallMarkStep
    <2>4. CASE RecoverForClear
      BY <2>4, RecoverForClearStep
    <2>5. CASE ClearHold
      BY <2>5, ClearHoldStep
    <2>. QED BY <1>4, <2>1, <2>2, <2>3, <2>4, <2>5 DEF MarkStep
  <1>5. CASE Fault
    BY <1>5, FailOperationStep, CrashStep DEF Fault
  <1>6. CASE UNCHANGED vars
    BY <1>6, StutterStep
  <1>. QED BY <1>1, <1>2, <1>3, <1>4, <1>5, <1>6 DEF Next

\* The invariant holds in every reachable state.
LEMMA AuditInv ==
  Spec => []IInv
  BY InitIInv, NextIInv, PTL DEF Spec

\* Type correctness: the stored records, the tasks and the operation under the
\* durable lock keep their shapes, and every stored identifier was signed.
THEOREM TypeCorrect ==
  Spec => []TypeOK
  <1>1. IInv => TypeOK
    BY DEF IInv
  <1>. QED BY <1>1, AuditInv, PTL

-----------------------------------------------------------------------------
(* The chains *)

\* On one chain the order of the keys is the order of the entries.
LEMMA KeyOrder ==
  ASSUME IInv, NEW c \in Chains, NEW k \in ChainKeys(c), NEW l \in ChainKeys(c)
  PROVE  /\ k.ord \in Nat /\ l.ord \in Nat /\ k.id \in Ids /\ l.id \in Ids
         /\ signed[k.id].at \in Nat /\ signed[l.id].at \in Nat
         /\ k.ord < l.ord <=> signed[k.id].at < signed[l.id].at
         /\ signed[k.id].at = signed[l.id].at => k = l
  <1>1. /\ k \in index /\ l \in index /\ k.id \in Ids /\ l.id \in Ids
        /\ signed[k.id].at \in Nat /\ signed[l.id].at \in Nat /\ k.ord \in Nat /\ l.ord \in Nat
    BY SignedRefs, Positions DEF ChainKeys, IInv, TypeOK
  <1>2. SameChain(k, l) /\ SameChain(l, k)
    BY DEF ChainKeys, SameChain
  <1>3. /\ k.ord < l.ord <=> signed[k.id].at < signed[l.id].at
        /\ l.ord < k.ord <=> signed[l.id].at < signed[k.id].at
    BY <1>1, <1>2 DEF IInv, IndexOK
  <1>4. k.ord = l.ord => k = l
    BY <1>1 DEF IInv, IndexOK
  <1>. QED BY <1>1, <1>3, <1>4

\* A key that is not the newest of its chain has a successor, whose entry is
\* stored: only the oldest key of a chain can have lost its entry.
LEMMA NextKey ==
  ASSUME IInv, NEW c \in Chains, NEW k \in ChainKeys(c), NEW n \in ChainKeys(c),
         signed[k.id].at < signed[n.id].at
  PROVE  \E l \in ChainKeys(c) : /\ signed[l.id].at = signed[k.id].at + 1
                                 /\ signed[l.id].prev = k.id
                                 /\ l.id \in entries
  <1>1. k \in index /\ n \in index /\ SameChain(k, n) /\ signed[k.id].chain = c
    BY DEF ChainKeys, SameChain
  <1>2. signed[k.id].at \in Nat /\ signed[n.id].at \in Nat
    BY KeyOrder
  <1>3. signed[k.id].at + 1 \in signed[k.id].at .. signed[n.id].at
    BY <1>2
  <1>4. PICK l \in index : SameChain(l, k) /\ signed[l.id].at = signed[k.id].at + 1
    BY <1>1, <1>3 DEF IInv, IndexOK
  <1>5. l \in ChainKeys(c) /\ SameChain(k, l)
    BY <1>1, <1>4 DEF ChainKeys, SameChain
  <1>6. signed[l.id].prev = k.id
    BY <1>1, <1>4, <1>5 DEF IInv, IndexOK
  <1>7. k.ord < l.ord /\ k.ord \in Nat /\ l.ord \in Nat
    BY <1>2, <1>4, <1>5, KeyOrder
  <1>8. l.id \in entries
    BY <1>1, <1>4, <1>7 DEF IInv, HolesOK
  <1>. QED BY <1>4, <1>5, <1>6, <1>8

\* The entry of an append that has not reached the index lies right after the
\* head, beyond every key of its chain.
LEMMA IntentBeyond ==
  ASSUME IInv, intent # None, \A k \in index : k.id # intent.id
  PROVE  /\ meta[intent.chain].head = signed[intent.id].prev
         /\ intent.chain \in Chains /\ signed[intent.id].chain = intent.chain
         /\ IntentKey \notin index
         /\ \A k \in ChainKeys(intent.chain) : signed[k.id].at < signed[intent.id].at
  <1>1. IntentKey \notin index
    BY DEF IntentKey
  <1>2. /\ meta[intent.chain].head = intent.expHead /\ signed[intent.id].prev = intent.expHead
        /\ signed[intent.id].chain = intent.chain /\ intent.id \in Ids
    BY <1>1 DEF IInv, IntentOK
  <1>3. intent.chain \in Chains
    BY SignedRefs
  <1>4. /\ signed[intent.id].at = Height(meta[intent.chain].head) + 1
        /\ Height(meta[intent.chain].head) \in Nat
    BY <1>2, <1>3, Positions DEF IInv, SignedOK
  <1>5. \A k \in ChainKeys(intent.chain) : /\ signed[k.id].at \in Nat
                                           /\ signed[k.id].at <= Height(meta[intent.chain].head)
    BY <1>1, SignedRefs, Positions DEF IInv, TopOK, ChainKeys
  <1>. QED BY <1>1, <1>2, <1>3, <1>4, <1>5

\* Two stored entries of a chain with the same predecessor are the same.
LEMMA NoForkInv ==
  ASSUME IInv
  PROVE  NoFork
  <1>. SUFFICES ASSUME NEW i \in entries, NEW j \in entries,
                       signed[i].chain = signed[j].chain, signed[i].prev = signed[j].prev
                PROVE  i = j
    BY DEF NoFork
  <1>1. i \in Ids /\ j \in Ids
    BY SignedRefs
  <1>2. PICK c \in Chains : c = signed[i].chain
    BY <1>1, Positions
  <1>3. signed[i].at = signed[j].at /\ signed[i].at \in Nat
    BY <1>1, Positions DEF IInv, SignedOK
  <1>4. CASE (\E k \in index : k.id = i) /\ \E l \in index : l.id = j
    <2>1. PICK k \in ChainKeys(c), l \in ChainKeys(c) : k.id = i /\ l.id = j
      BY <1>2, <1>4 DEF ChainKeys
    <2>. QED BY <1>3, <2>1, KeyOrder
  <1>5. CASE (\E k \in index : k.id = i) /\ intent # None /\ j = intent.id
                /\ \A l \in index : l.id # j
    <2>1. PICK k \in ChainKeys(c) : k.id = i
      BY <1>2, <1>5 DEF ChainKeys
    <2>2. intent.chain = c /\ signed[k.id].at < signed[j].at
      BY <1>2, <1>5, <2>1, IntentBeyond
    <2>. QED BY <1>3, <2>1, <2>2
  <1>6. CASE (\E l \in index : l.id = j) /\ intent # None /\ i = intent.id
                /\ \A k \in index : k.id # i
    <2>1. PICK l \in ChainKeys(c) : l.id = j
      BY <1>2, <1>6 DEF ChainKeys
    <2>2. intent.chain = c /\ signed[l.id].at < signed[i].at
      BY <1>2, <1>6, <2>1, IntentBeyond
    <2>. QED BY <1>3, <2>1, <2>2
  <1>. QED BY <1>4, <1>5, <1>6 DEF IInv, TopOK

\* What a chain retains is a contiguous suffix that ends at its head.
LEMMA RetainedSuffixInv ==
  ASSUME IInv
  PROVE  RetainedSuffix
  <1>. SUFFICES ASSUME NEW c \in Chains, NEW i \in Retained(c),
                       ~(intent # None /\ i = intent.id)
                PROVE  i = meta[c].head \/ \E j \in Retained(c) : signed[j].prev = i
    BY DEF RetainedSuffix
  <1>1. i \in entries /\ i \in Ids /\ signed[i].chain = c
    BY SignedRefs DEF Retained
  <1>2. PICK k \in ChainKeys(c) : k.id = i
    BY <1>1 DEF IInv, TopOK, ChainKeys
  <1>3. ~(intent # None /\ k = IntentKey)
    BY <1>2 DEF IntentKey
  <1>4. signed[i].at <= Height(meta[c].head) /\ signed[i].at \in Nat /\ signed[i].at > 0
    BY <1>1, <1>2, <1>3, Positions DEF IInv, TopOK, ChainKeys
  <1>5. meta[c].head # NoEntry
    BY <1>4 DEF Height
  <1>6. PICK n \in ChainKeys(c) : /\ \A l \in ChainKeys(c) : signed[l.id].at <= signed[n.id].at
                                  /\ \/ n.id = meta[c].head
                                     \/ intent # None /\ n = IntentKey
    BY <1>5, NewestKey
  <1>7. CASE signed[k.id].at = signed[n.id].at
    BY <1>2, <1>3, <1>6, <1>7, KeyOrder
  <1>8. CASE signed[k.id].at < signed[n.id].at
    <2>1. PICK l \in ChainKeys(c) : signed[l.id].prev = k.id /\ l.id \in entries
      BY <1>8, NextKey
    <2>. QED BY <1>2, <2>1 DEF ChainKeys, Retained
  <1>. QED BY <1>6, <1>7, <1>8, KeyOrder

\* A key beyond the watermark still has its entry.
LEMMA AnchoredKey ==
  ASSUME IInv, NEW c \in Chains, mark[c] # None, NEW k \in ChainKeys(c),
         signed[k.id].at > mark[c].pos
  PROVE  k.id \in entries
  <1>. SUFFICES ASSUME k.id \notin entries
                PROVE  FALSE
    OBVIOUS
  <1>1. k \in index /\ signed[k.id].chain = c
    BY DEF ChainKeys
  <1>2. plan[c] # None /\ plan[c].r.omitted > 0 /\ k.ord <= plan[c].r.cutoff
    BY <1>1 DEF IInv, HolesOK
  <1>3. Cuts(c, plan[c].r) /\ ReceiptOK(plan[c].r)
    BY <1>2 DEF IInv, PlanOK
  <1>4. signed[k.id].at <= signed[plan[c].r.last].at
    BY <1>2, <1>3 DEF Cuts
  <1>5. signed[plan[c].r.last].at <= mark[c].pos
    BY <1>2 DEF IInv, MarksOK
  <1>6. plan[c].r.last \in Ids
    BY <1>2, <1>3 DEF ReceiptOK
  <1>7. signed[k.id].at \in Nat /\ signed[plan[c].r.last].at \in Nat /\ mark[c].pos \in Nat
    BY <1>6, KeyOrder, Positions DEF IInv, TypeOK, Mark
  <1>. QED BY <1>4, <1>5, <1>7

\* No stored entry's predecessor beyond the watermark is missing.
LEMMA AnchoredKeptInv ==
  ASSUME IInv
  PROVE  AnchoredKept
  <1>. SUFFICES ASSUME NEW c \in Chains, mark[c] # None, NEW i \in Ids, signed[i].chain = c,
                       signed[i].at > mark[c].pos, NEW j \in entries, signed[j].prev = i
                PROVE  i \in entries
    BY DEF AnchoredKept
  <1>1. j \in Ids /\ i # NoEntry
    BY SignedRefs DEF Ids, NoEntry
  <1>2. signed[j].chain = c /\ signed[j].at = signed[i].at + 1
    BY <1>1 DEF IInv, SignedOK, Height
  <1>3. signed[i].at \in Nat /\ signed[j].at \in Nat /\ mark[c].pos \in Nat
    BY <1>1, Positions DEF IInv, TypeOK, Mark
  <1>4. /\ meta[c].omitted # Unknown /\ meta[c].omitted <= mark[c].pos /\ meta[c].omitted \in Nat
        /\ plan[c] # None /\ plan[c].r.omitted > 0 => signed[plan[c].r.last].at <= mark[c].pos
    BY DEF IInv, MarksOK, Known, TypeOK, Meta
  <1>5. CASE \E l \in index : l.id = j
    <2>1. PICK l \in ChainKeys(c) : l.id = j
      BY <1>2, <1>5 DEF ChainKeys
    <2>2. \E m \in ChainKeys(c) : signed[m.id].at = signed[i].at
      <3>1. CASE Uncounted(c)
        <4>1. plan[c] # None /\ plan[c].r.omitted > 0
          BY <3>1 DEF Uncounted
        <4>2. Cuts(c, plan[c].r) /\ ReceiptOK(plan[c].r)
          BY <4>1 DEF IInv, PlanOK
        <4>3. plan[c].r.last \in Ids
          BY <4>1, <4>2 DEF ReceiptOK
        <4>4. signed[plan[c].r.last].at \in Nat
          BY <4>3, Positions
        <4>5. signed[i].at \in signed[plan[c].r.last].at + 1 .. signed[l.id].at
          BY <1>2, <1>3, <1>4, <2>1, <4>1, <4>4
        <4>. QED BY <2>1, <4>1, <4>2, <4>5 DEF Cuts
      <3>2. CASE ~Uncounted(c)
        <4>1. StartsAfter(c, meta[c].omitted)
          BY <1>4, <3>2 DEF IInv, TotalsOK
        <4>2. signed[i].at \in meta[c].omitted + 1 .. signed[l.id].at
          BY <1>2, <1>3, <1>4, <2>1
        <4>. QED BY <2>1, <4>1, <4>2 DEF StartsAfter
      <3>. QED BY <3>1, <3>2
    <2>3. PICK m \in ChainKeys(c) : signed[m.id].at = signed[i].at
      BY <2>2
    <2>4. m \in index /\ l \in index /\ SameChain(m, l)
      BY DEF ChainKeys, SameChain
    <2>5. signed[l.id].prev = m.id
      BY <1>2, <2>1, <2>3, <2>4 DEF IInv, IndexOK
    <2>6. m.id \in entries
      BY <2>3, AnchoredKey
    <2>. QED BY <2>1, <2>5, <2>6
  <1>6. CASE intent # None /\ j = intent.id /\ \A l \in index : l.id # j
    <2>1. intent.chain = c /\ meta[c].head = i /\ IntentKey \notin index
      BY <1>2, <1>6, IntentBeyond
    <2>2. PICK k \in ChainKeys(c) : k.id = i
      BY <1>1, <2>1 DEF IInv, TopOK, ChainKeys
    <2>. QED BY <2>2, AnchoredKey
  <1>. QED BY <1>5, <1>6 DEF IInv, TopOK

\* A chain never forks: whichever writers raced and wherever a fault hit an
\* append, two stored entries of a chain have different predecessors.
THEOREM NeverForks ==
  Spec => []NoFork
  <1>1. IInv => NoFork
    BY NoForkInv
  <1>. QED BY <1>1, AuditInv, PTL

\* Prunes and appends, interrupted or resumed, leave a chain contiguous: every
\* retained entry is the head, has a retained successor, or is the entry of an
\* append that was interrupted.
THEOREM SuffixRetained ==
  Spec => []RetainedSuffix
  <1>1. IInv => RetainedSuffix
    BY RetainedSuffixInv
  <1>. QED BY <1>1, AuditInv, PTL

\* The pruned total and the retained count give the position of the head from
\* genesis, whenever they are read.
THEOREM PositionsStayExact ==
  Spec => []PositionsExact
  <1>1. IInv => PositionsExact
    BY DEF IInv
  <1>. QED BY <1>1, AuditInv, PTL

\* No prune, whether planned before or after the mark, removes an entry past
\* the watermark of its chain.
THEOREM AnchoredStaysKept ==
  Spec => []AnchoredKept
  <1>1. IInv => AnchoredKept
    BY AnchoredKeptInv
  <1>. QED BY <1>1, AuditInv, PTL

\* A watermark names the entry at its position, although a prune may run while
\* mark_anchored verifies the position without the lock.
THEOREM MarksNameTheirEntries ==
  Spec => []MarkNamesItsEntry
  <1>1. IInv => MarkNamesItsEntry
    BY DEF IInv, MarksOK, Names, MarkNamesItsEntry
  <1>. QED BY <1>1, AuditInv, PTL

\* Each recorded receipt links to the one before it and the installed receipt
\* is recorded, wherever install_prune_receipt was interrupted.
THEOREM ReceiptsStayLinked ==
  Spec => []ReceiptsLinked
  <1>1. IInv => ReceiptsLinked
    BY DEF IInv, HistoryOK, Succeeds, ReceiptsOK, ReceiptsLinked
  <1>. QED BY <1>1, AuditInv, PTL

-----------------------------------------------------------------------------
(* Nothing rolls a chain back *)

\* What a step may do to a chain's head, watermark and receipt
Forward ==
  \A c \in Chains :
    /\ meta[c].head # NoEntry =>
         meta[c]'.head # NoEntry /\ signed[meta[c].head].at <= (signed[meta[c].head].at)'
    /\ mark[c] # None => mark[c].pos <= mark[c]'.pos
    /\ receipt[c] # None => receipt[c].gen <= receipt[c]'.gen

\* A step that signs nothing and leaves a chain's records alone
LEMMA RecordsKept ==
  ASSUME IInv, UNCHANGED <<meta, signed, mark, receipt>>
  PROVE  Forward
  <1>1. \A c \in Chains : meta[c].head # NoEntry => signed[meta[c].head].at \in Nat
    BY SignedRefs, Positions
  <1>2. \A c \in Chains : /\ mark[c] # None => mark[c].pos \in Nat
                          /\ receipt[c] # None => receipt[c].gen \in Nat
    BY DEF IInv, TypeOK, Mark, Receipt
  <1>. QED BY <1>1, <1>2 DEF Forward

\* A step that changes only the metadata, to heads that are not lower
LEMMA HeadsAdvance ==
  ASSUME IInv, UNCHANGED <<signed, mark, receipt>>,
         \A d \in Chains : /\ meta[d].head # NoEntry => meta'[d].head # NoEntry
                           /\ Height(meta[d].head) <= Height(meta[d].head)'
  PROVE  Forward
  <1>1. \A c \in Chains : /\ mark[c] # None => mark[c].pos \in Nat
                          /\ receipt[c] # None => receipt[c].gen \in Nat
    BY DEF IInv, TypeOK, Mark, Receipt
  <1>2. \A c \in Chains : meta[c].head # NoEntry =>
          meta'[c].head # NoEntry /\ signed[meta[c].head].at <= signed[meta'[c].head].at
    BY DEF Height
  <1>. QED BY <1>1, <1>2 DEF Forward

\* Signing an entry adds it after all others.
LEMMA SignForward ==
  ASSUME IInv, NEW w \in Writers, NEW c \in Chains, SignEntry(w, c)
  PROVE  Forward
  <1>1. PICK e : signed' = Append(signed, e)
    BY DEF SignEntry
  <1>2. UNCHANGED <<meta, mark, receipt>>
    BY DEF SignEntry, store, pruneStore
  <1>3. \A i \in Ids : signed'[i] = signed[i]
    BY <1>1, SignedRefs DEF Ids
  <1>4. \A d \in Chains : /\ mark[d] # None => mark[d].pos \in Nat
                          /\ receipt[d] # None => receipt[d].gen \in Nat
    BY DEF IInv, TypeOK, Mark, Receipt
  <1>5. \A d \in Chains : meta[d].head # NoEntry =>
          /\ signed'[meta[d].head] = signed[meta[d].head]
          /\ signed[meta[d].head].at \in Nat
    BY <1>3, SignedRefs, Positions
  <1>. QED BY <1>2, <1>4, <1>5 DEF Forward

\* An atomic append moves the head to the entry signed on it.
LEMMA AppendBatchForward ==
  ASSUME IInv, NEW w \in Writers, AppendBatch(w)
  PROVE  Forward
  <1>1. /\ atomic /\ wr[w].pc = "store" /\ UNCHANGED <<mark, receipt, signed>>
    BY DEF AppendBatch, AppendReady, pruneStore
  <1>2. wr[w] # Idle
    BY <1>1 DEF Idle
  <1>3. PICK c, x, m : c = wr[w].chain /\ x = wr[w].id /\ m = meta[c]
    OBVIOUS
  <1>4. /\ c \in Chains /\ x \in Ids /\ signed[x].chain = c /\ signed[x].prev = wr[w].exp
    BY <1>2, <1>3 DEF IInv, WritersOK
  <1>5. signed[x].prev = meta[c].head /\ m \in Meta
    BY <1>3, <1>4 DEF AppendBatch, HeadMatches, IInv, TypeOK
  <1>6. PICK next : next = NextMeta(m, x)
    OBVIOUS
  <1>7. x \in Nat
    BY <1>4 DEF Ids
  <1>8. /\ next \in Meta /\ next.head = x /\ next.count = meta[c].count + 1
        /\ next.omitted = meta[c].omitted /\ next.gen = meta[c].gen
    BY <1>3, <1>4, <1>5, <1>6, <1>7, NextRecords
  <1>9. meta' = [meta EXCEPT ![c] = next]
    BY <1>3, <1>6 DEF AppendBatch
  <1>10. \A d \in Chains : /\ meta[d].head # NoEntry => meta'[d].head # NoEntry
                           /\ Height(meta[d].head) <= Height(meta[d].head)'
    BY <1>1, <1>4, <1>5, <1>8, <1>9, MetaAdvances
  <1>. QED BY <1>1, <1>10, HeadsAdvance

\* The metadata of an append intent replaces only what it was computed from or
\* itself, so a late recovery does not lower the head.
LEMMA WriteMetaForward ==
  ASSUME IInv, WriteMeta
  PROVE  Forward
  <1>1. /\ job # None /\ job.op # "prune" /\ job.step = "meta"
        /\ UNCHANGED <<mark, receipt, signed>>
    BY DEF WriteMeta, Appending, pruneStore
  <1>2. CASE UNCHANGED meta
    BY <1>1, <1>2, RecordsKept
  <1>3. CASE /\ meta[intent.chain] = intent.expMeta
             /\ meta' = [meta EXCEPT ![intent.chain] = intent.nextMeta]
    <2>1. intent # None /\ intent \in Intent /\ intent.chain \in Chains /\ intent.id \in Ids
      BY <1>1, SignedRefs DEF IInv, AppendJobOK, TypeOK
    <2>2. PICK c, x, m : c = intent.chain /\ x = intent.id /\ m = intent.nextMeta
      OBVIOUS
    <2>3. /\ c \in Chains /\ x \in Ids /\ signed[x].chain = c /\ m \in Meta /\ m.head = x
          /\ signed[x].prev = meta[c].head /\ m.count = meta[c].count + 1
          /\ m.omitted = meta[c].omitted /\ m.gen = meta[c].gen
      BY <1>3, <2>1, <2>2 DEF IInv, IntentOK, Intent
    <2>4. meta' = [meta EXCEPT ![c] = m] /\ UNCHANGED signed
      BY <1>1, <1>3, <2>2
    <2>5. \A d \in Chains : /\ meta[d].head # NoEntry => meta'[d].head # NoEntry
                            /\ Height(meta[d].head) <= Height(meta[d].head)'
      BY <2>3, <2>4, MetaAdvances
    <2>. QED BY <1>1, <2>5, HeadsAdvance
  <1>4. CASE /\ meta[intent.chain] = intent.nextMeta
             /\ meta' = [meta EXCEPT ![intent.chain] = intent.nextMeta]
    <2>1. meta \in [Chains -> Meta]
      BY DEF IInv, TypeOK
    <2>2. UNCHANGED meta
      BY <1>4, <2>1
    <2>. QED BY <1>2, <2>2
  <1>. QED BY <1>2, <1>3, <1>4 DEF WriteMeta, Swap

\* update_retained_chain takes the newest surviving entry: the head, or the
\* entry of an append that was interrupted after it.
LEMMA RetainForward ==
  ASSUME IInv, RetainChain
  PROVE  Forward
  <1>1. /\ job # None /\ job.op = "prune" /\ job.step = "retain"
        /\ UNCHANGED <<mark, receipt, signed>>
    BY DEF RetainChain, Pruning, pruneStore
  <1>2. PICK c, r : c = pruner.chain /\ r = plan[c].r
    OBVIOUS
  <1>3. c \in Chains
    BY <1>1, <1>2, NoHoles
  <1>4. CASE meta[c].head = NoEntry
    <2>1. meta[c] = EmptyMeta
      BY <1>3, <1>4 DEF IInv, HeadsOK
    <2>2. UNCHANGED meta
      BY <1>2, <2>1 DEF RetainChain
    <2>. QED BY <1>1, <2>2, RecordsKept
  <1>5. CASE meta[c].head # NoEntry
    <2>1. PICK n \in Meta, k \in ChainKeys(c) :
            /\ meta' = [meta EXCEPT ![c] = n] /\ n.head = k.id
            /\ Height(meta[c].head) <= signed[k.id].at
      BY <1>2, <1>5, RetainFacts
    <2>2. k.id # NoEntry
      BY SignedRefs DEF ChainKeys, Ids, NoEntry
    <2>3. meta'[c] = n /\ \A d \in Chains : d # c => meta'[d] = meta[d]
      BY <1>3, <2>1 DEF IInv, TypeOK
    <2>4. \A d \in Chains : Height(meta[d].head) \in Nat
      BY Positions
    <2>5. \A d \in Chains : /\ meta[d].head # NoEntry => meta'[d].head # NoEntry
                            /\ Height(meta[d].head) <= Height(meta[d].head)'
      <3>. SUFFICES ASSUME NEW d \in Chains
                    PROVE  /\ meta[d].head # NoEntry => meta'[d].head # NoEntry
                           /\ Height(meta[d].head) <= Height(meta[d].head)'
        OBVIOUS
      <3>1. CASE d = c
        BY <1>1, <2>1, <2>2, <2>3, <3>1 DEF Height
      <3>2. CASE d # c
        BY <1>1, <2>3, <2>4, <3>2 DEF Height
      <3>. QED BY <3>1, <3>2
    <2>. QED BY <1>1, <2>5, HeadsAdvance
  <1>. QED BY <1>4, <1>5

\* A receipt replaces itself or the generation before it.
LEMMA InstallReceiptForward ==
  ASSUME IInv, InstallReceipt
  PROVE  Forward
  <1>1. PICK c, r : c = pruner.chain /\ r = plan[c].r
    OBVIOUS
  <1>2. /\ job # None /\ job.op = "prune" /\ job.step = "receipt"
        /\ receipt' = [receipt EXCEPT ![c] = r] /\ UNCHANGED <<meta, mark, signed>>
    BY <1>1 DEF InstallReceipt, Pruning, store
  <1>3. c \in Chains
    BY <1>1, <1>2, NoHoles
  <1>4. plan[c] # None
    BY <1>1, <1>2 DEF IInv, PruneJobOK
  <1>5. r.gen \in Nat /\ Gen(receipt[c]) \in Nat /\ (r = receipt[c] \/ r.gen = Gen(receipt[c]) + 1)
    BY <1>1, <1>3, <1>4, PlanFacts
  <1>6. receipt'[c] = r /\ \A d \in Chains : d # c => receipt'[d] = receipt[d]
    BY <1>2, <1>3 DEF IInv, TypeOK
  <1>7. \A d \in Chains : receipt[d] # None => receipt[d].gen <= receipt'[d].gen
    <2>1. \A d \in Chains : receipt[d] # None => receipt[d].gen \in Nat
      BY DEF IInv, TypeOK, Receipt
    <2>2. receipt[c] # None => receipt[c].gen <= r.gen
      BY <1>5 DEF Gen
    <2>. QED BY <1>6, <2>1, <2>2
  <1>8. \A d \in Chains : /\ meta[d].head # NoEntry => signed[meta[d].head].at \in Nat
                          /\ mark[d] # None => mark[d].pos \in Nat
    BY SignedRefs, Positions DEF IInv, TypeOK, Mark
  <1>. QED BY <1>2, <1>7, <1>8 DEF Forward

\* A mark replaces the one that mark_anchored read, which it is beyond.
LEMMA InstallMarkForward ==
  ASSUME IInv, InstallMark
  PROVE  Forward
  <1>1. PICK c, n : c = marker.chain /\ n = [pos |-> marker.pos, id |-> marker.id,
                                             ord |-> marker.ord]
    OBVIOUS
  <1>2. /\ marker # None /\ marker.pc = "install"
        /\ UNCHANGED <<meta, receipt, signed>>
        /\ UNCHANGED mark \/ mark' = [mark EXCEPT ![c] = n]
    BY <1>1 DEF InstallMark, store, pruneStore
  <1>3. CASE UNCHANGED mark
    BY <1>2, <1>3, RecordsKept
  <1>4. CASE mark' = [mark EXCEPT ![c] = n]
    <2>1. c \in Chains /\ marker.pos \in Nat
      BY <1>1, <1>2 DEF IInv, TypeOK, Marker
    <2>2. mark[c] # None => mark[c].pos < marker.pos
      BY <1>1, <1>2 DEF IInv, MarkerOK
    <2>3. \A d \in Chains : mark[d] # None => mark[d].pos \in Nat
      BY DEF IInv, TypeOK, Mark
    <2>4. mark'[c] = n /\ n.pos = marker.pos /\ \A d \in Chains : d # c => mark'[d] = mark[d]
      BY <1>1, <1>4, <2>1 DEF IInv, TypeOK
    <2>5. \A d \in Chains : mark[d] # None => mark[d].pos <= mark'[d].pos
      BY <2>1, <2>2, <2>3, <2>4
    <2>6. \A d \in Chains : /\ meta[d].head # NoEntry => signed[meta[d].head].at \in Nat
                            /\ receipt[d] # None => receipt[d].gen \in Nat
      BY SignedRefs, Positions DEF IInv, TypeOK, Receipt
    <2>. QED BY <1>2, <2>5, <2>6 DEF Forward
  <1>. QED BY <1>2, <1>3, <1>4

\* No step takes a chain's head, watermark or receipt generation back.
LEMMA ForwardNext ==
  IInv /\ [Next]_vars => [Forward]_vars
  <1>. SUFFICES ASSUME IInv, [Next]_vars
                PROVE  Forward
    OBVIOUS
  <1>1. ASSUME NEW w \in Writers, WriterStep(w)
        PROVE  Forward
    <2>1. ASSUME NEW c \in Chains, StartAppend(w, c)
          PROVE  Forward
      BY <2>1, SignForward DEF StartAppend
    <2>2. CASE RetryAppend(w)
      <3>1. wr[w] # Idle /\ SignEntry(w, wr[w].chain)
        BY <2>2 DEF RetryAppend, Idle
      <3>2. wr[w].chain \in Chains
        BY <3>1 DEF IInv, WritersOK
      <3>. QED BY <3>1, <3>2, SignForward
    <2>3. CASE AppendBatch(w)
      BY <2>3, AppendBatchForward
    <2>4. CASE \/ InvalidateHead(w) \/ PublishHead(w) \/ AppendRefused(w) \/ AppendAtCap(w)
               \/ InstallIntent(w) \/ StartRecovery(w) \/ RelieveCap(w) \/ SetHold(w)
      <3>1. UNCHANGED <<meta, signed, mark, receipt>>
        BY <2>4 DEF InvalidateHead, PublishHead, AppendRefused, AppendAtCap, InstallIntent,
                    StartRecovery, RelieveCap, SetHold, store, pruneStore
      <3>. QED BY <3>1, RecordsKept
    <2>. QED BY <1>1, <2>1, <2>2, <2>3, <2>4 DEF WriterStep
  <1>2. CASE AppendStep
    <2>1. CASE WriteMeta
      BY <2>1, WriteMetaForward
    <2>2. CASE \/ WriteEntry \/ WriteSequence \/ WriteIndex \/ WriteHead \/ WriteSegment
               \/ WriteGlobal \/ RemoveIntent
      <3>1. UNCHANGED <<meta, signed, mark, receipt>>
        BY <2>2 DEF WriteEntry, WriteSequence, WriteIndex, WriteHead, WriteSegment,
                    WriteGlobal, RemoveIntent, Swap, pruneStore
      <3>. QED BY <3>1, RecordsKept
    <2>. QED BY <1>2, <2>1, <2>2 DEF AppendStep
  <1>3. CASE PruneStep
    <2>1. CASE RetainChain
      BY <2>1, RetainForward
    <2>2. CASE InstallReceipt
      BY <2>2, InstallReceiptForward
    <2>3. CASE \/ \E c \in Chains, n \in Retains : StartPrune(c, n)
               \/ ScanChain \/ CheckReach \/ ArchivePruned \/ CallPrune
      <3>1. UNCHANGED <<meta, signed, mark, receipt>>
        BY <2>3 DEF StartPrune, ScanChain, CheckReach, ArchivePruned, CallPrune, store, pruneStore
      <3>. QED BY <3>1, RecordsKept
    <2>4. CASE \/ LoadPlan \/ ReadPage \/ DeleteEntry \/ DeleteKey \/ SavePlan
      <3>1. UNCHANGED <<meta, signed, mark, receipt>>
        BY <2>4 DEF LoadPlan, ReadPage, DeleteEntry, DeleteKey, SavePlan, store, pruneStore
      <3>. QED BY <3>1, RecordsKept
    <2>5. CASE AccountPruned \/ RemoveSegment \/ RecordHistory \/ RemovePlan
      <3>1. UNCHANGED <<meta, signed, mark, receipt>>
        BY <2>5 DEF AccountPruned, RemoveSegment, RecordHistory, RemovePlan, store, pruneStore
      <3>. QED BY <3>1, RecordsKept
    <2>. QED BY <1>3, <2>1, <2>2, <2>3, <2>4, <2>5 DEF PruneStep
  <1>4. CASE MarkStep
    <2>1. CASE InstallMark
      BY <2>1, InstallMarkForward
    <2>2. CASE \/ \E c \in Certified, pos \in 1 .. MaxEntries : StartMark(c, pos)
               \/ LocatePosition \/ RecoverForClear \/ ClearHold
      <3>1. UNCHANGED <<meta, signed, mark, receipt>>
        BY <2>2 DEF StartMark, LocatePosition, RecoverForClear, ClearHold, store, pruneStore
      <3>. QED BY <3>1, RecordsKept
    <2>. QED BY <1>4, <2>1, <2>2 DEF MarkStep
  <1>5. CASE Fault \/ UNCHANGED vars
    <2>1. UNCHANGED <<meta, signed, mark, receipt>>
      BY <1>5 DEF Fault, FailOperation, Crash, vars, store, pruneStore
    <2>. QED BY <2>1, RecordsKept
  <1>. QED BY <1>1, <1>2, <1>3, <1>4, <1>5 DEF Next

\* Nothing rolls a chain back: its head, counted from genesis, its watermark
\* and its receipt generation only advance, whatever is interrupted, resumed or
\* recovered late.
THEOREM ChainsOnlyAdvance ==
  Spec => NeverRolledBack
  <1>1. [][Forward]_vars <=> NeverRolledBack
    BY DEF Forward, NeverRolledBack
  <1>. QED BY <1>1, AuditInv, ForwardNext, PTL DEF Spec
=============================================================================
