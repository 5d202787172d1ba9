------------------------ MODULE DurableEngine_proofs ------------------------
(***************************************************************************)
(* Proofs about the durable principal store, for any callers, principals   *)
(* and objects and any number of transactions and faults: what a commit    *)
(* acknowledged stays durable, is served again after every recovery and is *)
(* never overwritten unseen, a refused transaction leaves nothing behind,  *)
(* and no crash image holds a root without its objects.                    *)
(***************************************************************************)
EXTENDS DurableEngine, WellFoundedInduction, TLAPS

Txn == [principal : Principals, expected : Nat, blob : Blobs \cup {None}, carried : BOOLEAN]
WalRec == [txn : Nat, objs : SUBSET Object]
CallRec == [pc : {"idle", "waiting", "lead", "release"}, txn : Nat]
MemRec == [roots : [Principals -> Nat], index : SUBSET Object, staged : SUBSET Object,
           objs : SUBSET Object, log : Seq(Nat)]

\* The engine mutex is held at one of some steps.
At(steps) == job # None /\ job.step \in steps

Prefix(s, t) == Len(s) <= Len(t) /\ \A i \in 1 .. Len(s) : s[i] = t[i]

\* The types the other parts rest on.
Types ==
  /\ walOn \in BOOLEAN
  /\ arena \in [disk : SUBSET Object, cache : SUBSET Object]
  /\ roots \in [disk : Seq(Nat), cache : Seq(Nat)]
  /\ wal \in [disk : Seq(WalRec), cache : Seq(WalRec)]
  /\ life \in {"usable", "poisoned", "down"}
  /\ mem \in MemRec
  /\ published \in [Principals -> Nat]
  /\ queue \in Seq(Callers)
  /\ call \in [Callers -> CallRec]
  /\ job = None \/ job \in Job
  /\ txns \in Seq(Txn)

\* What each step of the mutex holder may assume of the engine and of its job:
\* a recovery runs in an engine that is not usable and everything else in one
\* that is, a checkpoint is a flush or comes before a batch's WAL append.
Control ==
  job # None =>
    /\ job.step \in RecoverySteps =>
         /\ life # "usable" /\ job.next \in {"prepare", "end"}
         /\ job.accepted = <<>> /\ job.objs = {}
    /\ job.step \notin RecoverySteps => life = "usable"
    /\ job.step \in {"replay", "replayRoot", "retire", "retireSync"} => walOn
    /\ job.step \in WalSteps => walOn
    /\ job.step \in LegacySteps => ~walOn
    /\ job.step \in {"publish"} \cup WalSteps \cup LegacySteps => job.accepted # <<>>
    /\ job.step \in FoldSteps =>
         \/ job.next = "end" /\ job.accepted = <<>> /\ job.objs = {}
         \/ job.next = "wal" /\ walOn /\ job.accepted # <<>>

-----------------------------------------------------------------------------
(* Refused transactions *)

\* Every transaction and object that is in a file, in memory or in the batch
InBatch == IF job = None THEN {} ELSE Range(job.accepted) \cup job.objs
Traces ==
  Range(roots.disk) \cup Range(roots.cache) \cup Logged(wal.disk) \cup Logged(wal.cache)
    \cup LoggedObjects(wal.disk) \cup LoggedObjects(wal.cache) \cup arena.cache
    \cup mem.staged \cup mem.objs \cup Range(mem.log) \cup InBatch

\* Traces are of submitted transactions and known objects, and so are roots.
Submitted ==
  /\ Traces \subseteq Ids \cup Blobs
  /\ refused \subseteq Ids
  /\ acked \subseteq Ids
  /\ \A p \in Principals : mem.roots[p] \in 0 .. Len(txns) /\ published[p] \in 0 .. Len(txns)
  /\ \A t \in Ids : txns[t].expected < t

\* The callers in the queue and in the batch are different, and each waits
\* with a transaction of its own.
Waits(c) == call[c].pc \in {"waiting", "lead"} /\ call[c].txn # NoRoot
Distinct(s) == \A i, j \in 1 .. Len(s) : s[i] = s[j] => i = j
OwnTxn ==
  /\ \A c \in Callers : call[c].txn \in 0 .. Len(txns)
  /\ \A c, d \in Callers : call[c].txn = call[d].txn /\ call[c].txn # NoRoot => c = d
  /\ \A i \in 1 .. Len(queue) : Waits(queue[i])
  /\ Distinct(queue)
  /\ job # None => /\ \A i \in 1 .. Len(job.batch) : Waits(job.batch[i])
                   /\ Distinct(job.batch)
                   /\ Range(queue) \cap Range(job.batch) = {}

\* A caller whose transaction has not been prepared yet
Pending(c) ==
  \/ c \in Range(queue)
  \/ At(RecoverySteps) /\ c \in Range(job.batch)
  \/ At({"prepare"}) /\ \E i \in job.k .. Len(job.batch) : job.batch[i] = c

\* Nothing has been written of a refused transaction, or of one that is yet
\* to be prepared.
Untouched ==
  /\ refused \cap Traces = {}
  /\ \A c \in Callers : Pending(c) => call[c].txn \notin Traces \cup refused

-----------------------------------------------------------------------------
(* Durability *)

\* The flushed WAL holds nothing that the flushed canonical files do not.
Retired ==
  /\ Logged(wal.disk) \subseteq Range(roots.disk)
  /\ LoggedObjects(wal.disk) \subseteq arena.disk

\* What is written extends what is flushed, except for a WAL being retired.
Files ==
  /\ arena.disk \subseteq arena.cache
  /\ Prefix(roots.disk, roots.cache)
  /\ Prefix(wal.disk, wal.cache) \/ Retired
  /\ mem.index \subseteq arena.cache
  /\ ~walOn => /\ wal.disk = <<>> /\ wal.cache = <<>>
               /\ mem.objs = {} /\ mem.log = <<>>

\* In a usable engine the journal with the overlay holds everything in the WAL,
\* and what is not staged is flushed.
Overlay ==
  life = "usable" =>
    /\ ~At({"truncateSync"}) => Prefix(wal.disk, wal.cache)
    /\ Logged(wal.cache) \subseteq Range(roots.cache) \cup Range(mem.log)
         \cup (IF At({"walSync", "publish"}) THEN Range(job.accepted) ELSE {})
    /\ LoggedObjects(wal.cache) \subseteq arena.cache \cup mem.objs
         \cup (IF At({"walSync", "publish"}) THEN job.objs ELSE {})
    /\ mem.staged \subseteq mem.index
    /\ mem.objs \subseteq arena.disk \cup LoggedObjects(wal.disk)
    /\ walOn => mem.index \ mem.staged \subseteq arena.disk \cup LoggedObjects(wal.disk)

\* The objects of an accepted transaction are known or come with it.
Prepared ==
  At(Steps \ RecoverySteps) =>
    /\ \A i \in 1 .. Len(job.accepted) :
         Closure(job.accepted[i]) \subseteq Known \cup (Incoming(job.accepted[i]) \cap job.objs)
    /\ \A o \in job.objs : \E i \in 1 .. Len(job.accepted) : o \in Incoming(job.accepted[i])

\* How far a batch has come
Persisting ==
  /\ At({"arenaSync"}) => job.objs \subseteq arena.cache
  /\ At({"roots", "rootsSync"}) => mem.index \cup job.objs \subseteq arena.disk
  /\ At({"rootsSync"}) => Range(job.accepted) \subseteq Range(roots.cache)
  /\ At({"walSync"}) => /\ Range(job.accepted) \subseteq Logged(wal.cache)
                        /\ job.objs \cup (mem.staged \ mem.objs) \subseteq LoggedObjects(wal.cache)
  /\ At({"publish"}) /\ walOn =>
       /\ Range(job.accepted) \subseteq Logged(wal.disk)
       /\ job.objs \cup (mem.staged \ mem.objs) \subseteq LoggedObjects(wal.disk)
  /\ At({"publish"}) /\ ~walOn =>
       /\ Range(job.accepted) \subseteq Range(roots.disk)
       /\ mem.index \cup job.objs \subseteq arena.disk

\* How far a checkpoint has come
Folding ==
  /\ At(FoldSteps \ {"fold"}) => mem.objs = {}
  /\ At(FoldSteps \ {"fold", "foldRoots"}) => mem.log = <<>>
  /\ At({"foldRootsSync", "truncate", "truncateSync"}) => arena.disk = arena.cache
  /\ At({"truncate", "truncateSync"}) => roots.disk = roots.cache
  /\ At({"truncateSync"}) => wal.cache = <<>> /\ Retired

\* How far a recovery has come
Recovering ==
  /\ At(RecoverySteps \ {"scan"}) =>
       /\ mem.index = arena.cache
       /\ mem.staged = {} /\ mem.objs = {} /\ mem.log = <<>>
       /\ mem.roots = RootsIn(roots.cache)
  /\ At({"replay", "replayRoot"}) => \A j \in 1 .. Len(wal.cache) :
       j < job.k => /\ wal.cache[j].txn \in Range(roots.cache)
                    /\ wal.cache[j].objs \subseteq arena.cache
  /\ At({"replayRoot"}) => /\ job.k \in 1 .. Len(wal.cache)
                           /\ wal.cache[job.k].objs \subseteq arena.cache
                           /\ arena.disk = arena.cache
  /\ At({"retire", "retireSync"}) => arena.disk = arena.cache /\ Retired
  /\ At({"retireSync"}) => wal.cache = <<>>
  /\ At({"validate"}) => /\ wal.disk = <<>> /\ wal.cache = <<>>
                         /\ walOn => arena.disk = arena.cache

-----------------------------------------------------------------------------
(* Dangling roots *)

\* The objects of the first n records of a log
LoggedUpTo(log, n) == UNION {log[i].objs : i \in 1 .. n}

\* No power loss separates a root from its objects.
Rooted ==
  /\ \A t \in Range(roots.cache) : Closure(t) \subseteq arena.disk \cup LoggedObjects(wal.disk)
  /\ \A n \in 1 .. Len(wal.cache) :
       Closure(wal.cache[n].txn) \subseteq arena.disk \cup LoggedUpTo(wal.cache, n)
  /\ life = "usable" => Range(mem.log) \subseteq acked

-----------------------------------------------------------------------------
(* What the engine serves *)

\* The root journal, with the overlay and the batch, as it will be written
Appended == At({"rootsSync"}) \/ (At({"publish"}) /\ ~walOn)
Journal == IF job = None \/ Appended THEN roots.cache \o mem.log
           ELSE roots.cache \o mem.log \o job.accepted

\* Of two transactions of a principal in a journal, the later one was built
\* on the earlier one or on what came after it.
Linked(journal) ==
  \A i, j \in 1 .. Len(journal) :
    i < j /\ OfPrincipal(journal[i]) = OfPrincipal(journal[j]) =>
      journal[i] <= txns[journal[j]].expected

Served ==
  /\ Linked(roots.cache)
  /\ life = "usable" =>
       /\ Linked(Journal)
       /\ published = mem.roots
       /\ ~Appended => mem.roots = RootsIn(roots.cache \o mem.log)
       /\ Appended => \A p \in Principals : PendingRoot(p) = RootIn(roots.cache, p)
       /\ \A p \in Principals : Closure(mem.roots[p]) \subseteq Known

IInv ==
  /\ Types /\ Control /\ Submitted /\ OwnTxn /\ Untouched
  /\ Files /\ Overlay /\ Prepared /\ Persisting /\ Folding /\ Recovering /\ AckedDurable
  /\ Rooted /\ NoDanglingRoot /\ Served /\ NoLostUpdate

-----------------------------------------------------------------------------
(* Lemmas about sequences, logs and jobs *)

\* What a sequence of numbers holds, after appending and cutting.
LEMMA RangeOps ==
  ASSUME NEW S, NEW s \in Seq(S)
  PROVE  /\ Range(s) \subseteq S
         /\ \A t \in Seq(S) : s \o t \in Seq(S) /\ Range(s \o t) = Range(s) \cup Range(t)
         /\ \A x \in S : Append(s, x) \in Seq(S) /\ Range(Append(s, x)) = Range(s) \cup {x}
         /\ \A n \in 0 .. Len(s) : SubSeq(s, 1, n) \in Seq(S) /\ Range(SubSeq(s, 1, n)) \subseteq Range(s)
  <1>1. Range(s) \subseteq S
    BY DEF Range
  <1>2. ASSUME NEW t \in Seq(S)
        PROVE  s \o t \in Seq(S) /\ Range(s \o t) = Range(s) \cup Range(t)
    <2>1. /\ s \o t \in Seq(S) /\ Len(s \o t) = Len(s) + Len(t)
          /\ DOMAIN (s \o t) = 1 .. Len(s) + Len(t)
          /\ DOMAIN s = 1 .. Len(s) /\ DOMAIN t = 1 .. Len(t)
          /\ Len(s) \in Nat /\ Len(t) \in Nat
      OBVIOUS
    <2>2. ASSUME NEW x \in Range(s \o t)
          PROVE  x \in Range(s) \cup Range(t)
      <3>1. PICK i \in 1 .. Len(s) + Len(t) : x = (s \o t)[i]
        BY <2>1 DEF Range
      <3>2. CASE i <= Len(s)
        BY <3>1, <3>2, <2>1 DEF Range
      <3>3. CASE i > Len(s)
        <4>1. i - Len(s) \in 1 .. Len(t) /\ x = t[i - Len(s)]
          BY <3>1, <3>3, <2>1
        <4>. QED BY <4>1, <2>1 DEF Range
      <3>. QED BY <3>1, <3>2, <3>3, <2>1
    <2>3. ASSUME NEW x \in Range(s)
          PROVE  x \in Range(s \o t)
      <3>1. PICK i \in 1 .. Len(s) : x = s[i]
        BY <2>1 DEF Range
      <3>2. i \in 1 .. Len(s) + Len(t) /\ (s \o t)[i] = x
        BY <3>1, <2>1
      <3>. QED BY <3>2, <2>1 DEF Range
    <2>4. ASSUME NEW x \in Range(t)
          PROVE  x \in Range(s \o t)
      <3>1. PICK i \in 1 .. Len(t) : x = t[i]
        BY <2>1 DEF Range
      <3>2. i + Len(s) \in 1 .. Len(s) + Len(t) /\ (s \o t)[i + Len(s)] = x
        BY <3>1, <2>1
      <3>. QED BY <3>2, <2>1 DEF Range
    <2>. QED BY <2>1, <2>2, <2>3, <2>4
  <1>3. ASSUME NEW x \in S
        PROVE  Append(s, x) \in Seq(S) /\ Range(Append(s, x)) = Range(s) \cup {x}
    <2>1. /\ Append(s, x) \in Seq(S)
          /\ DOMAIN Append(s, x) = 1 .. Len(s) + 1
          /\ DOMAIN s = 1 .. Len(s) /\ Len(s) \in Nat
          /\ \A i \in 1 .. Len(s) : Append(s, x)[i] = s[i]
          /\ Append(s, x)[Len(s) + 1] = x
      OBVIOUS
    <2>2. 1 .. Len(s) + 1 = (1 .. Len(s)) \cup {Len(s) + 1}
      BY <2>1
    <2>3. ASSUME NEW y \in Range(Append(s, x))
          PROVE  y \in Range(s) \cup {x}
      <3>1. PICK i \in 1 .. Len(s) + 1 : y = Append(s, x)[i]
        BY <2>1 DEF Range
      <3>. QED BY <3>1, <2>1, <2>2 DEF Range
    <2>4. ASSUME NEW y \in Range(s) \cup {x}
          PROVE  y \in Range(Append(s, x))
      BY <2>1, <2>2 DEF Range
    <2>. QED BY <2>1, <2>3, <2>4
  <1>4. ASSUME NEW n \in 0 .. Len(s)
        PROVE  SubSeq(s, 1, n) \in Seq(S) /\ Range(SubSeq(s, 1, n)) \subseteq Range(s)
    <2>1. /\ SubSeq(s, 1, n) \in Seq(S) /\ Len(SubSeq(s, 1, n)) = n
          /\ \A i \in 1 .. n : SubSeq(s, 1, n)[i] = s[i]
          /\ DOMAIN SubSeq(s, 1, n) = 1 .. n /\ 1 .. n \subseteq DOMAIN s
      OBVIOUS
    <2>. QED BY <2>1 DEF Range
  <1>. QED BY <1>1, <1>2, <1>3, <1>4

\* One more element is held.
LEMMA RangeAppend ==
  ASSUME NEW S, NEW s \in Seq(S), NEW x \in S
  PROVE  Range(Append(s, x)) = Range(s) \cup {x}
  <1>1. \A y \in S : Append(s, y) \in Seq(S) /\ Range(Append(s, y)) = Range(s) \cup {y}
    BY RangeOps, Zenon
  <1>. QED BY <1>1

\* The transactions and the objects of a log are those of its records.
LEMMA LogRange ==
  ASSUME NEW s \in Seq(WalRec)
  PROVE  /\ Logged(s) = {r.txn : r \in Range(s)} /\ LoggedObjects(s) = UNION {r.objs : r \in Range(s)}
         /\ Logged(s) \subseteq Nat /\ LoggedObjects(s) \subseteq Object
  <1>1. \A i \in DOMAIN s : s[i] \in WalRec
    OBVIOUS
  <1>. QED BY <1>1 DEF Logged, LoggedObjects, Range, WalRec

\* A log's transactions and objects after appending and cutting.
LEMMA LogOps ==
  ASSUME NEW s \in Seq(WalRec)
  PROVE  /\ \A t \in Seq(WalRec) : /\ Logged(s \o t) = Logged(s) \cup Logged(t)
                                   /\ LoggedObjects(s \o t) = LoggedObjects(s) \cup LoggedObjects(t)
         /\ \A n \in 0 .. Len(s) : /\ Logged(SubSeq(s, 1, n)) \subseteq Logged(s)
                                   /\ LoggedObjects(SubSeq(s, 1, n)) \subseteq LoggedObjects(s)
  <1>1. ASSUME NEW t \in Seq(WalRec)
        PROVE  /\ Logged(s \o t) = Logged(s) \cup Logged(t)
               /\ LoggedObjects(s \o t) = LoggedObjects(s) \cup LoggedObjects(t)
    <2>1. s \o t \in Seq(WalRec) /\ Range(s \o t) = Range(s) \cup Range(t)
      BY RangeOps
    <2>. QED BY <2>1, LogRange, Zenon
  <1>2. ASSUME NEW n \in 0 .. Len(s)
        PROVE  /\ Logged(SubSeq(s, 1, n)) \subseteq Logged(s)
               /\ LoggedObjects(SubSeq(s, 1, n)) \subseteq LoggedObjects(s)
    <2>1. SubSeq(s, 1, n) \in Seq(WalRec) /\ Range(SubSeq(s, 1, n)) \subseteq Range(s)
      BY RangeOps
    <2>2. /\ Logged(SubSeq(s, 1, n)) = {r.txn : r \in Range(SubSeq(s, 1, n))}
          /\ LoggedObjects(SubSeq(s, 1, n)) = UNION {r.objs : r \in Range(SubSeq(s, 1, n))}
          /\ Logged(s) = {r.txn : r \in Range(s)} /\ LoggedObjects(s) = UNION {r.objs : r \in Range(s)}
      BY <2>1, LogRange
    <2>. QED BY <2>1, <2>2
  <1>. QED BY <1>1, <1>2

\* An empty journal or log holds nothing.
LEMMA EmptyOps ==
  /\ Range(<<>>) = {} /\ Logged(<<>>) = {} /\ LoggedObjects(<<>>) = {}
  /\ \A S : <<>> \in Seq(S)
  BY DEF Range, Logged, LoggedObjects

\* A prefix holds no more than the whole.
LEMMA PrefixRange ==
  ASSUME NEW S, NEW s \in Seq(S), NEW t \in Seq(S), Prefix(s, t)
  PROVE  Range(s) \subseteq Range(t)
  BY DEF Prefix, Range

\* A prefix of a log names no more transactions and objects.
LEMMA PrefixLog ==
  ASSUME NEW s \in Seq(WalRec), NEW t \in Seq(WalRec), Prefix(s, t)
  PROVE  Logged(s) \subseteq Logged(t) /\ LoggedObjects(s) \subseteq LoggedObjects(t)
  <1>1. Range(s) \subseteq Range(t)
    BY PrefixRange
  <1>2. /\ Logged(t) = {r.txn : r \in Range(t)} /\ LoggedObjects(t) = UNION {r.objs : r \in Range(t)}
        /\ Logged(s) = {r.txn : r \in Range(s)} /\ LoggedObjects(s) = UNION {r.objs : r \in Range(s)}
    BY LogRange
  <1>. QED BY <1>1, <1>2

\* A prefix stays one when the whole is extended, or cut at no less.
LEMMA PrefixOps ==
  ASSUME NEW S, NEW s \in Seq(S), NEW t \in Seq(S), Prefix(s, t)
  PROVE  /\ \A u \in Seq(S) : Prefix(s, t \o u)
         /\ \A x \in S : Prefix(s, Append(t, x))
         /\ \A n \in Len(s) .. Len(t) : Prefix(s, SubSeq(t, 1, n))
  BY DEF Prefix

\* A sequence extends itself and the empty one.
LEMMA PrefixSelf ==
  ASSUME NEW S, NEW s \in Seq(S)
  PROVE  Prefix(s, s) /\ Prefix(<<>>, s)
  BY DEF Prefix

\* The mutex holder goes to another step.
LEMMA JobStep ==
  ASSUME job \in Job, NEW s \in Steps, job' = [job EXCEPT !.step = s]
  PROVE  /\ job' \in Job /\ job' # None
         /\ job'.step = s /\ job'.batch = job.batch /\ job'.accepted = job.accepted
         /\ job'.objs = job.objs /\ job'.k = job.k /\ job'.next = job.next
  <1>1. job' \in Job
    BY DEF Job
  <1>2. job' # None
    BY <1>1, NoneIsNoJob
  <1>. QED BY <1>1, <1>2 DEF Job

-----------------------------------------------------------------------------
(* The root that a journal leaves *)

\* A set of positions has a last one.
LEMMA LastPosition ==
  ASSUME NEW n \in Nat, NEW S \in SUBSET (1 .. n), S # {}
  PROVE  \E i \in S : \A j \in S : j <= i
  <1>. DEFINE T == {n - i : i \in S}
              R == {ss \in Nat \X Nat : ss[1] < ss[2]}
  <1>0. IsWellFoundedOn(R, Nat)
    BY NatLessThanWellFounded DEF OpToRel
  <1>1. T \subseteq Nat
    OBVIOUS
  <1>2. PICK m \in T : \A k \in T : ~(<<k, m>> \in R)
    <2>1. T # {}
      OBVIOUS
    <2>. HIDE DEF T, R
    <2>. QED BY <1>0, <1>1, <2>1, WFMin
  <1>3. PICK i \in S : m = n - i
    OBVIOUS
  <1>4. ASSUME NEW j \in S
        PROVE  j <= i
    <2>1. n - j \in T
      OBVIOUS
    <2>2. m \in Nat /\ n - j \in Nat
      BY <1>1, <2>1
    <2>3. ~(<<n - j, m>> \in R)
      BY <1>2, <2>1
    <2>4. ~(n - j < m)
      BY <2>2, <2>3
    <2>. QED BY <1>3, <2>2, <2>4
  <1>. QED BY <1>4

\* Position i holds the last transaction of p in a journal.
LastOf(journal, p, i) ==
  /\ OfPrincipal(journal[i]) = p
  /\ \A j \in 1 .. Len(journal) : OfPrincipal(journal[j]) = p => j <= i

\* apply_root_journal_record: a principal without a record has no root, and
\* otherwise its root is its last record.
LEMMA RootInLast ==
  ASSUME NEW journal \in Seq(Nat), NEW p
  PROVE  /\ \A i \in 1 .. Len(journal) : LastOf(journal, p, i) => RootIn(journal, p) = journal[i]
         /\ \/ /\ RootIn(journal, p) = NoRoot
               /\ \A i \in 1 .. Len(journal) : OfPrincipal(journal[i]) # p
            \/ \E i \in 1 .. Len(journal) : LastOf(journal, p, i)
  <1>. DEFINE own == {i \in DOMAIN journal : OfPrincipal(journal[i]) = p}
              Top(i) == i \in own /\ \A j \in own : j <= i
  <1>1. DOMAIN journal = 1 .. Len(journal) /\ Len(journal) \in Nat
    OBVIOUS
  <1>2. RootIn(journal, p) = IF own = {} THEN NoRoot ELSE journal[CHOOSE i \in own : \A j \in own : j <= i]
    BY DEF RootIn
  <1>3. own \subseteq 1 .. Len(journal)
    BY <1>1
  <1>4. CASE own = {}
    BY <1>1, <1>2, <1>4 DEF LastOf
  <1>5. CASE own # {}
    <2>1. PICK i \in own : \A j \in own : j <= i
      BY <1>1, <1>3, <1>5, LastPosition
    <2>2. LastOf(journal, p, i) /\ i \in 1 .. Len(journal)
      BY <1>1, <2>1 DEF LastOf
    <2>3. ASSUME NEW m \in 1 .. Len(journal), LastOf(journal, p, m)
          PROVE  RootIn(journal, p) = journal[m]
      <3>1. m \in own /\ \A j \in own : j <= m
        BY <1>1, <2>3 DEF LastOf
      <3>2. \A k \in own : (\A j \in own : j <= k) => k = m
        BY <3>1, <1>3
      <3>3. (CHOOSE k \in own : \A j \in own : j <= k) = m
        <4>. HIDE DEF own
        <4>. QED BY <3>1, <3>2
      <3>. QED BY <1>2, <1>5, <3>3
    <2>. QED BY <2>2, <2>3
  <1>. QED BY <1>4, <1>5

\* A root is a record of the journal.
LEMMA RootInRange ==
  ASSUME NEW journal \in Seq(Nat), NEW p
  PROVE  /\ RootIn(journal, p) \in Range(journal) \cup {NoRoot}
         /\ RootIn(journal, p) \in Nat
  BY RootInLast DEF Range, NoRoot

\* One more record replaces the root of its principal only.
LEMMA RootAppend ==
  ASSUME NEW journal \in Seq(Nat), NEW t \in Nat, NEW p
  PROVE  RootIn(Append(journal, t), p) = IF OfPrincipal(t) = p THEN t ELSE RootIn(journal, p)
  <1>. DEFINE more == Append(journal, t)
              n == Len(journal)
  <1>1. /\ more \in Seq(Nat) /\ Len(more) = n + 1 /\ more[n + 1] = t /\ n \in Nat
        /\ \A i \in 1 .. n : more[i] = journal[i]
        /\ 1 .. n + 1 = (1 .. n) \cup {n + 1}
    OBVIOUS
  <1>. HIDE DEF more, n
  <1>2. CASE OfPrincipal(t) = p
    <2>1. LastOf(more, p, n + 1)
      BY <1>1, <1>2 DEF LastOf
    <2>. QED BY <1>1, <1>2, <2>1, RootInLast DEF more
  <1>3. CASE OfPrincipal(t) # p
    <2>1. ASSUME NEW i \in 1 .. n, LastOf(journal, p, i)
          PROVE  LastOf(more, p, i) /\ i \in 1 .. n + 1 /\ more[i] = journal[i]
      BY <1>1, <1>3, <2>1 DEF LastOf, n
    <2>2. CASE \E i \in 1 .. n : LastOf(journal, p, i)
      <3>1. PICK i \in 1 .. n : LastOf(journal, p, i)
        BY <2>2
      <3>2. RootIn(journal, p) = journal[i]
        BY <3>1, RootInLast DEF n
      <3>3. RootIn(more, p) = more[i]
        BY <3>1, <2>1, <1>1, RootInLast
      <3>. QED BY <3>1, <3>2, <3>3, <2>1, <1>3 DEF more
    <2>3. CASE ~\E i \in 1 .. n : LastOf(journal, p, i)
      <3>1. RootIn(journal, p) = NoRoot /\ \A i \in 1 .. n : OfPrincipal(journal[i]) # p
        BY <2>3, RootInLast DEF n
      <3>2. \A i \in 1 .. n + 1 : OfPrincipal(more[i]) # p
        BY <3>1, <1>1, <1>3
      <3>3. RootIn(more, p) = NoRoot
        <4>1. ~\E i \in 1 .. Len(more) : LastOf(more, p, i)
          BY <3>2, <1>1 DEF LastOf
        <4>. QED BY <1>1, <4>1, RootInLast
      <3>. QED BY <3>1, <3>3, <1>3 DEF more
    <2>. QED BY <2>2, <2>3
  <1>. QED BY <1>2, <1>3

\* The root after two journals is the second's, or else the first's.
LEMMA RootConcat ==
  ASSUME NEW s \in Seq(Nat), NEW t \in Seq(Nat), NoRoot \notin Range(t), NEW p
  PROVE  RootIn(s \o t, p) = IF RootIn(t, p) = NoRoot THEN RootIn(s, p) ELSE RootIn(t, p)
  <1>. DEFINE all == s \o t
              n == Len(s)
              m == Len(t)
  <1>1. /\ all \in Seq(Nat) /\ Len(all) = n + m /\ n \in Nat /\ m \in Nat
        /\ \A i \in 1 .. n : all[i] = s[i]
        /\ \A i \in 1 .. m : all[n + i] = t[i] /\ n + i \in 1 .. n + m
    OBVIOUS
  <1>2. \A i \in 1 .. n + m : i \in 1 .. n \/ (i - n \in 1 .. m /\ all[i] = t[i - n])
    OBVIOUS
  <1>. HIDE DEF all, n, m
  <1>3. CASE \E i \in 1 .. m : LastOf(t, p, i)
    <2>1. PICK i \in 1 .. m : LastOf(t, p, i)
      BY <1>3
    <2>2. RootIn(t, p) = t[i]
      BY <2>1, RootInLast DEF m
    <2>3. t[i] # NoRoot
      BY <2>1 DEF Range, m
    <2>4. ASSUME NEW j \in 1 .. n + m, OfPrincipal(all[j]) = p
          PROVE  j <= n + i
      <3>1. CASE j \in 1 .. n
        BY <3>1, <1>1
      <3>2. CASE j - n \in 1 .. m /\ all[j] = t[j - n]
        <4>1. j - n <= i
          BY <2>1, <2>4, <3>2 DEF LastOf, m
        <4>. QED BY <4>1, <1>1
      <3>. QED BY <3>1, <3>2, <1>2
    <2>5. LastOf(all, p, n + i) /\ n + i \in 1 .. n + m /\ all[n + i] = t[i]
      BY <2>1, <2>4, <1>1 DEF LastOf
    <2>6. RootIn(all, p) = t[i]
      <3>1. PICK w \in 1 .. Len(all) : w = n + i /\ LastOf(all, p, w)
        BY <1>1, <2>5
      <3>2. RootIn(all, p) = all[w]
        BY <1>1, <3>1, RootInLast
      <3>. QED BY <2>5, <3>1, <3>2
    <2>. QED BY <2>2, <2>3, <2>6 DEF all
  <1>4. CASE ~\E i \in 1 .. m : LastOf(t, p, i)
    <2>1. RootIn(t, p) = NoRoot /\ \A i \in 1 .. m : OfPrincipal(t[i]) # p
      BY <1>4, RootInLast DEF m
    <2>2. \A j \in 1 .. n + m : OfPrincipal(all[j]) = p => j \in 1 .. n
      BY <2>1, <1>2
    <2>3. CASE \E i \in 1 .. n : LastOf(s, p, i)
      <3>1. PICK i \in 1 .. n : LastOf(s, p, i)
        BY <2>3
      <3>2. RootIn(s, p) = s[i]
        BY <3>1, RootInLast DEF n
      <3>3. LastOf(all, p, i) /\ i \in 1 .. n + m /\ all[i] = s[i]
        BY <3>1, <2>2, <1>1 DEF LastOf, n
      <3>4. RootIn(all, p) = s[i]
        BY <3>3, <1>1, RootInLast
      <3>. QED BY <3>2, <3>4, <2>1 DEF all
    <2>4. CASE ~\E i \in 1 .. n : LastOf(s, p, i)
      <3>1. RootIn(s, p) = NoRoot /\ \A i \in 1 .. n : OfPrincipal(s[i]) # p
        BY <2>4, RootInLast DEF n
      <3>2. \A i \in 1 .. n + m : OfPrincipal(all[i]) # p
        BY <3>1, <2>2, <1>1
      <3>3. RootIn(all, p) = NoRoot
        <4>1. ~\E i \in 1 .. Len(all) : LastOf(all, p, i)
          BY <3>2, <1>1 DEF LastOf
        <4>. QED BY <1>1, <4>1, RootInLast
      <3>. QED BY <3>1, <3>3, <2>1 DEF all
    <2>. QED BY <2>3, <2>4
  <1>. QED BY <1>3, <1>4

-----------------------------------------------------------------------------
(* Types and control *)

\* A submitted transaction needs its commit object and perhaps a blob.
LEMMA ObjectFacts ==
  ASSUME Types, NEW t \in Ids
  PROVE  /\ t \in Nat /\ t # NoRoot /\ txns[t] \in Txn
         /\ t \in Incoming(t) /\ t \in Closure(t)
         /\ Incoming(t) \subseteq {t} \cup Blobs
         /\ Closure(t) \subseteq {t} \cup Blobs
         /\ Incoming(t) \subseteq Object
  <1>1. t \in Nat /\ t # NoRoot /\ txns[t] \in Txn
    BY DEF Types, Ids, NoRoot
  <1>2. Closure(t) = {t} \cup ({txns[t].blob} \ {None}) /\ {txns[t].blob} \ {None} \subseteq Blobs
    BY <1>1 DEF Closure, Txn
  <1>3. Incoming(t) = {t} \cup (IF txns[t].carried THEN Closure(t) ELSE {})
    BY DEF Incoming
  <1>4. Incoming(t) \subseteq {t} \cup Blobs /\ t \in Incoming(t)
    BY <1>2, <1>3
  <1>. QED BY <1>1, <1>2, <1>4 DEF Object

\* The transactions of the batch are submitted ones.
LEMMA AcceptedFacts ==
  ASSUME Types, Submitted, job # None
  PROVE  /\ job \in Job
         /\ \A i \in 1 .. Len(job.accepted) : job.accepted[i] \in Ids /\ job.accepted[i] \in Range(job.accepted)
         /\ Range(job.accepted) \subseteq Ids
  <1>1. job \in Job
    BY DEF Types
  <1>2. job.accepted \in Seq(Nat)
    BY <1>1 DEF Job
  <1>3. Range(job.accepted) \subseteq Nat
    BY <1>2, RangeOps
  <1>4. Range(job.accepted) \subseteq Ids \cup Blobs
    BY DEF Submitted, Traces, InBatch
  <1>5. Range(job.accepted) \subseteq Ids
    BY <1>3, <1>4, EngineAssumption
  <1>. QED BY <1>1, <1>2, <1>5 DEF Range

\* append_wal_transactions: the records of a batch
LEMMA WalRecordsFacts ==
  ASSUME Types, Submitted, job # None
  PROVE  /\ WalRecords \in Seq(WalRec) /\ Len(WalRecords) = Len(job.accepted)
         /\ \A i \in 1 .. Len(job.accepted) : WalRecords[i] = [txn |-> job.accepted[i], objs |-> WalObjects(i)]
         /\ Logged(WalRecords) = Range(job.accepted)
         /\ LoggedObjects(WalRecords) \subseteq job.objs \cup (mem.staged \ mem.objs)
  <1>1. job \in Job /\ \A i \in 1 .. Len(job.accepted) : job.accepted[i] \in Ids
    BY AcceptedFacts
  <1>. DEFINE n == Len(job.accepted)
  <1>2. DOMAIN job.accepted = 1 .. n /\ n \in Nat
    BY <1>1 DEF Job
  <1>3. mem.staged \subseteq Object /\ job.objs \subseteq Object
    BY <1>1 DEF Types, MemRec, Job
  <1>4. ASSUME NEW i \in 1 .. n
        PROVE  WalObjects(i) \subseteq job.objs \cup (mem.staged \ mem.objs)
    BY DEF WalObjects
  <1>5. ASSUME NEW i \in 1 .. n
        PROVE  [txn |-> job.accepted[i], objs |-> WalObjects(i)] \in WalRec
    BY <1>1, <1>3, <1>4 DEF WalRec, Ids
  <1>6. WalRecords = [i \in 1 .. n |-> [txn |-> job.accepted[i], objs |-> WalObjects(i)]]
    BY <1>2 DEF WalRecords
  <1>7. WalRecords \in Seq(WalRec) /\ Len(WalRecords) = n /\ DOMAIN WalRecords = 1 .. n
    BY <1>2, <1>5, <1>6
  <1>8. \A i \in 1 .. n : WalRecords[i].txn = job.accepted[i] /\ WalRecords[i].objs = WalObjects(i)
    BY <1>6
  <1>9. Logged(WalRecords) = Range(job.accepted)
    BY <1>2, <1>7, <1>8 DEF Logged, Range
  <1>10. LoggedObjects(WalRecords) \subseteq job.objs \cup (mem.staged \ mem.objs)
    BY <1>4, <1>7, <1>8 DEF LoggedObjects
  <1>. QED BY <1>6, <1>7, <1>9, <1>10

\* The root that a batch leaves
LEMMA PendingRootType ==
  ASSUME Types, job # None, NEW p \in Principals
  PROVE  PendingRoot(p) \in Nat
  <1>1. job.accepted \in Seq(Nat) /\ mem.roots[p] \in Nat
    BY DEF Types, Job, MemRec
  <1>. QED BY <1>1, RootInRange DEF PendingRoot

\* One file is written or flushed.
LEMMA FileWrite ==
  ASSUME NEW S, NEW f \in [disk : S, cache : S], NEW x \in S
  PROVE  /\ [f EXCEPT !.cache = x] \in [disk : S, cache : S]
         /\ [f EXCEPT !.cache = x].cache = x /\ [f EXCEPT !.cache = x].disk = f.disk
         /\ [f EXCEPT !.disk = x] \in [disk : S, cache : S]
         /\ [f EXCEPT !.disk = x].disk = x /\ [f EXCEPT !.disk = x].cache = f.cache
         /\ f.disk \in S /\ f.cache \in S
  OBVIOUS

\* The fields of the engine's state and of its mutex holder
LEMMA FieldTypes ==
  ASSUME Types
  PROVE  /\ arena.disk \in SUBSET Object /\ arena.cache \in SUBSET Object
         /\ roots.disk \in Seq(Nat) /\ roots.cache \in Seq(Nat)
         /\ wal.disk \in Seq(WalRec) /\ wal.cache \in Seq(WalRec)
         /\ mem.index \in SUBSET Object /\ mem.staged \in SUBSET Object
         /\ mem.objs \in SUBSET Object /\ mem.log \in Seq(Nat)
         /\ mem.roots \in [Principals -> Nat]
         /\ job # None => /\ job \in Job /\ job.batch \in Seq(Callers) /\ job.accepted \in Seq(Nat)
                          /\ job.objs \in SUBSET Object /\ job.k \in Nat \ {0} /\ job.step \in Steps
  <1>1. /\ arena.disk \in SUBSET Object /\ arena.cache \in SUBSET Object
        /\ roots.disk \in Seq(Nat) /\ roots.cache \in Seq(Nat)
        /\ wal.disk \in Seq(WalRec) /\ wal.cache \in Seq(WalRec)
    BY FileWrite DEF Types
  <1>2. /\ mem.index \in SUBSET Object /\ mem.staged \in SUBSET Object
        /\ mem.objs \in SUBSET Object /\ mem.log \in Seq(Nat)
        /\ mem.roots \in [Principals -> Nat]
    BY DEF Types, MemRec
  <1>3. job # None => job \in Job
    BY DEF Types
  <1>4. job \in Job => /\ job.batch \in Seq(Callers) /\ job.accepted \in Seq(Nat)
                       /\ job.objs \in SUBSET Object /\ job.k \in Nat \ {0} /\ job.step \in Steps
    BY DEF Job
  <1>. QED BY <1>1, <1>2, <1>3, <1>4

-----------------------------------------------------------------------------
(* What each action does, field by field *)

ArenaType == [disk : SUBSET Object, cache : SUBSET Object]
RootsType == [disk : Seq(Nat), cache : Seq(Nat)]
WalType == [disk : Seq(WalRec), cache : Seq(WalRec)]

\* The mutex holder goes from one step to another and changes nothing else.
Moved(from, to) ==
  /\ job # None /\ job.step = from
  /\ job' \in Job /\ job' # None /\ job'.step = to
  /\ job'.batch = job.batch /\ job'.accepted = job.accepted /\ job'.objs = job.objs
  /\ job'.k = job.k /\ job'.next = job.next

\* The mutex holder's next file operation.
LEMMA GoToMoved ==
  ASSUME Types, NEW from, NEW to \in Steps, Busy(from), GoTo(to)
  PROVE  Moved(from, to)
  BY JobStep DEF Types, Busy, GoTo, Moved

\* A file after a write or a flush
Wrote(f, g, x) == g.cache = x /\ g.disk = f.disk
Flushed(f, g) == g.cache = f.cache /\ g.disk = f.cache

MemIs(m, rts, index, staged, objs, log) ==
  /\ m \in MemRec /\ m.roots = rts /\ m.index = index /\ m.staged = staged
  /\ m.objs = objs /\ m.log = log

\* persist_group_legacy appends the batch's object frames.
LEMMA AppendObjectsEffect ==
  ASSUME Types, AppendObjects
  PROVE  /\ Moved("arena", "arenaSync")
         /\ arena' \in ArenaType /\ Wrote(arena, arena', arena.cache \cup job.objs)
         /\ UNCHANGED <<walOn, roots, wal, life, mem, published, leader, queue, call, txns, acked, refused, verdict, faults>>
  <1>1. Moved("arena", "arenaSync")
    BY GoToMoved DEF AppendObjects, Steps, LegacySteps, WalSteps, FoldSteps, RecoverySteps
  <1>2. arena.cache \cup job.objs \in SUBSET Object
    BY <1>1, FieldTypes DEF Moved
  <1>3. arena' \in ArenaType /\ Wrote(arena, arena', arena.cache \cup job.objs)
    BY <1>2, FileWrite DEF AppendObjects, Types, ArenaType, Wrote
  <1>. QED BY <1>1, <1>2, <1>3 DEF AppendObjects, files, group

\* persist_group_legacy flushes the arena.
LEMMA SyncObjectsEffect ==
  ASSUME Types, SyncObjects
  PROVE  /\ Moved("arenaSync", "roots")
         /\ arena' \in ArenaType /\ Flushed(arena, arena')
         /\ UNCHANGED <<walOn, roots, wal, life, mem, published, leader, queue, call, txns, acked, refused, verdict, faults>>
  <1>1. Moved("arenaSync", "roots")
    BY GoToMoved DEF SyncObjects, Steps, LegacySteps, WalSteps, FoldSteps, RecoverySteps
  <1>2. arena' \in ArenaType /\ Flushed(arena, arena')
    BY FieldTypes, FileWrite DEF SyncObjects, Types, ArenaType, Flushed
  <1>. QED BY <1>1, <1>2 DEF SyncObjects, files, group

\* persist_group_legacy appends the batch's root frames.
LEMMA AppendRootsEffect ==
  ASSUME Types, AppendRoots
  PROVE  /\ Moved("roots", "rootsSync")
         /\ roots' \in RootsType /\ Wrote(roots, roots', roots.cache \o job.accepted)
         /\ UNCHANGED <<walOn, arena, wal, life, mem, published, leader, queue, call, txns, acked, refused, verdict, faults>>
  <1>1. Moved("roots", "rootsSync")
    BY GoToMoved DEF AppendRoots, Steps, LegacySteps, WalSteps, FoldSteps, RecoverySteps
  <1>2. roots.cache \o job.accepted \in Seq(Nat)
    BY <1>1, FieldTypes DEF Moved
  <1>3. roots' \in RootsType /\ Wrote(roots, roots', roots.cache \o job.accepted)
    BY <1>2, FileWrite DEF AppendRoots, Types, RootsType, Wrote
  <1>. QED BY <1>1, <1>2, <1>3 DEF AppendRoots, files, group

\* persist_group_legacy flushes the root journal.
LEMMA SyncRootsEffect ==
  ASSUME Types, SyncRoots
  PROVE  /\ Moved("rootsSync", "publish")
         /\ roots' \in RootsType /\ Flushed(roots, roots')
         /\ UNCHANGED <<walOn, arena, wal, life, mem, published, leader, queue, call, txns, acked, refused, verdict, faults>>
  <1>1. Moved("rootsSync", "publish")
    BY GoToMoved DEF SyncRoots, Steps, LegacySteps, WalSteps, FoldSteps, RecoverySteps
  <1>2. roots' \in RootsType /\ Flushed(roots, roots')
    BY FieldTypes, FileWrite DEF SyncRoots, Types, RootsType, Flushed
  <1>. QED BY <1>1, <1>2 DEF SyncRoots, files, group

\* append_wal_transactions writes the batch's records.
LEMMA AppendWalEffect ==
  ASSUME Types, Submitted, AppendWal
  PROVE  /\ Moved("wal", "walSync")
         /\ wal' \in WalType /\ Wrote(wal, wal', wal.cache \o WalRecords)
         /\ UNCHANGED <<walOn, arena, roots, life, mem, published, leader, queue, call, txns, acked, refused, verdict, faults>>
  <1>1. Moved("wal", "walSync")
    BY GoToMoved DEF AppendWal, Steps, LegacySteps, WalSteps, FoldSteps, RecoverySteps
  <1>2. wal.cache \o WalRecords \in Seq(WalRec)
    BY <1>1, FieldTypes, WalRecordsFacts DEF Moved
  <1>3. wal' \in WalType /\ Wrote(wal, wal', wal.cache \o WalRecords)
    BY <1>2, FileWrite DEF AppendWal, Types, WalType, Wrote
  <1>. QED BY <1>1, <1>2, <1>3 DEF AppendWal, files, group

\* WalWriter::publish flushes the WAL.
LEMMA SyncWalEffect ==
  ASSUME Types, SyncWal
  PROVE  /\ Moved("walSync", "publish")
         /\ wal' \in WalType /\ Flushed(wal, wal')
         /\ UNCHANGED <<walOn, arena, roots, life, mem, published, leader, queue, call, txns, acked, refused, verdict, faults>>
  <1>1. Moved("walSync", "publish")
    BY GoToMoved DEF SyncWal, Steps, LegacySteps, WalSteps, FoldSteps, RecoverySteps
  <1>2. wal' \in WalType /\ Flushed(wal, wal')
    BY FieldTypes, FileWrite DEF SyncWal, Types, WalType, Flushed
  <1>. QED BY <1>1, <1>2 DEF SyncWal, files, group

\* fold_pending_wal appends the objects of the overlay.
LEMMA FoldObjectsEffect ==
  ASSUME Types, FoldObjects
  PROVE  /\ Moved("fold", "foldRoots")
         /\ arena' \in ArenaType /\ Wrote(arena, arena', arena.cache \cup (mem.objs \ mem.index))
         /\ MemIs(mem', mem.roots, mem.index \cup mem.objs, mem.staged, {}, mem.log)
         /\ UNCHANGED <<walOn, roots, wal, life, published, leader, queue, call, txns, acked, refused, verdict, faults>>
  <1>1. Moved("fold", "foldRoots")
    BY GoToMoved DEF FoldObjects, Steps, LegacySteps, WalSteps, FoldSteps, RecoverySteps
  <1>2. arena.cache \cup (mem.objs \ mem.index) \in SUBSET Object
    BY <1>1, FieldTypes DEF Moved
  <1>3. arena' \in ArenaType /\ Wrote(arena, arena', arena.cache \cup (mem.objs \ mem.index))
    BY <1>2, FileWrite DEF FoldObjects, Types, ArenaType, Wrote
  <1>4. MemIs(mem', mem.roots, mem.index \cup mem.objs, mem.staged, {}, mem.log)
    BY FieldTypes DEF FoldObjects, Types, MemRec, MemIs
  <1>. QED BY <1>1, <1>2, <1>3, <1>4 DEF FoldObjects, files, group

\* fold_pending_wal appends the roots of the overlay.
LEMMA FoldRootsEffect ==
  ASSUME Types, FoldRoots
  PROVE  /\ Moved("foldRoots", "foldArenaSync")
         /\ roots' \in RootsType /\ Wrote(roots, roots', roots.cache \o mem.log)
         /\ MemIs(mem', mem.roots, mem.index, mem.staged, mem.objs, <<>>)
         /\ UNCHANGED <<walOn, arena, wal, life, published, leader, queue, call, txns, acked, refused, verdict, faults>>
  <1>1. Moved("foldRoots", "foldArenaSync")
    BY GoToMoved DEF FoldRoots, Steps, LegacySteps, WalSteps, FoldSteps, RecoverySteps
  <1>2. roots.cache \o mem.log \in Seq(Nat)
    BY <1>1, FieldTypes DEF Moved
  <1>3. roots' \in RootsType /\ Wrote(roots, roots', roots.cache \o mem.log)
    BY <1>2, FileWrite DEF FoldRoots, Types, RootsType, Wrote
  <1>4. \A s \in Seq(Nat) : MemIs([mem EXCEPT !.log = s], mem.roots, mem.index, mem.staged, mem.objs, s)
    BY DEF Types, MemRec, MemIs
  <1>5. MemIs(mem', mem.roots, mem.index, mem.staged, mem.objs, <<>>)
    BY <1>4, EmptyOps DEF FoldRoots
  <1>. QED BY <1>1, <1>2, <1>3, <1>4, <1>5 DEF FoldRoots, files, group

\* flush_authority flushes the arena.
LEMMA FoldSyncObjectsEffect ==
  ASSUME Types, FoldSyncObjects
  PROVE  /\ Moved("foldArenaSync", "foldRootsSync")
         /\ arena' \in ArenaType /\ Flushed(arena, arena')
         /\ UNCHANGED <<walOn, roots, wal, life, mem, published, leader, queue, call, txns, acked, refused, verdict, faults>>
  <1>1. Moved("foldArenaSync", "foldRootsSync")
    BY GoToMoved DEF FoldSyncObjects, Steps, LegacySteps, WalSteps, FoldSteps, RecoverySteps
  <1>2. arena' \in ArenaType /\ Flushed(arena, arena')
    BY FieldTypes, FileWrite DEF FoldSyncObjects, Types, ArenaType, Flushed
  <1>. QED BY <1>1, <1>2 DEF FoldSyncObjects, files, group

\* flush_authority flushes the root journal.
LEMMA FoldSyncRootsEffect ==
  ASSUME Types, FoldSyncRoots
  PROVE  /\ Moved("foldRootsSync", "truncate")
         /\ roots' \in RootsType /\ Flushed(roots, roots')
         /\ UNCHANGED <<walOn, arena, wal, life, mem, published, leader, queue, call, txns, acked, refused, verdict, faults>>
  <1>1. Moved("foldRootsSync", "truncate")
    BY GoToMoved DEF FoldSyncRoots, Steps, LegacySteps, WalSteps, FoldSteps, RecoverySteps
  <1>2. roots' \in RootsType /\ Flushed(roots, roots')
    BY FieldTypes, FileWrite DEF FoldSyncRoots, Types, RootsType, Flushed
  <1>. QED BY <1>1, <1>2 DEF FoldSyncRoots, files, group

\* WalWriter::checkpoint truncates the WAL.
LEMMA TruncateWalEffect ==
  ASSUME Types, TruncateWal
  PROVE  /\ Moved("truncate", "truncateSync")
         /\ wal' \in WalType /\ Wrote(wal, wal', <<>>)
         /\ UNCHANGED <<walOn, arena, roots, life, mem, published, leader, queue, call, txns, acked, refused, verdict, faults>>
  <1>1. Moved("truncate", "truncateSync")
    BY GoToMoved DEF TruncateWal, Steps, LegacySteps, WalSteps, FoldSteps, RecoverySteps
  <1>2. <<>> \in Seq(WalRec)
    BY <1>1, FieldTypes DEF Moved
  <1>3. wal' \in WalType /\ Wrote(wal, wal', <<>>)
    BY <1>2, FileWrite DEF TruncateWal, Types, WalType, Wrote
  <1>. QED BY <1>1, <1>2, <1>3 DEF TruncateWal, files, group

\* recover_wal flushes the canonical files.
LEMMA SyncReplayedEffect ==
  ASSUME Types, SyncReplayed
  PROVE  /\ Moved("replay", "retire")
         /\ arena' \in ArenaType /\ Flushed(arena, arena')
         /\ roots' \in RootsType /\ Flushed(roots, roots')
         /\ UNCHANGED <<walOn, wal, life, mem, published, leader, queue, call, txns, acked, refused, verdict, faults>>
  <1>1. Moved("replay", "retire")
    BY GoToMoved DEF SyncReplayed, Steps, LegacySteps, WalSteps, FoldSteps, RecoverySteps
  <1>2. arena' \in ArenaType /\ Flushed(arena, arena')
    BY FieldTypes, FileWrite DEF SyncReplayed, Types, ArenaType, Flushed
  <1>3. roots' \in RootsType /\ Flushed(roots, roots')
    BY FieldTypes, FileWrite DEF SyncReplayed, Types, RootsType, Flushed
  <1>. QED BY <1>1, <1>2, <1>3 DEF SyncReplayed, files, group

\* A recovery truncates the WAL it replayed.
LEMMA RetireWalEffect ==
  ASSUME Types, RetireWal
  PROVE  /\ Moved("retire", "retireSync")
         /\ wal' \in WalType /\ Wrote(wal, wal', <<>>)
         /\ UNCHANGED <<walOn, arena, roots, life, mem, published, leader, queue, call, txns, acked, refused, verdict, faults>>
  <1>1. Moved("retire", "retireSync")
    BY GoToMoved DEF RetireWal, Steps, LegacySteps, WalSteps, FoldSteps, RecoverySteps
  <1>2. <<>> \in Seq(WalRec)
    BY <1>1, FieldTypes DEF Moved
  <1>3. wal' \in WalType /\ Wrote(wal, wal', <<>>)
    BY <1>2, FileWrite DEF RetireWal, Types, WalType, Wrote
  <1>. QED BY <1>1, <1>2, <1>3 DEF RetireWal, files, group

\* stage_object writes one frame to the arena.
LEMMA StageEffect ==
  ASSUME Types, NEW b \in Blobs, Stage(b)
  PROVE  /\ life = "usable" /\ job = None
         /\ arena' \in ArenaType /\ Wrote(arena, arena', arena.cache \cup {b})
         /\ MemIs(mem', mem.roots, mem.index \cup {b}, mem.staged \cup {b}, mem.objs, mem.log)
         /\ UNCHANGED <<walOn, roots, wal, life, published, leader, queue, call, job, txns, acked,
                        refused, verdict, faults>>
  <1>1. arena.cache \cup {b} \in SUBSET Object
    BY FieldTypes DEF Object
  <1>2. arena' \in ArenaType /\ Wrote(arena, arena', arena.cache \cup {b})
    BY <1>1, FileWrite DEF Stage, Types, ArenaType, Wrote
  <1>3. mem.index \cup {b} \in SUBSET Object /\ mem.staged \cup {b} \in SUBSET Object
    BY FieldTypes DEF Object
  <1>4. MemIs(mem', mem.roots, mem.index \cup {b}, mem.staged \cup {b}, mem.objs, mem.log)
    BY <1>3 DEF Stage, Types, MemRec, MemIs
  <1>. QED BY <1>2, <1>4 DEF Stage, group

\* commit_inner enqueues one caller with a new transaction.
LEMMA SubmitEffect ==
  ASSUME Types, NEW c \in Callers, NEW p \in Principals, NEW b \in Blobs \cup {None},
         NEW carried \in BOOLEAN, Submit(c, p, b, carried)
  PROVE  /\ call[c].pc = "idle" /\ queue' = Append(queue, c) /\ queue' \in Seq(Callers)
         /\ txns' \in Seq(Txn) /\ Len(txns') = Len(txns) + 1
         /\ txns'[Len(txns) + 1].expected = published[p]
         /\ \A t \in Ids : txns'[t] = txns[t]
         /\ call' \in [Callers -> CallRec]
         /\ call'[c].pc \in {"waiting", "lead"} /\ call'[c].txn = Len(txns) + 1
         /\ \A d \in Callers \ {c} : call'[d] = call[d]
         /\ UNCHANGED <<walOn, arena, roots, wal, life, mem, published, job, acked, refused,
                        verdict, faults>>
  <1>1. PICK x : /\ x = [principal |-> p, expected |-> published[p], blob |-> b, carried |-> carried]
                 /\ txns' = Append(txns, x)
    BY DEF Submit
  <1>2. x \in Txn /\ x.expected = published[p]
    BY <1>1 DEF Types, Txn
  <1>3. /\ txns' \in Seq(Txn) /\ Len(txns') = Len(txns) + 1 /\ txns'[Len(txns) + 1] = x
        /\ \A t \in Ids : txns'[t] = txns[t]
    BY <1>1, <1>2 DEF Types, Ids
  <1>4. PICK y : /\ y \in CallRec /\ y.pc \in {"waiting", "lead"} /\ y.txn = Len(txns) + 1
                 /\ call' = [call EXCEPT ![c] = y]
    <2>1. PICK q \in {"waiting", "lead"} : call' = [call EXCEPT ![c] = [pc |-> q, txn |-> Len(txns) + 1]]
      BY DEF Submit
    <2>2. [pc |-> q, txn |-> Len(txns) + 1] \in CallRec
      BY DEF Types, CallRec
    <2>. QED BY <2>1, <2>2
  <1>5. /\ call' \in [Callers -> CallRec] /\ call'[c] = y
        /\ \A d \in Callers \ {c} : call'[d] = call[d]
    BY <1>4 DEF Types
  <1>6. queue' = Append(queue, c) /\ queue' \in Seq(Callers)
    BY DEF Submit, Types
  <1>. QED BY <1>2, <1>3, <1>4, <1>5, <1>6 DEF Submit, files

\* The mutex is taken at a step, for a batch or none.
Took(batch, next, step) ==
  /\ job = None
  /\ job' \in Job /\ job' # None /\ job'.step = step
  /\ job'.batch = batch /\ job'.accepted = <<>> /\ job'.objs = {} /\ job'.k = 1 /\ job'.next = next

\* run_one_commit_group takes the mutex with the queue as its batch.
LEMMA DrainEffect ==
  ASSUME Types, NEW c \in Callers, Drain(c)
  PROVE  /\ Took(queue, "prepare", IF life = "usable" THEN "prepare" ELSE "scan")
         /\ queue' = <<>>
         /\ UNCHANGED <<walOn, arena, roots, wal, life, mem, published, leader, call, txns, acked,
                        refused, verdict, faults>>
  <1>1. PICK s \in {"prepare", "scan"} : /\ s = IF life = "usable" THEN "prepare" ELSE "scan"
                 /\ job' = [batch |-> queue, accepted |-> <<>>, objs |-> {}, k |-> 1, next |-> "prepare", step |-> s]
    BY DEF Drain
  <1>2. <<>> \in Seq(Nat) /\ queue \in Seq(Callers) /\ s \in Steps
    BY <1>1 DEF Types, Steps, RecoverySteps
  <1>3. job' \in Job
    BY <1>1, <1>2 DEF Job
  <1>4. job' # None
    BY <1>3, NoneIsNoJob
  <1>. QED BY <1>1, <1>3, <1>4 DEF Drain, Remaining, Took, files

\* flush and open take the mutex without a batch.
LEMMA HoldEffect ==
  ASSUME Types, Flush \/ Open
  PROVE  /\ \/ life = "usable" /\ Took(<<>>, "end", "fold")
            \/ life = "down" /\ Took(<<>>, "end", "scan")
         /\ UNCHANGED <<walOn, arena, roots, wal, life, mem, published, leader, queue, call, txns, acked,
                        refused, verdict, faults>>
  <1>1. PICK s \in {"fold", "scan"} : /\ (s = "fold" /\ life = "usable") \/ (s = "scan" /\ life = "down")
                 /\ job' = [batch |-> <<>>, accepted |-> <<>>, objs |-> {}, k |-> 1, next |-> "end", step |-> s]
    BY DEF Flush, Open, Hold
  <1>2. <<>> \in Seq(Nat) /\ <<>> \in Seq(Callers) /\ s \in Steps
    BY <1>1 DEF Types, Steps, RecoverySteps, FoldSteps
  <1>3. job' \in Job
    BY <1>1, <1>2 DEF Job
  <1>4. job' # None
    BY <1>3, NoneIsNoJob
  <1>5. Took(<<>>, "end", s)
    BY <1>1, <1>3, <1>4 DEF Flush, Open, Took
  <1>. QED BY <1>1, <1>5 DEF Flush, Open, files, group

\* LeaderLease::release changes the release caller and promotes another.
LEMMA ReleaseEffect ==
  ASSUME Types, NEW c \in Callers, Release(c)
  PROVE  /\ call[c].pc = "release"
         /\ call' \in [Callers -> CallRec] /\ call'[c] = Idle
         /\ \A d \in Callers \ {c} : call'[d].txn = call[d].txn /\ call'[d].pc \in {call[d].pc, "lead"}
         /\ UNCHANGED <<walOn, arena, roots, wal, life, mem, published, queue, job, txns, acked,
                        refused, verdict, faults>>
  <1>1. Idle \in CallRec
    BY DEF Idle, CallRec, NoRoot
  <1>2. \A d \in Callers : /\ [call[d] EXCEPT !.pc = "lead"] \in CallRec /\ call[d] \in CallRec
                           /\ [call[d] EXCEPT !.pc = "lead"].txn = call[d].txn
                           /\ [call[d] EXCEPT !.pc = "lead"].pc = "lead"
    BY DEF Types, CallRec
  <1>3. call' = [d \in Callers |->
                IF d = c THEN Idle
                ELSE IF Promoted(d) THEN [call[d] EXCEPT !.pc = "lead"] ELSE call[d]]
    BY DEF Release
  <1>. QED BY <1>1, <1>2, <1>3 DEF Release, files

\* The operation ends: the callers of its batch are answered.
Ended ==
  /\ job # None /\ job' = None
  /\ call' \in [Callers -> CallRec]
  /\ \A c \in Callers : IF c \in Range(job.batch) THEN call'[c].txn = NoRoot ELSE call'[c] = call[c]

\* process_commit_batch completes every receipt of its batch.
LEMMA CompleteEnded ==
  ASSUME Types, job # None, Complete
  PROVE  Ended
  <1>1. /\ [Idle EXCEPT !.pc = "release"] \in CallRec /\ Idle \in CallRec
        /\ [Idle EXCEPT !.pc = "release"].txn = NoRoot /\ Idle.txn = NoRoot
    BY DEF Idle, CallRec, NoRoot
  <1>2. Batch = Range(job.batch)
    BY DEF Batch, Range
  <1>3. call' = [c \in Callers |->
                IF c \notin Batch THEN call[c]
                ELSE IF call[c].pc = "lead" THEN [Idle EXCEPT !.pc = "release"] ELSE Idle]
    BY DEF Complete
  <1>. QED BY <1>1, <1>2, <1>3 DEF Complete, Ended, Types

\* prepare and reserve_group_frames: the next transaction is accepted, with
\* the objects it brings, or refused.
LEMMA PrepareEffect ==
  ASSUME IInv, Prepare
  PROVE  /\ job # None /\ job.step = "prepare" /\ job.k \in 1 .. Len(job.batch)
         /\ job.batch[job.k] \in Callers
         /\ job' \in Job /\ job' # None /\ job'.step = "prepare" /\ job'.batch = job.batch
         /\ job'.k = job.k + 1 /\ job'.next = job.next
         /\ call[job.batch[job.k]].txn \in Ids
         /\ LET t == call[job.batch[job.k]].txn
            IN  \/ /\ job'.accepted = Append(job.accepted, t)
                   /\ job'.objs = job.objs \cup (Incoming(t) \ Known)
                   /\ txns[t].expected = PendingRoot(OfPrincipal(t))
                   /\ Closure(t) \subseteq Known \cup Incoming(t)
                   /\ refused' = refused
                \/ /\ job'.accepted = job.accepted /\ job'.objs = job.objs
                   /\ refused' = refused \cup {t}
         /\ UNCHANGED <<walOn, arena, roots, wal, life, mem, published, leader, queue, call, txns, acked,
                        verdict, faults>>
  <1>. USE DEF IInv
  <1>1. job # None /\ job.step = "prepare" /\ job \in Job
    BY DEF Prepare, Busy, Types
  <1>2. job.batch \in Seq(Callers) /\ job.accepted \in Seq(Nat) /\ job.objs \in SUBSET Object /\ job.k \in Nat \ {0}
    BY <1>1, FieldTypes
  <1>3. job.k <= Len(job.batch)
    BY DEF Prepare
  <1>4. job.k \in 1 .. Len(job.batch) /\ job.batch[job.k] \in Callers
    BY <1>2, <1>3
  <1>5. PICK t : t = call[job.batch[job.k]].txn
    OBVIOUS
  <1>6. t \in Ids
    BY <1>1, <1>4, <1>5 DEF OwnTxn, Waits, Ids, NoRoot
  <1>7. t \in Nat /\ Incoming(t) \subseteq Object
    BY <1>6, ObjectFacts
  <1>8. PICK acc, ob :
          /\ job' = [job EXCEPT !.k = job.k + 1, !.accepted = acc, !.objs = ob]
          /\ \/ /\ acc = Append(job.accepted, t)
                /\ ob = job.objs \cup (Incoming(t) \ Known)
                /\ txns[t].expected = PendingRoot(OfPrincipal(t))
                /\ Closure(t) \subseteq Known \cup Incoming(t)
                /\ refused' = refused
             \/ /\ acc = job.accepted /\ ob = job.objs
                /\ refused' = refused \cup {t}
    <2>. DEFINE ok == /\ txns[t].expected = PendingRoot(OfPrincipal(t))
                      /\ Closure(t) \subseteq Known \cup Incoming(t)
    <2>1. /\ job' = [job EXCEPT !.k = job.k + 1, !.accepted = IF ok THEN Append(job.accepted, t) ELSE job.accepted,
                                !.objs = Reserved(t, ok)]
          /\ refused' = IF ok THEN refused ELSE refused \cup {t}
      BY <1>5 DEF Prepare
    <2>2. CASE ok
      <3>1. Reserved(t, ok) = job.objs \cup (Incoming(t) \ Known)
        BY <2>2 DEF Reserved
      <3>. QED BY <2>1, <2>2, <3>1
    <2>3. CASE ~ok
      <3>1. Reserved(t, ok) = job.objs
        BY <2>3 DEF Reserved
      <3>. QED BY <2>1, <2>3, <3>1
    <2>. QED BY <2>2, <2>3
  <1>9. acc \in Seq(Nat) /\ ob \in SUBSET Object /\ job.k + 1 \in Nat \ {0}
    <2>1. Append(job.accepted, t) \in Seq(Nat)
      BY <1>2, <1>7
    <2>2. job.objs \cup (Incoming(t) \ Known) \in SUBSET Object
      BY <1>2, <1>7
    <2>3. acc \in {Append(job.accepted, t), job.accepted} /\ ob \in {job.objs \cup (Incoming(t) \ Known), job.objs}
      BY <1>8, Zenon
    <2>4. acc \in Seq(Nat)
      BY <1>2, <2>1, <2>3
    <2>5. ob \in SUBSET Object
      BY <1>2, <2>2, <2>3
    <2>. QED BY <1>2, <2>4, <2>5
  <1>10. /\ job' \in Job /\ job'.step = "prepare" /\ job'.batch = job.batch
         /\ job'.k = job.k + 1 /\ job'.next = job.next /\ job'.accepted = acc /\ job'.objs = ob
    BY <1>1, <1>8, <1>9 DEF Job
  <1>11. job' # None
    BY <1>10, NoneIsNoJob
  <1>12. UNCHANGED <<walOn, arena, roots, wal, life, mem, published, leader, queue, call, txns, acked,
                        verdict, faults>>
    BY DEF Prepare, files, group
  <1>. QED BY <1>1, <1>4, <1>5, <1>6, <1>8, <1>10, <1>11, <1>12

\* persist_group: nothing to persist, the legacy path, the WAL, or a checkpoint
\* before the WAL
LEMMA PersistEffect ==
  ASSUME Types, Persist
  PROVE  /\ job # None /\ job.step = "prepare" /\ job \in Job
         /\ \/ job.accepted = <<>> /\ Ended
            \/ /\ job.accepted # <<>> /\ UNCHANGED call
               /\ job' \in Job /\ job' # None /\ job'.batch = job.batch
               /\ job'.accepted = job.accepted /\ job'.objs = job.objs
               /\ \/ ~walOn /\ job'.step = "arena"
                  \/ walOn /\ job'.step = "wal"
                  \/ walOn /\ job'.step = "fold" /\ job'.next = "wal"
         /\ UNCHANGED <<walOn, arena, roots, wal, life, mem, published, leader, queue, txns, acked,
                        refused, verdict, faults>>
  <1>1. job \in Job /\ job # None /\ job.step = "prepare"
    BY DEF Persist, Busy, Types
  <1>2. CASE job.accepted = <<>>
    BY <1>1, <1>2, CompleteEnded DEF Persist, files, group
  <1>3. CASE job.accepted # <<>>
    <2>1. PICK s, n : /\ job' = [job EXCEPT !.step = s, !.next = n]
                      /\ \/ ~walOn /\ s = "arena" /\ n = job.next
                         \/ walOn /\ s = "wal" /\ n = job.next
                         \/ walOn /\ s = "fold" /\ n = "wal"
      <3>1. \A x : [job EXCEPT !.step = x] = [job EXCEPT !.step = x, !.next = job.next]
        BY <1>1 DEF Job
      <3>. QED BY <1>1, <1>3, <3>1 DEF Persist
    <2>2. s \in Steps /\ n \in {"prepare", "end", "wal"}
      BY <1>1, <2>1 DEF Job, Steps, LegacySteps, WalSteps, FoldSteps
    <2>3. /\ job' \in Job /\ job'.step = s /\ job'.next = n /\ job'.accepted = job.accepted
          /\ job'.batch = job.batch /\ job'.objs = job.objs
      BY <1>1, <2>1, <2>2 DEF Job
    <2>4. job' # None
      BY <2>3, NoneIsNoJob
    <2>. QED BY <1>1, <1>3, <2>1, <2>3, <2>4 DEF Persist, files, group
  <1>. QED BY <1>2, <1>3

\* The roots that a batch leaves, typed
LEMMA AfterType ==
  ASSUME Types, job # None
  PROVE  [p \in Principals |-> PendingRoot(p)] \in [Principals -> Nat]
  BY PendingRootType

\* publish_commit_frontier, install_wal_overlay, publish_durable_root and the
\* receipts
LEMMA PublishEffect ==
  ASSUME Types, Publish
  PROVE  /\ job # None /\ job \in Job /\ job.step = "publish" /\ Ended
         /\ \/ walOn /\ MemIs(mem', [p \in Principals |-> PendingRoot(p)], mem.index, {},
                              mem.objs \cup job.objs \cup mem.staged, mem.log \o job.accepted)
            \/ ~walOn /\ MemIs(mem', [p \in Principals |-> PendingRoot(p)], mem.index \cup job.objs, {},
                               mem.objs, mem.log)
         /\ published' = mem'.roots
         /\ acked' = acked \cup Range(job.accepted)
         /\ UNCHANGED <<walOn, arena, roots, wal, life, leader, queue, txns, refused, verdict, faults>>
  <1>1. job \in Job /\ job # None /\ job.step = "publish"
    BY DEF Publish, Busy, Types
  <1>2. Ended
    BY <1>1, CompleteEnded DEF Publish
  <1>3. PICK after : after = [p \in Principals |-> PendingRoot(p)]
    OBVIOUS
  <1>4. after \in [Principals -> Nat]
    BY <1>1, <1>3, AfterType
  <1>5. published' = after /\ acked' = acked \cup Range(job.accepted)
    BY <1>3 DEF Publish, Range
  <1>6. CASE walOn
    <2>1. mem' = [mem EXCEPT !.roots = after, !.staged = {}, !.index = mem.index,
                             !.objs = mem.objs \cup job.objs \cup mem.staged, !.log = mem.log \o job.accepted]
      BY <1>3, <1>6 DEF Publish
    <2>2. mem.objs \cup job.objs \cup mem.staged \in SUBSET Object /\ mem.log \o job.accepted \in Seq(Nat)
      BY <1>1, FieldTypes
    <2>3. MemIs(mem', after, mem.index, {}, mem.objs \cup job.objs \cup mem.staged, mem.log \o job.accepted)
      BY <1>4, <2>1, <2>2 DEF Types, MemRec, MemIs
    <2>4. published' = mem'.roots
      BY <1>5, <2>3 DEF MemIs
    <2>. QED BY <1>1, <1>2, <1>3, <1>5, <1>6, <2>3, <2>4 DEF Publish, files, group
  <1>7. CASE ~walOn
    <2>1. mem' = [mem EXCEPT !.roots = after, !.staged = {}, !.index = mem.index \cup job.objs,
                             !.objs = mem.objs, !.log = mem.log]
      BY <1>3, <1>7 DEF Publish
    <2>2. mem.index \cup job.objs \in SUBSET Object
      BY <1>1, FieldTypes
    <2>3. MemIs(mem', after, mem.index \cup job.objs, {}, mem.objs, mem.log)
      BY <1>4, <2>1, <2>2 DEF Types, MemRec, MemIs
    <2>4. published' = mem'.roots
      BY <1>5, <2>3 DEF MemIs
    <2>. QED BY <1>1, <1>2, <1>3, <1>5, <1>7, <2>3, <2>4 DEF Publish, files, group
  <1>. QED BY <1>6, <1>7 DEF Types

\* checkpoint_transaction_wal: the flushed WAL is empty; the flush ends, or
\* the batch goes on.
LEMMA SyncTruncationEffect ==
  ASSUME Types, Control, SyncTruncation
  PROVE  /\ job # None /\ job.step = "truncateSync"
         /\ \/ job.next = "end" /\ Ended
            \/ job.next = "wal" /\ Moved("truncateSync", "wal") /\ UNCHANGED call
         /\ wal' \in WalType /\ wal'.disk = <<>> /\ wal'.cache = wal.cache
         /\ MemIs(mem', mem.roots, mem.index, {}, mem.objs, mem.log)
         /\ UNCHANGED <<walOn, arena, roots, life, published, leader, queue, txns, acked, refused,
                        verdict, faults>>
  <1>1. job # None /\ job \in Job /\ job.step = "truncateSync" /\ job.next \in {"end", "wal"}
    BY DEF SyncTruncation, Busy, Types, Control, FoldSteps
  <1>2. \/ job.next = "end" /\ Ended
        \/ job.next = "wal" /\ Moved("truncateSync", "wal") /\ UNCHANGED call
    <2>1. CASE job.next = "end"
      BY <1>1, <2>1, CompleteEnded DEF SyncTruncation
    <2>2. CASE job.next = "wal"
      <3>1. Busy("truncateSync") /\ GoTo("wal") /\ "wal" \in Steps /\ UNCHANGED call
        BY <1>1, <2>2 DEF SyncTruncation, Steps, WalSteps
      <3>. QED BY <2>2, <3>1, GoToMoved
    <2>. QED BY <1>1, <2>1, <2>2
  <1>4. wal' \in WalType /\ wal'.disk = <<>> /\ wal'.cache = wal.cache
    <2>1. <<>> \in Seq(WalRec) /\ wal' = [wal EXCEPT !.disk = <<>>]
      BY DEF SyncTruncation
    <2>. QED BY <2>1, FileWrite DEF Types, WalType
  <1>5. MemIs(mem', mem.roots, mem.index, {}, mem.objs, mem.log)
    BY DEF SyncTruncation, Types, MemRec, MemIs
  <1>. QED BY <1>1, <1>2, <1>4, <1>5 DEF SyncTruncation, group

\* recover_store reads the arena and the root journal.
LEMMA ScanEffect ==
  ASSUME Types, Scan
  PROVE  /\ job # None /\ job.step = "scan"
         /\ MemIs(mem', RootsIn(roots.cache), arena.cache, {}, {}, <<>>)
         /\ \/ verdict' = "conflict" /\ Ended
            \/ /\ UNCHANGED <<call, verdict>>
               /\ job' \in Job /\ job' # None
               /\ job'.step = IF walOn THEN "replay" ELSE "validate"
               /\ job'.batch = job.batch /\ job'.accepted = job.accepted /\ job'.objs = job.objs
               /\ job'.k = 1 /\ job'.next = job.next
         /\ UNCHANGED <<walOn, arena, roots, wal, life, published, leader, queue, txns, acked, refused, faults>>
  <1>1. job # None /\ job \in Job /\ job.step = "scan"
    BY DEF Scan, Busy, Types
  <1>2. RootsIn(roots.cache) \in [Principals -> Nat]
    BY FieldTypes, RootInRange DEF RootsIn
  <1>3. MemIs(mem', RootsIn(roots.cache), arena.cache, {}, {}, <<>>)
    <2>1. PICK r \in [Principals -> Nat] : r = RootsIn(roots.cache)
      BY <1>2
    <2>2. PICK e \in [Principals -> Nat] : EmptyMem = [roots |-> e, index |-> {}, staged |-> {}, objs |-> {}, log |-> <<>>]
      BY DEF EmptyMem, NoRoot
    <2>3. arena.cache \in SUBSET Object /\ <<>> \in Seq(Nat)
      BY FieldTypes
    <2>4. mem' = [roots |-> r, index |-> arena.cache, staged |-> {}, objs |-> {}, log |-> <<>>]
      BY <2>1, <2>2 DEF Scan
    <2>5. MemIs(mem', r, arena.cache, {}, {}, <<>>)
      BY <2>3, <2>4 DEF MemRec, MemIs
    <2>. QED BY <2>1, <2>5
  <1>4. CASE ~ChainValid(roots.cache)
    <2>1. verdict' = "conflict" /\ Ended
      BY <1>1, <1>4, CompleteEnded DEF Scan, FailRecovery
    <2>. QED BY <1>1, <1>3, <2>1 DEF Scan, files, group
  <1>5. CASE ChainValid(roots.cache)
    <2>1. PICK s \in Steps : s = IF walOn THEN "replay" ELSE "validate"
      BY DEF Steps, RecoverySteps
    <2>2. job' = [job EXCEPT !.step = s, !.k = 1] /\ UNCHANGED <<call, verdict>>
      BY <1>5, <2>1 DEF Scan
    <2>3. /\ job' \in Job /\ job'.step = s /\ job'.k = 1 /\ job'.batch = job.batch
          /\ job'.accepted = job.accepted /\ job'.objs = job.objs /\ job'.next = job.next
      <3>1. s \in Steps /\ 1 \in Nat \ {0}
        OBVIOUS
      <3>. QED BY <1>1, <2>2, <3>1 DEF Job
    <2>4. job' # None
      BY <2>3, NoneIsNoJob
    <2>. QED BY <1>1, <1>3, <2>1, <2>2, <2>3, <2>4 DEF Scan, files, group
  <1>. QED BY <1>4, <1>5

\* replay_transaction folds one record's objects and flushes the arena.
LEMMA ReplayObjectsEffect ==
  ASSUME Types, ReplayObjects
  PROVE  /\ Moved("replay", "replayRoot") /\ job.k \in 1 .. Len(wal.cache)
         /\ wal.cache[job.k] \in WalRec
         /\ arena' \in ArenaType /\ arena'.disk = arena'.cache
         /\ arena'.cache = arena.cache \cup (wal.cache[job.k].objs \ mem.index)
         /\ MemIs(mem', mem.roots, mem.index \cup (wal.cache[job.k].objs \ mem.index), mem.staged,
                  mem.objs, mem.log)
         /\ UNCHANGED <<walOn, roots, wal, life, published, leader, queue, call, txns, acked, refused,
                        verdict, faults>>
  <1>1. Moved("replay", "replayRoot")
    BY GoToMoved DEF ReplayObjects, Steps, RecoverySteps
  <1>2. job.k \in Nat \ {0} /\ wal.cache \in Seq(WalRec)
    BY <1>1, FieldTypes DEF Moved
  <1>3. job.k <= Len(wal.cache)
    BY DEF ReplayObjects
  <1>4. job.k \in 1 .. Len(wal.cache) /\ wal.cache[job.k] \in WalRec
    BY <1>2, <1>3
  <1>5. PICK missing \in SUBSET Object : missing = wal.cache[job.k].objs \ mem.index
    BY <1>4 DEF WalRec
  <1>6. /\ arena.cache \cup missing \in SUBSET Object /\ mem.index \cup missing \in SUBSET Object
    BY <1>5, FieldTypes
  <1>7. /\ arena' = [disk |-> arena.cache \cup missing, cache |-> arena.cache \cup missing]
        /\ mem' = [mem EXCEPT !.index = mem.index \cup missing]
    BY <1>5 DEF ReplayObjects
  <1>8. arena' \in ArenaType /\ arena'.disk = arena'.cache /\ arena'.cache = arena.cache \cup missing
    BY <1>6, <1>7 DEF ArenaType
  <1>9. MemIs(mem', mem.roots, mem.index \cup missing, mem.staged, mem.objs, mem.log)
    BY <1>6, <1>7 DEF Types, MemRec, MemIs
  <1>. QED BY <1>1, <1>4, <1>5, <1>8, <1>9 DEF ReplayObjects, group

\* replay_transaction: a conflict or a missing object ends the recovery;
\* otherwise the record's root is in the journal and current.
LEMMA ReplayRootEffect ==
  ASSUME Types, ReplayRoot, job.k \in 1 .. Len(wal.cache)
  PROVE  /\ job # None /\ job.step = "replayRoot" /\ wal.cache[job.k].txn \in Nat
         /\ LET t == wal.cache[job.k].txn
                p == OfPrincipal(t)
            IN  \/ verdict' = "conflict" /\ Ended /\ UNCHANGED <<roots, mem>>
                \/ /\ verdict' = "missing" /\ Ended /\ UNCHANGED <<roots, mem>>
                   /\ ~(Closure(t) \subseteq mem.index)
                \/ /\ Closure(t) \subseteq mem.index /\ mem.roots[p] \in {txns[t].expected, t}
                   /\ roots' \in RootsType /\ roots'.disk = roots.disk
                   /\ roots'.cache = IF mem.roots[p] = t THEN roots.cache ELSE Append(roots.cache, t)
                   /\ MemIs(mem', [mem.roots EXCEPT ![p] = t], mem.index, mem.staged, mem.objs, mem.log)
                   /\ job' \in Job /\ job' # None /\ job'.step = "replay" /\ job'.k = job.k + 1
                   /\ job'.batch = job.batch /\ job'.accepted = job.accepted
                   /\ job'.objs = job.objs /\ job'.next = job.next
                   /\ UNCHANGED <<call, verdict>>
         /\ UNCHANGED <<walOn, arena, wal, life, published, leader, queue, txns, acked, refused, faults>>
  <1>1. job # None /\ job \in Job /\ job.step = "replayRoot"
    BY DEF ReplayRoot, Busy, Types
  <1>2. PICK t : t = wal.cache[job.k].txn
    OBVIOUS
  <1>3. t \in Nat
    <2>1. wal.cache[job.k] \in WalRec
      BY FieldTypes
    <2>. QED BY <1>2, <2>1 DEF WalRec
  <1>4. PICK p : p = OfPrincipal(t)
    OBVIOUS
  <1>5. UNCHANGED <<walOn, arena, wal, life, published, leader, queue, txns, acked, refused, faults>>
    BY DEF ReplayRoot, group
  <1>6. CASE mem.roots[p] \notin {txns[t].expected, t}
    <2>1. verdict' = "conflict" /\ Ended /\ UNCHANGED <<roots, mem>>
      BY <1>1, <1>2, <1>4, <1>6, CompleteEnded DEF ReplayRoot, FailRecovery
    <2>. QED BY <1>1, <1>2, <1>3, <1>5, <2>1
  <1>7. CASE mem.roots[p] \in {txns[t].expected, t} /\ ~(Closure(t) \subseteq mem.index)
    <2>1. verdict' = "missing" /\ Ended /\ UNCHANGED <<roots, mem>>
      BY <1>1, <1>2, <1>4, <1>7, CompleteEnded DEF ReplayRoot, FailRecovery
    <2>. QED BY <1>1, <1>2, <1>3, <1>5, <1>7, <2>1
  <1>8. CASE mem.roots[p] \in {txns[t].expected, t} /\ Closure(t) \subseteq mem.index
    <2>1. /\ roots' = IF mem.roots[p] = t THEN roots ELSE [roots EXCEPT !.cache = Append(roots.cache, t)]
          /\ mem' = [mem EXCEPT !.roots[p] = t]
          /\ job' = [job EXCEPT !.step = "replay", !.k = job.k + 1]
          /\ UNCHANGED <<call, verdict>>
      BY <1>2, <1>4, <1>8 DEF ReplayRoot
    <2>2. /\ roots' \in RootsType /\ roots'.disk = roots.disk
          /\ roots'.cache = IF mem.roots[p] = t THEN roots.cache ELSE Append(roots.cache, t)
      <3>1. Append(roots.cache, t) \in Seq(Nat)
        BY <1>3, FieldTypes
      <3>. QED BY <2>1, <3>1, FileWrite DEF Types, RootsType
    <2>3. MemIs(mem', [mem.roots EXCEPT ![p] = t], mem.index, mem.staged, mem.objs, mem.log)
      <3>1. PICK r : r = [mem.roots EXCEPT ![p] = t]
        OBVIOUS
      <3>2. r \in [Principals -> Nat]
        BY <1>3, <3>1, FieldTypes
      <3>3. mem' = [mem EXCEPT !.roots = r]
        BY <2>1, <3>1
      <3>4. MemIs(mem', r, mem.index, mem.staged, mem.objs, mem.log)
        BY <3>2, <3>3 DEF Types, MemRec, MemIs
      <3>. QED BY <3>1, <3>4
    <2>4. /\ job' \in Job /\ job'.step = "replay" /\ job'.k = job.k + 1
          /\ job'.batch = job.batch /\ job'.accepted = job.accepted
          /\ job'.objs = job.objs /\ job'.next = job.next
      <3>1. "replay" \in Steps /\ job.k + 1 \in Nat \ {0}
        BY <1>1 DEF Job, Steps, RecoverySteps
      <3>. QED BY <1>1, <2>1, <3>1 DEF Job
    <2>5. job' # None
      BY <2>4, NoneIsNoJob
    <2>. QED BY <1>1, <1>2, <1>3, <1>4, <1>5, <1>8, <2>1, <2>2, <2>3, <2>4, <2>5
  <1>. QED BY <1>6, <1>7, <1>8

\* The truncation of a replayed WAL is flushed.
LEMMA SyncRetirementEffect ==
  ASSUME Types, SyncRetirement
  PROVE  /\ Moved("retireSync", "validate")
         /\ wal' \in WalType /\ wal'.disk = <<>> /\ wal'.cache = wal.cache
         /\ UNCHANGED <<walOn, arena, roots, life, mem, published, leader, queue, call, txns, acked,
                        refused, verdict, faults>>
  <1>1. Moved("retireSync", "validate")
    BY GoToMoved DEF SyncRetirement, Steps, RecoverySteps
  <1>2. wal' \in WalType /\ wal'.disk = <<>> /\ wal'.cache = wal.cache
    <2>1. <<>> \in Seq(WalRec) /\ wal' = [wal EXCEPT !.disk = <<>>]
      BY DEF SyncRetirement
    <2>. QED BY <2>1, FileWrite DEF Types, WalType
  <1>. QED BY <1>1, <1>2 DEF SyncRetirement, group

\* recover_roots finds a root without its objects, or the engine is usable
\* again and goes on with the batch.
LEMMA InstallEffect ==
  ASSUME Types, Control, Install
  PROVE  /\ job # None /\ job.step = "validate"
         /\ \/ /\ verdict' = "missing" /\ Ended /\ UNCHANGED <<arena, roots, published, life>>
               /\ \E p \in Principals : ~(Closure(mem.roots[p]) \subseteq mem.index)
            \/ /\ \A p \in Principals : Closure(mem.roots[p]) \subseteq mem.index
               /\ arena' \in ArenaType /\ roots' \in RootsType
               /\ arena'.cache = arena.cache /\ roots'.cache = roots.cache
               /\ \/ arena'.disk = arena.disk /\ roots'.disk = roots.disk /\ life # "poisoned"
                  \/ arena'.disk = arena.cache /\ roots'.disk = roots.cache
               /\ published' = mem.roots /\ life' = "usable" /\ verdict' = "ok"
               /\ \/ job.next = "end" /\ Ended
                  \/ /\ job.next = "prepare" /\ UNCHANGED call
                     /\ job' \in Job /\ job' # None /\ job'.step = "prepare" /\ job'.k = 1
                     /\ job'.batch = job.batch /\ job'.accepted = job.accepted
                     /\ job'.objs = job.objs /\ job'.next = job.next
         /\ UNCHANGED <<walOn, wal, mem, leader, queue, txns, acked, refused, faults>>
  <1>1. job # None /\ job \in Job /\ job.step = "validate" /\ job.next \in {"end", "prepare"}
    BY DEF Install, Busy, Types, Control, RecoverySteps
  <1>2. UNCHANGED <<walOn, wal, mem, leader, queue, txns, acked, refused, faults>>
    BY DEF Install, group
  <1>3. CASE \E p \in Principals : ~(Closure(mem.roots[p]) \subseteq mem.index)
    <2>1. verdict' = "missing" /\ Ended /\ UNCHANGED <<arena, roots, published, life>>
      BY <1>1, <1>3, CompleteEnded DEF Install, FailRecovery
    <2>. QED BY <1>1, <1>2, <1>3, <2>1
  <1>4. CASE \A p \in Principals : Closure(mem.roots[p]) \subseteq mem.index
    <2>1. /\ arena' = IF life = "poisoned" THEN [arena EXCEPT !.disk = arena.cache] ELSE arena
          /\ roots' = IF life = "poisoned" THEN [roots EXCEPT !.disk = roots.cache] ELSE roots
          /\ published' = mem.roots /\ life' = "usable" /\ verdict' = "ok"
          /\ IF job.next = "end" THEN Complete
             ELSE job' = [job EXCEPT !.step = job.next, !.k = 1] /\ UNCHANGED call
      BY <1>4 DEF Install, Republished
    <2>2. /\ arena' \in ArenaType /\ roots' \in RootsType
          /\ arena'.cache = arena.cache /\ roots'.cache = roots.cache
          /\ \/ arena'.disk = arena.disk /\ roots'.disk = roots.disk /\ life # "poisoned"
             \/ arena'.disk = arena.cache /\ roots'.disk = roots.cache
      BY <2>1, FileWrite DEF Types, ArenaType, RootsType
    <2>3. \/ job.next = "end" /\ Ended
          \/ /\ job.next = "prepare" /\ UNCHANGED call
             /\ job' \in Job /\ job' # None /\ job'.step = "prepare" /\ job'.k = 1
             /\ job'.batch = job.batch /\ job'.accepted = job.accepted
             /\ job'.objs = job.objs /\ job'.next = job.next
      <3>1. CASE job.next = "end"
        BY <1>1, <2>1, <3>1, CompleteEnded
      <3>2. CASE job.next = "prepare"
        <4>1. job' = [job EXCEPT !.step = "prepare", !.k = 1] /\ UNCHANGED call
          BY <2>1, <3>2
        <4>2. "prepare" \in Steps /\ 1 \in Nat \ {0}
          BY DEF Steps
        <4>3. /\ job' \in Job /\ job'.step = "prepare" /\ job'.k = 1
              /\ job'.batch = job.batch /\ job'.accepted = job.accepted
              /\ job'.objs = job.objs /\ job'.next = job.next
          BY <1>1, <4>1, <4>2 DEF Job
        <4>4. job' # None
          BY <4>3, NoneIsNoJob
        <4>. QED BY <3>2, <4>1, <4>3, <4>4
      <3>. QED BY <1>1, <3>1, <3>2
    <2>. QED BY <1>1, <1>2, <1>4, <2>1, <2>2, <2>3
  <1>. QED BY <1>3, <1>4

\* A sequence that a partial write leaves is a cut of what was to be written.
Cut(s, whole) == \E n \in 0 .. Len(whole) : s = SubSeq(whole, 1, n)
\* What a failed write leaves is a cut of what was to be written.
LEMMA CutFacts ==
  ASSUME NEW S, NEW whole \in Seq(S), NEW s \in Prefixes(whole, 0)
  PROVE  s \in Seq(S) /\ Cut(s, whole)
  <1>1. PICK n \in 0 .. Len(whole) : s = SubSeq(whole, 1, n)
    BY DEF Prefixes
  <1>. QED BY <1>1, RangeOps DEF Cut

\* mark_requires_recovery: a failed write may leave some frames behind, and
\* the engine needs a recovery.
LEMMA IoErrorEffect ==
  ASSUME Types, Submitted, IoError
  PROVE  /\ job # None /\ Ended
         /\ arena' \in ArenaType /\ arena'.disk = arena.disk /\ arena.cache \subseteq arena'.cache
         /\ arena'.cache \subseteq arena.cache \cup (IF job.step = "arena" THEN job.objs ELSE {})
              \cup (IF job.step = "fold" THEN mem.objs ELSE {})
         /\ \E s \in Seq(Nat) :
              /\ roots' \in RootsType /\ Wrote(roots, roots', roots.cache \o s)
              /\ \/ s = <<>>
                 \/ job.step = "roots" /\ Cut(s, job.accepted)
                 \/ job.step = "foldRoots" /\ Cut(s, mem.log)
         /\ \E s \in Seq(WalRec) :
              /\ wal' \in WalType /\ Wrote(wal, wal', wal.cache \o s)
              /\ s = <<>> \/ (job.step = "wal" /\ Cut(s, WalRecords))
         /\ life' = (IF life = "usable" THEN "poisoned" ELSE life)
         /\ UNCHANGED <<walOn, mem, published, leader, queue, txns, acked, refused, verdict>>
  <1>1. job # None /\ job \in Job /\ Ended
    BY CompleteEnded DEF IoError, Types
  <1>2. /\ arena' \in ArenaType /\ arena'.disk = arena.disk /\ arena.cache \subseteq arena'.cache
        /\ arena'.cache \subseteq arena.cache \cup (IF job.step = "arena" THEN job.objs ELSE {})
              \cup (IF job.step = "fold" THEN mem.objs ELSE {})
    <2>1. PICK a \in PartialSet("arena", job.objs), f \in PartialSet("fold", mem.objs \ mem.index) :
             arena' = [arena EXCEPT !.cache = arena.cache \cup a \cup f]
      BY DEF IoError
    <2>2. /\ a \subseteq (IF job.step = "arena" THEN job.objs ELSE {})
          /\ f \subseteq (IF job.step = "fold" THEN mem.objs ELSE {})
      BY <2>1 DEF PartialSet, Busy
    <2>3. PICK x : x = arena.cache \cup a \cup f
      OBVIOUS
    <2>4. x \in SUBSET Object
      BY <1>1, <2>2, <2>3, FieldTypes
    <2>5. arena' \in ArenaType /\ arena'.disk = arena.disk /\ arena'.cache = x
      BY <2>1, <2>3, <2>4, FileWrite DEF Types, ArenaType
    <2>. QED BY <2>2, <2>3, <2>5
  <1>3. \E s \in Seq(Nat) :
          /\ roots' \in RootsType /\ Wrote(roots, roots', roots.cache \o s)
          /\ \/ s = <<>>
             \/ job.step = "roots" /\ Cut(s, job.accepted)
             \/ job.step = "foldRoots" /\ Cut(s, mem.log)
    <2>1. PICK r \in Partial("roots", job.accepted), f \in Partial("foldRoots", mem.log) :
             roots' = [roots EXCEPT !.cache = roots.cache \o r \o f]
      BY DEF IoError
    <2>2. job.accepted \in Seq(Nat) /\ mem.log \in Seq(Nat) /\ roots.cache \in Seq(Nat)
      BY <1>1, FieldTypes
    <2>3. PICK s \in Seq(Nat) : /\ roots.cache \o r \o f = roots.cache \o s
                                /\ \/ s = <<>>
                                   \/ job.step = "roots" /\ Cut(s, job.accepted)
                                   \/ job.step = "foldRoots" /\ Cut(s, mem.log)
      <3>1. r = <<>> \/ (job.step = "roots" /\ r \in Prefixes(job.accepted, 0))
        BY <2>1 DEF Partial, Busy
      <3>2. f = <<>> \/ (job.step = "foldRoots" /\ f \in Prefixes(mem.log, 0))
        BY <2>1 DEF Partial, Busy
      <3>3. r = <<>> \/ (job.step = "roots" /\ r \in Seq(Nat) /\ Cut(r, job.accepted))
        BY <2>2, <3>1, CutFacts
      <3>4. f = <<>> \/ (job.step = "foldRoots" /\ f \in Seq(Nat) /\ Cut(f, mem.log))
        BY <2>2, <3>2, CutFacts
      <3>5. CASE r = <<>>
        <4>1. f \in Seq(Nat)
          BY <3>4, EmptyOps
        <4>2. roots.cache \o r \o f = roots.cache \o f
          BY <2>2, <3>5, <4>1
        <4>. QED BY <3>4, <4>1, <4>2
      <3>6. CASE r # <<>>
        <4>1. f = <<>> /\ r \in Seq(Nat)
          BY <3>3, <3>4, <3>6
        <4>2. roots.cache \o r \o f = roots.cache \o r
          BY <2>2, <4>1
        <4>. QED BY <3>3, <3>6, <4>1, <4>2
      <3>. QED BY <3>5, <3>6
    <2>4. roots.cache \o s \in Seq(Nat)
      BY <2>2
    <2>5. roots' \in RootsType /\ Wrote(roots, roots', roots.cache \o s)
      BY <2>1, <2>3, <2>4, FileWrite DEF Types, RootsType, Wrote
    <2>. QED BY <2>3, <2>5
  <1>4. \E s \in Seq(WalRec) :
          /\ wal' \in WalType /\ Wrote(wal, wal', wal.cache \o s)
          /\ s = <<>> \/ (job.step = "wal" /\ Cut(s, WalRecords))
    <2>1. PICK s \in Partial("wal", WalRecords) : wal' = [wal EXCEPT !.cache = wal.cache \o s]
      BY DEF IoError
    <2>2. s = <<>> \/ (job.step = "wal" /\ s \in Prefixes(WalRecords, 0))
      BY <2>1 DEF Partial, Busy
    <2>3. s \in Seq(WalRec) /\ (s = <<>> \/ (job.step = "wal" /\ Cut(s, WalRecords)))
      BY <1>1, <2>2, CutFacts, WalRecordsFacts, EmptyOps
    <2>4. wal.cache \o s \in Seq(WalRec)
      BY <2>3, FieldTypes
    <2>5. wal' \in WalType /\ Wrote(wal, wal', wal.cache \o s)
      BY <2>1, <2>3, <2>4, FileWrite DEF Types, WalType, Wrote
    <2>. QED BY <2>3, <2>5
  <1>. QED BY <1>1, <1>2, <1>3, <1>4 DEF IoError, group

\* The process is gone.
Stopped ==
  /\ life' = "down" /\ queue' = <<>> /\ job' = None
  /\ MemIs(mem', [p \in Principals |-> NoRoot], {}, {}, {}, <<>>)
  /\ published' = [p \in Principals |-> NoRoot] /\ published' \in [Principals -> Nat]
  /\ call' \in [Callers -> CallRec] /\ \A c \in Callers : call'[c].txn = NoRoot
  /\ UNCHANGED <<walOn, txns, acked, refused, verdict>>

\* A process that stops forgets its memory and its callers.
LEMMA StopStopped ==
  ASSUME Types, Stop
  PROVE  Stopped
  <1>1. PICK e \in [Principals -> Nat] : e = [p \in Principals |-> NoRoot]
    BY DEF NoRoot
  <1>2. mem' = [roots |-> e, index |-> {}, staged |-> {}, objs |-> {}, log |-> <<>>]
    BY <1>1 DEF Stop, EmptyMem
  <1>3. MemIs(mem', e, {}, {}, {}, <<>>)
    BY <1>2 DEF MemRec, MemIs
  <1>4. Idle \in CallRec /\ Idle.txn = NoRoot
    BY DEF Idle, CallRec, NoRoot
  <1>5. call' \in [Callers -> CallRec] /\ \A c \in Callers : call'[c].txn = NoRoot
    BY <1>4 DEF Stop
  <1>. QED BY <1>1, <1>3, <1>5 DEF Stop, Stopped

\* What a crash leaves of a file: all of what was written, or at least what
\* was flushed
Left(f, s) == \E n \in 0 .. Len(f.cache) :
                /\ s = SubSeq(f.cache, 1, n)
                /\ n = Len(f.cache) \/ n >= Len(f.disk)

\* The images of a file after a crash.
LEMMA LeftFacts ==
  ASSUME NEW S, NEW f \in [disk : Seq(S), cache : Seq(S)],
         NEW s \in {f.cache} \cup Prefixes(f.cache, Len(f.disk))
  PROVE  s \in Seq(S) /\ Left(f, s)
  <1>1. f.cache \in Seq(S) /\ f.disk \in Seq(S)
    OBVIOUS
  <1>2. CASE s = f.cache
    <2>1. f.cache = SubSeq(f.cache, 1, Len(f.cache)) /\ Len(f.cache) \in 0 .. Len(f.cache)
      BY <1>1
    <2>. QED BY <1>1, <1>2, <2>1 DEF Left
  <1>3. CASE s \in Prefixes(f.cache, Len(f.disk))
    <2>1. PICK n \in Len(f.disk) .. Len(f.cache) : s = SubSeq(f.cache, 1, n)
      BY <1>3 DEF Prefixes
    <2>2. n \in 0 .. Len(f.cache) /\ n >= Len(f.disk)
      BY <1>1, <2>1
    <2>3. SubSeq(f.cache, 1, n) \in Seq(S)
      BY <1>1, <2>2, RangeOps
    <2>. QED BY <2>1, <2>2, <2>3 DEF Left
  <1>. QED BY <1>2, <1>3

\* A process crash loses at most the WAL records in its write buffer.
LEMMA ProcessCrashEffect ==
  ASSUME Types, ProcessCrash
  PROVE  /\ Stopped
         /\ wal' \in WalType /\ wal'.disk = wal.disk /\ Left(wal, wal'.cache)
         /\ UNCHANGED <<arena, roots>>
  <1>1. PICK log \in {wal.cache} \cup Prefixes(wal.cache, Len(wal.disk)) : wal' = [wal EXCEPT !.cache = log]
    BY DEF ProcessCrash
  <1>2. log \in Seq(WalRec) /\ Left(wal, log)
    BY <1>1, LeftFacts DEF Types
  <1>3. wal' \in WalType /\ wal'.disk = wal.disk /\ wal'.cache = log
    BY <1>1, <1>2, FileWrite DEF Types, WalType
  <1>. QED BY <1>2, <1>3, StopStopped DEF ProcessCrash

\* A power loss leaves some image of each file.
LEMMA PowerLossEffect ==
  ASSUME Types, Files, PowerLoss
  PROVE  /\ Stopped
         /\ arena' \in ArenaType /\ arena'.disk = arena'.cache
         /\ arena.disk \subseteq arena'.cache /\ arena'.cache \subseteq arena.cache
         /\ roots' \in RootsType /\ roots'.disk = roots'.cache
         /\ roots'.cache = roots.disk \/ Left(roots, roots'.cache)
         /\ wal' \in WalType /\ wal'.disk = wal'.cache
         /\ wal'.cache = wal.disk \/ Left(wal, wal'.cache)
  <1>1. /\ arena' \in ArenaType /\ arena'.disk = arena'.cache
        /\ arena.disk \subseteq arena'.cache /\ arena'.cache \subseteq arena.cache
    <2>1. PICK lost \in SUBSET (arena.cache \ arena.disk) :
             arena' = [disk |-> arena.cache \ lost, cache |-> arena.cache \ lost]
      BY DEF PowerLoss
    <2>2. PICK kept \in SUBSET Object : kept = arena.cache \ lost
      BY FieldTypes
    <2>3. arena' \in ArenaType /\ arena'.disk = kept /\ arena'.cache = kept
      BY <2>1, <2>2 DEF ArenaType
    <2>. QED BY <2>1, <2>2, <2>3 DEF Files
  <1>2. /\ roots' \in RootsType /\ roots'.disk = roots'.cache
        /\ roots'.cache = roots.disk \/ Left(roots, roots'.cache)
    <2>1. PICK j \in Images(roots) : roots' = [disk |-> j, cache |-> j]
      BY DEF PowerLoss
    <2>2. j = roots.disk \/ j \in {roots.cache} \cup Prefixes(roots.cache, Len(roots.disk))
      BY <2>1 DEF Images
    <2>3. j \in Seq(Nat) /\ (j = roots.disk \/ Left(roots, j))
      BY <2>2, LeftFacts, FieldTypes DEF Types
    <2>4. roots' \in RootsType /\ roots'.disk = j /\ roots'.cache = j
      BY <2>1, <2>3 DEF RootsType
    <2>. QED BY <2>3, <2>4
  <1>3. /\ wal' \in WalType /\ wal'.disk = wal'.cache
        /\ wal'.cache = wal.disk \/ Left(wal, wal'.cache)
    <2>1. PICK j \in Images(wal) : wal' = [disk |-> j, cache |-> j]
      BY DEF PowerLoss
    <2>2. j = wal.disk \/ j \in {wal.cache} \cup Prefixes(wal.cache, Len(wal.disk))
      BY <2>1 DEF Images
    <2>3. j \in Seq(WalRec) /\ (j = wal.disk \/ Left(wal, j))
      BY <2>2, LeftFacts, FieldTypes DEF Types
    <2>4. wal' \in WalType /\ wal'.disk = j /\ wal'.cache = j
      BY <2>1, <2>3 DEF WalType
    <2>. QED BY <2>3, <2>4
  <1>. QED BY <1>1, <1>2, <1>3, StopStopped DEF PowerLoss

-----------------------------------------------------------------------------
(* Types and control are kept *)

\* The cases of a step, in the order of the lemmas above
LEMMA Cases ==
  ASSUME [Next]_vars
  PROVE  \/ UNCHANGED vars
         \/ \E b \in Blobs : Stage(b)
         \/ \E c \in Callers, p \in Principals, b \in Blobs \cup {None}, carried \in BOOLEAN :
              Submit(c, p, b, carried)
         \/ \E c \in Callers : Drain(c)
         \/ \E c \in Callers : Release(c)
         \/ (Flush \/ Open) \/ Prepare \/ Persist
         \/ AppendObjects \/ SyncObjects \/ AppendRoots \/ SyncRoots \/ AppendWal \/ SyncWal \/ Publish
         \/ FoldObjects \/ FoldRoots \/ FoldSyncObjects \/ FoldSyncRoots \/ TruncateWal \/ SyncTruncation
         \/ Scan \/ ReplayObjects \/ ReplayRoot \/ SyncReplayed \/ RetireWal \/ SyncRetirement \/ Install
         \/ IoError \/ ProcessCrash \/ PowerLoss
  BY DEF Next, Request, CommitStep, CheckpointStep, RecoveryStep, Fault

\* A step of the mutex holder within its kind of operation
LEMMA MovedControl ==
  ASSUME Control, NEW from, NEW to, Moved(from, to), UNCHANGED <<walOn, life>>,
         \/ from \in LegacySteps /\ to \in LegacySteps \cup {"publish"}
         \/ from \in WalSteps /\ to \in WalSteps \cup {"publish"}
         \/ from \in FoldSteps /\ to \in FoldSteps
         \/ from \in {"replay", "replayRoot", "retire", "retireSync"} /\ to \in RecoverySteps
  PROVE  Control'
  BY DEF Control, Moved, LegacySteps, WalSteps, FoldSteps, RecoverySteps

\* The steps of a recovery and a checkpoint know their place.
LEMMA ControlNext ==
  ASSUME IInv, [Next]_vars
  PROVE  Types' /\ Control'
  <1>. USE DEF IInv
  <1>0. CASE UNCHANGED vars
    BY <1>0 DEF vars, files, group, Types, Control
  <1>1. ASSUME NEW b \in Blobs, Stage(b)
        PROVE  Types' /\ Control'
    BY <1>1, StageEffect DEF Types, Control, ArenaType, MemIs
  <1>2. ASSUME NEW c \in Callers, NEW p \in Principals, NEW b \in Blobs \cup {None}, NEW carried \in BOOLEAN,
               Submit(c, p, b, carried)
        PROVE  Types' /\ Control'
    <2>1. Control'
      BY <1>2, SubmitEffect DEF Control
    <2>2. /\ txns' \in Seq(Txn) /\ call' \in [Callers -> CallRec] /\ queue' \in Seq(Callers)
          /\ UNCHANGED <<walOn, arena, roots, wal, life, mem, published, job>>
      BY <1>2, SubmitEffect
    <2>. QED BY <2>1, <2>2 DEF Types
  <1>3. ASSUME NEW c \in Callers, Drain(c)
        PROVE  Types' /\ Control'
    <2>1. Control'
      BY <1>3, DrainEffect DEF Took, Control, RecoverySteps, FoldSteps, WalSteps, LegacySteps
    <2>2. queue' \in Seq(Callers)
      BY <1>3, DrainEffect, EmptyOps
    <2>. QED BY <1>3, <2>1, <2>2, DrainEffect DEF Types, Took
  <1>4. ASSUME NEW c \in Callers, Release(c)
        PROVE  Types' /\ Control'
    BY <1>4, ReleaseEffect DEF Types, Control
  <1>5. CASE Flush \/ Open
    <2>1. Control'
      BY <1>5, HoldEffect DEF Took, Control, RecoverySteps, FoldSteps, WalSteps, LegacySteps
    <2>. QED BY <1>5, <2>1, HoldEffect DEF Types, Took
  <1>6. CASE Prepare
    <2>1. Control'
      BY <1>6, PrepareEffect DEF Control, RecoverySteps, FoldSteps, WalSteps, LegacySteps
    <2>. QED BY <1>6, <2>1, PrepareEffect DEF Types
  <1>7. CASE Persist
    <2>1. Control'
      BY <1>7, PersistEffect DEF Ended, Control, RecoverySteps, FoldSteps, WalSteps, LegacySteps
    <2>. QED BY <1>7, <2>1, PersistEffect DEF Types, Ended
  <1>8. CASE AppendObjects
    <2>1. Control'
      BY <1>8, AppendObjectsEffect, MovedControl DEF LegacySteps
    <2>. QED BY <1>8, <2>1, AppendObjectsEffect DEF Types, Moved, ArenaType
  <1>9. CASE SyncObjects
    <2>1. Control'
      BY <1>9, SyncObjectsEffect, MovedControl DEF LegacySteps
    <2>. QED BY <1>9, <2>1, SyncObjectsEffect DEF Types, Moved, ArenaType
  <1>10. CASE AppendRoots
    <2>1. Control'
      BY <1>10, AppendRootsEffect, MovedControl DEF LegacySteps
    <2>. QED BY <1>10, <2>1, AppendRootsEffect DEF Types, Moved, RootsType
  <1>11. CASE SyncRoots
    <2>1. Control'
      BY <1>11, SyncRootsEffect, MovedControl DEF LegacySteps
    <2>. QED BY <1>11, <2>1, SyncRootsEffect DEF Types, Moved, RootsType
  <1>12. CASE AppendWal
    <2>1. Control'
      BY <1>12, AppendWalEffect, MovedControl DEF WalSteps
    <2>. QED BY <1>12, <2>1, AppendWalEffect DEF Types, Moved, WalType
  <1>13. CASE SyncWal
    <2>1. Control'
      BY <1>13, SyncWalEffect, MovedControl DEF WalSteps
    <2>. QED BY <1>13, <2>1, SyncWalEffect DEF Types, Moved, WalType
  <1>14. CASE FoldObjects
    <2>1. Control'
      BY <1>14, FoldObjectsEffect, MovedControl DEF FoldSteps
    <2>. QED BY <1>14, <2>1, FoldObjectsEffect DEF Types, Moved, ArenaType, MemIs
  <1>15. CASE FoldRoots
    <2>1. Control'
      BY <1>15, FoldRootsEffect, MovedControl DEF FoldSteps
    <2>. QED BY <1>15, <2>1, FoldRootsEffect DEF Types, Moved, RootsType, MemIs
  <1>16. CASE FoldSyncObjects
    <2>1. Control'
      BY <1>16, FoldSyncObjectsEffect, MovedControl DEF FoldSteps
    <2>. QED BY <1>16, <2>1, FoldSyncObjectsEffect DEF Types, Moved, ArenaType
  <1>17. CASE FoldSyncRoots
    <2>1. Control'
      BY <1>17, FoldSyncRootsEffect, MovedControl DEF FoldSteps
    <2>. QED BY <1>17, <2>1, FoldSyncRootsEffect DEF Types, Moved, RootsType
  <1>18. CASE TruncateWal
    <2>1. Control'
      BY <1>18, TruncateWalEffect, MovedControl DEF FoldSteps
    <2>. QED BY <1>18, <2>1, TruncateWalEffect DEF Types, Moved, WalType
  <1>19. CASE SyncReplayed
    <2>1. Control'
      BY <1>19, SyncReplayedEffect, MovedControl DEF RecoverySteps
    <2>. QED BY <1>19, <2>1, SyncReplayedEffect DEF Types, Moved, ArenaType, RootsType
  <1>20. CASE RetireWal
    <2>1. Control'
      BY <1>20, RetireWalEffect, MovedControl DEF RecoverySteps
    <2>. QED BY <1>20, <2>1, RetireWalEffect DEF Types, Moved, WalType
  <1>21. CASE Publish
    <2>1. mem' \in MemRec /\ published' \in [Principals -> Nat]
      BY <1>21, PublishEffect DEF MemIs, MemRec
    <2>. QED BY <1>21, <2>1, PublishEffect DEF Types, Control, Ended
  <1>22. CASE SyncTruncation
    <2>1. Control'
      BY <1>22, SyncTruncationEffect DEF Control, Moved, Ended, RecoverySteps, FoldSteps, WalSteps, LegacySteps
    <2>. QED BY <1>22, <2>1, SyncTruncationEffect DEF Types, Moved, Ended, WalType, MemIs
  <1>23. CASE Scan
    <2>1. Control'
      BY <1>23, ScanEffect DEF Control, Ended, RecoverySteps, FoldSteps, WalSteps, LegacySteps
    <2>. QED BY <1>23, <2>1, ScanEffect DEF Types, Ended, MemIs
  <1>24. CASE ReplayObjects
    <2>1. Control'
      BY <1>24, ReplayObjectsEffect, MovedControl DEF RecoverySteps
    <2>. QED BY <1>24, <2>1, ReplayObjectsEffect DEF Types, Moved, ArenaType, MemIs
  <1>25. CASE ReplayRoot
    <2>1. job.k \in 1 .. Len(wal.cache)
      BY <1>25 DEF ReplayRoot, Busy, Recovering, At
    <2>2. Control'
      BY <1>25, <2>1, ReplayRootEffect DEF Control, Ended, RecoverySteps, FoldSteps, WalSteps, LegacySteps
    <2>. QED BY <1>25, <2>1, <2>2, ReplayRootEffect DEF Types, Ended, RootsType, MemIs
  <1>26. CASE SyncRetirement
    <2>1. Control'
      BY <1>26, SyncRetirementEffect, MovedControl DEF RecoverySteps
    <2>. QED BY <1>26, <2>1, SyncRetirementEffect DEF Types, Moved, WalType
  <1>27. CASE Install
    <2>1. Control'
      BY <1>27, InstallEffect DEF Control, Ended, RecoverySteps, FoldSteps, WalSteps, LegacySteps
    <2>2. published' \in [Principals -> Nat]
      BY <1>27, InstallEffect, FieldTypes DEF Types
    <2>. QED BY <1>27, <2>1, <2>2, InstallEffect DEF Types, Ended, ArenaType, RootsType
  <1>28. CASE IoError
    <2>1. job' = None /\ call' \in [Callers -> CallRec]
      BY <1>28, IoErrorEffect DEF Ended
    <2>2. arena' \in ArenaType /\ roots' \in RootsType /\ wal' \in WalType
      BY <1>28, IoErrorEffect
    <2>3. life' \in {"usable", "poisoned", "down"} /\ UNCHANGED <<walOn, mem, published, queue, txns>>
      BY <1>28, IoErrorEffect DEF Types
    <2>4. Control'
      BY <2>1 DEF Control
    <2>. QED BY <2>1, <2>2, <2>3, <2>4 DEF Types, ArenaType, RootsType, WalType
  <1>29. CASE ProcessCrash
    <2>1. queue' \in Seq(Callers)
      BY <1>29, ProcessCrashEffect, EmptyOps DEF Stopped
    <2>. QED BY <1>29, <2>1, ProcessCrashEffect DEF Types, Control, Stopped, WalType, MemIs
  <1>30. CASE PowerLoss
    <2>1. queue' \in Seq(Callers)
      BY <1>30, PowerLossEffect, EmptyOps DEF Stopped
    <2>. QED BY <1>30, <2>1, PowerLossEffect DEF Types, Control, Stopped, ArenaType, RootsType, WalType, MemIs
  <1>. QED BY Cases, <1>0, <1>1, <1>2, <1>3, <1>4, <1>5, <1>6, <1>7, <1>8, <1>9, <1>10, <1>11, <1>12, <1>13,
              <1>14, <1>15, <1>16, <1>17, <1>18, <1>19, <1>20, <1>21, <1>22, <1>23, <1>24, <1>25, <1>26,
              <1>27, <1>28, <1>29, <1>30

-----------------------------------------------------------------------------
(* Refused transactions *)

\* A cut of a sequence holds no more than it, and what a crash leaves of a
\* file holds no less than what was flushed.
LEMMA CutPrefix ==
  ASSUME NEW S, NEW whole \in Seq(S), NEW s, Cut(s, whole)
  PROVE  s \in Seq(S) /\ Prefix(s, whole)
  <1>1. PICK n \in 0 .. Len(whole) : s = SubSeq(whole, 1, n)
    BY DEF Cut
  <1>. QED BY <1>1 DEF Prefix

\* What a crash leaves of a file extends what was flushed of it.
LEMMA LeftPrefix ==
  ASSUME NEW S, NEW f \in [disk : Seq(S), cache : Seq(S)], NEW s, Left(f, s)
  PROVE  s \in Seq(S) /\ Prefix(s, f.cache) /\ (Prefix(f.disk, f.cache) => Prefix(f.disk, s))
  <1>1. PICK n \in 0 .. Len(f.cache) : s = SubSeq(f.cache, 1, n) /\ (n = Len(f.cache) \/ n >= Len(f.disk))
    BY DEF Left
  <1>2. f.cache \in Seq(S) /\ f.disk \in Seq(S)
    OBVIOUS
  <1>. QED BY <1>1, <1>2 DEF Prefix

\* Only prepare adds a transaction to the files, the memory and the batch;
\* every other step moves what is there, or adds a staged blob.
LEMMA TracesNext ==
  ASSUME IInv, [Next]_vars, ~Prepare
  PROVE  Traces' \subseteq Traces \cup Blobs
  <1>. USE DEF IInv
  <1>a. /\ roots.cache \in Seq(Nat) /\ roots.disk \in Seq(Nat) /\ mem.log \in Seq(Nat)
        /\ wal.cache \in Seq(WalRec) /\ wal.disk \in Seq(WalRec)
        /\ job # None => job \in Job /\ job.accepted \in Seq(Nat)
    BY FieldTypes
  <1>b. mem.index \subseteq arena.cache /\ arena.disk \subseteq arena.cache
    BY DEF Files
  <1>0. CASE UNCHANGED vars
    BY <1>0 DEF vars, files, group, Traces, InBatch
  <1>1. ASSUME NEW b \in Blobs, Stage(b)
        PROVE  Traces' \subseteq Traces \cup Blobs
    BY <1>1, StageEffect DEF Traces, InBatch, Wrote, MemIs
  <1>2. ASSUME NEW c \in Callers, NEW p \in Principals, NEW b \in Blobs \cup {None}, NEW carried \in BOOLEAN,
               Submit(c, p, b, carried)
        PROVE  Traces' \subseteq Traces \cup Blobs
    <2>1. UNCHANGED <<arena, roots, wal, mem, job>>
      BY <1>2, SubmitEffect
    <2>. QED BY <2>1 DEF Traces, InBatch
  <1>3. ASSUME NEW c \in Callers, Drain(c)
        PROVE  Traces' \subseteq Traces \cup Blobs
    BY <1>3, DrainEffect, EmptyOps DEF Traces, InBatch, Took
  <1>4. ASSUME NEW c \in Callers, Release(c)
        PROVE  Traces' \subseteq Traces \cup Blobs
    <2>1. UNCHANGED <<arena, roots, wal, mem, job>>
      BY <1>4, ReleaseEffect
    <2>. QED BY <2>1 DEF Traces, InBatch
  <1>5. CASE Flush \/ Open
    BY <1>5, HoldEffect, EmptyOps DEF Traces, InBatch, Took
  <1>7. CASE Persist
    BY <1>7, PersistEffect DEF Traces, InBatch, Ended
  <1>8. CASE AppendObjects
    BY <1>8, <1>b, AppendObjectsEffect DEF Traces, InBatch, Moved, Wrote
  <1>9. CASE SyncObjects
    BY <1>9, <1>b, SyncObjectsEffect DEF Traces, InBatch, Moved, Flushed
  <1>10. CASE AppendRoots
    <2>0. job # None
      BY <1>10 DEF AppendRoots, Busy
    <2>1. Range(roots.cache \o job.accepted) = Range(roots.cache) \cup Range(job.accepted)
      BY <1>a, <2>0, RangeOps
    <2>. QED BY <1>10, <1>b, <2>1, AppendRootsEffect DEF Traces, InBatch, Moved, Wrote
  <1>11. CASE SyncRoots
    BY <1>11, <1>b, SyncRootsEffect DEF Traces, InBatch, Moved, Flushed
  <1>12. CASE AppendWal
    <2>0. job # None
      BY <1>12 DEF AppendWal, Busy
    <2>1. /\ Logged(wal.cache \o WalRecords) = Logged(wal.cache) \cup Logged(WalRecords)
          /\ LoggedObjects(wal.cache \o WalRecords) = LoggedObjects(wal.cache) \cup LoggedObjects(WalRecords)
          /\ Logged(WalRecords) = Range(job.accepted)
          /\ LoggedObjects(WalRecords) \subseteq job.objs \cup (mem.staged \ mem.objs)
      BY <1>a, <2>0, WalRecordsFacts, LogOps
    <2>2. /\ wal'.disk = wal.disk /\ wal'.cache = wal.cache \o WalRecords
          /\ InBatch' = InBatch /\ UNCHANGED <<arena, roots, mem>>
      BY <1>12, AppendWalEffect DEF InBatch, Moved, Wrote
    <2>3. Range(job.accepted) \cup job.objs \subseteq InBatch
      BY <2>0 DEF InBatch
    <2>. QED BY <2>1, <2>2, <2>3 DEF Traces
  <1>13. CASE SyncWal
    BY <1>13, <1>b, SyncWalEffect DEF Traces, InBatch, Moved, Flushed
  <1>14. CASE FoldObjects
    BY <1>14, <1>b, FoldObjectsEffect DEF Traces, InBatch, Moved, Wrote, MemIs
  <1>15. CASE FoldRoots
    <2>0. job # None
      BY <1>15 DEF FoldRoots, Busy
    <2>1. Range(roots.cache \o mem.log) = Range(roots.cache) \cup Range(mem.log)
      BY <1>a, <2>0, RangeOps
    <2>. QED BY <1>15, <1>b, <2>1, FoldRootsEffect, EmptyOps DEF Traces, InBatch, Moved, Wrote, MemIs
  <1>16. CASE FoldSyncObjects
    BY <1>16, <1>b, FoldSyncObjectsEffect DEF Traces, InBatch, Moved, Flushed
  <1>17. CASE FoldSyncRoots
    BY <1>17, <1>b, FoldSyncRootsEffect DEF Traces, InBatch, Moved, Flushed
  <1>18. CASE TruncateWal
    BY <1>18, <1>b, TruncateWalEffect, EmptyOps DEF Traces, InBatch, Moved, Wrote
  <1>19. CASE SyncReplayed
    BY <1>19, <1>b, SyncReplayedEffect DEF Traces, InBatch, Moved, Flushed
  <1>20. CASE RetireWal
    BY <1>20, <1>b, RetireWalEffect, EmptyOps DEF Traces, InBatch, Moved, Wrote
  <1>21. CASE Publish
    <2>1. Range(mem.log \o job.accepted) = Range(mem.log) \cup Range(job.accepted)
      BY <1>a, <1>21, RangeOps, PublishEffect
    <2>. QED BY <1>21, <1>b, <2>1, PublishEffect DEF Traces, InBatch, Ended, MemIs
  <1>22. CASE SyncTruncation
    BY <1>22, SyncTruncationEffect, EmptyOps DEF Traces, InBatch, Moved, Ended, MemIs
  <1>23. CASE Scan
    BY <1>23, ScanEffect, EmptyOps DEF Traces, InBatch, Ended, MemIs
  <1>24. CASE ReplayObjects
    <2>1. job.k \in DOMAIN wal.cache
      BY <1>24, <1>a, ReplayObjectsEffect
    <2>2. wal.cache[job.k].objs \subseteq LoggedObjects(wal.cache)
      BY <2>1 DEF LoggedObjects
    <2>. QED BY <1>24, <1>b, <2>2, ReplayObjectsEffect DEF Traces, InBatch, Moved, MemIs
  <1>25. CASE ReplayRoot
    <2>1. job.k \in 1 .. Len(wal.cache)
      BY <1>25 DEF ReplayRoot, Busy, Recovering, At
    <2>2. PICK t \in Nat : t = wal.cache[job.k].txn
      BY <1>25, <2>1, ReplayRootEffect
    <2>3. Range(Append(roots.cache, t)) = Range(roots.cache) \cup {t}
      <3>1. PICK j \in Seq(Nat) : j = roots.cache
        BY <1>a
      <3>2. Range(Append(j, t)) = Range(j) \cup {t}
        BY RangeAppend
      <3>. QED BY <3>1, <3>2
    <2>4. t \in Logged(wal.cache)
      BY <1>a, <2>1, <2>2 DEF Logged
    <2>5. Range(roots'.cache) \subseteq Range(roots.cache) \cup {t} /\ Range(roots'.disk) = Range(roots.disk)
      BY <1>25, <2>1, <2>2, <2>3, ReplayRootEffect
    <2>6. InBatch' \subseteq InBatch
      BY <1>25, <2>1, ReplayRootEffect DEF InBatch, Ended
    <2>7. mem'.staged = mem.staged /\ mem'.objs = mem.objs /\ mem'.log = mem.log /\ arena' = arena /\ wal' = wal
      BY <1>25, <2>1, ReplayRootEffect DEF MemIs
    <2>. QED BY <2>4, <2>5, <2>6, <2>7 DEF Traces
  <1>26. CASE SyncRetirement
    BY <1>26, SyncRetirementEffect, EmptyOps DEF Traces, InBatch, Moved
  <1>27. CASE Install
    <2>1. InBatch' \subseteq InBatch
      BY <1>27, InstallEffect DEF InBatch, Ended
    <2>2. arena'.cache = arena.cache /\ roots'.cache = roots.cache /\ roots'.disk \in {roots.disk, roots.cache}
      BY <1>27, InstallEffect
    <2>3. UNCHANGED <<mem, wal>>
      BY <1>27, InstallEffect
    <2>. QED BY <2>1, <2>2, <2>3 DEF Traces
  <1>28. CASE IoError
    <2>1. job # None /\ job' = None /\ UNCHANGED mem
      BY <1>28, IoErrorEffect DEF Ended
    <2>2. arena'.cache \subseteq arena.cache \cup job.objs \cup mem.objs
      BY <1>28, IoErrorEffect
    <2>3. /\ Range(roots'.cache) \subseteq Range(roots.cache) \cup Range(job.accepted) \cup Range(mem.log)
          /\ roots'.disk = roots.disk
      <3>1. PICK s \in Seq(Nat) :
              /\ Wrote(roots, roots', roots.cache \o s)
              /\ s = <<>> \/ Cut(s, job.accepted) \/ Cut(s, mem.log)
        BY <1>28, IoErrorEffect
      <3>2. Range(s) \subseteq Range(job.accepted) \cup Range(mem.log)
        BY <1>a, <2>1, <3>1, CutPrefix, PrefixRange, EmptyOps
      <3>3. Range(roots.cache \o s) = Range(roots.cache) \cup Range(s)
        BY <1>a, RangeOps
      <3>. QED BY <3>1, <3>2, <3>3 DEF Wrote
    <2>4. /\ Logged(wal'.cache) \subseteq Logged(wal.cache) \cup Range(job.accepted)
          /\ LoggedObjects(wal'.cache) \subseteq LoggedObjects(wal.cache) \cup job.objs \cup mem.staged
          /\ wal'.disk = wal.disk
      <3>1. PICK s \in Seq(WalRec) : /\ Wrote(wal, wal', wal.cache \o s)
                                     /\ s = <<>> \/ Cut(s, WalRecords)
        BY <1>28, IoErrorEffect
      <3>2. Logged(s) \subseteq Range(job.accepted) /\ LoggedObjects(s) \subseteq job.objs \cup mem.staged
        BY <2>1, <3>1, WalRecordsFacts, CutPrefix, PrefixLog, EmptyOps
      <3>3. /\ Logged(wal.cache \o s) = Logged(wal.cache) \cup Logged(s)
            /\ LoggedObjects(wal.cache \o s) = LoggedObjects(wal.cache) \cup LoggedObjects(s)
        BY <1>a, LogOps
      <3>. QED BY <3>1, <3>2, <3>3 DEF Wrote
    <2>. QED BY <2>1, <2>2, <2>3, <2>4 DEF Traces, InBatch
  <1>29. CASE ProcessCrash
    <2>1. Logged(wal'.cache) \subseteq Logged(wal.cache) /\ LoggedObjects(wal'.cache) \subseteq LoggedObjects(wal.cache)
      BY <1>a, <1>29, ProcessCrashEffect, LeftPrefix, PrefixLog DEF Types
    <2>. QED BY <1>29, <2>1, ProcessCrashEffect, EmptyOps DEF Traces, InBatch, Stopped, MemIs
  <1>30. CASE PowerLoss
    <2>1. Range(roots'.cache) \subseteq Range(roots.cache) \cup Range(roots.disk)
      <3>1. CASE Left(roots, roots'.cache)
        BY <1>a, <3>1, LeftPrefix, PrefixRange DEF Types
      <3>. QED BY <1>30, <3>1, PowerLossEffect
    <2>2. /\ Logged(wal'.cache) \subseteq Logged(wal.cache) \cup Logged(wal.disk)
          /\ LoggedObjects(wal'.cache) \subseteq LoggedObjects(wal.cache) \cup LoggedObjects(wal.disk)
      <3>1. CASE Left(wal, wal'.cache)
        BY <1>a, <3>1, LeftPrefix, PrefixLog DEF Types
      <3>. QED BY <1>30, <3>1, PowerLossEffect
    <2>. QED BY <1>30, <2>1, <2>2, PowerLossEffect, EmptyOps DEF Traces, InBatch, Stopped, MemIs
  <1>. QED BY Cases, <1>0, <1>1, <1>2, <1>3, <1>4, <1>5, <1>7, <1>8, <1>9, <1>10, <1>11, <1>12, <1>13,
              <1>14, <1>15, <1>16, <1>17, <1>18, <1>19, <1>20, <1>21, <1>22, <1>23, <1>24, <1>25, <1>26,
              <1>27, <1>28, <1>29, <1>30

\* What a step may do to the callers that wait: nothing, or answer the batch,
\* or answer everyone.
LEMMA CallsKept ==
  ASSUME OwnTxn, UNCHANGED <<queue, call, txns>>, job # None, job' # None => job'.batch = job.batch
  PROVE  OwnTxn'
  BY DEF OwnTxn, Waits, Distinct

\* The batch is answered, and those in the queue still wait.
LEMMA CallsEnded ==
  ASSUME Types, OwnTxn, Ended, UNCHANGED <<queue, txns>>
  PROVE  /\ OwnTxn'
         /\ \A c \in Callers : c \in Range(queue) => call'[c] = call[c]
  <1>1. job # None /\ job' = None /\ queue \in Seq(Callers) /\ Len(queue) \in Nat /\ DOMAIN queue = 1 .. Len(queue)
    BY DEF Ended, Types
  <1>2. \A c \in Callers : c \in Range(queue) => call'[c] = call[c]
    BY <1>1 DEF OwnTxn, Ended
  <1>3. \A i \in 1 .. Len(queue) : queue[i] \in Callers /\ queue[i] \in Range(queue)
    BY <1>1 DEF Range
  <1>4. \A c \in Callers : call'[c].txn = NoRoot \/ call'[c] = call[c]
    BY DEF Ended
  <1>5. \A c \in Callers : call'[c].txn \in 0 .. Len(txns)
    <2>1. Len(txns) \in Nat
      BY DEF Types
    <2>. QED BY <1>4, <2>1 DEF OwnTxn, NoRoot
  <1>6. \A c, d \in Callers : call'[c].txn = call'[d].txn /\ call'[c].txn # NoRoot => c = d
    BY <1>4 DEF OwnTxn
  <1>7. \A i \in 1 .. Len(queue) : call'[queue[i]] = call[queue[i]]
    BY <1>2, <1>3
  <1>. QED BY <1>1, <1>2, <1>5, <1>6, <1>7 DEF OwnTxn, Waits, Distinct

\* Nobody waits when the process stops.
LEMMA CallsStopped ==
  ASSUME Types, Stopped
  PROVE  OwnTxn' /\ \A c \in Callers : ~Pending(c)'
  <1>1. Len(txns) \in Nat /\ Len(<<>>) = 0 /\ UNCHANGED txns
    BY DEF Types, Stopped
  <1>2. OwnTxn'
    BY <1>1 DEF Stopped, OwnTxn, Waits, Distinct, NoRoot
  <1>3. \A c \in Callers : ~Pending(c)'
    BY EmptyOps DEF Stopped, Pending, At
  <1>. QED BY <1>2, <1>3

\* A caller that waits to be prepared waited before, with the transaction it
\* had, or has just come.
StillPending ==
  \A c \in Callers : Pending(c)' =>
    \/ Pending(c) /\ call'[c].txn = call[c].txn
    \/ call'[c].txn = Len(txns) + 1 /\ Len(txns') = Len(txns) + 1

\* No transaction becomes pending when the mutex holder moves on.
LEMMA MovedPending ==
  ASSUME NEW from, NEW to, Moved(from, to), UNCHANGED <<queue, call>>,
         to # "prepare", to \in RecoverySteps => from \in RecoverySteps
  PROVE  StillPending
  BY DEF Moved, StillPending, Pending, At

\* None does when the operation ends.
LEMMA EndedPending ==
  ASSUME Types, OwnTxn, Ended, UNCHANGED <<queue, txns>>
  PROVE  OwnTxn' /\ StillPending
  BY CallsEnded DEF Ended, StillPending, Pending, At

\* A caller that is yet to be prepared waits with a transaction of its own.
LEMMA PendingWaits ==
  ASSUME Types, OwnTxn, NEW c \in Callers, Pending(c)
  PROVE  Waits(c) /\ call[c].txn \in Ids
  <1>0. queue \in Seq(Callers) /\ DOMAIN queue = 1 .. Len(queue)
    BY DEF Types
  <1>1. ASSUME c \in Range(queue) PROVE Waits(c)
    BY <1>0, <1>1 DEF OwnTxn, Range
  <1>2. ASSUME job # None, c \in Range(job.batch) PROVE Waits(c)
    <2>1. DOMAIN job.batch = 1 .. Len(job.batch)
      BY <1>2, FieldTypes
    <2>. QED BY <1>2, <2>1 DEF OwnTxn, Range
  <1>3. ASSUME job # None, \E i \in job.k .. Len(job.batch) : job.batch[i] = c PROVE Waits(c)
    <2>1. job.k \in Nat \ {0} /\ Len(job.batch) \in Nat
      BY <1>3, FieldTypes
    <2>2. PICK i \in job.k .. Len(job.batch) : job.batch[i] = c
      BY <1>3
    <2>3. i \in 1 .. Len(job.batch)
      BY <2>1
    <2>. QED BY <1>3, <2>2, <2>3 DEF OwnTxn
  <1>4. Waits(c)
    BY <1>1, <1>2, <1>3 DEF Pending, At
  <1>5. call[c].txn \in 0 .. Len(txns) /\ call[c].txn # 0 /\ Len(txns) \in Nat
    BY <1>4 DEF OwnTxn, Waits, NoRoot, Types
  <1>. QED BY <1>4, <1>5 DEF Ids

\* Every caller that waits has a transaction of its own.
LEMMA CallsNext ==
  ASSUME IInv, [Next]_vars
  PROVE  OwnTxn' /\ StillPending
  <1>. USE DEF IInv
  <1>a. queue \in Seq(Callers) /\ Len(queue) \in Nat /\ DOMAIN queue = 1 .. Len(queue) /\ Len(txns) \in Nat
    BY DEF Types
  <1>0. CASE UNCHANGED vars
    BY <1>0 DEF vars, files, group, OwnTxn, Waits, Distinct, StillPending, Pending, At
  <1>1. ASSUME NEW b \in Blobs, Stage(b)
        PROVE  OwnTxn' /\ StillPending
    <2>1. UNCHANGED <<queue, call, job, txns>>
      BY <1>1, StageEffect
    <2>. QED BY <2>1 DEF OwnTxn, Waits, Distinct, StillPending, Pending, At
  <1>2. ASSUME NEW c \in Callers, NEW p \in Principals, NEW b \in Blobs \cup {None}, NEW carried \in BOOLEAN,
               Submit(c, p, b, carried)
        PROVE  OwnTxn' /\ StillPending
    <2>1. /\ call[c].pc = "idle" /\ queue' = Append(queue, c) /\ Len(txns') = Len(txns) + 1
          /\ call'[c].pc \in {"waiting", "lead"} /\ call'[c].txn = Len(txns) + 1
          /\ \A d \in Callers \ {c} : call'[d] = call[d]
          /\ UNCHANGED job
      BY <1>2, SubmitEffect
    <2>2. /\ Len(queue') = Len(queue) + 1 /\ queue'[Len(queue) + 1] = c
          /\ \A i \in 1 .. Len(queue) : queue'[i] = queue[i]
          /\ 1 .. Len(queue) + 1 = (1 .. Len(queue)) \cup {Len(queue) + 1}
      BY <1>a, <2>1
    <2>3. Range(queue') = Range(queue) \cup {c}
      <3>1. PICK j \in Seq(Callers) : j = queue
        BY <1>a
      <3>2. Range(Append(j, c)) = Range(j) \cup {c}
        BY RangeAppend
      <3>. QED BY <2>1, <3>1, <3>2
    <2>4. \A d \in Callers : Waits(d) => d # c /\ Waits(d)' /\ call'[d] = call[d]
      BY <2>1 DEF Waits
    <2>5. \A i \in 1 .. Len(queue) : queue[i] \in Callers /\ queue[i] # c /\ Waits(queue[i]) /\ queue'[i] = queue[i]
      BY <1>a, <2>2, <2>4 DEF OwnTxn
    <2>6. Waits(c)'
      BY <2>1, <1>a DEF Waits, NoRoot
    <2>7. \A d \in Callers : call'[d].txn \in 0 .. Len(txns')
      BY <2>1, <1>a DEF OwnTxn
    <2>8. \A d, e \in Callers : call'[d].txn = call'[e].txn /\ call'[d].txn # NoRoot => d = e
      <3>1. \A d \in Callers : call[d].txn # Len(txns) + 1
        BY <1>a DEF OwnTxn
      <3>. QED BY <3>1, <2>1 DEF OwnTxn
    <2>9. \A i \in 1 .. Len(queue') : Waits(queue[i])'
      <3>1. ASSUME NEW i \in 1 .. Len(queue)
            PROVE  Waits(queue[i])'
        BY <2>4, <2>5, <3>1
      <3>. QED BY <2>2, <2>6, <3>1
    <2>10. Distinct(queue)'
      BY <2>2, <2>5 DEF OwnTxn, Distinct
    <2>11. job # None => /\ \A i \in 1 .. Len(job.batch) : job.batch[i] \in Callers /\ Waits(job.batch[i])
                         /\ c \notin Range(job.batch)
      <3>1. ASSUME job # None
            PROVE  \A i \in 1 .. Len(job.batch) : job.batch[i] \in Callers /\ Waits(job.batch[i]) /\ DOMAIN job.batch = 1 .. Len(job.batch)
        BY <3>1, FieldTypes DEF OwnTxn
      <3>2. ASSUME job # None
            PROVE  DOMAIN job.batch = 1 .. Len(job.batch)
        BY <3>2, FieldTypes
      <3>. QED BY <3>1, <3>2, <2>4 DEF Range
    <2>12. job' # None => /\ \A i \in 1 .. Len(job'.batch) : Waits(job.batch[i])'
                          /\ Distinct(job.batch)'
                          /\ Range(queue') \cap Range(job'.batch) = {}
      <3>1. SUFFICES ASSUME job # None
                     PROVE  /\ \A i \in 1 .. Len(job.batch) : Waits(job.batch[i])'
                            /\ Distinct(job.batch)
                            /\ (Range(queue) \cup {c}) \cap Range(job.batch) = {}
        BY <2>1, <2>3 DEF Distinct
      <3>2. \A i \in 1 .. Len(job.batch) : Waits(job.batch[i])'
        <4>1. ASSUME NEW i \in 1 .. Len(job.batch)
              PROVE  Waits(job.batch[i])'
          <5>1. job.batch[i] \in Callers /\ Waits(job.batch[i])
            BY <2>11, <3>1
          <5>. QED BY <5>1, <2>1, <2>4 DEF Waits
        <4>. QED BY <4>1
      <3>. QED BY <2>11, <3>1, <3>2 DEF OwnTxn
    <2>13. OwnTxn'
      BY <2>7, <2>8, <2>9, <2>10, <2>12 DEF OwnTxn
    <2>14. StillPending
      BY <2>1, <2>3 DEF StillPending, Pending, At
    <2>. QED BY <2>13, <2>14
  <1>3. ASSUME NEW c \in Callers, Drain(c)
        PROVE  OwnTxn' /\ StillPending
    <2>1. job' # None /\ job'.batch = queue /\ job'.k = 1 /\ queue' = <<>> /\ UNCHANGED <<call, txns>>
      BY <1>3, DrainEffect DEF Took
    <2>2. Range(queue') = {} /\ Len(queue') = 0
      BY <2>1, EmptyOps
    <2>3. OwnTxn'
      BY <1>a, <2>1, <2>2 DEF OwnTxn, Waits, Distinct
    <2>4. StillPending
      BY <1>a, <2>1, <2>2 DEF StillPending, Pending, At, Range
    <2>. QED BY <2>3, <2>4
  <1>4. ASSUME NEW c \in Callers, Release(c)
        PROVE  OwnTxn' /\ StillPending
    <2>1. /\ call[c].pc = "release" /\ call'[c] = Idle
          /\ \A d \in Callers \ {c} : call'[d].txn = call[d].txn /\ call'[d].pc \in {call[d].pc, "lead"}
          /\ UNCHANGED <<queue, job, txns>>
      BY <1>4, ReleaseEffect
    <2>2. \A d \in Callers : Waits(d) => Waits(d)' /\ call'[d].txn = call[d].txn
      BY <2>1 DEF Waits
    <2>3. Idle.txn = NoRoot
      BY DEF Idle
    <2>4. \A d \in Callers : call'[d].txn \in {NoRoot, call[d].txn}
      BY <2>1, <2>3
    <2>5. \A i \in 1 .. Len(queue) : queue[i] \in Callers /\ Waits(queue[i])
      BY <1>a DEF OwnTxn
    <2>6. job # None => \A i \in 1 .. Len(job.batch) : job.batch[i] \in Callers /\ Waits(job.batch[i])
      BY FieldTypes DEF OwnTxn
    <2>7. \A d \in Callers : call'[d].txn \in 0 .. Len(txns)
      BY <1>a, <2>4 DEF OwnTxn, NoRoot
    <2>8. \A d, e \in Callers : call'[d].txn = call'[e].txn /\ call'[d].txn # NoRoot => d = e
      BY <2>4 DEF OwnTxn
    <2>9. \A i \in 1 .. Len(queue) : Waits(queue[i])'
      BY <2>1, <2>2, <2>5 DEF Waits
    <2>10. job # None => \A i \in 1 .. Len(job.batch) : Waits(job.batch[i])'
      BY <2>1, <2>2, <2>6 DEF Waits
    <2>11. OwnTxn'
      BY <2>1, <2>7, <2>8, <2>9, <2>10 DEF OwnTxn, Distinct
    <2>12. \A d \in Callers : Pending(d) => Waits(d)
      BY PendingWaits
    <2>. QED BY <2>1, <2>2, <2>11, <2>12 DEF StillPending, Pending, At
  <1>5. CASE Flush \/ Open
    <2>1. job' # None /\ job'.batch = <<>> /\ UNCHANGED <<queue, call, txns>>
      BY <1>5, HoldEffect DEF Took
    <2>2. Range(job'.batch) = {} /\ Len(job'.batch) = 0
      BY <2>1, EmptyOps
    <2>3. OwnTxn'
      BY <1>a, <2>1, <2>2 DEF OwnTxn, Waits, Distinct
    <2>4. StillPending
      <3>1. \A c \in Callers : Pending(c)' => c \in Range(queue)
        BY <2>1, <2>2, <1>5, HoldEffect DEF Pending, At, Took
      <3>. QED BY <2>1, <3>1 DEF StillPending, Pending
    <2>. QED BY <2>3, <2>4
  <1>6. CASE Prepare
    <2>1. /\ job # None /\ job.step = "prepare" /\ job.k \in 1 .. Len(job.batch)
          /\ job' # None /\ job'.step = "prepare" /\ job'.batch = job.batch /\ job'.k = job.k + 1
          /\ UNCHANGED <<queue, call, txns>>
      BY <1>6, PrepareEffect
    <2>2. OwnTxn'
      BY <2>1, CallsKept
    <2>3. StillPending
      BY <2>1 DEF StillPending, Pending, At, RecoverySteps
    <2>. QED BY <2>2, <2>3
  <1>7. CASE Persist
    <2>1. UNCHANGED <<queue, txns>>
      BY <1>7, PersistEffect
    <2>2. CASE Ended
      BY <2>1, <2>2, EndedPending
    <2>3. CASE ~Ended
      <3>1. /\ job # None /\ UNCHANGED call /\ job' # None /\ job'.batch = job.batch
            /\ job'.step \in {"arena", "wal", "fold"}
        BY <1>7, <2>3, PersistEffect
      <3>2. StillPending
        BY <2>1, <3>1 DEF StillPending, Pending, At, RecoverySteps
      <3>. QED BY <2>1, <3>1, <3>2, CallsKept
    <2>. QED BY <2>2, <2>3
  <1>8. CASE AppendObjects
    <2>1. Moved("arena", "arenaSync") /\ UNCHANGED <<queue, call, txns>>
      BY <1>8, AppendObjectsEffect
    <2>2. StillPending
      BY <2>1, MovedPending DEF RecoverySteps
    <2>. QED BY <2>1, <2>2, CallsKept DEF Moved
  <1>9. CASE SyncObjects
    <2>1. Moved("arenaSync", "roots") /\ UNCHANGED <<queue, call, txns>>
      BY <1>9, SyncObjectsEffect
    <2>2. StillPending
      BY <2>1, MovedPending DEF RecoverySteps
    <2>. QED BY <2>1, <2>2, CallsKept DEF Moved
  <1>10. CASE AppendRoots
    <2>1. Moved("roots", "rootsSync") /\ UNCHANGED <<queue, call, txns>>
      BY <1>10, AppendRootsEffect
    <2>2. StillPending
      BY <2>1, MovedPending DEF RecoverySteps
    <2>. QED BY <2>1, <2>2, CallsKept DEF Moved
  <1>11. CASE SyncRoots
    <2>1. Moved("rootsSync", "publish") /\ UNCHANGED <<queue, call, txns>>
      BY <1>11, SyncRootsEffect
    <2>2. StillPending
      BY <2>1, MovedPending DEF RecoverySteps
    <2>. QED BY <2>1, <2>2, CallsKept DEF Moved
  <1>12. CASE AppendWal
    <2>1. Moved("wal", "walSync") /\ UNCHANGED <<queue, call, txns>>
      BY <1>12, AppendWalEffect
    <2>2. StillPending
      BY <2>1, MovedPending DEF RecoverySteps
    <2>. QED BY <2>1, <2>2, CallsKept DEF Moved
  <1>13. CASE SyncWal
    <2>1. Moved("walSync", "publish") /\ UNCHANGED <<queue, call, txns>>
      BY <1>13, SyncWalEffect
    <2>2. StillPending
      BY <2>1, MovedPending DEF RecoverySteps
    <2>. QED BY <2>1, <2>2, CallsKept DEF Moved
  <1>14. CASE FoldObjects
    <2>1. Moved("fold", "foldRoots") /\ UNCHANGED <<queue, call, txns>>
      BY <1>14, FoldObjectsEffect
    <2>2. StillPending
      BY <2>1, MovedPending DEF RecoverySteps
    <2>. QED BY <2>1, <2>2, CallsKept DEF Moved
  <1>15. CASE FoldRoots
    <2>1. Moved("foldRoots", "foldArenaSync") /\ UNCHANGED <<queue, call, txns>>
      BY <1>15, FoldRootsEffect
    <2>2. StillPending
      BY <2>1, MovedPending DEF RecoverySteps
    <2>. QED BY <2>1, <2>2, CallsKept DEF Moved
  <1>16. CASE FoldSyncObjects
    <2>1. Moved("foldArenaSync", "foldRootsSync") /\ UNCHANGED <<queue, call, txns>>
      BY <1>16, FoldSyncObjectsEffect
    <2>2. StillPending
      BY <2>1, MovedPending DEF RecoverySteps
    <2>. QED BY <2>1, <2>2, CallsKept DEF Moved
  <1>17. CASE FoldSyncRoots
    <2>1. Moved("foldRootsSync", "truncate") /\ UNCHANGED <<queue, call, txns>>
      BY <1>17, FoldSyncRootsEffect
    <2>2. StillPending
      BY <2>1, MovedPending DEF RecoverySteps
    <2>. QED BY <2>1, <2>2, CallsKept DEF Moved
  <1>18. CASE TruncateWal
    <2>1. Moved("truncate", "truncateSync") /\ UNCHANGED <<queue, call, txns>>
      BY <1>18, TruncateWalEffect
    <2>2. StillPending
      BY <2>1, MovedPending DEF RecoverySteps
    <2>. QED BY <2>1, <2>2, CallsKept DEF Moved
  <1>19. CASE SyncReplayed
    <2>1. Moved("replay", "retire") /\ UNCHANGED <<queue, call, txns>>
      BY <1>19, SyncReplayedEffect
    <2>2. StillPending
      BY <2>1, MovedPending DEF RecoverySteps
    <2>. QED BY <2>1, <2>2, CallsKept DEF Moved
  <1>20. CASE RetireWal
    <2>1. Moved("retire", "retireSync") /\ UNCHANGED <<queue, call, txns>>
      BY <1>20, RetireWalEffect
    <2>2. StillPending
      BY <2>1, MovedPending DEF RecoverySteps
    <2>. QED BY <2>1, <2>2, CallsKept DEF Moved
  <1>21. CASE Publish
    BY <1>21, PublishEffect, EndedPending
  <1>22. CASE SyncTruncation
    <2>1. UNCHANGED <<queue, txns>>
      BY <1>22, SyncTruncationEffect
    <2>2. CASE Ended
      BY <2>1, <2>2, EndedPending
    <2>3. CASE ~Ended
      <3>1. Moved("truncateSync", "wal") /\ UNCHANGED call
        BY <1>22, <2>3, SyncTruncationEffect
      <3>2. StillPending
        BY <2>1, <3>1, MovedPending DEF RecoverySteps
      <3>. QED BY <2>1, <3>1, <3>2, CallsKept DEF Moved
    <2>. QED BY <2>2, <2>3
  <1>23. CASE Scan
    <2>1. UNCHANGED <<queue, txns>> /\ job # None /\ job.step = "scan"
      BY <1>23, ScanEffect
    <2>2. CASE Ended
      BY <2>1, <2>2, EndedPending
    <2>3. CASE ~Ended
      <3>1. UNCHANGED call /\ job' # None /\ job'.batch = job.batch /\ job'.step \in {"replay", "validate"}
        BY <1>23, <2>3, ScanEffect
      <3>2. StillPending
        BY <2>1, <3>1 DEF StillPending, Pending, At, RecoverySteps
      <3>. QED BY <2>1, <3>1, <3>2, CallsKept
    <2>. QED BY <2>2, <2>3
  <1>24. CASE ReplayObjects
    <2>1. Moved("replay", "replayRoot") /\ UNCHANGED <<queue, call, txns>>
      BY <1>24, ReplayObjectsEffect
    <2>2. StillPending
      BY <2>1, MovedPending DEF RecoverySteps
    <2>. QED BY <2>1, <2>2, CallsKept DEF Moved
  <1>25. CASE ReplayRoot
    <2>0. job.k \in 1 .. Len(wal.cache)
      BY <1>25 DEF ReplayRoot, Busy, Recovering, At
    <2>1. UNCHANGED <<queue, txns>> /\ job # None /\ job.step = "replayRoot"
      BY <1>25, <2>0, ReplayRootEffect
    <2>2. CASE Ended
      BY <2>1, <2>2, EndedPending
    <2>3. CASE ~Ended
      <3>1. UNCHANGED call /\ job' # None /\ job'.batch = job.batch /\ job'.step = "replay"
        BY <1>25, <2>0, <2>3, ReplayRootEffect
      <3>2. StillPending
        BY <2>1, <3>1 DEF StillPending, Pending, At, RecoverySteps
      <3>. QED BY <2>1, <3>1, <3>2, CallsKept
    <2>. QED BY <2>2, <2>3
  <1>26. CASE SyncRetirement
    <2>1. Moved("retireSync", "validate") /\ UNCHANGED <<queue, call, txns>>
      BY <1>26, SyncRetirementEffect
    <2>2. StillPending
      BY <2>1, MovedPending DEF RecoverySteps
    <2>. QED BY <2>1, <2>2, CallsKept DEF Moved
  <1>27. CASE Install
    <2>1. UNCHANGED <<queue, txns>> /\ job # None /\ job.step = "validate"
      BY <1>27, InstallEffect
    <2>2. CASE Ended
      BY <2>1, <2>2, EndedPending
    <2>3. CASE ~Ended
      <3>1. UNCHANGED call /\ job' # None /\ job'.batch = job.batch /\ job'.step = "prepare" /\ job'.k = 1
        BY <1>27, <2>3, InstallEffect
      <3>2. DOMAIN job.batch = 1 .. Len(job.batch)
        BY <2>1, FieldTypes
      <3>3. StillPending
        BY <2>1, <3>1, <3>2 DEF StillPending, Pending, At, RecoverySteps, Range
      <3>. QED BY <2>1, <3>1, <3>3, CallsKept
    <2>. QED BY <2>2, <2>3
  <1>28. CASE IoError
    BY <1>28, IoErrorEffect, EndedPending
  <1>29. CASE ProcessCrash
    BY <1>29, ProcessCrashEffect, CallsStopped DEF StillPending
  <1>30. CASE PowerLoss
    BY <1>30, PowerLossEffect, CallsStopped DEF StillPending
  <1>. QED BY Cases, <1>0, <1>1, <1>2, <1>3, <1>4, <1>5, <1>6, <1>7, <1>8, <1>9, <1>10, <1>11, <1>12, <1>13,
              <1>14, <1>15, <1>16, <1>17, <1>18, <1>19, <1>20, <1>21, <1>22, <1>23, <1>24, <1>25, <1>26,
              <1>27, <1>28, <1>29, <1>30


\* Which steps may change what stays: the histories, the transactions and the
\* verdict of recoveries.
LEMMA FrameNext ==
  ASSUME [Next]_vars
  PROVE  /\ Prepare \/ refused' = refused
         /\ Publish \/ acked' = acked
         /\ \/ \E c \in Callers, p \in Principals, b \in Blobs \cup {None}, carried \in BOOLEAN :
                 Submit(c, p, b, carried)
            \/ txns' = txns
         /\ Scan \/ ReplayRoot \/ Install \/ verdict' = verdict
         /\ walOn' = walOn
  <1>0. CASE UNCHANGED vars
    BY <1>0 DEF vars
  <1>1. ASSUME NEW b \in Blobs, Stage(b)
        PROVE  /\ Prepare \/ refused' = refused
               /\ Publish \/ acked' = acked
               /\ \/ \E cc \in Callers, pp \in Principals, bb \in Blobs \cup {None}, ca \in BOOLEAN :
                       Submit(cc, pp, bb, ca)
                  \/ txns' = txns
               /\ Scan \/ ReplayRoot \/ Install \/ verdict' = verdict
               /\ walOn' = walOn
    BY <1>1 DEF Stage
  <1>2. ASSUME NEW c \in Callers, NEW p \in Principals, NEW b \in Blobs \cup {None}, NEW carried \in BOOLEAN,
               Submit(c, p, b, carried)
        PROVE  /\ Prepare \/ refused' = refused
               /\ Publish \/ acked' = acked
               /\ \/ \E cc \in Callers, pp \in Principals, bb \in Blobs \cup {None}, ca \in BOOLEAN :
                       Submit(cc, pp, bb, ca)
                  \/ txns' = txns
               /\ Scan \/ ReplayRoot \/ Install \/ verdict' = verdict
               /\ walOn' = walOn
    BY <1>2 DEF Submit
  <1>3. ASSUME NEW c \in Callers, Drain(c)
        PROVE  /\ Prepare \/ refused' = refused
               /\ Publish \/ acked' = acked
               /\ \/ \E cc \in Callers, pp \in Principals, bb \in Blobs \cup {None}, ca \in BOOLEAN :
                       Submit(cc, pp, bb, ca)
                  \/ txns' = txns
               /\ Scan \/ ReplayRoot \/ Install \/ verdict' = verdict
               /\ walOn' = walOn
    BY <1>3 DEF Drain
  <1>4. ASSUME NEW c \in Callers, Release(c)
        PROVE  /\ Prepare \/ refused' = refused
               /\ Publish \/ acked' = acked
               /\ \/ \E cc \in Callers, pp \in Principals, bb \in Blobs \cup {None}, ca \in BOOLEAN :
                       Submit(cc, pp, bb, ca)
                  \/ txns' = txns
               /\ Scan \/ ReplayRoot \/ Install \/ verdict' = verdict
               /\ walOn' = walOn
    BY <1>4 DEF Release
  <1>5. CASE Flush \/ Open
    BY <1>5 DEF Flush, Open
  <1>6. CASE Prepare
    BY <1>6 DEF Prepare
  <1>7. CASE Persist
    BY <1>7 DEF Persist
  <1>8. CASE AppendObjects
    BY <1>8 DEF AppendObjects
  <1>9. CASE SyncObjects
    BY <1>9 DEF SyncObjects
  <1>10. CASE AppendRoots
    BY <1>10 DEF AppendRoots
  <1>11. CASE SyncRoots
    BY <1>11 DEF SyncRoots
  <1>12. CASE AppendWal
    BY <1>12 DEF AppendWal
  <1>13. CASE SyncWal
    BY <1>13 DEF SyncWal
  <1>14. CASE FoldObjects
    BY <1>14 DEF FoldObjects
  <1>15. CASE FoldRoots
    BY <1>15 DEF FoldRoots
  <1>16. CASE FoldSyncObjects
    BY <1>16 DEF FoldSyncObjects
  <1>17. CASE FoldSyncRoots
    BY <1>17 DEF FoldSyncRoots
  <1>18. CASE TruncateWal
    BY <1>18 DEF TruncateWal
  <1>19. CASE SyncReplayed
    BY <1>19 DEF SyncReplayed
  <1>20. CASE RetireWal
    BY <1>20 DEF RetireWal
  <1>21. CASE Publish
    BY <1>21 DEF Publish
  <1>22. CASE SyncTruncation
    BY <1>22 DEF SyncTruncation
  <1>23. CASE Scan
    BY <1>23 DEF Scan
  <1>24. CASE ReplayObjects
    BY <1>24 DEF ReplayObjects
  <1>25. CASE ReplayRoot
    BY <1>25 DEF ReplayRoot
  <1>26. CASE SyncRetirement
    BY <1>26 DEF SyncRetirement
  <1>27. CASE Install
    BY <1>27 DEF Install
  <1>28. CASE IoError
    BY <1>28 DEF IoError
  <1>29. CASE ProcessCrash
    BY <1>29 DEF ProcessCrash, Stop
  <1>30. CASE PowerLoss
    BY <1>30 DEF PowerLoss, Stop
  <1>. QED BY Cases, <1>0, <1>1, <1>2, <1>3, <1>4, <1>5, <1>6, <1>7, <1>8, <1>9, <1>10, <1>11, <1>12,
              <1>13, <1>14, <1>15, <1>16, <1>17, <1>18, <1>19, <1>20, <1>21, <1>22, <1>23, <1>24,
              <1>25, <1>26, <1>27, <1>28, <1>29, <1>30

\* prepare leaves the new transaction's objects in the batch, or nothing.
LEMMA PrepareTraces ==
  ASSUME IInv, Prepare
  PROVE  LET t == call[job.batch[job.k]].txn
         IN  \/ Traces' \subseteq Traces \cup {t} \cup Blobs /\ refused' = refused
             \/ Traces' = Traces /\ refused' = refused \cup {t}
  <1>. USE DEF IInv
  <1>1. PICK t \in Ids : t = call[job.batch[job.k]].txn
    BY PrepareEffect
  <1>2. job # None /\ job' # None /\ UNCHANGED <<arena, roots, wal, mem>>
    BY PrepareEffect
  <1>3. CASE /\ job'.accepted = Append(job.accepted, t)
             /\ job'.objs = job.objs \cup (Incoming(t) \ Known)
             /\ refused' = refused
    <2>1. PICK j \in Seq(Nat) : j = job.accepted
      BY <1>2, FieldTypes
    <2>2. t \in Nat /\ Incoming(t) \subseteq {t} \cup Blobs
      BY ObjectFacts
    <2>3. Range(Append(j, t)) = Range(j) \cup {t}
      BY <2>2, RangeAppend
    <2>4. Range(job'.accepted) = Range(job.accepted) \cup {t} /\ job'.objs \subseteq job.objs \cup {t} \cup Blobs
      BY <1>3, <2>1, <2>2, <2>3
    <2>5. Traces' \subseteq Traces \cup {t} \cup Blobs
      BY <1>2, <2>4 DEF Traces, InBatch
    <2>. QED BY <1>1, <1>3, <2>5
  <1>4. CASE job'.accepted = job.accepted /\ job'.objs = job.objs /\ refused' = refused \cup {t}
    BY <1>1, <1>2, <1>4 DEF Traces, InBatch
  <1>. QED BY <1>1, <1>3, <1>4, PrepareEffect

\* The roots of a batch are submitted transactions, or those it started from.
LEMMA PendingRootIds ==
  ASSUME Types, Submitted, job # None, NEW p \in Principals
  PROVE  PendingRoot(p) \in 0 .. Len(txns)
  <1>1. job.accepted \in Seq(Nat) /\ Range(job.accepted) \subseteq Ids
    BY AcceptedFacts, FieldTypes
  <1>2. RootIn(job.accepted, p) \in Range(job.accepted) \cup {NoRoot}
    BY <1>1, RootInRange
  <1>3. mem.roots[p] \in 0 .. Len(txns)
    BY DEF Submitted
  <1>4. Ids \subseteq 0 .. Len(txns)
    BY DEF Ids, Types
  <1>. QED BY <1>1, <1>2, <1>3, <1>4 DEF PendingRoot

\* Where the files and the memory hold transactions, they are submitted ones.
LEMMA RecordIds ==
  ASSUME Types, Submitted
  PROVE  /\ Range(roots.disk) \cup Range(roots.cache) \cup Range(mem.log) \subseteq Ids
         /\ Logged(wal.disk) \cup Logged(wal.cache) \subseteq Ids
  <1>1. /\ Range(roots.disk) \subseteq Nat /\ Range(roots.cache) \subseteq Nat /\ Range(mem.log) \subseteq Nat
        /\ Logged(wal.disk) \subseteq Nat /\ Logged(wal.cache) \subseteq Nat
    BY FieldTypes, RangeOps, LogRange
  <1>2. /\ Range(roots.disk) \subseteq Ids \cup Blobs /\ Range(roots.cache) \subseteq Ids \cup Blobs
        /\ Range(mem.log) \subseteq Ids \cup Blobs
        /\ Logged(wal.disk) \subseteq Ids \cup Blobs /\ Logged(wal.cache) \subseteq Ids \cup Blobs
    BY DEF Submitted, Traces
  <1>. QED BY <1>1, <1>2, EngineAssumption

\* The roots that the engine serves are submitted transactions.
LEMMA RootsNext ==
  ASSUME IInv, [Next]_vars, NEW p \in Principals
  PROVE  mem'.roots[p] \in 0 .. Len(txns) /\ published'[p] \in 0 .. Len(txns)
  <1>. USE DEF IInv
  <1>a. /\ mem.roots[p] \in 0 .. Len(txns) /\ published[p] \in 0 .. Len(txns)
        /\ 0 \in 0 .. Len(txns) /\ Ids \subseteq 0 .. Len(txns)
    BY DEF Submitted, Types, Ids
  <1>0. CASE UNCHANGED vars
    BY <1>0, <1>a DEF vars
  <1>1. ASSUME NEW b \in Blobs, Stage(b)
        PROVE  mem'.roots[p] \in 0 .. Len(txns) /\ published'[p] \in 0 .. Len(txns)
    BY <1>1, <1>a, StageEffect DEF MemIs
  <1>2. ASSUME NEW c \in Callers, NEW q \in Principals, NEW b \in Blobs \cup {None}, NEW carried \in BOOLEAN,
               Submit(c, q, b, carried)
        PROVE  mem'.roots[p] \in 0 .. Len(txns) /\ published'[p] \in 0 .. Len(txns)
    BY <1>2, <1>a, SubmitEffect
  <1>3. ASSUME NEW c \in Callers, Drain(c)
        PROVE  mem'.roots[p] \in 0 .. Len(txns) /\ published'[p] \in 0 .. Len(txns)
    BY <1>3, <1>a, DrainEffect
  <1>4. ASSUME NEW c \in Callers, Release(c)
        PROVE  mem'.roots[p] \in 0 .. Len(txns) /\ published'[p] \in 0 .. Len(txns)
    BY <1>4, <1>a, ReleaseEffect
  <1>5. CASE Flush \/ Open
    BY <1>5, <1>a, HoldEffect
  <1>6. CASE Prepare
    BY <1>6, <1>a, PrepareEffect
  <1>7. CASE Persist
    BY <1>7, <1>a, PersistEffect
  <1>8. CASE AppendObjects
    BY <1>8, <1>a, AppendObjectsEffect
  <1>9. CASE SyncObjects
    BY <1>9, <1>a, SyncObjectsEffect
  <1>10. CASE AppendRoots
    BY <1>10, <1>a, AppendRootsEffect
  <1>11. CASE SyncRoots
    BY <1>11, <1>a, SyncRootsEffect
  <1>12. CASE AppendWal
    BY <1>12, <1>a, AppendWalEffect
  <1>13. CASE SyncWal
    BY <1>13, <1>a, SyncWalEffect
  <1>14. CASE FoldObjects
    BY <1>14, <1>a, FoldObjectsEffect DEF MemIs
  <1>15. CASE FoldRoots
    BY <1>15, <1>a, FoldRootsEffect DEF MemIs
  <1>16. CASE FoldSyncObjects
    BY <1>16, <1>a, FoldSyncObjectsEffect
  <1>17. CASE FoldSyncRoots
    BY <1>17, <1>a, FoldSyncRootsEffect
  <1>18. CASE TruncateWal
    BY <1>18, <1>a, TruncateWalEffect
  <1>19. CASE SyncReplayed
    BY <1>19, <1>a, SyncReplayedEffect
  <1>20. CASE RetireWal
    BY <1>20, <1>a, RetireWalEffect
  <1>21. CASE Publish
    BY <1>21, <1>a, PublishEffect, PendingRootIds DEF MemIs
  <1>22. CASE SyncTruncation
    BY <1>22, <1>a, SyncTruncationEffect DEF MemIs
  <1>23. CASE Scan
    <2>1. RootIn(roots.cache, p) \in Range(roots.cache) \cup {NoRoot}
      BY FieldTypes, RootInRange
    <2>2. Range(roots.cache) \subseteq Ids
      BY RecordIds
    <2>3. mem'.roots[p] = RootIn(roots.cache, p) /\ published' = published
      BY <1>23, ScanEffect DEF MemIs, RootsIn
    <2>. QED BY <1>a, <2>1, <2>2, <2>3 DEF NoRoot
  <1>24. CASE ReplayObjects
    BY <1>24, <1>a, ReplayObjectsEffect DEF MemIs
  <1>25. CASE ReplayRoot
    <2>1. job.k \in 1 .. Len(wal.cache)
      BY <1>25 DEF ReplayRoot, Busy, Recovering, At
    <2>2. wal.cache[job.k].txn \in Ids
      <3>1. job.k \in DOMAIN wal.cache
        BY <2>1, FieldTypes
      <3>. QED BY <3>1, RecordIds DEF Logged
    <2>3. mem'.roots[p] \in {mem.roots[p], wal.cache[job.k].txn} /\ published' = published
      BY <1>25, <2>1, ReplayRootEffect, FieldTypes DEF MemIs
    <2>. QED BY <1>a, <2>2, <2>3
  <1>26. CASE SyncRetirement
    BY <1>26, <1>a, SyncRetirementEffect
  <1>27. CASE Install
    BY <1>27, <1>a, InstallEffect
  <1>28. CASE IoError
    BY <1>28, <1>a, IoErrorEffect
  <1>29. CASE ProcessCrash
    BY <1>29, <1>a, ProcessCrashEffect DEF Stopped, MemIs, NoRoot
  <1>30. CASE PowerLoss
    BY <1>30, <1>a, PowerLossEffect DEF Stopped, MemIs, NoRoot
  <1>. QED BY Cases, <1>0, <1>1, <1>2, <1>3, <1>4, <1>5, <1>6, <1>7, <1>8, <1>9, <1>10, <1>11, <1>12,
              <1>13, <1>14, <1>15, <1>16, <1>17, <1>18, <1>19, <1>20, <1>21, <1>22, <1>23, <1>24,
              <1>25, <1>26, <1>27, <1>28, <1>29, <1>30

\* Everything that is written or remembered was submitted.
LEMMA SubmittedNext ==
  ASSUME IInv, [Next]_vars
  PROVE  Submitted'
  <1>. USE DEF IInv
  <1>a. Len(txns) \in Nat
    BY DEF Types
  <1>1. /\ Len(txns') \in Nat /\ Len(txns') >= Len(txns)
        /\ \A t \in Ids' : txns'[t].expected < t
    <2>1. CASE txns' = txns
      BY <1>a, <2>1 DEF Submitted, Ids
    <2>2. CASE \E c \in Callers, p \in Principals, b \in Blobs \cup {None}, carried \in BOOLEAN :
                 Submit(c, p, b, carried)
      <3>1. PICK c \in Callers, p \in Principals, b \in Blobs \cup {None}, carried \in BOOLEAN :
               Submit(c, p, b, carried)
        BY <2>2
      <3>2. /\ Len(txns') = Len(txns) + 1 /\ txns'[Len(txns) + 1].expected = published[p]
            /\ \A t \in Ids : txns'[t] = txns[t]
        BY <3>1, SubmitEffect
      <3>3. published[p] \in 0 .. Len(txns)
        BY DEF Submitted
      <3>4. Ids' = Ids \cup {Len(txns) + 1}
        BY <1>a, <3>2 DEF Ids
      <3>5. published[p] < Len(txns) + 1
        BY <1>a, <3>3
      <3>. QED BY <1>a, <3>2, <3>4, <3>5 DEF Submitted
    <2>. QED BY <2>1, <2>2, FrameNext
  <1>2. Ids \subseteq Ids' /\ 0 .. Len(txns) \subseteq 0 .. Len(txns')
    BY <1>a, <1>1 DEF Ids
  <1>3. Traces' \subseteq Ids \cup Blobs /\ refused' \subseteq Ids
    <2>1. CASE Prepare
      BY <2>1, PrepareTraces, PrepareEffect DEF Submitted
    <2>2. CASE ~Prepare
      BY <2>2, TracesNext, FrameNext DEF Submitted
    <2>. QED BY <2>1, <2>2
  <1>4. acked' \subseteq Ids
    <2>1. CASE Publish
      BY <2>1, PublishEffect, AcceptedFacts DEF Submitted
    <2>. QED BY <2>1, FrameNext DEF Submitted
  <1>. QED BY <1>1, <1>2, <1>3, <1>4, RootsNext DEF Submitted

\* A transaction that was refused or is yet to be prepared has left nothing.
LEMMA UntouchedNext ==
  ASSUME IInv, [Next]_vars
  PROVE  Untouched'
  <1>. USE DEF IInv
  <1>a. Ids \cap Blobs = {} /\ Len(txns) + 1 \notin Ids \cup Blobs /\ Ids \subseteq Nat
    <2>1. Len(txns) \in Nat
      BY DEF Types
    <2>2. Len(txns) + 1 \in Nat /\ Len(txns) + 1 \notin Ids /\ Ids \subseteq Nat
      BY <2>1 DEF Ids
    <2>. QED BY <2>2, EngineAssumption
  <1>1. CASE ~Prepare
    <2>1. Traces' \subseteq Traces \cup Blobs /\ refused' = refused
      BY <1>1, TracesNext, FrameNext
    <2>2. ASSUME NEW c \in Callers, Pending(c)'
          PROVE  call'[c].txn \notin Traces \cup Blobs \cup refused
      <3>1. CASE Pending(c) /\ call'[c].txn = call[c].txn
        BY <1>a, <3>1, PendingWaits DEF Untouched
      <3>2. CASE call'[c].txn = Len(txns) + 1
        BY <1>a, <3>2 DEF Submitted
      <3>. QED BY <2>2, <3>1, <3>2, CallsNext DEF StillPending
    <2>3. refused' \cap Traces' = {}
      BY <1>a, <2>1 DEF Untouched, Submitted
    <2>. QED BY <2>1, <2>2, <2>3 DEF Untouched
  <1>2. CASE Prepare
    <2>1. PICK k \in 1 .. Len(job.batch) : k = job.k
      BY <1>2, PrepareEffect
    <2>2. /\ job # None /\ job.step = "prepare" /\ job.batch[k] \in Callers
          /\ job' # None /\ job'.step = "prepare" /\ job'.batch = job.batch /\ job'.k = k + 1
          /\ UNCHANGED <<queue, call, txns>>
      BY <1>2, <2>1, PrepareEffect
    <2>3. PICK t \in Ids : t = call[job.batch[k]].txn
      BY <1>2, <2>1, PrepareEffect
    <2>4. t \notin Traces \cup refused
      <3>1. k \in k .. Len(job.batch)
        OBVIOUS
      <3>2. Pending(job.batch[k])
        BY <2>1, <2>2, <3>1 DEF Pending, At
      <3>. QED BY <2>2, <2>3, <3>2 DEF Untouched
    <2>5. \/ Traces' \subseteq Traces \cup {t} \cup Blobs /\ refused' = refused
          \/ Traces' = Traces /\ refused' = refused \cup {t}
      BY <1>2, <2>1, <2>3, PrepareTraces
    <2>6. ASSUME NEW c \in Callers, Pending(c)'
          PROVE  call[c].txn \notin Traces \cup Blobs \cup refused \cup {t}
      <3>1. Pending(c) /\ c # job.batch[k]
        <4>1. DOMAIN job.batch = 1 .. Len(job.batch) /\ Len(job.batch) \in Nat
          BY <2>2, FieldTypes
        <4>2. job.batch[k] \in Range(job.batch)
          BY <2>1, <4>1 DEF Range
        <4>3. CASE c \in Range(queue)
          BY <2>2, <4>2, <4>3 DEF OwnTxn, Pending
        <4>4. CASE \E i \in k + 1 .. Len(job.batch) : job.batch[i] = c
          <5>1. PICK i \in k + 1 .. Len(job.batch) : job.batch[i] = c
            BY <4>4
          <5>2. i \in 1 .. Len(job.batch) /\ i # k /\ i \in k .. Len(job.batch)
            BY <4>1
          <5>3. c # job.batch[k]
            BY <2>1, <2>2, <5>1, <5>2 DEF OwnTxn, Distinct
          <5>. QED BY <2>1, <2>2, <5>1, <5>2, <5>3 DEF Pending, At
        <4>. QED BY <2>2, <2>6, <4>3, <4>4 DEF Pending, At, RecoverySteps
      <3>2. call[c].txn # t
        BY <2>2, <2>3, <3>1, PendingWaits DEF OwnTxn, Waits
      <3>3. call[c].txn \in Ids /\ call[c].txn \notin Traces \cup refused
        BY <3>1, PendingWaits DEF Untouched
      <3>. QED BY <1>a, <3>2, <3>3
    <2>7. refused' \cap Traces' = {}
      BY <1>a, <2>4, <2>5 DEF Untouched, Submitted
    <2>. QED BY <2>2, <2>5, <2>6, <2>7 DEF Untouched
  <1>. QED BY <1>1, <1>2

-----------------------------------------------------------------------------
(* Durability *)

\* A WAL that is truncated in a checkpoint holds nothing that is not flushed.
LEMMA TruncateRetired ==
  ASSUME IInv, At({"truncate"})
  PROVE  Retired
  <1>. USE DEF IInv
  <1>1. life = "usable" /\ mem.objs = {} /\ mem.log = <<>> /\ arena.disk = arena.cache /\ roots.disk = roots.cache
    BY DEF At, Control, RecoverySteps, Folding, FoldSteps
  <1>2. Prefix(wal.disk, wal.cache)
    BY <1>1 DEF At, Overlay
  <1>3. Logged(wal.disk) \subseteq Logged(wal.cache) /\ LoggedObjects(wal.disk) \subseteq LoggedObjects(wal.cache)
    BY <1>2, FieldTypes, PrefixLog
  <1>4. Range(mem.log) = {}
    BY <1>1, EmptyOps
  <1>5. Logged(wal.cache) \subseteq Range(roots.cache) /\ LoggedObjects(wal.cache) \subseteq arena.cache
    BY <1>1, <1>4 DEF At, Overlay
  <1>. QED BY <1>1, <1>3, <1>5 DEF Retired

\* So does a WAL whose every record a recovery has replayed.
LEMMA ReplayRetired ==
  ASSUME IInv, At({"replay"}), job.k > Len(wal.cache)
  PROVE  /\ Logged(wal.disk) \subseteq Range(roots.cache)
         /\ LoggedObjects(wal.disk) \subseteq arena.cache
  <1>. USE DEF IInv
  <1>0. wal.cache \in Seq(WalRec) /\ DOMAIN wal.cache = 1 .. Len(wal.cache) /\ Len(wal.cache) \in Nat /\ job.k \in Nat
    BY FieldTypes DEF At
  <1>1. \A j \in 1 .. Len(wal.cache) : wal.cache[j].txn \in Range(roots.cache) /\ wal.cache[j].objs \subseteq arena.cache
    <2>1. \A j \in 1 .. Len(wal.cache) : j < job.k
      BY <1>0
    <2>. QED BY <2>1 DEF Recovering, At
  <1>2. Logged(wal.cache) \subseteq Range(roots.cache) /\ LoggedObjects(wal.cache) \subseteq arena.cache
    BY <1>0, <1>1 DEF Logged, LoggedObjects
  <1>3. CASE Prefix(wal.disk, wal.cache)
    <2>1. Logged(wal.disk) \subseteq Logged(wal.cache) /\ LoggedObjects(wal.disk) \subseteq LoggedObjects(wal.cache)
      BY <1>3, FieldTypes, PrefixLog
    <2>. QED BY <1>2, <2>1
  <1>4. CASE Retired
    <2>1. Range(roots.disk) \subseteq Range(roots.cache)
      BY FieldTypes, PrefixRange DEF Files
    <2>. QED BY <1>4, <2>1 DEF Retired, Files
  <1>. QED BY <1>3, <1>4 DEF Files

\* What is written extends what is flushed, except for a WAL being retired.
LEMMA FilesNext ==
  ASSUME IInv, [Next]_vars
  PROVE  Files'
  <1>. USE DEF IInv
  <1>a. /\ roots.cache \in Seq(Nat) /\ roots.disk \in Seq(Nat) /\ mem.log \in Seq(Nat)
        /\ wal.cache \in Seq(WalRec) /\ wal.disk \in Seq(WalRec)
        /\ job # None => job \in Job /\ job.accepted \in Seq(Nat)
    BY FieldTypes
  <1>b. Range(roots.disk) \subseteq Range(roots.cache)
    BY <1>a, PrefixRange DEF Files
  <1>c. /\ Prefix(roots.cache, roots.cache) /\ Prefix(wal.cache, wal.cache) /\ Prefix(wal.disk, wal.disk)
        /\ Prefix(<<>>, wal.cache)
    BY <1>a, PrefixSelf
  <1>0. CASE UNCHANGED vars
    BY <1>0 DEF vars, files, Files, Retired
  <1>1. ASSUME NEW b \in Blobs, Stage(b)
        PROVE  Files'
    BY <1>1, <1>b, <1>c, StageEffect DEF Files, Retired, Wrote, Flushed, MemIs
  <1>2. ASSUME NEW c \in Callers, NEW p \in Principals, NEW b \in Blobs \cup {None}, NEW carried \in BOOLEAN,
               Submit(c, p, b, carried)
        PROVE  Files'
    <2>1. UNCHANGED <<walOn, arena, roots, wal, mem>>
      BY <1>2, SubmitEffect
    <2>. QED BY <2>1 DEF Files, Retired
  <1>3. ASSUME NEW c \in Callers, Drain(c)
        PROVE  Files'
    <2>1. UNCHANGED <<walOn, arena, roots, wal, mem>>
      BY <1>3, DrainEffect
    <2>. QED BY <2>1 DEF Files, Retired
  <1>4. ASSUME NEW c \in Callers, Release(c)
        PROVE  Files'
    <2>1. UNCHANGED <<walOn, arena, roots, wal, mem>>
      BY <1>4, ReleaseEffect
    <2>. QED BY <2>1 DEF Files, Retired
  <1>5. CASE Flush \/ Open
    <2>1. UNCHANGED <<walOn, arena, roots, wal, mem>>
      BY <1>5, HoldEffect
    <2>. QED BY <2>1 DEF Files, Retired
  <1>6. CASE Prepare
    <2>1. UNCHANGED <<walOn, arena, roots, wal, mem>>
      BY <1>6, PrepareEffect
    <2>. QED BY <2>1 DEF Files, Retired
  <1>7. CASE Persist
    <2>1. UNCHANGED <<walOn, arena, roots, wal, mem>>
      BY <1>7, PersistEffect
    <2>. QED BY <2>1 DEF Files, Retired
  <1>8. CASE AppendObjects
    BY <1>8, <1>b, <1>c, AppendObjectsEffect DEF Files, Retired, Wrote, Flushed, MemIs
  <1>9. CASE SyncObjects
    BY <1>9, <1>b, <1>c, SyncObjectsEffect DEF Files, Retired, Wrote, Flushed, MemIs
  <1>10. CASE AppendRoots
    <2>0. job # None
      BY <1>10 DEF AppendRoots, Busy
    <2>1. Prefix(roots.disk, roots.cache \o job.accepted)
      BY <1>a, <2>0, PrefixOps DEF Files
    <2>. QED BY <1>10, <2>1, AppendRootsEffect DEF Files, Retired, Wrote
  <1>11. CASE SyncRoots
    BY <1>11, <1>b, <1>c, SyncRootsEffect DEF Files, Retired, Wrote, Flushed, MemIs
  <1>12. CASE AppendWal
    <2>0. job # None /\ job.step = "wal" /\ life = "usable" /\ walOn
      BY <1>12 DEF AppendWal, Busy, Control, WalSteps, RecoverySteps
    <2>1. Prefix(wal.disk, wal.cache)
      BY <2>0 DEF Overlay, At
    <2>2. Prefix(wal.disk, wal.cache \o WalRecords)
      BY <1>a, <2>0, <2>1, WalRecordsFacts, PrefixOps
    <2>. QED BY <1>12, <2>0, <2>2, AppendWalEffect DEF Files, Wrote
  <1>13. CASE SyncWal
    <2>0. walOn
      BY <1>13 DEF SyncWal, Busy, Control, WalSteps
    <2>. QED BY <1>13, <1>c, <2>0, SyncWalEffect DEF Files, Flushed
  <1>14. CASE FoldObjects
    BY <1>14, <1>b, <1>c, FoldObjectsEffect DEF Files, Retired, Wrote, Flushed, MemIs
  <1>15. CASE FoldRoots
    <2>1. Prefix(roots.disk, roots.cache \o mem.log)
      BY <1>a, PrefixOps DEF Files
    <2>. QED BY <1>15, <2>1, FoldRootsEffect DEF Files, Retired, Wrote, MemIs
  <1>16. CASE FoldSyncObjects
    BY <1>16, <1>b, <1>c, FoldSyncObjectsEffect DEF Files, Retired, Wrote, Flushed, MemIs
  <1>17. CASE FoldSyncRoots
    BY <1>17, <1>b, <1>c, FoldSyncRootsEffect DEF Files, Retired, Wrote, Flushed, MemIs
  <1>18. CASE TruncateWal
    <2>1. Retired
      BY <1>18, TruncateRetired DEF TruncateWal, Busy, At
    <2>. QED BY <1>18, <2>1, TruncateWalEffect DEF Files, Retired, Wrote
  <1>19. CASE SyncReplayed
    BY <1>19, <1>b, <1>c, SyncReplayedEffect DEF Files, Retired, Wrote, Flushed, MemIs
  <1>20. CASE RetireWal
    <2>1. Retired
      BY <1>20 DEF RetireWal, Busy, Recovering, At
    <2>. QED BY <1>20, <2>1, RetireWalEffect DEF Files, Retired, Wrote
  <1>21. CASE Publish
    <2>1. ~walOn => mem.index \cup job.objs \subseteq arena.cache
      BY <1>21, PublishEffect DEF Persisting, At, Files
    <2>2. UNCHANGED <<walOn, arena, roots, wal>>
      BY <1>21, PublishEffect
    <2>3. mem'.index \subseteq arena.cache /\ (~walOn => mem'.objs = mem.objs /\ mem'.log = mem.log)
      BY <1>21, <2>1, PublishEffect DEF MemIs, Files
    <2>. QED BY <2>2, <2>3 DEF Files, Retired
  <1>22. CASE SyncTruncation
    BY <1>22, <1>b, <1>c, SyncTruncationEffect DEF Files, Retired, Wrote, Flushed, MemIs
  <1>23. CASE Scan
    BY <1>23, <1>b, <1>c, ScanEffect DEF Files, Retired, Wrote, Flushed, MemIs
  <1>24. CASE ReplayObjects
    BY <1>24, <1>b, <1>c, ReplayObjectsEffect DEF Files, Retired, Wrote, Flushed, MemIs
  <1>25. CASE ReplayRoot
    <2>1. job.k \in 1 .. Len(wal.cache)
      BY <1>25 DEF ReplayRoot, Busy, Recovering, At
    <2>2. PICK t \in Nat : t = wal.cache[job.k].txn
      BY <1>25, <2>1, ReplayRootEffect
    <2>3. Prefix(roots.disk, Append(roots.cache, t))
      BY <1>a, PrefixOps DEF Files
    <2>4. roots'.disk = roots.disk /\ Prefix(roots.disk, roots'.cache)
      BY <1>25, <2>1, <2>2, <2>3, ReplayRootEffect DEF Files
    <2>5. mem'.index = mem.index /\ mem'.objs = mem.objs /\ mem'.log = mem.log /\ UNCHANGED <<walOn, arena, wal>>
      BY <1>25, <2>1, ReplayRootEffect DEF MemIs
    <2>. QED BY <2>4, <2>5 DEF Files, Retired
  <1>26. CASE SyncRetirement
    BY <1>26, <1>b, <1>c, SyncRetirementEffect DEF Files, Retired, Wrote, Flushed, MemIs
  <1>27. CASE Install
    BY <1>27, <1>b, <1>c, InstallEffect DEF Files, Retired, Wrote, Flushed, MemIs
  <1>28. CASE IoError
    <2>0. job # None
      BY <1>28, IoErrorEffect
    <2>1. arena'.disk \subseteq arena'.cache /\ mem'.index \subseteq arena'.cache /\ arena'.disk = arena.disk
      BY <1>28, IoErrorEffect DEF Files
    <2>2. Prefix(roots'.disk, roots'.cache) /\ roots'.disk = roots.disk
      <3>1. PICK s \in Seq(Nat) : Wrote(roots, roots', roots.cache \o s)
        BY <1>28, IoErrorEffect
      <3>2. Prefix(roots.disk, roots.cache \o s)
        BY <1>a, PrefixOps DEF Files
      <3>. QED BY <3>1, <3>2 DEF Wrote
    <2>3. PICK s \in Seq(WalRec) : /\ Wrote(wal, wal', wal.cache \o s)
                                   /\ s = <<>> \/ job.step = "wal"
      BY <1>28, IoErrorEffect
    <2>4. wal'.disk = wal.disk /\ wal'.cache = wal.cache \o s /\ (s = <<>> => wal'.cache = wal.cache)
      BY <1>a, <2>3 DEF Wrote
    <2>5. Prefix(wal'.disk, wal'.cache) \/ Retired'
      <3>1. CASE s = <<>>
        BY <2>1, <2>2, <2>4, <3>1 DEF Files, Retired
      <3>2. CASE job.step = "wal"
        <4>1. Prefix(wal.disk, wal.cache)
          BY <2>0, <3>2 DEF Overlay, At, Control, RecoverySteps
        <4>2. Prefix(wal.disk, wal.cache \o s)
          BY <1>a, <4>1, PrefixOps
        <4>. QED BY <2>4, <4>2
      <3>. QED BY <2>3, <3>1, <3>2
    <2>6. ~walOn' => /\ wal'.disk = <<>> /\ wal'.cache = <<>> /\ mem'.objs = {} /\ mem'.log = <<>>
      <3>1. walOn' = walOn /\ mem' = mem
        BY <1>28, IoErrorEffect
      <3>2. ~walOn => s = <<>>
        BY <2>0, <2>3 DEF Control, WalSteps
      <3>. QED BY <2>4, <3>1, <3>2 DEF Files
    <2>. QED BY <2>1, <2>2, <2>5, <2>6 DEF Files
  <1>29. CASE ProcessCrash
    <2>1. /\ UNCHANGED <<arena, roots, walOn>> /\ mem'.index = {} /\ mem'.objs = {} /\ mem'.log = <<>>
          /\ wal'.disk = wal.disk /\ Left(wal, wal'.cache)
      BY <1>29, ProcessCrashEffect DEF Stopped, MemIs
    <2>2. wal'.cache \in Seq(WalRec) /\ Prefix(wal'.cache, wal.cache) /\ (Prefix(wal.disk, wal.cache) => Prefix(wal.disk, wal'.cache))
      BY <2>1, LeftPrefix DEF Types
    <2>3. wal.cache = <<>> => wal'.cache = <<>>
      BY <2>2 DEF Prefix
    <2>. QED BY <2>1, <2>2, <2>3 DEF Files, Retired
  <1>30. CASE PowerLoss
    <2>1. /\ UNCHANGED walOn /\ mem'.index = {} /\ mem'.objs = {} /\ mem'.log = <<>>
          /\ arena'.disk = arena'.cache /\ roots'.disk = roots'.cache /\ wal'.disk = wal'.cache
          /\ roots'.cache \in Seq(Nat) /\ wal'.cache \in Seq(WalRec)
      BY <1>30, PowerLossEffect DEF Stopped, MemIs, RootsType, WalType
    <2>2. Prefix(roots'.cache, roots'.cache) /\ Prefix(wal'.cache, wal'.cache)
      BY <2>1, PrefixSelf
    <2>3. ~walOn => wal'.cache = <<>>
      <3>1. CASE Left(wal, wal'.cache)
        <4>1. Prefix(wal'.cache, wal.cache)
          BY <3>1, LeftPrefix DEF Types
        <4>2. wal.cache = <<>> => wal'.cache = <<>>
          BY <2>1, <4>1 DEF Prefix
        <4>. QED BY <4>2 DEF Files
      <3>. QED BY <1>30, <3>1, PowerLossEffect DEF Files
    <2>. QED BY <2>1, <2>2, <2>3 DEF Files
  <1>. QED BY Cases, <1>0, <1>1, <1>2, <1>3, <1>4, <1>5, <1>6, <1>7, <1>8, <1>9, <1>10, <1>11, <1>12,
              <1>13, <1>14, <1>15, <1>16, <1>17, <1>18, <1>19, <1>20, <1>21, <1>22, <1>23, <1>24,
              <1>25, <1>26, <1>27, <1>28, <1>29, <1>30

\* In a usable engine the journal with the overlay holds what is in the WAL,
\* and what is not staged is flushed.
LEMMA OverlayNext ==
  ASSUME IInv, [Next]_vars
  PROVE  Overlay'
  <1>. USE DEF IInv
  <1>a. /\ roots.cache \in Seq(Nat) /\ roots.disk \in Seq(Nat) /\ mem.log \in Seq(Nat)
        /\ wal.cache \in Seq(WalRec) /\ wal.disk \in Seq(WalRec)
        /\ job # None => job \in Job /\ job.accepted \in Seq(Nat)
    BY FieldTypes
  <1>b. Prefix(wal.cache, wal.cache) /\ Prefix(wal.disk, wal.disk) /\ Prefix(<<>>, wal.cache)
    BY <1>a, PrefixSelf
  <1>c. mem.index \subseteq arena.cache /\ arena.disk \subseteq arena.cache
    BY DEF Files
  <1>0. CASE UNCHANGED vars
    BY <1>0 DEF vars, files, group, Overlay, At
  <1>1. ASSUME NEW b \in Blobs, Stage(b)
        PROVE  Overlay'
    <2>1. ~At({"truncateSync"}) /\ ~At({"walSync", "publish"}) /\ UNCHANGED job
      BY <1>1, StageEffect DEF At
    <2>. QED BY <1>1, <1>c, <2>1, StageEffect DEF Overlay, At, Wrote, MemIs
  <1>2. ASSUME NEW c \in Callers, NEW p \in Principals, NEW b \in Blobs \cup {None}, NEW carried \in BOOLEAN,
               Submit(c, p, b, carried)
        PROVE  Overlay'
    <2>1. UNCHANGED <<walOn, arena, roots, wal, mem, life, job>>
      BY <1>2, SubmitEffect
    <2>. QED BY <2>1 DEF Overlay, At
  <1>3. ASSUME NEW c \in Callers, Drain(c)
        PROVE  Overlay'
    <2>1. UNCHANGED <<walOn, arena, roots, wal, mem, life>>
      BY <1>3, DrainEffect
    <2>2. ~At({"truncateSync"}) /\ ~At({"walSync", "publish"}) /\ ~At({"truncateSync"})' /\ ~At({"walSync", "publish"})'
      BY <1>3, DrainEffect DEF At, Took, Ended
    <2>. QED BY <2>1, <2>2 DEF Overlay
  <1>4. ASSUME NEW c \in Callers, Release(c)
        PROVE  Overlay'
    <2>1. UNCHANGED <<walOn, arena, roots, wal, mem, life, job>>
      BY <1>4, ReleaseEffect
    <2>. QED BY <2>1 DEF Overlay, At
  <1>5. CASE Flush \/ Open
    <2>1. UNCHANGED <<walOn, arena, roots, wal, mem, life>>
      BY <1>5, HoldEffect
    <2>2. ~At({"truncateSync"}) /\ ~At({"walSync", "publish"}) /\ ~At({"truncateSync"})' /\ ~At({"walSync", "publish"})'
      BY <1>5, HoldEffect DEF At, Took, Ended
    <2>. QED BY <2>1, <2>2 DEF Overlay
  <1>6. CASE Prepare
    <2>1. UNCHANGED <<walOn, arena, roots, wal, mem, life>>
      BY <1>6, PrepareEffect
    <2>2. ~At({"truncateSync"}) /\ ~At({"walSync", "publish"}) /\ ~At({"truncateSync"})' /\ ~At({"walSync", "publish"})'
      BY <1>6, PrepareEffect DEF At, Took, Ended
    <2>. QED BY <2>1, <2>2 DEF Overlay
  <1>7. CASE Persist
    <2>1. UNCHANGED <<walOn, arena, roots, wal, mem, life>>
      BY <1>7, PersistEffect
    <2>2. ~At({"truncateSync"}) /\ ~At({"walSync", "publish"}) /\ ~At({"truncateSync"})' /\ ~At({"walSync", "publish"})'
      BY <1>7, PersistEffect DEF At, Took, Ended
    <2>. QED BY <2>1, <2>2 DEF Overlay
  <1>8. CASE AppendObjects
    BY <1>8, <1>b, <1>c, AppendObjectsEffect DEF Overlay, At, Moved, Wrote, Flushed, MemIs
  <1>9. CASE SyncObjects
    BY <1>9, <1>b, <1>c, SyncObjectsEffect DEF Overlay, At, Moved, Wrote, Flushed, MemIs
  <1>10. CASE AppendRoots
    <2>0. job # None
      BY <1>10 DEF AppendRoots, Busy
    <2>1. Range(roots.cache \o job.accepted) = Range(roots.cache) \cup Range(job.accepted)
      BY <1>a, <2>0, RangeOps
    <2>. QED BY <1>10, <2>1, AppendRootsEffect DEF Overlay, At, Moved, Wrote
  <1>11. CASE SyncRoots
    BY <1>11, <1>b, <1>c, SyncRootsEffect DEF Overlay, At, Moved, Wrote, Flushed, MemIs
  <1>12. CASE AppendWal
    <2>0. job # None
      BY <1>12 DEF AppendWal, Busy
    <2>1. Prefix(wal.disk, wal.cache) /\ life = "usable" /\ ~At({"walSync", "publish"})
      BY <1>12 DEF AppendWal, Busy, Overlay, At, Control, RecoverySteps
    <2>2. Prefix(wal.disk, wal.cache \o WalRecords)
      BY <1>a, <2>0, <2>1, WalRecordsFacts, PrefixOps
    <2>3. /\ Logged(wal.cache \o WalRecords) = Logged(wal.cache) \cup Logged(WalRecords)
          /\ LoggedObjects(wal.cache \o WalRecords) = LoggedObjects(wal.cache) \cup LoggedObjects(WalRecords)
          /\ Logged(WalRecords) = Range(job.accepted)
          /\ LoggedObjects(WalRecords) \subseteq job.objs \cup (mem.staged \ mem.objs)
      BY <1>a, <2>0, WalRecordsFacts, LogOps
    <2>4. /\ wal'.disk = wal.disk /\ wal'.cache = wal.cache \o WalRecords
          /\ UNCHANGED <<walOn, arena, roots, mem, life>> /\ ~At({"truncateSync"})' /\ At({"walSync", "publish"})'
          /\ job'.accepted = job.accepted /\ job'.objs = job.objs
      BY <1>12, AppendWalEffect DEF Moved, Wrote, At
    <2>. QED BY <1>c, <2>1, <2>2, <2>3, <2>4 DEF Overlay
  <1>13. CASE SyncWal
    <2>1. Prefix(wal.disk, wal.cache)
      BY <1>13 DEF SyncWal, Busy, Overlay, At, Control, RecoverySteps
    <2>2. LoggedObjects(wal.disk) \subseteq LoggedObjects(wal.cache)
      BY <1>a, <2>1, PrefixLog
    <2>. QED BY <1>13, <1>b, <2>2, SyncWalEffect DEF Overlay, At, Moved, Flushed
  <1>14. CASE FoldObjects
    BY <1>14, <1>b, <1>c, FoldObjectsEffect DEF Overlay, At, Moved, Wrote, Flushed, MemIs
  <1>15. CASE FoldRoots
    <2>1. Range(roots.cache \o mem.log) = Range(roots.cache) \cup Range(mem.log)
      BY <1>a, RangeOps
    <2>. QED BY <1>15, <2>1, FoldRootsEffect, EmptyOps DEF Overlay, At, Moved, Wrote, MemIs
  <1>16. CASE FoldSyncObjects
    BY <1>16, <1>b, <1>c, FoldSyncObjectsEffect DEF Overlay, At, Moved, Wrote, Flushed, MemIs
  <1>17. CASE FoldSyncRoots
    BY <1>17, <1>b, <1>c, FoldSyncRootsEffect DEF Overlay, At, Moved, Wrote, Flushed, MemIs
  <1>18. CASE TruncateWal
    <2>1. mem.objs = {} /\ job # None /\ job.step = "truncate"
      BY <1>18 DEF TruncateWal, Busy, At, Folding, FoldSteps
    <2>. QED BY <1>18, <2>1, TruncateWalEffect, EmptyOps DEF Overlay, At, Moved, Wrote
  <1>19. CASE SyncReplayed
    <2>1. life # "usable" /\ life' = life
      BY <1>19, SyncReplayedEffect DEF Moved, Control, RecoverySteps
    <2>. QED BY <2>1 DEF Overlay
  <1>20. CASE RetireWal
    <2>1. life # "usable" /\ life' = life
      BY <1>20, RetireWalEffect DEF Moved, Control, RecoverySteps
    <2>. QED BY <2>1 DEF Overlay
  <1>21. CASE Publish
    <2>0. job # None /\ job.step = "publish" /\ job' = None /\ UNCHANGED <<walOn, arena, roots, wal, life>>
      BY <1>21, PublishEffect DEF Ended
    <2>1. CASE walOn
      <3>1. Range(mem.log \o job.accepted) = Range(mem.log) \cup Range(job.accepted)
        BY <1>a, <2>0, RangeOps
      <3>2. /\ mem'.index = mem.index /\ mem'.staged = {} /\ mem'.objs = mem.objs \cup job.objs \cup mem.staged
            /\ mem'.log = mem.log \o job.accepted
        BY <1>21, <2>1, PublishEffect DEF MemIs
      <3>3. job.objs \cup (mem.staged \ mem.objs) \subseteq LoggedObjects(wal.disk)
        BY <2>0, <2>1 DEF Persisting, At
      <3>4. ~At({"truncateSync"}) /\ At({"walSync", "publish"}) /\ ~At({"truncateSync"})' /\ ~At({"walSync", "publish"})'
        BY <2>0 DEF At
      <3>. QED BY <2>0, <2>1, <3>1, <3>2, <3>3, <3>4 DEF Overlay
    <2>2. CASE ~walOn
      <3>1. wal.disk = <<>> /\ wal.cache = <<>> /\ mem.objs = {}
        BY <2>2 DEF Files
      <3>2. mem'.staged = {} /\ mem'.objs = mem.objs
        BY <1>21, <2>2, PublishEffect DEF MemIs
      <3>. QED BY <1>b, <2>0, <2>2, <3>1, <3>2, EmptyOps DEF Overlay
    <2>. QED BY <2>1, <2>2
  <1>22. CASE SyncTruncation
    <2>1. mem.objs = {} /\ wal.cache = <<>> /\ arena.disk = arena.cache /\ life = "usable"
      BY <1>22 DEF SyncTruncation, Busy, At, Folding, FoldSteps, Control, RecoverySteps
    <2>2. /\ wal'.disk = <<>> /\ wal'.cache = <<>> /\ mem'.index = mem.index /\ mem'.staged = {} /\ mem'.objs = {}
          /\ UNCHANGED arena
      BY <1>22, <2>1, SyncTruncationEffect DEF MemIs
    <2>3. Prefix(wal'.disk, wal'.cache)
      BY <1>b, <2>1, <2>2
    <2>. QED BY <1>c, <2>1, <2>2, <2>3, EmptyOps DEF Overlay
  <1>23. CASE Scan
    <2>1. life # "usable" /\ life' = life
      BY <1>23, ScanEffect DEF Control, RecoverySteps
    <2>. QED BY <2>1 DEF Overlay
  <1>24. CASE ReplayObjects
    <2>1. life # "usable" /\ life' = life
      BY <1>24, ReplayObjectsEffect DEF Moved, Control, RecoverySteps
    <2>. QED BY <2>1 DEF Overlay
  <1>25. CASE ReplayRoot
    <2>1. job.k \in 1 .. Len(wal.cache) /\ life # "usable"
      BY <1>25 DEF ReplayRoot, Busy, Recovering, At, Control, RecoverySteps
    <2>2. life' = life
      BY <1>25, <2>1, ReplayRootEffect
    <2>. QED BY <2>1, <2>2 DEF Overlay
  <1>26. CASE SyncRetirement
    <2>1. life # "usable" /\ life' = life
      BY <1>26, SyncRetirementEffect DEF Moved, Control, RecoverySteps
    <2>. QED BY <2>1 DEF Overlay
  <1>27. CASE Install
    <2>1. /\ wal.disk = <<>> /\ wal.cache = <<>> /\ mem.index = arena.cache
          /\ mem.staged = {} /\ mem.objs = {} /\ (walOn => arena.disk = arena.cache) /\ life # "usable"
      BY <1>27 DEF Install, Busy, Recovering, At, Control, RecoverySteps
    <2>2. UNCHANGED <<walOn, wal, mem>> /\ arena'.cache = arena.cache /\ arena'.disk \in {arena.disk, arena.cache}
      BY <1>27, InstallEffect
    <2>3. Prefix(wal'.disk, wal'.cache)
      BY <1>b, <2>1, <2>2
    <2>. QED BY <2>1, <2>2, <2>3, EmptyOps DEF Overlay
  <1>28. CASE IoError
    <2>1. life' # "usable"
      BY <1>28, IoErrorEffect
    <2>. QED BY <2>1 DEF Overlay
  <1>29. CASE ProcessCrash
    BY <1>29, ProcessCrashEffect DEF Stopped, Overlay
  <1>30. CASE PowerLoss
    BY <1>30, PowerLossEffect DEF Stopped, Overlay
  <1>. QED BY Cases, <1>0, <1>1, <1>2, <1>3, <1>4, <1>5, <1>6, <1>7, <1>8, <1>9, <1>10, <1>11, <1>12,
              <1>13, <1>14, <1>15, <1>16, <1>17, <1>18, <1>19, <1>20, <1>21, <1>22, <1>23, <1>24,
              <1>25, <1>26, <1>27, <1>28, <1>29, <1>30

\* What a submitted transaction needs and brings does not change.
LEMMA TxnStable ==
  ASSUME IInv, [Next]_vars, NEW t \in Ids \cup {NoRoot}
  PROVE  /\ Closure(t)' = Closure(t)
         /\ t # NoRoot => Incoming(t)' = Incoming(t) /\ OfPrincipal(t)' = OfPrincipal(t) /\ txns'[t] = txns[t]
  <1>1. t # NoRoot => txns'[t] = txns[t]
    BY FrameNext, SubmitEffect DEF IInv
  <1>. QED BY <1>1 DEF Closure, Incoming, OfPrincipal, NoRoot

\* The objects of an accepted transaction are known or come with it.
LEMMA PreparedNext ==
  ASSUME IInv, [Next]_vars
  PROVE  Prepared'
  <1>. USE DEF IInv
  <1>a. job # None => \A i \in 1 .. Len(job.accepted) : job.accepted[i] \in Ids
    BY AcceptedFacts
  <1>b. \A t \in Ids : Closure(t)' = Closure(t) /\ Incoming(t)' = Incoming(t)
    BY TxnStable DEF Ids, NoRoot
  <1>c. ASSUME job # None, job' # None => /\ job'.accepted = job.accepted /\ job'.objs = job.objs
                                          /\ job'.step \notin RecoverySteps => job.step \notin RecoverySteps,
               Known' = Known
        PROVE  Prepared'
    <2>1. SUFFICES ASSUME At(Steps \ RecoverySteps)'
                   PROVE  Prepared'
      BY DEF Prepared
    <2>2. job # None /\ job.step \in Steps /\ job' # None /\ job'.step \notin RecoverySteps
      BY <1>c, <2>1, FieldTypes DEF At
    <2>3. At(Steps \ RecoverySteps)
      BY <1>c, <2>2 DEF At
    <2>. QED BY <1>a, <1>b, <1>c, <2>2, <2>3 DEF Prepared
  <1>d. ASSUME job' # None => job'.accepted = <<>> /\ job'.objs = {}
        PROVE  Prepared'
    BY <1>d DEF Prepared, At
  <1>0. CASE UNCHANGED vars
    BY <1>0 DEF vars, files, group, Prepared, At, Known, Closure, Incoming
  <1>1. ASSUME NEW b \in Blobs, Stage(b)
        PROVE  Prepared'
    BY <1>1, <1>d, StageEffect DEF Ended
  <1>2. ASSUME NEW c \in Callers, NEW p \in Principals, NEW b \in Blobs \cup {None}, NEW carried \in BOOLEAN,
               Submit(c, p, b, carried)
        PROVE  Prepared'
    <2>1. UNCHANGED <<mem, job>>
      BY <1>2, SubmitEffect
    <2>2. CASE job # None
      BY <1>c, <2>1, <2>2 DEF Known
    <2>3. CASE job = None
      BY <1>d, <2>1, <2>3
    <2>. QED BY <2>2, <2>3
  <1>3. ASSUME NEW c \in Callers, Drain(c)
        PROVE  Prepared'
    BY <1>3, <1>d, DrainEffect DEF Took
  <1>4. ASSUME NEW c \in Callers, Release(c)
        PROVE  Prepared'
    <2>1. UNCHANGED <<mem, job>>
      BY <1>4, ReleaseEffect
    <2>2. CASE job # None
      BY <1>c, <2>1, <2>2 DEF Known
    <2>3. CASE job = None
      BY <1>d, <2>1, <2>3
    <2>. QED BY <2>2, <2>3
  <1>5. CASE Flush \/ Open
    BY <1>5, <1>d, HoldEffect DEF Took
  <1>6. CASE Prepare
    <2>1. /\ job # None /\ job.step = "prepare" /\ job' # None /\ job'.step = "prepare" /\ Known' = Known
      BY <1>6, PrepareEffect DEF Known
    <2>2. PICK t \in Ids : t = call[job.batch[job.k]].txn
      BY <1>6, PrepareEffect
    <2>3. CASE job'.accepted = job.accepted /\ job'.objs = job.objs
      BY <1>c, <2>1, <2>3
    <2>4. CASE /\ job'.accepted = Append(job.accepted, t)
               /\ job'.objs = job.objs \cup (Incoming(t) \ Known)
               /\ Closure(t) \subseteq Known \cup Incoming(t)
      <3>1. PICK acc \in Seq(Nat) : acc = job.accepted
        BY <2>1, FieldTypes
      <3>2. t \in Nat
        BY ObjectFacts
      <3>3. /\ Len(job'.accepted) = Len(acc) + 1 /\ job'.accepted[Len(acc) + 1] = t
            /\ \A i \in 1 .. Len(acc) : job'.accepted[i] = acc[i]
            /\ 1 .. Len(acc) + 1 = (1 .. Len(acc)) \cup {Len(acc) + 1}
        BY <2>4, <3>1, <3>2
      <3>4. At(Steps \ RecoverySteps)
        BY <2>1 DEF At, Steps, RecoverySteps
      <3>5. ASSUME NEW i \in 1 .. Len(acc)
            PROVE  Closure(acc[i])' \subseteq Known \cup (Incoming(acc[i])' \cap job'.objs)
        <4>1. Closure(acc[i]) \subseteq Known \cup (Incoming(acc[i]) \cap job.objs)
          BY <3>1, <3>4 DEF Prepared
        <4>2. acc[i] \in Ids
          BY <1>a, <2>1, <3>1
        <4>. QED BY <1>b, <2>4, <4>1, <4>2
      <3>6. Closure(t)' \subseteq Known \cup (Incoming(t)' \cap job'.objs)
        BY <1>b, <2>4
      <3>7. ASSUME NEW ob \in job'.objs
            PROVE  \E i \in 1 .. Len(acc) + 1 : ob \in Incoming(job.accepted[i])'
        <4>1. CASE ob \in job.objs
          <5>1. PICK i \in 1 .. Len(acc) : ob \in Incoming(acc[i])
            BY <3>1, <3>4, <4>1 DEF Prepared
          <5>2. acc[i] \in Ids
            BY <1>a, <2>1, <3>1
          <5>3. ob \in Incoming(acc[i])'
            BY <1>b, <5>1, <5>2
          <5>4. Incoming(acc[i])' = Incoming(job.accepted[i])'
            BY <3>3 DEF Incoming, Closure
          <5>. QED BY <3>3, <5>3, <5>4
        <4>2. CASE ob \notin job.objs
          <5>1. ob \in Incoming(t)'
            BY <1>b, <2>4, <4>2
          <5>2. Incoming(t)' = Incoming(job.accepted[Len(acc) + 1])'
            BY <3>3 DEF Incoming, Closure
          <5>. QED BY <3>3, <5>1, <5>2
        <4>. QED BY <4>1, <4>2
      <3>8. ASSUME NEW i \in 1 .. Len(acc) + 1
            PROVE  Closure(job.accepted[i])' \subseteq Known \cup (Incoming(job.accepted[i])' \cap job'.objs)
        <4>1. CASE i \in 1 .. Len(acc)
          <5>1. Closure(acc[i])' = Closure(job.accepted[i])' /\ Incoming(acc[i])' = Incoming(job.accepted[i])'
            BY <3>3, <4>1 DEF Incoming, Closure
          <5>. QED BY <3>5, <4>1, <5>1
        <4>2. CASE i = Len(acc) + 1
          <5>1. Closure(t)' = Closure(job.accepted[i])' /\ Incoming(t)' = Incoming(job.accepted[i])'
            BY <3>3, <4>2 DEF Incoming, Closure
          <5>. QED BY <3>6, <5>1
        <4>. QED BY <3>3, <4>1, <4>2
      <3>. QED BY <2>1, <3>3, <3>7, <3>8 DEF Prepared
    <2>. QED BY <1>6, <2>2, <2>3, <2>4, PrepareEffect
  <1>7. CASE Persist
    BY <1>7, <1>c, PersistEffect DEF Ended, Known, RecoverySteps
  <1>8. CASE AppendObjects
    BY <1>8, <1>c, AppendObjectsEffect DEF Moved, MemIs, Known, RecoverySteps
  <1>9. CASE SyncObjects
    BY <1>9, <1>c, SyncObjectsEffect DEF Moved, MemIs, Known, RecoverySteps
  <1>10. CASE AppendRoots
    BY <1>10, <1>c, AppendRootsEffect DEF Moved, MemIs, Known, RecoverySteps
  <1>11. CASE SyncRoots
    BY <1>11, <1>c, SyncRootsEffect DEF Moved, MemIs, Known, RecoverySteps
  <1>12. CASE AppendWal
    BY <1>12, <1>c, AppendWalEffect DEF Moved, MemIs, Known, RecoverySteps
  <1>13. CASE SyncWal
    BY <1>13, <1>c, SyncWalEffect DEF Moved, MemIs, Known, RecoverySteps
  <1>14. CASE FoldObjects
    BY <1>14, <1>c, FoldObjectsEffect DEF Moved, MemIs, Known, RecoverySteps
  <1>15. CASE FoldRoots
    BY <1>15, <1>c, FoldRootsEffect DEF Moved, MemIs, Known, RecoverySteps
  <1>16. CASE FoldSyncObjects
    BY <1>16, <1>c, FoldSyncObjectsEffect DEF Moved, MemIs, Known, RecoverySteps
  <1>17. CASE FoldSyncRoots
    BY <1>17, <1>c, FoldSyncRootsEffect DEF Moved, MemIs, Known, RecoverySteps
  <1>18. CASE TruncateWal
    BY <1>18, <1>c, TruncateWalEffect DEF Moved, MemIs, Known, RecoverySteps
  <1>19. CASE SyncReplayed
    <2>1. job.accepted = <<>> /\ job.objs = {}
      BY <1>19 DEF SyncReplayed, Busy, Control, RecoverySteps
    <2>. QED BY <1>19, <1>d, <2>1, SyncReplayedEffect DEF Moved
  <1>20. CASE RetireWal
    <2>1. job.accepted = <<>> /\ job.objs = {}
      BY <1>20 DEF RetireWal, Busy, Control, RecoverySteps
    <2>. QED BY <1>20, <1>d, <2>1, RetireWalEffect DEF Moved
  <1>21. CASE Publish
    BY <1>21, <1>d, PublishEffect DEF Ended
  <1>22. CASE SyncTruncation
    BY <1>22, <1>c, SyncTruncationEffect DEF Ended, Moved, MemIs, Known, RecoverySteps
  <1>23. CASE Scan
    <2>1. job.accepted = <<>> /\ job.objs = {}
      BY <1>23 DEF Scan, Busy, Control, RecoverySteps
    <2>. QED BY <1>23, <1>d, <2>1, ScanEffect DEF Ended
  <1>24. CASE ReplayObjects
    <2>1. job.accepted = <<>> /\ job.objs = {}
      BY <1>24 DEF ReplayObjects, Busy, Control, RecoverySteps
    <2>. QED BY <1>24, <1>d, <2>1, ReplayObjectsEffect DEF Moved
  <1>25. CASE ReplayRoot
    <2>1. job.k \in 1 .. Len(wal.cache) /\ job.accepted = <<>> /\ job.objs = {}
      BY <1>25 DEF ReplayRoot, Busy, Recovering, At, Control, RecoverySteps
    <2>. QED BY <1>25, <1>d, <2>1, ReplayRootEffect DEF Ended
  <1>26. CASE SyncRetirement
    <2>1. job.accepted = <<>> /\ job.objs = {}
      BY <1>26 DEF SyncRetirement, Busy, Control, RecoverySteps
    <2>. QED BY <1>26, <1>d, <2>1, SyncRetirementEffect DEF Moved
  <1>27. CASE Install
    <2>1. job.accepted = <<>> /\ job.objs = {}
      BY <1>27 DEF Install, Busy, Control, RecoverySteps
    <2>. QED BY <1>27, <1>d, <2>1, InstallEffect DEF Ended
  <1>28. CASE IoError
    BY <1>28, <1>d, IoErrorEffect DEF Ended, Stopped
  <1>29. CASE ProcessCrash
    BY <1>29, <1>d, ProcessCrashEffect DEF Ended, Stopped
  <1>30. CASE PowerLoss
    BY <1>30, <1>d, PowerLossEffect DEF Ended, Stopped
  <1>. QED BY Cases, <1>0, <1>1, <1>2, <1>3, <1>4, <1>5, <1>6, <1>7, <1>8, <1>9, <1>10, <1>11, <1>12,
              <1>13, <1>14, <1>15, <1>16, <1>17, <1>18, <1>19, <1>20, <1>21, <1>22, <1>23, <1>24,
              <1>25, <1>26, <1>27, <1>28, <1>29, <1>30

\* The root that a journal of submitted transactions leaves does not change.
LEMMA RootStable ==
  ASSUME IInv, [Next]_vars, NEW j \in Seq(Nat), Range(j) \subseteq Ids, NEW q
  PROVE  RootIn(j, q)' = RootIn(j, q)
  <1>1. \A i \in DOMAIN j : j[i] \in Ids
    BY DEF Range
  <1>2. \A i \in DOMAIN j : OfPrincipal(j[i])' = OfPrincipal(j[i])
    BY <1>1, TxnStable DEF Ids, NoRoot
  <1>3. {i \in DOMAIN j : OfPrincipal(j[i])' = q} = {i \in DOMAIN j : OfPrincipal(j[i]) = q}
    BY <1>2
  <1>. DEFINE Pick(own) == IF own = {} THEN NoRoot ELSE j[CHOOSE i \in own : \A k \in own : k <= i]
  <1>4. RootIn(j, q) = Pick({i \in DOMAIN j : OfPrincipal(j[i]) = q})
    BY DEF RootIn
  <1>5. RootIn(j, q)' = Pick({i \in DOMAIN j : OfPrincipal(j[i])' = q})
    BY DEF RootIn, NoRoot
  <1>. HIDE DEF Pick
  <1>. QED BY <1>3, <1>4, <1>5
\* append_wal_transactions writes every object the batch brings or relies on.
LEMMA WalCovers ==
  ASSUME IInv, At({"wal"})
  PROVE  job.objs \cup (mem.staged \ mem.objs) \subseteq LoggedObjects(WalRecords)
  <1>. USE DEF IInv
  <1>1. job # None /\ job.accepted # <<>> /\ At(Steps \ RecoverySteps)
    BY DEF At, Control, WalSteps, Steps, RecoverySteps
  <1>2. /\ Len(WalRecords) = Len(job.accepted) /\ WalRecords \in Seq(WalRec)
        /\ \A i \in 1 .. Len(job.accepted) : WalRecords[i] = [txn |-> job.accepted[i], objs |-> WalObjects(i)]
    BY <1>1, WalRecordsFacts
  <1>3. DOMAIN WalRecords = 1 .. Len(job.accepted) /\ Len(job.accepted) \in Nat /\ job.accepted \in Seq(Nat)
    BY <1>1, <1>2, FieldTypes
  <1>4. \A i \in 1 .. Len(job.accepted) : WalObjects(i) \subseteq LoggedObjects(WalRecords)
    <2>1. \A i \in 1 .. Len(job.accepted) : WalRecords[i].objs = WalObjects(i)
      <3>1. ASSUME NEW i \in 1 .. Len(job.accepted)
            PROVE  WalRecords[i].objs = WalObjects(i)
        <4>1. WalRecords[i] = [txn |-> job.accepted[i], objs |-> WalObjects(i)]
          BY <1>2
        <4>. QED BY <4>1
      <3>. QED BY <3>1
    <2>. QED BY <1>3, <2>1 DEF LoggedObjects
  <1>5. ASSUME NEW o \in job.objs
        PROVE  o \in LoggedObjects(WalRecords)
    <2>1. PICK i \in 1 .. Len(job.accepted) : o \in Incoming(job.accepted[i])
      BY <1>1 DEF Prepared
    <2>2. o \in WalObjects(i)
      BY <2>1 DEF WalObjects
    <2>. QED BY <1>4, <2>2
  <1>6. mem.staged \ mem.objs \subseteq LoggedObjects(WalRecords)
    <2>1. 1 \in 1 .. Len(job.accepted)
      BY <1>1, <1>3
    <2>2. mem.staged \ mem.objs \subseteq WalObjects(1)
      BY DEF WalObjects
    <2>. QED BY <1>4, <2>1, <2>2
  <1>. QED BY <1>5, <1>6

\* How far a batch has come
LEMMA PersistingNext ==
  ASSUME IInv, [Next]_vars
  PROVE  Persisting'
  <1>. USE DEF IInv
  <1>a. mem.index \subseteq arena.cache /\ arena.disk \subseteq arena.cache
    BY DEF Files
  <1>b. ASSUME ~At({"arenaSync", "roots", "rootsSync", "walSync", "publish"})'
        PROVE  Persisting'
    BY <1>b DEF Persisting, At
  <1>c. job # None /\ job.step \in LegacySteps => ~walOn
    BY DEF Control
  <1>d. job # None /\ job.step \in WalSteps => walOn
    BY DEF Control
  <1>0. CASE UNCHANGED vars
    BY <1>0 DEF vars, files, group, Persisting, At
  <1>1. ASSUME NEW b \in Blobs, Stage(b)
        PROVE  Persisting'
    BY <1>1, <1>b, StageEffect DEF Took, Moved, Ended, Stopped, At
  <1>2. ASSUME NEW c \in Callers, NEW p \in Principals, NEW b \in Blobs \cup {None}, NEW carried \in BOOLEAN,
               Submit(c, p, b, carried)
        PROVE  Persisting'
    <2>1. UNCHANGED <<walOn, arena, roots, wal, mem, job>>
      BY <1>2, SubmitEffect
    <2>. QED BY <2>1 DEF Persisting, At
  <1>3. ASSUME NEW c \in Callers, Drain(c)
        PROVE  Persisting'
    BY <1>3, <1>b, DrainEffect DEF Took, Moved, Ended, Stopped, At
  <1>4. ASSUME NEW c \in Callers, Release(c)
        PROVE  Persisting'
    <2>1. UNCHANGED <<walOn, arena, roots, wal, mem, job>>
      BY <1>4, ReleaseEffect
    <2>. QED BY <2>1 DEF Persisting, At
  <1>5. CASE Flush \/ Open
    BY <1>5, <1>b, HoldEffect DEF Took, Moved, Ended, Stopped, At
  <1>6. CASE Prepare
    BY <1>6, <1>b, PrepareEffect DEF Took, Moved, Ended, Stopped, At
  <1>7. CASE Persist
    BY <1>7, <1>b, PersistEffect DEF Took, Moved, Ended, Stopped, At
  <1>8. CASE AppendObjects
    BY <1>8, AppendObjectsEffect DEF Persisting, Moved, Wrote, At
  <1>9. CASE SyncObjects
    BY <1>9, <1>a, SyncObjectsEffect DEF Persisting, Moved, Flushed, At
  <1>10. CASE AppendRoots
    <2>0. job # None /\ job.step = "roots"
      BY <1>10 DEF AppendRoots, Busy
    <2>1. Range(roots.cache \o job.accepted) = Range(roots.cache) \cup Range(job.accepted)
      BY <2>0, FieldTypes, RangeOps
    <2>. QED BY <1>10, <2>0, <2>1, AppendRootsEffect DEF Persisting, Moved, Wrote, At
  <1>11. CASE SyncRoots
    <2>0. job # None /\ job.step = "rootsSync" /\ ~walOn
      BY <1>11, <1>c DEF SyncRoots, Busy, LegacySteps
    <2>. QED BY <1>11, <2>0, SyncRootsEffect DEF Persisting, Moved, Flushed, At
  <1>12. CASE AppendWal
    <2>0. job # None /\ At({"wal"})
      BY <1>12 DEF AppendWal, Busy, At
    <2>1. /\ Logged(wal.cache \o WalRecords) = Logged(wal.cache) \cup Logged(WalRecords)
          /\ LoggedObjects(wal.cache \o WalRecords) = LoggedObjects(wal.cache) \cup LoggedObjects(WalRecords)
          /\ Logged(WalRecords) = Range(job.accepted)
      BY <2>0, FieldTypes, WalRecordsFacts, LogOps
    <2>2. job.objs \cup (mem.staged \ mem.objs) \subseteq LoggedObjects(WalRecords)
      BY <2>0, WalCovers
    <2>3. /\ wal'.cache = wal.cache \o WalRecords /\ mem' = mem /\ job'.step = "walSync"
          /\ job'.accepted = job.accepted /\ job'.objs = job.objs
      BY <1>12, AppendWalEffect DEF Moved, Wrote
    <2>. QED BY <2>1, <2>2, <2>3 DEF Persisting, At
  <1>13. CASE SyncWal
    <2>0. job # None /\ job.step = "walSync" /\ walOn
      BY <1>13, <1>d DEF SyncWal, Busy, WalSteps
    <2>. QED BY <1>13, <2>0, SyncWalEffect DEF Persisting, Moved, Flushed, At
  <1>14. CASE FoldObjects
    BY <1>14, <1>b, FoldObjectsEffect DEF Took, Moved, Ended, Stopped, At
  <1>15. CASE FoldRoots
    BY <1>15, <1>b, FoldRootsEffect DEF Took, Moved, Ended, Stopped, At
  <1>16. CASE FoldSyncObjects
    BY <1>16, <1>b, FoldSyncObjectsEffect DEF Took, Moved, Ended, Stopped, At
  <1>17. CASE FoldSyncRoots
    BY <1>17, <1>b, FoldSyncRootsEffect DEF Took, Moved, Ended, Stopped, At
  <1>18. CASE TruncateWal
    BY <1>18, <1>b, TruncateWalEffect DEF Took, Moved, Ended, Stopped, At
  <1>19. CASE SyncReplayed
    BY <1>19, <1>b, SyncReplayedEffect DEF Took, Moved, Ended, Stopped, At
  <1>20. CASE RetireWal
    BY <1>20, <1>b, RetireWalEffect DEF Took, Moved, Ended, Stopped, At
  <1>21. CASE Publish
    BY <1>21, <1>b, PublishEffect DEF Took, Moved, Ended, Stopped, At
  <1>22. CASE SyncTruncation
    BY <1>22, <1>b, SyncTruncationEffect DEF Took, Moved, Ended, Stopped, At
  <1>23. CASE Scan
    BY <1>23, <1>b, ScanEffect DEF Took, Moved, Ended, Stopped, At
  <1>24. CASE ReplayObjects
    BY <1>24, <1>b, ReplayObjectsEffect DEF Took, Moved, Ended, Stopped, At
  <1>25. CASE ReplayRoot
    <2>1. job.k \in 1 .. Len(wal.cache)
      BY <1>25 DEF ReplayRoot, Busy, Recovering, At
    <2>. QED BY <1>25, <1>b, <2>1, ReplayRootEffect DEF Ended, At
  <1>26. CASE SyncRetirement
    BY <1>26, <1>b, SyncRetirementEffect DEF Took, Moved, Ended, Stopped, At
  <1>27. CASE Install
    BY <1>27, <1>b, InstallEffect DEF Took, Moved, Ended, Stopped, At
  <1>28. CASE IoError
    BY <1>28, <1>b, IoErrorEffect DEF Took, Moved, Ended, Stopped, At
  <1>29. CASE ProcessCrash
    BY <1>29, <1>b, ProcessCrashEffect DEF Took, Moved, Ended, Stopped, At
  <1>30. CASE PowerLoss
    BY <1>30, <1>b, PowerLossEffect DEF Took, Moved, Ended, Stopped, At
  <1>. QED BY Cases, <1>0, <1>1, <1>2, <1>3, <1>4, <1>5, <1>6, <1>7, <1>8, <1>9, <1>10, <1>11, <1>12,
              <1>13, <1>14, <1>15, <1>16, <1>17, <1>18, <1>19, <1>20, <1>21, <1>22, <1>23, <1>24,
              <1>25, <1>26, <1>27, <1>28, <1>29, <1>30

\* How far a checkpoint has come
LEMMA FoldingNext ==
  ASSUME IInv, [Next]_vars
  PROVE  Folding'
  <1>. USE DEF IInv
  <1>b. ASSUME ~At(FoldSteps \ {"fold"})'
        PROVE  Folding'
    BY <1>b DEF Folding, At, FoldSteps
  <1>0. CASE UNCHANGED vars
    BY <1>0 DEF vars, files, group, Folding, At, Retired
  <1>1. ASSUME NEW b \in Blobs, Stage(b)
        PROVE  Folding'
    BY <1>1, <1>b, StageEffect DEF Took, Moved, Ended, Stopped, At, FoldSteps
  <1>2. ASSUME NEW c \in Callers, NEW p \in Principals, NEW b \in Blobs \cup {None}, NEW carried \in BOOLEAN,
               Submit(c, p, b, carried)
        PROVE  Folding'
    <2>1. UNCHANGED <<walOn, arena, roots, wal, mem, job>>
      BY <1>2, SubmitEffect
    <2>. QED BY <2>1 DEF Folding, At, Retired
  <1>3. ASSUME NEW c \in Callers, Drain(c)
        PROVE  Folding'
    BY <1>3, <1>b, DrainEffect DEF Took, Moved, Ended, Stopped, At, FoldSteps
  <1>4. ASSUME NEW c \in Callers, Release(c)
        PROVE  Folding'
    <2>1. UNCHANGED <<walOn, arena, roots, wal, mem, job>>
      BY <1>4, ReleaseEffect
    <2>. QED BY <2>1 DEF Folding, At, Retired
  <1>5. CASE Flush \/ Open
    BY <1>5, <1>b, HoldEffect DEF Took, Moved, Ended, Stopped, At, FoldSteps
  <1>6. CASE Prepare
    BY <1>6, <1>b, PrepareEffect DEF Took, Moved, Ended, Stopped, At, FoldSteps
  <1>7. CASE Persist
    BY <1>7, <1>b, PersistEffect DEF Took, Moved, Ended, Stopped, At, FoldSteps
  <1>8. CASE AppendObjects
    BY <1>8, <1>b, AppendObjectsEffect DEF Took, Moved, Ended, Stopped, At, FoldSteps
  <1>9. CASE SyncObjects
    BY <1>9, <1>b, SyncObjectsEffect DEF Took, Moved, Ended, Stopped, At, FoldSteps
  <1>10. CASE AppendRoots
    BY <1>10, <1>b, AppendRootsEffect DEF Took, Moved, Ended, Stopped, At, FoldSteps
  <1>11. CASE SyncRoots
    BY <1>11, <1>b, SyncRootsEffect DEF Took, Moved, Ended, Stopped, At, FoldSteps
  <1>12. CASE AppendWal
    BY <1>12, <1>b, AppendWalEffect DEF Took, Moved, Ended, Stopped, At, FoldSteps
  <1>13. CASE SyncWal
    BY <1>13, <1>b, SyncWalEffect DEF Took, Moved, Ended, Stopped, At, FoldSteps
  <1>14. CASE FoldObjects
    BY <1>14, FoldObjectsEffect DEF Folding, Moved, Wrote, Flushed, MemIs, At, FoldSteps
  <1>15. CASE FoldRoots
    BY <1>15, FoldRootsEffect DEF Folding, Moved, Wrote, Flushed, MemIs, At, FoldSteps
  <1>16. CASE FoldSyncObjects
    BY <1>16, FoldSyncObjectsEffect DEF Folding, Moved, Wrote, Flushed, MemIs, At, FoldSteps
  <1>17. CASE FoldSyncRoots
    BY <1>17, FoldSyncRootsEffect DEF Folding, Moved, Wrote, Flushed, MemIs, At, FoldSteps
  <1>18. CASE TruncateWal
    <2>1. Retired
      BY <1>18, TruncateRetired DEF TruncateWal, Busy, At
    <2>. QED BY <1>18, <2>1, TruncateWalEffect DEF Folding, Retired, Moved, Wrote, At, FoldSteps
  <1>19. CASE SyncReplayed
    BY <1>19, <1>b, SyncReplayedEffect DEF Took, Moved, Ended, Stopped, At, FoldSteps
  <1>20. CASE RetireWal
    BY <1>20, <1>b, RetireWalEffect DEF Took, Moved, Ended, Stopped, At, FoldSteps
  <1>21. CASE Publish
    BY <1>21, <1>b, PublishEffect DEF Took, Moved, Ended, Stopped, At, FoldSteps
  <1>22. CASE SyncTruncation
    BY <1>22, <1>b, SyncTruncationEffect DEF Took, Moved, Ended, Stopped, At, FoldSteps
  <1>23. CASE Scan
    BY <1>23, <1>b, ScanEffect DEF Took, Moved, Ended, Stopped, At, FoldSteps
  <1>24. CASE ReplayObjects
    BY <1>24, <1>b, ReplayObjectsEffect DEF Took, Moved, Ended, Stopped, At, FoldSteps
  <1>25. CASE ReplayRoot
    <2>1. job.k \in 1 .. Len(wal.cache)
      BY <1>25 DEF ReplayRoot, Busy, Recovering, At
    <2>. QED BY <1>25, <1>b, <2>1, ReplayRootEffect DEF Ended, At, FoldSteps
  <1>26. CASE SyncRetirement
    BY <1>26, <1>b, SyncRetirementEffect DEF Took, Moved, Ended, Stopped, At, FoldSteps
  <1>27. CASE Install
    BY <1>27, <1>b, InstallEffect DEF Took, Moved, Ended, Stopped, At, FoldSteps
  <1>28. CASE IoError
    BY <1>28, <1>b, IoErrorEffect DEF Took, Moved, Ended, Stopped, At, FoldSteps
  <1>29. CASE ProcessCrash
    BY <1>29, <1>b, ProcessCrashEffect DEF Took, Moved, Ended, Stopped, At, FoldSteps
  <1>30. CASE PowerLoss
    BY <1>30, <1>b, PowerLossEffect DEF Took, Moved, Ended, Stopped, At, FoldSteps
  <1>. QED BY Cases, <1>0, <1>1, <1>2, <1>3, <1>4, <1>5, <1>6, <1>7, <1>8, <1>9, <1>10, <1>11, <1>12,
              <1>13, <1>14, <1>15, <1>16, <1>17, <1>18, <1>19, <1>20, <1>21, <1>22, <1>23, <1>24,
              <1>25, <1>26, <1>27, <1>28, <1>29, <1>30

\* How far a recovery has come
LEMMA RecoveringNext ==
  ASSUME IInv, [Next]_vars
  PROVE  Recovering'
  <1>. USE DEF IInv
  <1>a. /\ roots.cache \in Seq(Nat) /\ wal.cache \in Seq(WalRec) /\ wal.disk \in Seq(WalRec)
        /\ Len(wal.cache) \in Nat /\ DOMAIN wal.cache = 1 .. Len(wal.cache)
        /\ job # None => job.k \in Nat \ {0}
    BY FieldTypes
  <1>b. ASSUME ~At(RecoverySteps \ {"scan"})'
        PROVE  Recovering'
    BY <1>b DEF Recovering, At, RecoverySteps
  <1>c. ASSUME txns' = txns, roots'.cache = roots.cache
        PROVE  RootsIn(roots.cache)' = RootsIn(roots.cache)
    BY <1>c DEF RootsIn, RootIn, OfPrincipal
  <1>0. CASE UNCHANGED vars
    <2>1. UNCHANGED <<txns, roots, arena, wal, mem, job, walOn>>
      BY <1>0 DEF vars, files
    <2>2. RootsIn(roots.cache)' = RootsIn(roots.cache)
      BY <1>c, <2>1
    <2>. QED BY <2>1, <2>2 DEF Recovering, Retired, At
  <1>1. ASSUME NEW b \in Blobs, Stage(b)
        PROVE  Recovering'
    BY <1>1, <1>b, StageEffect DEF At
  <1>2. ASSUME NEW c \in Callers, NEW p \in Principals, NEW b \in Blobs \cup {None}, NEW carried \in BOOLEAN,
               Submit(c, p, b, carried)
        PROVE  Recovering'
    <2>1. UNCHANGED <<roots, arena, wal, mem, job, walOn>>
      BY <1>2, SubmitEffect
    <2>2. RootsIn(roots.cache)' = RootsIn(roots.cache)
      <3>1. PICK j \in Seq(Nat) : j = roots.cache
        BY <1>a
      <3>2. Range(j) \subseteq Ids
        BY <3>1, RecordIds
      <3>4. \A q \in Principals : RootIn(j, q)' = RootIn(j, q)
        BY <3>2, RootStable
      <3>. QED BY <2>1, <3>1, <3>4 DEF RootsIn
    <2>. QED BY <2>1, <2>2 DEF Recovering, Retired, At
  <1>3. ASSUME NEW c \in Callers, Drain(c)
        PROVE  Recovering'
    BY <1>3, <1>b, DrainEffect DEF Took, Moved, Ended, Stopped, At, RecoverySteps
  <1>4. ASSUME NEW c \in Callers, Release(c)
        PROVE  Recovering'
    <2>1. UNCHANGED <<txns, roots, arena, wal, mem, job, walOn>>
      BY <1>4, ReleaseEffect
    <2>2. RootsIn(roots.cache)' = RootsIn(roots.cache)
      BY <1>c, <2>1
    <2>. QED BY <2>1, <2>2 DEF Recovering, Retired, At
  <1>5. CASE Flush \/ Open
    BY <1>5, <1>b, HoldEffect DEF Took, Moved, Ended, Stopped, At, RecoverySteps
  <1>6. CASE Prepare
    BY <1>6, <1>b, PrepareEffect DEF Took, Moved, Ended, Stopped, At, RecoverySteps
  <1>7. CASE Persist
    BY <1>7, <1>b, PersistEffect DEF Took, Moved, Ended, Stopped, At, RecoverySteps
  <1>8. CASE AppendObjects
    BY <1>8, <1>b, AppendObjectsEffect DEF Took, Moved, Ended, Stopped, At, RecoverySteps
  <1>9. CASE SyncObjects
    BY <1>9, <1>b, SyncObjectsEffect DEF Took, Moved, Ended, Stopped, At, RecoverySteps
  <1>10. CASE AppendRoots
    BY <1>10, <1>b, AppendRootsEffect DEF Took, Moved, Ended, Stopped, At, RecoverySteps
  <1>11. CASE SyncRoots
    BY <1>11, <1>b, SyncRootsEffect DEF Took, Moved, Ended, Stopped, At, RecoverySteps
  <1>12. CASE AppendWal
    BY <1>12, <1>b, AppendWalEffect DEF Took, Moved, Ended, Stopped, At, RecoverySteps
  <1>13. CASE SyncWal
    BY <1>13, <1>b, SyncWalEffect DEF Took, Moved, Ended, Stopped, At, RecoverySteps
  <1>14. CASE FoldObjects
    BY <1>14, <1>b, FoldObjectsEffect DEF Took, Moved, Ended, Stopped, At, RecoverySteps
  <1>15. CASE FoldRoots
    BY <1>15, <1>b, FoldRootsEffect DEF Took, Moved, Ended, Stopped, At, RecoverySteps
  <1>16. CASE FoldSyncObjects
    BY <1>16, <1>b, FoldSyncObjectsEffect DEF Took, Moved, Ended, Stopped, At, RecoverySteps
  <1>17. CASE FoldSyncRoots
    BY <1>17, <1>b, FoldSyncRootsEffect DEF Took, Moved, Ended, Stopped, At, RecoverySteps
  <1>18. CASE TruncateWal
    BY <1>18, <1>b, TruncateWalEffect DEF Took, Moved, Ended, Stopped, At, RecoverySteps
  <1>19. CASE SyncReplayed
    <2>0. /\ job # None /\ job.step = "replay" /\ job' # None /\ job'.step = "retire"
          /\ arena'.cache = arena.cache /\ arena'.disk = arena.cache
          /\ roots'.cache = roots.cache /\ roots'.disk = roots.cache /\ UNCHANGED <<wal, mem, txns>>
      BY <1>19, SyncReplayedEffect DEF Moved, Flushed
    <2>1. RootsIn(roots.cache)' = RootsIn(roots.cache)
      BY <1>c, <2>0
    <2>2. Logged(wal.disk) \subseteq Range(roots.cache) /\ LoggedObjects(wal.disk) \subseteq arena.cache
      BY <1>19, ReplayRetired DEF SyncReplayed, Busy, At
    <2>. QED BY <2>0, <2>1, <2>2 DEF Recovering, Retired, At, RecoverySteps
  <1>20. CASE RetireWal
    <2>0. /\ job # None /\ job.step = "retire" /\ job' # None /\ job'.step = "retireSync"
          /\ wal'.disk = wal.disk /\ wal'.cache = <<>> /\ UNCHANGED <<arena, roots, mem, txns>>
      BY <1>20, RetireWalEffect DEF Moved, Wrote
    <2>1. RootsIn(roots.cache)' = RootsIn(roots.cache)
      BY <1>c, <2>0
    <2>. QED BY <2>0, <2>1 DEF Recovering, Retired, At, RecoverySteps
  <1>21. CASE Publish
    BY <1>21, <1>b, PublishEffect DEF Took, Moved, Ended, Stopped, At, RecoverySteps
  <1>22. CASE SyncTruncation
    BY <1>22, <1>b, SyncTruncationEffect DEF Took, Moved, Ended, Stopped, At, RecoverySteps
  <1>23. CASE Scan
    <2>0. CASE Ended
      BY <1>b, <2>0 DEF Ended, At
    <2>1. CASE ~Ended
      <3>1. /\ job' # None /\ job'.k = 1 /\ job'.step = (IF walOn THEN "replay" ELSE "validate")
            /\ UNCHANGED <<walOn, arena, roots, wal, txns>>
            /\ mem'.roots = RootsIn(roots.cache) /\ mem'.index = arena.cache
            /\ mem'.staged = {} /\ mem'.objs = {} /\ mem'.log = <<>>
        BY <1>23, <2>1, ScanEffect DEF MemIs
      <3>2. RootsIn(roots.cache)' = RootsIn(roots.cache)
        BY <1>c, <3>1
      <3>3. ~walOn => wal.disk = <<>> /\ wal.cache = <<>>
        BY DEF Files
      <3>4. \A j \in 1 .. Len(wal'.cache) : ~(j < job'.k)
        BY <1>a, <3>1
      <3>. QED BY <3>1, <3>2, <3>3, <3>4 DEF Recovering, At
    <2>. QED BY <2>0, <2>1
  <1>24. CASE ReplayObjects
    <2>0. /\ job # None /\ job.step = "replay" /\ job' # None /\ job'.step = "replayRoot" /\ job'.k = job.k
          /\ job.k \in 1 .. Len(wal.cache) /\ UNCHANGED <<roots, wal, txns>>
      BY <1>24, ReplayObjectsEffect DEF Moved
    <2>1. /\ mem.index = arena.cache /\ mem.staged = {} /\ mem.objs = {} /\ mem.log = <<>>
          /\ mem.roots = RootsIn(roots.cache)
          /\ \A j \in 1 .. Len(wal.cache) :
               j < job.k => wal.cache[j].txn \in Range(roots.cache) /\ wal.cache[j].objs \subseteq arena.cache
      BY <2>0 DEF Recovering, At, RecoverySteps
    <2>2. /\ arena'.disk = arena'.cache
          /\ arena'.cache = arena.cache \cup (wal.cache[job.k].objs \ mem.index)
          /\ mem'.index = mem.index \cup (wal.cache[job.k].objs \ mem.index)
          /\ mem'.roots = mem.roots /\ mem'.staged = mem.staged /\ mem'.objs = mem.objs /\ mem'.log = mem.log
      BY <1>24, ReplayObjectsEffect DEF MemIs
    <2>3. RootsIn(roots.cache)' = RootsIn(roots.cache)
      BY <1>c, <2>0
    <2>4. arena.cache \subseteq arena'.cache /\ wal.cache[job.k].objs \subseteq arena'.cache /\ mem'.index = arena'.cache
      BY <2>1, <2>2
    <2>5. \A j \in 1 .. Len(wal.cache) :
            j < job.k => wal.cache[j].txn \in Range(roots.cache) /\ wal.cache[j].objs \subseteq arena'.cache
      BY <2>1, <2>4
    <2>. QED BY <2>0, <2>1, <2>2, <2>3, <2>4, <2>5 DEF Recovering, At
  <1>25. CASE ReplayRoot
    <2>0. /\ job # None /\ job.step = "replayRoot" /\ job.k \in 1 .. Len(wal.cache)
          /\ mem.index = arena.cache /\ mem.staged = {} /\ mem.objs = {} /\ mem.log = <<>>
          /\ mem.roots = RootsIn(roots.cache) /\ wal.cache[job.k].objs \subseteq arena.cache
          /\ \A j \in 1 .. Len(wal.cache) :
               j < job.k => wal.cache[j].txn \in Range(roots.cache) /\ wal.cache[j].objs \subseteq arena.cache
      BY <1>25 DEF ReplayRoot, Busy, Recovering, At, RecoverySteps
    <2>1. CASE Ended
      BY <1>b, <2>1 DEF Ended, At
    <2>2. CASE ~Ended
      <3>0. PICK pp : pp = OfPrincipal(wal.cache[job.k].txn)
        OBVIOUS
      <3>1. PICK t \in Nat, k \in 1 .. Len(wal.cache) : k = job.k /\ t = wal.cache[k].txn /\ pp = OfPrincipal(t)
        BY <1>25, <2>0, <3>0, ReplayRootEffect
      <3>2. t \in Ids
        BY <1>a, <3>1, RecordIds DEF Logged
      <3>3. pp \in Principals /\ t # NoRoot
        BY <3>1, <3>2, ObjectFacts DEF OfPrincipal, Txn
      <3>4. /\ roots'.cache = IF mem.roots[pp] = t THEN roots.cache ELSE Append(roots.cache, t)
            /\ mem'.roots = [mem.roots EXCEPT ![pp] = t] /\ mem'.index = mem.index
            /\ mem'.staged = mem.staged /\ mem'.objs = mem.objs /\ mem'.log = mem.log
            /\ job' # None /\ job'.step = "replay" /\ job'.k = k + 1
            /\ UNCHANGED <<arena, wal, txns>>
        BY <1>25, <2>0, <2>2, <3>1, ReplayRootEffect DEF MemIs
      <3>5. PICK journal \in Seq(Nat) : journal = roots.cache
        BY <1>a
      <3>6. \A q \in Principals : mem.roots[q] = RootIn(journal, q)
        BY <2>0, <3>5 DEF RootsIn
      <3>7. PICK more \in Seq(Nat) : more = roots'.cache
        <4>1. Append(journal, t) \in Seq(Nat)
          OBVIOUS
        <4>2. roots'.cache \in {journal, Append(journal, t)}
          BY <3>4, <3>5
        <4>. QED BY <4>1, <4>2
      <3>8. \A q \in Principals : RootIn(more, q) = IF q = pp THEN t ELSE RootIn(journal, q)
        <4>1. CASE mem.roots[pp] = t
          BY <3>3, <3>4, <3>5, <3>6, <3>7, <4>1
        <4>2. CASE mem.roots[pp] # t
          <5>1. more = Append(journal, t)
            BY <3>4, <3>5, <3>7, <4>2
          <5>. QED BY <3>1, <5>1, RootAppend
        <4>. QED BY <4>1, <4>2
      <3>9. mem'.roots = [q \in Principals |-> RootIn(more, q)]
        <4>1. mem.roots \in [Principals -> Nat]
          BY FieldTypes
        <4>. QED BY <3>3, <3>4, <3>6, <3>8, <4>1
      <3>10. RootsIn(roots.cache)' = [q \in Principals |-> RootIn(more, q)]
        <4>1. \A q : RootIn(more, q)' = RootIn(more, q)
          BY <3>4 DEF RootIn, OfPrincipal
        <4>. QED BY <3>7, <4>1 DEF RootsIn
      <3>11. t \in Range(more) /\ Range(journal) \subseteq Range(more)
        <4>1. CASE mem.roots[pp] = t
          <5>1. RootIn(journal, pp) \in Range(journal) \cup {NoRoot}
            BY RootInRange
          <5>. QED BY <3>3, <3>4, <3>5, <3>6, <3>7, <4>1, <5>1
        <4>2. CASE mem.roots[pp] # t
          <5>1. more = Append(journal, t)
            BY <3>4, <3>5, <3>7, <4>2
          <5>2. Range(Append(journal, t)) = Range(journal) \cup {t}
            BY RangeAppend
          <5>. QED BY <5>1, <5>2
        <4>. QED BY <4>1, <4>2
      <3>12. \A j \in 1 .. Len(wal.cache) :
               j < k + 1 => wal.cache[j].txn \in Range(more) /\ wal.cache[j].objs \subseteq arena.cache
        <4>1. \A j \in 1 .. Len(wal.cache) : j < k + 1 => j < k \/ j = k
          BY <1>a, <3>1
        <4>. QED BY <2>0, <3>1, <3>5, <3>11, <4>1
      <3>. QED BY <2>0, <3>4, <3>7, <3>9, <3>10, <3>12 DEF Recovering, At
    <2>. QED BY <2>1, <2>2
  <1>26. CASE SyncRetirement
    <2>0. /\ job # None /\ job.step = "retireSync" /\ job' # None /\ job'.step = "validate"
          /\ wal'.disk = <<>> /\ wal'.cache = wal.cache /\ UNCHANGED <<arena, roots, mem, txns>>
      BY <1>26, SyncRetirementEffect DEF Moved
    <2>1. RootsIn(roots.cache)' = RootsIn(roots.cache)
      BY <1>c, <2>0
    <2>. QED BY <2>0, <2>1 DEF Recovering, At, RecoverySteps
  <1>27. CASE Install
    BY <1>27, <1>b, InstallEffect DEF Took, Moved, Ended, Stopped, At, RecoverySteps
  <1>28. CASE IoError
    BY <1>28, <1>b, IoErrorEffect DEF Took, Moved, Ended, Stopped, At, RecoverySteps
  <1>29. CASE ProcessCrash
    BY <1>29, <1>b, ProcessCrashEffect DEF Took, Moved, Ended, Stopped, At, RecoverySteps
  <1>30. CASE PowerLoss
    BY <1>30, <1>b, PowerLossEffect DEF Took, Moved, Ended, Stopped, At, RecoverySteps
  <1>. QED BY Cases, <1>0, <1>1, <1>2, <1>3, <1>4, <1>5, <1>6, <1>7, <1>8, <1>9, <1>10, <1>11, <1>12,
              <1>13, <1>14, <1>15, <1>16, <1>17, <1>18, <1>19, <1>20, <1>21, <1>22, <1>23, <1>24,
              <1>25, <1>26, <1>27, <1>28, <1>29, <1>30

\* What is flushed is never lost: a step, a crash or a power loss included,
\* moves it from the WAL to the canonical files or leaves it where it is.
FlushedKept ==
  /\ arena.disk \subseteq arena'.disk
  /\ Range(roots.disk) \subseteq Range(roots'.disk)
  /\ Logged(wal.disk) \subseteq Range(roots'.disk) \cup Logged(wal'.disk)
  /\ LoggedObjects(wal.disk) \subseteq arena'.disk \cup LoggedObjects(wal'.disk)

\* No step loses what is flushed.
LEMMA FlushedKeptNext ==
  ASSUME IInv, [Next]_vars
  PROVE  FlushedKept
  <1>. USE DEF IInv
  <1>a. /\ roots.cache \in Seq(Nat) /\ roots.disk \in Seq(Nat) /\ mem.log \in Seq(Nat)
        /\ wal.cache \in Seq(WalRec) /\ wal.disk \in Seq(WalRec)
    BY FieldTypes
  <1>b. arena.disk \subseteq arena.cache /\ Range(roots.disk) \subseteq Range(roots.cache)
    BY <1>a, PrefixRange DEF Files
  <1>c. ASSUME arena'.disk = arena.disk, roots'.disk = roots.disk, wal'.disk = wal.disk
        PROVE  FlushedKept
    BY <1>c DEF FlushedKept
  <1>d. ASSUME arena'.disk \in {arena.disk, arena.cache}, roots'.disk \in {roots.disk, roots.cache}, wal'.disk = wal.disk
        PROVE  FlushedKept
    BY <1>b, <1>d DEF FlushedKept
  <1>0. CASE UNCHANGED vars
    BY <1>0, <1>c DEF vars, files
  <1>1. ASSUME NEW b \in Blobs, Stage(b)
        PROVE  FlushedKept
    BY <1>1, <1>c, StageEffect DEF Wrote
  <1>2. ASSUME NEW c \in Callers, NEW p \in Principals, NEW b \in Blobs \cup {None}, NEW carried \in BOOLEAN,
               Submit(c, p, b, carried)
        PROVE  FlushedKept
    BY <1>2, <1>c, SubmitEffect DEF Wrote
  <1>3. ASSUME NEW c \in Callers, Drain(c)
        PROVE  FlushedKept
    BY <1>3, <1>c, DrainEffect DEF Wrote
  <1>4. ASSUME NEW c \in Callers, Release(c)
        PROVE  FlushedKept
    BY <1>4, <1>c, ReleaseEffect DEF Wrote
  <1>5. CASE Flush \/ Open
    BY <1>5, <1>c, HoldEffect DEF Wrote
  <1>6. CASE Prepare
    BY <1>6, <1>c, PrepareEffect DEF Wrote
  <1>7. CASE Persist
    BY <1>7, <1>c, PersistEffect DEF Wrote
  <1>8. CASE AppendObjects
    BY <1>8, <1>c, AppendObjectsEffect DEF Wrote
  <1>9. CASE SyncObjects
    BY <1>9, <1>d, SyncObjectsEffect DEF Flushed
  <1>10. CASE AppendRoots
    BY <1>10, <1>c, AppendRootsEffect DEF Wrote
  <1>11. CASE SyncRoots
    BY <1>11, <1>d, SyncRootsEffect DEF Flushed
  <1>12. CASE AppendWal
    BY <1>12, <1>c, AppendWalEffect DEF Wrote
  <1>13. CASE SyncWal
    <2>1. Prefix(wal.disk, wal.cache)
      BY <1>13 DEF SyncWal, Busy, Overlay, At, Control, RecoverySteps
    <2>2. Logged(wal.disk) \subseteq Logged(wal.cache) /\ LoggedObjects(wal.disk) \subseteq LoggedObjects(wal.cache)
      BY <1>a, <2>1, PrefixLog
    <2>. QED BY <1>13, <2>2, SyncWalEffect DEF Flushed, FlushedKept
  <1>14. CASE FoldObjects
    BY <1>14, <1>c, FoldObjectsEffect DEF Wrote
  <1>15. CASE FoldRoots
    BY <1>15, <1>c, FoldRootsEffect DEF Wrote
  <1>16. CASE FoldSyncObjects
    BY <1>16, <1>d, FoldSyncObjectsEffect DEF Flushed
  <1>17. CASE FoldSyncRoots
    BY <1>17, <1>d, FoldSyncRootsEffect DEF Flushed
  <1>18. CASE TruncateWal
    BY <1>18, <1>c, TruncateWalEffect DEF Wrote
  <1>19. CASE SyncReplayed
    BY <1>19, <1>d, SyncReplayedEffect DEF Flushed
  <1>20. CASE RetireWal
    BY <1>20, <1>c, RetireWalEffect DEF Wrote
  <1>21. CASE Publish
    BY <1>21, <1>c, PublishEffect DEF Wrote
  <1>22. CASE SyncTruncation
    <2>1. Retired
      BY <1>22 DEF SyncTruncation, Busy, At, Folding
    <2>. QED BY <1>22, <2>1, SyncTruncationEffect DEF Retired, FlushedKept
  <1>23. CASE Scan
    BY <1>23, <1>c, ScanEffect DEF Wrote
  <1>24. CASE ReplayObjects
    BY <1>24, <1>b, ReplayObjectsEffect DEF FlushedKept
  <1>25. CASE ReplayRoot
    <2>1. job.k \in 1 .. Len(wal.cache)
      BY <1>25 DEF ReplayRoot, Busy, Recovering, At
    <2>. QED BY <1>25, <1>c, <2>1, ReplayRootEffect
  <1>26. CASE SyncRetirement
    <2>1. Retired
      BY <1>26 DEF SyncRetirement, Busy, At, Recovering
    <2>. QED BY <1>26, <2>1, SyncRetirementEffect DEF Retired, FlushedKept
  <1>27. CASE Install
    BY <1>27, <1>d, InstallEffect DEF Flushed
  <1>28. CASE IoError
    BY <1>28, <1>c, IoErrorEffect DEF Wrote
  <1>29. CASE ProcessCrash
    BY <1>29, <1>c, ProcessCrashEffect DEF Wrote
  <1>30. CASE PowerLoss
    <2>1. arena.disk \subseteq arena'.disk
      BY <1>30, PowerLossEffect
    <2>2. Range(roots.disk) \subseteq Range(roots'.disk)
      <3>1. CASE Left(roots, roots'.cache)
        <4>1. roots'.cache \in Seq(Nat) /\ Prefix(roots.disk, roots'.cache)
          BY <3>1, LeftPrefix DEF Types, Files
        <4>2. PICK j \in Seq(Nat) : j = roots'.cache
          BY <4>1
        <4>3. Range(roots.disk) \subseteq Range(j)
          BY <1>a, <4>1, <4>2, PrefixRange
        <4>. QED BY <1>30, <4>2, <4>3, PowerLossEffect
      <3>2. CASE roots'.cache = roots.disk
        BY <1>30, <3>2, PowerLossEffect
      <3>. QED BY <1>30, <3>1, <3>2, PowerLossEffect
    <2>3. /\ Logged(wal.disk) \subseteq Range(roots'.disk) \cup Logged(wal'.disk)
          /\ LoggedObjects(wal.disk) \subseteq arena'.disk \cup LoggedObjects(wal'.disk)
      <3>1. CASE Left(wal, wal'.cache) /\ Prefix(wal.disk, wal.cache)
        <4>1. wal'.cache \in Seq(WalRec) /\ Prefix(wal.disk, wal'.cache)
          BY <3>1, LeftPrefix DEF Types
        <4>2. PICK j \in Seq(WalRec) : j = wal'.cache
          BY <4>1
        <4>3. Logged(wal.disk) \subseteq Logged(j) /\ LoggedObjects(wal.disk) \subseteq LoggedObjects(j)
          BY <1>a, <4>1, <4>2, PrefixLog
        <4>. QED BY <1>30, <4>2, <4>3, PowerLossEffect
      <3>2. CASE wal'.cache = wal.disk
        BY <1>30, <3>2, PowerLossEffect
      <3>3. CASE Retired
        BY <2>1, <2>2, <3>3 DEF Retired
      <3>. QED BY <1>30, <3>1, <3>2, <3>3, PowerLossEffect DEF Files
    <2>. QED BY <2>1, <2>2, <2>3 DEF FlushedKept
  <1>. QED BY Cases, <1>0, <1>1, <1>2, <1>3, <1>4, <1>5, <1>6, <1>7, <1>8, <1>9, <1>10, <1>11, <1>12,
              <1>13, <1>14, <1>15, <1>16, <1>17, <1>18, <1>19, <1>20, <1>21, <1>22, <1>23, <1>24,
              <1>25, <1>26, <1>27, <1>28, <1>29, <1>30

\* What a published batch leaves is durable.
LEMMA PublishDurable ==
  ASSUME IInv, At({"publish"}), NEW t \in Range(job.accepted)
  PROVE  /\ t \in Range(roots.disk) \cup Logged(wal.disk)
         /\ Closure(t) \subseteq arena.disk \cup LoggedObjects(wal.disk)
  <1>. USE DEF IInv
  <1>1. job # None /\ job.step = "publish" /\ life = "usable" /\ At(Steps \ RecoverySteps)
    BY DEF At, Control, Steps, RecoverySteps
  <1>2. Closure(t) \subseteq mem.index \cup mem.objs \cup job.objs
    <2>1. PICK i \in 1 .. Len(job.accepted) : t = job.accepted[i]
      <3>1. DOMAIN job.accepted = 1 .. Len(job.accepted)
        BY <1>1, FieldTypes
      <3>. QED BY <3>1 DEF Range
    <2>. QED BY <1>1, <2>1 DEF Prepared, Known
  <1>3. CASE walOn
    <2>1. /\ Range(job.accepted) \subseteq Logged(wal.disk)
          /\ job.objs \cup (mem.staged \ mem.objs) \subseteq LoggedObjects(wal.disk)
      BY <1>1, <1>3 DEF Persisting, At
    <2>2. /\ mem.objs \subseteq arena.disk \cup LoggedObjects(wal.disk)
          /\ mem.index \ mem.staged \subseteq arena.disk \cup LoggedObjects(wal.disk)
      BY <1>1, <1>3 DEF Overlay
    <2>. QED BY <1>2, <2>1, <2>2
  <1>4. CASE ~walOn
    <2>1. Range(job.accepted) \subseteq Range(roots.disk) /\ mem.index \cup job.objs \subseteq arena.disk /\ mem.objs = {}
      BY <1>1, <1>4 DEF Persisting, At, Files
    <2>. QED BY <1>2, <2>1
  <1>. QED BY <1>3, <1>4

\* A commit that returned Ok survives every power loss.
LEMMA AckedDurableNext ==
  ASSUME IInv, [Next]_vars
  PROVE  AckedDurable'
  <1>. USE DEF IInv
  <1>1. ASSUME NEW t \in acked'
        PROVE  /\ t \in Ids
               /\ t \in Range(roots.disk) \cup Logged(wal.disk)
               /\ Closure(t) \subseteq arena.disk \cup LoggedObjects(wal.disk)
    <2>1. CASE t \in acked
      BY <2>1 DEF AckedDurable, Submitted
    <2>2. CASE t \notin acked
      <3>1. Publish
        BY <1>1, <2>2, FrameNext
      <3>2. At({"publish"}) /\ t \in Range(job.accepted)
        BY <1>1, <2>2, <3>1, PublishEffect DEF At
      <3>3. t \in Ids
        BY <3>2, AcceptedFacts DEF At
      <3>. QED BY <3>2, <3>3, PublishDurable
    <2>. QED BY <2>1, <2>2
  <1>2. ASSUME NEW t \in acked'
        PROVE  Closure(t)' = Closure(t)
    BY <1>1, TxnStable
  <1>3. FlushedKept
    BY FlushedKeptNext
  <1>. QED BY <1>1, <1>2, <1>3 DEF FlushedKept, AckedDurable

-----------------------------------------------------------------------------
(* Dangling roots *)

\* The records of a prefix of a log
LEMMA UpToPrefix ==
  ASSUME NEW s \in Seq(WalRec), NEW t \in Seq(WalRec), Prefix(s, t), NEW n \in 1 .. Len(s)
  PROVE  n \in 1 .. Len(t) /\ s[n] = t[n] /\ LoggedUpTo(s, n) = LoggedUpTo(t, n)
  <1>1. n \in 1 .. Len(t) /\ \A i \in 1 .. n : s[i] = t[i]
    BY DEF Prefix
  <1>. QED BY <1>1 DEF LoggedUpTo

\* The WAL with some of the batch's records keeps every root with its objects.
LEMMA WalRooted ==
  ASSUME IInv, At({"wal"}), NEW s \in Seq(WalRec), Prefix(s, WalRecords),
         NEW n \in 1 .. Len(wal.cache \o s)
  PROVE  Closure((wal.cache \o s)[n].txn) \subseteq arena.disk \cup LoggedUpTo(wal.cache \o s, n)
  <1>. USE DEF IInv
  <1>0. job # None /\ life = "usable" /\ walOn /\ At(Steps \ RecoverySteps) /\ job.step = "wal"
    BY DEF At, Control, WalSteps, Steps, RecoverySteps
  <1>1. PICK c \in Seq(WalRec) : c = wal.cache
    BY FieldTypes
  <1>2. PICK m \in Nat : m = Len(c)
    OBVIOUS
  <1>3. PICK all \in Seq(WalRec) : all = c \o s
    <2>1. c \o s \in Seq(WalRec)
      BY RangeOps
    <2>. QED BY <2>1
  <1>4. /\ Len(all) = m + Len(s) /\ Len(s) \in Nat
        /\ \A i \in 1 .. m : all[i] = c[i]
        /\ \A i \in 1 .. Len(s) : all[m + i] = s[i]
    BY <1>2, <1>3
  <1>5. n \in 1 .. m + Len(s)
    BY <1>1, <1>3, <1>4
  <1>6. CASE n <= m
    <2>1. n \in 1 .. Len(c) /\ Prefix(c, all)
      BY <1>2, <1>4, <1>5, <1>6 DEF Prefix
    <2>2. c[n] = all[n] /\ LoggedUpTo(c, n) = LoggedUpTo(all, n)
      BY <2>1, UpToPrefix
    <2>3. Closure(c[n].txn) \subseteq arena.disk \cup LoggedUpTo(c, n)
      BY <1>1, <2>1 DEF Rooted
    <2>. QED BY <1>1, <1>3, <2>2, <2>3
  <1>7. CASE n > m
    <2>1. PICK i \in 1 .. Len(s) : n = m + i
      <3>1. n - m \in 1 .. Len(s) /\ n = m + (n - m)
        BY <1>4, <1>5, <1>7
      <3>. QED BY <3>1
    <2>2. i \in 1 .. Len(job.accepted) /\ \A j \in 1 .. i : j \in 1 .. Len(job.accepted) /\ s[j] = WalRecords[j]
      <3>1. WalRecords \in Seq(WalRec) /\ Len(WalRecords) = Len(job.accepted)
        BY <1>0, WalRecordsFacts
      <3>. QED BY <3>1 DEF Prefix
    <2>3. \A j \in 1 .. Len(job.accepted) : WalRecords[j].txn = job.accepted[j] /\ WalRecords[j].objs = WalObjects(j)
      <3>1. ASSUME NEW j \in 1 .. Len(job.accepted)
            PROVE  WalRecords[j].txn = job.accepted[j] /\ WalRecords[j].objs = WalObjects(j)
        <4>1. WalRecords[j] = [txn |-> job.accepted[j], objs |-> WalObjects(j)]
          BY <1>0, WalRecordsFacts
        <4>. QED BY <4>1
      <3>. QED BY <3>1
    <2>4. all[n].txn = job.accepted[i] /\ all[n].objs = WalObjects(i) /\ n \in 1 .. n
      <3>1. i \in 1 .. i /\ n \in 1 .. n
        BY <1>4, <1>5, <2>1
      <3>2. all[n] = WalRecords[i]
        BY <1>4, <2>1, <2>2, <3>1
      <3>. QED BY <2>2, <2>3, <3>1, <3>2
    <2>5. WalObjects(i) \subseteq LoggedUpTo(all, n)
      BY <2>4 DEF LoggedUpTo
    <2>6. mem.staged \ mem.objs \subseteq LoggedUpTo(all, n)
      <3>1. 1 \in 1 .. i /\ 1 \in 1 .. Len(s) /\ m + 1 \in 1 .. n
        BY <2>1, <1>4
      <3>2. all[m + 1].objs = WalObjects(1)
        BY <1>4, <2>2, <2>3, <3>1
      <3>3. WalObjects(1) \subseteq LoggedUpTo(all, n)
        BY <3>1, <3>2 DEF LoggedUpTo
      <3>. QED BY <3>3 DEF WalObjects
    <2>7. LoggedObjects(wal.disk) \subseteq LoggedUpTo(all, n)
      <3>1. Prefix(wal.disk, wal.cache)
        BY <1>0 DEF Overlay, At
      <3>2. LoggedObjects(wal.disk) \subseteq LoggedObjects(c)
        BY <1>1, <3>1, FieldTypes, PrefixLog
      <3>3. \A j \in DOMAIN c : j \in 1 .. n /\ all[j] = c[j]
        BY <1>2, <1>4, <1>7
      <3>4. LoggedObjects(c) \subseteq LoggedUpTo(all, n)
        BY <3>3 DEF LoggedObjects, LoggedUpTo
      <3>. QED BY <3>2, <3>4
    <2>8. Closure(job.accepted[i]) \subseteq mem.index \cup mem.objs \cup (Incoming(job.accepted[i]) \cap job.objs)
      BY <1>0, <2>2 DEF Prepared, Known
    <2>9. Incoming(job.accepted[i]) \cap job.objs \subseteq WalObjects(i)
      BY DEF WalObjects
    <2>10. /\ mem.objs \subseteq arena.disk \cup LoggedObjects(wal.disk)
           /\ mem.index \ mem.staged \subseteq arena.disk \cup LoggedObjects(wal.disk)
      BY <1>0 DEF Overlay
    <2>11. Closure(all[n].txn) \subseteq arena.disk \cup LoggedUpTo(all, n)
      BY <2>4, <2>5, <2>6, <2>7, <2>8, <2>9, <2>10
    <2>. QED BY <1>1, <1>3, <2>11
  <1>. QED BY <1>2, <1>5, <1>6, <1>7

\* The root journal names no transaction whose objects could be lost.
LEMMA JournalRooted ==
  ASSUME IInv, [Next]_vars, NEW t \in Range(roots'.cache)
  PROVE  t \in Ids /\ Closure(t) \subseteq arena'.disk \cup LoggedObjects(wal'.disk)
  <1>. USE DEF IInv
  <1>a. /\ roots.cache \in Seq(Nat) /\ roots.disk \in Seq(Nat) /\ mem.log \in Seq(Nat)
        /\ job # None => job \in Job /\ job.accepted \in Seq(Nat)
    BY FieldTypes
  <1>b. FlushedKept
    BY FlushedKeptNext
  <1>c. ASSUME t \in Ids, Closure(t) \subseteq arena.disk \cup LoggedObjects(wal.disk)
        PROVE  t \in Ids /\ Closure(t) \subseteq arena'.disk \cup LoggedObjects(wal'.disk)
    BY <1>b, <1>c DEF FlushedKept
  <1>d. ASSUME t \in Range(roots.cache) PROVE t \in Ids /\ Closure(t) \subseteq arena.disk \cup LoggedObjects(wal.disk)
    BY <1>d, RecordIds DEF Rooted
  <1>e. ASSUME t \in Range(mem.log), life = "usable"
        PROVE  t \in Ids /\ Closure(t) \subseteq arena.disk \cup LoggedObjects(wal.disk)
    BY <1>e, RecordIds DEF Rooted, AckedDurable
  <1>f. ASSUME job # None, job.step = "roots", t \in Range(job.accepted)
        PROVE  t \in Ids /\ Closure(t) \subseteq arena.disk \cup LoggedObjects(wal.disk)
    <2>1. t \in Ids
      BY <1>f, AcceptedFacts
    <2>2. PICK i \in 1 .. Len(job.accepted) : t = job.accepted[i]
      <3>1. DOMAIN job.accepted = 1 .. Len(job.accepted)
        BY <1>a, <1>f
      <3>. QED BY <1>f, <3>1 DEF Range
    <2>3. mem.index \cup job.objs \subseteq arena.disk /\ mem.objs = {}
      BY <1>f DEF Persisting, At, Control, LegacySteps, Files
    <2>4. Closure(t) \subseteq Known \cup job.objs
      BY <1>f, <2>2 DEF Prepared, At, Steps, LegacySteps, RecoverySteps
    <2>. QED BY <2>1, <2>3, <2>4 DEF Known
  <1>g. ASSUME roots'.cache = roots.cache
        PROVE  t \in Ids /\ Closure(t) \subseteq arena'.disk \cup LoggedObjects(wal'.disk)
    BY <1>c, <1>d, <1>g
  <1>0. CASE UNCHANGED vars
    BY <1>0, <1>g DEF vars, files
  <1>1. ASSUME NEW b \in Blobs, Stage(b)
        PROVE  t \in Ids /\ Closure(t) \subseteq arena'.disk \cup LoggedObjects(wal'.disk)
    BY <1>1, <1>g, StageEffect DEF Flushed
  <1>2. ASSUME NEW c \in Callers, NEW p \in Principals, NEW b \in Blobs \cup {None}, NEW carried \in BOOLEAN,
               Submit(c, p, b, carried)
        PROVE  t \in Ids /\ Closure(t) \subseteq arena'.disk \cup LoggedObjects(wal'.disk)
    BY <1>2, <1>g, SubmitEffect DEF Flushed
  <1>3. ASSUME NEW c \in Callers, Drain(c)
        PROVE  t \in Ids /\ Closure(t) \subseteq arena'.disk \cup LoggedObjects(wal'.disk)
    BY <1>3, <1>g, DrainEffect DEF Flushed
  <1>4. ASSUME NEW c \in Callers, Release(c)
        PROVE  t \in Ids /\ Closure(t) \subseteq arena'.disk \cup LoggedObjects(wal'.disk)
    BY <1>4, <1>g, ReleaseEffect DEF Flushed
  <1>5. CASE Flush \/ Open
    BY <1>5, <1>g, HoldEffect DEF Flushed
  <1>6. CASE Prepare
    BY <1>6, <1>g, PrepareEffect DEF Flushed
  <1>7. CASE Persist
    BY <1>7, <1>g, PersistEffect DEF Flushed
  <1>8. CASE AppendObjects
    BY <1>8, <1>g, AppendObjectsEffect DEF Flushed
  <1>9. CASE SyncObjects
    BY <1>9, <1>g, SyncObjectsEffect DEF Flushed
  <1>10. CASE AppendRoots
    <2>0. job # None /\ job.step = "roots"
      BY <1>10 DEF AppendRoots, Busy
    <2>1. Range(roots.cache \o job.accepted) = Range(roots.cache) \cup Range(job.accepted)
      BY <1>a, <2>0, RangeOps
    <2>2. t \in Range(roots.cache) \cup Range(job.accepted)
      BY <1>10, <2>1, AppendRootsEffect DEF Wrote
    <2>. QED BY <1>c, <1>d, <1>f, <2>0, <2>2
  <1>11. CASE SyncRoots
    BY <1>11, <1>g, SyncRootsEffect DEF Flushed
  <1>12. CASE AppendWal
    BY <1>12, <1>g, AppendWalEffect DEF Flushed
  <1>13. CASE SyncWal
    BY <1>13, <1>g, SyncWalEffect DEF Flushed
  <1>14. CASE FoldObjects
    BY <1>14, <1>g, FoldObjectsEffect DEF Flushed
  <1>15. CASE FoldRoots
    <2>0. life = "usable"
      BY <1>15 DEF FoldRoots, Busy, Control, RecoverySteps
    <2>1. Range(roots.cache \o mem.log) = Range(roots.cache) \cup Range(mem.log)
      BY <1>a, RangeOps
    <2>2. t \in Range(roots.cache) \cup Range(mem.log)
      BY <1>15, <2>1, FoldRootsEffect DEF Wrote
    <2>. QED BY <1>c, <1>d, <1>e, <2>0, <2>2
  <1>16. CASE FoldSyncObjects
    BY <1>16, <1>g, FoldSyncObjectsEffect DEF Flushed
  <1>17. CASE FoldSyncRoots
    BY <1>17, <1>g, FoldSyncRootsEffect DEF Flushed
  <1>18. CASE TruncateWal
    BY <1>18, <1>g, TruncateWalEffect DEF Flushed
  <1>19. CASE SyncReplayed
    BY <1>19, <1>g, SyncReplayedEffect DEF Flushed
  <1>20. CASE RetireWal
    BY <1>20, <1>g, RetireWalEffect DEF Flushed
  <1>21. CASE Publish
    BY <1>21, <1>g, PublishEffect DEF Flushed
  <1>22. CASE SyncTruncation
    BY <1>22, <1>g, SyncTruncationEffect DEF Flushed
  <1>23. CASE Scan
    BY <1>23, <1>g, ScanEffect DEF Flushed
  <1>24. CASE ReplayObjects
    BY <1>24, <1>g, ReplayObjectsEffect DEF Flushed
  <1>25. CASE ReplayRoot
    <2>1. job.k \in 1 .. Len(wal.cache) /\ mem.index = arena.cache /\ arena.disk = arena.cache
      BY <1>25 DEF ReplayRoot, Busy, Recovering, At, RecoverySteps
    <2>2. PICK u \in Nat : u = wal.cache[job.k].txn
      BY <1>25, <2>1, ReplayRootEffect
    <2>3. u \in Ids
      <3>1. job.k \in DOMAIN wal.cache
        BY <2>1, FieldTypes
      <3>. QED BY <2>2, <3>1, RecordIds DEF Logged
    <2>4. CASE roots'.cache = roots.cache
      BY <1>g, <2>4
    <2>5. CASE roots'.cache # roots.cache
      <3>1. roots'.cache = Append(roots.cache, u) /\ Closure(u) \subseteq mem.index
        BY <1>25, <2>1, <2>2, <2>5, ReplayRootEffect
      <3>2. Range(Append(roots.cache, u)) = Range(roots.cache) \cup {u}
        <4>1. PICK j \in Seq(Nat) : j = roots.cache
          BY <1>a
        <4>2. Range(Append(j, u)) = Range(j) \cup {u}
          BY RangeAppend
        <4>. QED BY <4>1, <4>2
      <3>3. CASE t = u
        BY <1>c, <2>1, <2>3, <3>1, <3>3
      <3>. QED BY <1>c, <1>d, <3>1, <3>2, <3>3
    <2>. QED BY <2>4, <2>5
  <1>26. CASE SyncRetirement
    BY <1>26, <1>g, SyncRetirementEffect DEF Flushed
  <1>27. CASE Install
    BY <1>27, <1>g, InstallEffect DEF Flushed
  <1>28. CASE IoError
    <2>0. job # None
      BY <1>28, IoErrorEffect
    <2>1. PICK s \in Seq(Nat) :
            /\ Wrote(roots, roots', roots.cache \o s)
            /\ \/ s = <<>>
               \/ job.step = "roots" /\ Cut(s, job.accepted)
               \/ job.step = "foldRoots" /\ Cut(s, mem.log)
      BY <1>28, IoErrorEffect
    <2>2. Range(roots.cache \o s) = Range(roots.cache) \cup Range(s)
      BY <1>a, RangeOps
    <2>3. t \in Range(roots.cache) \cup Range(s)
      BY <2>1, <2>2 DEF Wrote
    <2>4. CASE t \in Range(roots.cache)
      BY <1>c, <1>d, <2>4
    <2>5. CASE t \in Range(s)
      <3>1. CASE s = <<>>
        BY <2>5, <3>1, EmptyOps
      <3>2. CASE job.step = "roots" /\ Cut(s, job.accepted)
        <4>1. Range(s) \subseteq Range(job.accepted)
          BY <1>a, <2>0, <3>2, CutPrefix, PrefixRange
        <4>. QED BY <1>c, <1>f, <2>0, <2>5, <3>2, <4>1
      <3>3. CASE job.step = "foldRoots" /\ Cut(s, mem.log)
        <4>1. Range(s) \subseteq Range(mem.log)
          BY <1>a, <3>3, CutPrefix, PrefixRange
        <4>2. life = "usable"
          BY <2>0, <3>3 DEF Control, RecoverySteps
        <4>. QED BY <1>c, <1>e, <2>5, <4>1, <4>2
      <3>. QED BY <2>1, <3>1, <3>2, <3>3
    <2>. QED BY <2>3, <2>4, <2>5
  <1>29. CASE ProcessCrash
    BY <1>29, <1>g, ProcessCrashEffect DEF Flushed
  <1>30. CASE PowerLoss
    <2>1. t \in Range(roots.cache)
      <3>1. CASE Left(roots, roots'.cache)
        <4>1. PICK j \in Seq(Nat) : j = roots'.cache /\ Prefix(j, roots.cache)
          BY <3>1, LeftPrefix DEF Types
        <4>2. Range(j) \subseteq Range(roots.cache)
          BY <1>a, <4>1, PrefixRange
        <4>. QED BY <4>1, <4>2
      <3>2. CASE roots'.cache = roots.disk
        BY <1>a, <3>2, PrefixRange DEF Files
      <3>. QED BY <1>30, <3>1, <3>2, PowerLossEffect
    <2>. QED BY <1>c, <1>d, <2>1
  <1>. QED BY Cases, <1>0, <1>1, <1>2, <1>3, <1>4, <1>5, <1>6, <1>7, <1>8, <1>9, <1>10, <1>11, <1>12,
              <1>13, <1>14, <1>15, <1>16, <1>17, <1>18, <1>19, <1>20, <1>21, <1>22, <1>23, <1>24,
              <1>25, <1>26, <1>27, <1>28, <1>29, <1>30

\* The WAL names no transaction whose objects could be lost.
LEMMA WalRootedNext ==
  ASSUME IInv, [Next]_vars, NEW n \in 1 .. Len(wal'.cache)
  PROVE  Closure(wal'.cache[n].txn) \subseteq arena'.disk \cup LoggedUpTo(wal'.cache, n)
  <1>. USE DEF IInv
  <1>a. wal.cache \in Seq(WalRec) /\ wal.disk \in Seq(WalRec) /\ roots.disk \in Seq(Nat) /\ roots.cache \in Seq(Nat)
    BY FieldTypes
  <1>b. arena.disk \subseteq arena'.disk
    BY FlushedKeptNext DEF FlushedKept
  <1>c. \A m \in 1 .. Len(wal.cache) : Closure(wal.cache[m].txn) \subseteq arena.disk \cup LoggedUpTo(wal.cache, m)
    BY DEF Rooted
  <1>d. ASSUME NEW s \in Seq(WalRec), Prefix(s, wal.cache), wal'.cache = s
        PROVE  Closure(wal'.cache[n].txn) \subseteq arena'.disk \cup LoggedUpTo(wal'.cache, n)
    <2>1. n \in 1 .. Len(s)
      BY <1>d
    <2>2. n \in 1 .. Len(wal.cache) /\ s[n] = wal.cache[n] /\ LoggedUpTo(s, n) = LoggedUpTo(wal.cache, n)
      BY <1>a, <1>d, <2>1, UpToPrefix
    <2>. QED BY <1>b, <1>c, <1>d, <2>2
  <1>e. ASSUME wal'.cache = wal.cache
        PROVE  Closure(wal'.cache[n].txn) \subseteq arena'.disk \cup LoggedUpTo(wal'.cache, n)
    BY <1>b, <1>c, <1>e
  <1>f. ASSUME wal'.cache = <<>>
        PROVE  Closure(wal'.cache[n].txn) \subseteq arena'.disk \cup LoggedUpTo(wal'.cache, n)
    <2>1. Len(wal'.cache) = 0
      BY <1>f
    <2>2. FALSE
      BY <2>1
    <2>. QED BY <2>2
  <1>g. ASSUME At({"wal"}), NEW s \in Seq(WalRec), Prefix(s, WalRecords), wal'.cache = wal.cache \o s
        PROVE  Closure(wal'.cache[n].txn) \subseteq arena'.disk \cup LoggedUpTo(wal'.cache, n)
    <2>1. n \in 1 .. Len(wal.cache \o s)
      BY <1>g
    <2>2. Closure((wal.cache \o s)[n].txn) \subseteq arena.disk \cup LoggedUpTo(wal.cache \o s, n)
      BY <1>g, <2>1, WalRooted
    <2>. QED BY <1>b, <1>g, <2>2
  <1>0. CASE UNCHANGED vars
    BY <1>0, <1>e DEF vars, files
  <1>1. ASSUME NEW b \in Blobs, Stage(b)
        PROVE  Closure(wal'.cache[n].txn) \subseteq arena'.disk \cup LoggedUpTo(wal'.cache, n)
    BY <1>1, <1>e, StageEffect DEF Flushed
  <1>2. ASSUME NEW c \in Callers, NEW p \in Principals, NEW b \in Blobs \cup {None}, NEW carried \in BOOLEAN,
               Submit(c, p, b, carried)
        PROVE  Closure(wal'.cache[n].txn) \subseteq arena'.disk \cup LoggedUpTo(wal'.cache, n)
    BY <1>2, <1>e, SubmitEffect DEF Flushed
  <1>3. ASSUME NEW c \in Callers, Drain(c)
        PROVE  Closure(wal'.cache[n].txn) \subseteq arena'.disk \cup LoggedUpTo(wal'.cache, n)
    BY <1>3, <1>e, DrainEffect DEF Flushed
  <1>4. ASSUME NEW c \in Callers, Release(c)
        PROVE  Closure(wal'.cache[n].txn) \subseteq arena'.disk \cup LoggedUpTo(wal'.cache, n)
    BY <1>4, <1>e, ReleaseEffect DEF Flushed
  <1>5. CASE Flush \/ Open
    BY <1>5, <1>e, HoldEffect DEF Flushed
  <1>6. CASE Prepare
    BY <1>6, <1>e, PrepareEffect DEF Flushed
  <1>7. CASE Persist
    BY <1>7, <1>e, PersistEffect DEF Flushed
  <1>8. CASE AppendObjects
    BY <1>8, <1>e, AppendObjectsEffect DEF Flushed
  <1>9. CASE SyncObjects
    BY <1>9, <1>e, SyncObjectsEffect DEF Flushed
  <1>10. CASE AppendRoots
    BY <1>10, <1>e, AppendRootsEffect DEF Flushed
  <1>11. CASE SyncRoots
    BY <1>11, <1>e, SyncRootsEffect DEF Flushed
  <1>12. CASE AppendWal
    <2>1. At({"wal"}) /\ job # None
      BY <1>12 DEF AppendWal, Busy, At
    <2>2. WalRecords \in Seq(WalRec)
      BY <2>1, WalRecordsFacts
    <2>3. Prefix(WalRecords, WalRecords)
      BY <2>2, PrefixSelf
    <2>. QED BY <1>12, <1>g, <2>1, <2>2, <2>3, AppendWalEffect DEF Wrote
  <1>13. CASE SyncWal
    BY <1>13, <1>e, SyncWalEffect DEF Flushed
  <1>14. CASE FoldObjects
    BY <1>14, <1>e, FoldObjectsEffect DEF Flushed
  <1>15. CASE FoldRoots
    BY <1>15, <1>e, FoldRootsEffect DEF Flushed
  <1>16. CASE FoldSyncObjects
    BY <1>16, <1>e, FoldSyncObjectsEffect DEF Flushed
  <1>17. CASE FoldSyncRoots
    BY <1>17, <1>e, FoldSyncRootsEffect DEF Flushed
  <1>18. CASE TruncateWal
    BY <1>18, <1>f, TruncateWalEffect DEF Wrote
  <1>19. CASE SyncReplayed
    BY <1>19, <1>e, SyncReplayedEffect DEF Flushed
  <1>20. CASE RetireWal
    BY <1>20, <1>f, RetireWalEffect DEF Wrote
  <1>21. CASE Publish
    BY <1>21, <1>e, PublishEffect DEF Flushed
  <1>22. CASE SyncTruncation
    BY <1>22, <1>e, SyncTruncationEffect DEF Flushed
  <1>23. CASE Scan
    BY <1>23, <1>e, ScanEffect DEF Flushed
  <1>24. CASE ReplayObjects
    BY <1>24, <1>e, ReplayObjectsEffect DEF Flushed
  <1>25. CASE ReplayRoot
    <2>1. job.k \in 1 .. Len(wal.cache)
      BY <1>25 DEF ReplayRoot, Busy, Recovering, At
    <2>. QED BY <1>25, <1>e, <2>1, ReplayRootEffect
  <1>26. CASE SyncRetirement
    BY <1>26, <1>e, SyncRetirementEffect DEF Flushed
  <1>27. CASE Install
    BY <1>27, <1>e, InstallEffect DEF Flushed
  <1>28. CASE IoError
    <2>0. job # None
      BY <1>28, IoErrorEffect
    <2>1. PICK s \in Seq(WalRec) : /\ wal'.cache = wal.cache \o s
                                   /\ s = <<>> \/ (job.step = "wal" /\ Cut(s, WalRecords))
      BY <1>28, IoErrorEffect DEF Wrote
    <2>2. CASE s = <<>>
      <3>1. wal'.cache = wal.cache
        BY <1>a, <2>1, <2>2
      <3>. QED BY <1>e, <3>1
    <2>3. CASE job.step = "wal" /\ Cut(s, WalRecords)
      <3>1. At({"wal"}) /\ WalRecords \in Seq(WalRec)
        BY <2>0, <2>3, WalRecordsFacts DEF At
      <3>2. Prefix(s, WalRecords)
        BY <2>3, <3>1, CutPrefix
      <3>. QED BY <1>g, <2>1, <3>1, <3>2
    <2>. QED BY <2>1, <2>2, <2>3
  <1>29. CASE ProcessCrash
    <2>1. PICK s \in Seq(WalRec) : s = wal'.cache /\ Prefix(s, wal.cache)
      BY <1>29, ProcessCrashEffect, LeftPrefix DEF Types
    <2>. QED BY <1>d, <2>1
  <1>30. CASE PowerLoss
    <2>1. CASE Left(wal, wal'.cache)
      <3>1. PICK s \in Seq(WalRec) : s = wal'.cache /\ Prefix(s, wal.cache)
        BY <2>1, LeftPrefix DEF Types
      <3>. QED BY <1>d, <3>1
    <2>2. CASE wal'.cache = wal.disk /\ Prefix(wal.disk, wal.cache)
      BY <1>a, <1>d, <2>2
    <2>3. CASE wal'.cache = wal.disk /\ Retired
      <3>0. n \in 1 .. Len(wal.disk) /\ DOMAIN wal.disk = 1 .. Len(wal.disk)
        BY <1>a, <2>3
      <3>1. PICK t : t = wal.disk[n].txn /\ n \in DOMAIN wal.disk
        BY <3>0
      <3>2. t \in Range(roots.cache)
        <4>1. t \in Logged(wal.disk)
          BY <3>1 DEF Logged
        <4>2. Range(roots.disk) \subseteq Range(roots.cache)
          BY <1>a, PrefixRange DEF Files
        <4>. QED BY <2>3, <4>1, <4>2 DEF Retired
      <3>3. Closure(t) \subseteq arena.disk \cup LoggedObjects(wal.disk)
        BY <3>2 DEF Rooted
      <3>4. Closure(t) \subseteq arena.disk
        BY <2>3, <3>3 DEF Retired
      <3>. QED BY <1>b, <2>3, <3>1, <3>4
    <2>. QED BY <1>30, <2>1, <2>2, <2>3, PowerLossEffect DEF Files
  <1>. QED BY Cases, <1>0, <1>1, <1>2, <1>3, <1>4, <1>5, <1>6, <1>7, <1>8, <1>9, <1>10, <1>11, <1>12,
              <1>13, <1>14, <1>15, <1>16, <1>17, <1>18, <1>19, <1>20, <1>21, <1>22, <1>23, <1>24,
              <1>25, <1>26, <1>27, <1>28, <1>29, <1>30

\* A usable engine's overlay holds acknowledged transactions only.
LEMMA LogAcked ==
  ASSUME IInv, [Next]_vars, life' = "usable"
  PROVE  Range(mem'.log) \subseteq acked'
  <1>. USE DEF IInv
  <1>a. acked \subseteq acked'
    BY FrameNext, PublishEffect
  <1>b. ASSUME mem'.log = mem.log, life = "usable" PROVE Range(mem'.log) \subseteq acked'
    BY <1>a, <1>b DEF Rooted
  <1>c. ASSUME mem'.log = <<>> PROVE Range(mem'.log) \subseteq acked'
    BY <1>c, EmptyOps
  <1>0. CASE UNCHANGED vars
    BY <1>0, <1>b DEF vars
  <1>1. ASSUME NEW b \in Blobs, Stage(b)
        PROVE  Range(mem'.log) \subseteq acked'
    BY <1>1, <1>b, StageEffect DEF MemIs
  <1>2. ASSUME NEW c \in Callers, NEW p \in Principals, NEW b \in Blobs \cup {None}, NEW carried \in BOOLEAN,
               Submit(c, p, b, carried)
        PROVE  Range(mem'.log) \subseteq acked'
    BY <1>2, <1>b, SubmitEffect DEF MemIs
  <1>3. ASSUME NEW c \in Callers, Drain(c)
        PROVE  Range(mem'.log) \subseteq acked'
    BY <1>3, <1>b, DrainEffect DEF MemIs
  <1>4. ASSUME NEW c \in Callers, Release(c)
        PROVE  Range(mem'.log) \subseteq acked'
    BY <1>4, <1>b, ReleaseEffect DEF MemIs
  <1>5. CASE Flush \/ Open
    BY <1>5, <1>b, HoldEffect DEF MemIs
  <1>6. CASE Prepare
    BY <1>6, <1>b, PrepareEffect DEF MemIs
  <1>7. CASE Persist
    BY <1>7, <1>b, PersistEffect DEF MemIs
  <1>8. CASE AppendObjects
    BY <1>8, <1>b, AppendObjectsEffect DEF MemIs
  <1>9. CASE SyncObjects
    BY <1>9, <1>b, SyncObjectsEffect DEF MemIs
  <1>10. CASE AppendRoots
    BY <1>10, <1>b, AppendRootsEffect DEF MemIs
  <1>11. CASE SyncRoots
    BY <1>11, <1>b, SyncRootsEffect DEF MemIs
  <1>12. CASE AppendWal
    BY <1>12, <1>b, AppendWalEffect DEF MemIs
  <1>13. CASE SyncWal
    BY <1>13, <1>b, SyncWalEffect DEF MemIs
  <1>14. CASE FoldObjects
    BY <1>14, <1>b, FoldObjectsEffect DEF MemIs
  <1>15. CASE FoldRoots
    BY <1>15, <1>c, FoldRootsEffect DEF MemIs
  <1>16. CASE FoldSyncObjects
    BY <1>16, <1>b, FoldSyncObjectsEffect DEF MemIs
  <1>17. CASE FoldSyncRoots
    BY <1>17, <1>b, FoldSyncRootsEffect DEF MemIs
  <1>18. CASE TruncateWal
    BY <1>18, <1>b, TruncateWalEffect DEF MemIs
  <1>19. CASE SyncReplayed
    BY <1>19, <1>b, SyncReplayedEffect DEF MemIs
  <1>20. CASE RetireWal
    BY <1>20, <1>b, RetireWalEffect DEF MemIs
  <1>21. CASE Publish
    <2>1. Range(mem.log \o job.accepted) = Range(mem.log) \cup Range(job.accepted)
      BY <1>21, FieldTypes, RangeOps, PublishEffect
    <2>2. CASE walOn
      BY <1>21, <2>1, <2>2, PublishEffect DEF Rooted, MemIs
    <2>3. CASE ~walOn
      BY <1>21, <1>b, <2>3, PublishEffect DEF MemIs
    <2>. QED BY <2>2, <2>3
  <1>22. CASE SyncTruncation
    BY <1>22, <1>b, SyncTruncationEffect DEF MemIs
  <1>23. CASE Scan
    BY <1>23, <1>c, ScanEffect DEF MemIs
  <1>24. CASE ReplayObjects
    BY <1>24, <1>b, ReplayObjectsEffect DEF MemIs
  <1>25. CASE ReplayRoot
    <2>1. job.k \in 1 .. Len(wal.cache)
      BY <1>25 DEF ReplayRoot, Busy, Recovering, At
    <2>. QED BY <1>25, <1>b, <2>1, ReplayRootEffect DEF MemIs
  <1>26. CASE SyncRetirement
    BY <1>26, <1>b, SyncRetirementEffect DEF MemIs
  <1>27. CASE Install
    <2>1. mem.log = <<>>
      BY <1>27 DEF Install, Busy, Recovering, At, RecoverySteps
    <2>. QED BY <1>27, <1>c, <2>1, InstallEffect
  <1>28. CASE IoError
    BY <1>28, IoErrorEffect DEF Stopped
  <1>29. CASE ProcessCrash
    BY <1>29, ProcessCrashEffect DEF Stopped
  <1>30. CASE PowerLoss
    BY <1>30, PowerLossEffect DEF Stopped
  <1>. QED BY Cases, <1>0, <1>1, <1>2, <1>3, <1>4, <1>5, <1>6, <1>7, <1>8, <1>9, <1>10, <1>11, <1>12,
              <1>13, <1>14, <1>15, <1>16, <1>17, <1>18, <1>19, <1>20, <1>21, <1>22, <1>23, <1>24,
              <1>25, <1>26, <1>27, <1>28, <1>29, <1>30

\* No power loss separates a root from its objects.
LEMMA RootedNext ==
  ASSUME IInv, [Next]_vars
  PROVE  Rooted'
  <1>. USE DEF IInv
  <1>1. ASSUME NEW t \in Range(roots'.cache)
        PROVE  Closure(t)' \subseteq arena'.disk \cup LoggedObjects(wal'.disk)
    <2>1. t \in Ids /\ Closure(t) \subseteq arena'.disk \cup LoggedObjects(wal'.disk)
      BY JournalRooted
    <2>2. Closure(t)' = Closure(t)
      BY <2>1, TxnStable
    <2>. QED BY <2>1, <2>2
  <1>2. Logged(wal'.cache) \subseteq Ids
    <2>1. Traces' \subseteq Ids \cup Blobs
      <3>1. CASE Prepare
        BY <3>1, PrepareTraces, PrepareEffect DEF Submitted
      <3>2. CASE ~Prepare
        BY <3>2, TracesNext DEF Submitted
      <3>. QED BY <3>1, <3>2
    <2>2. PICK log \in Seq(WalRec) : log = wal'.cache
      BY ControlNext, FileWrite DEF Types
    <2>3. Logged(log) \subseteq Nat
      BY LogRange
    <2>. QED BY <2>1, <2>2, <2>3, EngineAssumption DEF Traces
  <1>3. ASSUME NEW n \in 1 .. Len(wal'.cache)
        PROVE  Closure(wal.cache[n].txn)' \subseteq arena'.disk \cup LoggedUpTo(wal'.cache, n)
    <2>1. PICK log \in Seq(WalRec) : log = wal'.cache
      BY ControlNext, FileWrite DEF Types
    <2>2. PICK t : t = log[n].txn
      OBVIOUS
    <2>3. n \in DOMAIN log
      BY <1>3, <2>1
    <2>4. t \in Ids
      BY <1>2, <2>1, <2>2, <2>3 DEF Logged
    <2>5. Closure(t)' = Closure(t)
      BY <2>4, TxnStable
    <2>6. Closure(t) \subseteq arena'.disk \cup LoggedUpTo(wal'.cache, n)
      BY <1>3, <2>1, <2>2, WalRootedNext
    <2>7. Closure(wal.cache[n].txn)' = Closure(t)'
      BY <2>1, <2>2 DEF Closure
    <2>. QED BY <2>5, <2>6, <2>7
  <1>. QED BY <1>1, <1>3, LogAcked DEF Rooted

\* replay_transaction and recover_roots find the objects of every root.
LEMMA NoDanglingNext ==
  ASSUME IInv, [Next]_vars
  PROVE  NoDanglingRoot'
  <1>. USE DEF IInv
  <1>1. CASE Scan
    BY <1>1, ScanEffect DEF NoDanglingRoot
  <1>2. CASE ReplayRoot
    <2>1. /\ job.k \in 1 .. Len(wal.cache) /\ mem.index = arena.cache
          /\ wal.cache[job.k].objs \subseteq arena.cache
          /\ \A j \in 1 .. Len(wal.cache) : j < job.k => wal.cache[j].objs \subseteq arena.cache
      BY <1>2 DEF ReplayRoot, Busy, Recovering, At, RecoverySteps
    <2>2. LoggedUpTo(wal.cache, job.k) \subseteq arena.cache
      <3>1. job.k \in Nat /\ Len(wal.cache) \in Nat
        BY <2>1, FieldTypes
      <3>2. \A j \in 1 .. job.k : j \in 1 .. Len(wal.cache) /\ (j < job.k \/ j = job.k)
        BY <2>1, <3>1
      <3>3. \A j \in 1 .. job.k : wal.cache[j].objs \subseteq arena.cache
        BY <2>1, <3>2
      <3>. QED BY <3>3 DEF LoggedUpTo
    <2>3. Closure(wal.cache[job.k].txn) \subseteq mem.index
      BY <2>1, <2>2 DEF Rooted, Files
    <2>. QED BY <1>2, <2>1, <2>3, ReplayRootEffect DEF NoDanglingRoot
  <1>3. CASE Install
    <2>1. /\ mem.index = arena.cache /\ mem.roots = RootsIn(roots.cache) /\ wal.disk = <<>>
      BY <1>3 DEF Install, Busy, Recovering, At, RecoverySteps
    <2>2. ASSUME NEW p \in Principals
          PROVE  Closure(mem.roots[p]) \subseteq mem.index
      <3>1. mem.roots[p] = RootIn(roots.cache, p)
        BY <2>1 DEF RootsIn
      <3>2. RootIn(roots.cache, p) \in Range(roots.cache) \cup {NoRoot}
        BY FieldTypes, RootInRange
      <3>3. CASE mem.roots[p] = NoRoot
        BY <3>3 DEF Closure
      <3>4. CASE mem.roots[p] \in Range(roots.cache)
        <4>1. Closure(mem.roots[p]) \subseteq arena.disk \cup LoggedObjects(wal.disk)
          BY <3>4 DEF Rooted
        <4>. QED BY <2>1, <4>1, EmptyOps DEF Files
      <3>. QED BY <3>1, <3>2, <3>3, <3>4
    <2>3. verdict' = "ok"
      BY <1>3, <2>2, InstallEffect
    <2>. QED BY <2>3 DEF NoDanglingRoot
  <1>4. CASE verdict' = verdict
    BY <1>4 DEF NoDanglingRoot
  <1>. QED BY <1>1, <1>2, <1>3, <1>4, FrameNext

-----------------------------------------------------------------------------
(* What the engine serves *)

\* A journal of submitted transactions
Journals == {j \in Seq(Nat) : Range(j) \subseteq Ids}

\* Journals are appended to and cut.
LEMMA JournalOps ==
  ASSUME Types, NEW s \in Journals
  PROVE  /\ s \in Seq(Nat) /\ NoRoot \notin Range(s)
         /\ \A t \in Journals : s \o t \in Journals
         /\ \A t \in Ids : Append(s, t) \in Journals
  <1>1. s \in Seq(Nat) /\ NoRoot \notin Range(s) /\ Ids \subseteq Nat
    BY DEF Journals, Ids, NoRoot
  <1>2. ASSUME NEW t \in Journals
        PROVE  s \o t \in Journals
    <2>1. t \in Seq(Nat)
      BY DEF Journals
    <2>2. s \o t \in Seq(Nat) /\ Range(s \o t) = Range(s) \cup Range(t)
      BY <1>1, <2>1, RangeOps
    <2>. QED BY <2>2 DEF Journals
  <1>3. ASSUME NEW t \in Ids
        PROVE  Append(s, t) \in Journals
    <2>1. t \in Nat /\ Append(s, t) \in Seq(Nat)
      BY <1>1
    <2>2. Range(Append(s, t)) = Range(s) \cup {t}
      BY <1>1, <2>1, RangeAppend
    <2>. QED BY <2>1, <2>2 DEF Journals
  <1>. QED BY <1>1, <1>2, <1>3

\* Appending to the second of two sequences appends to both.
LEMMA ConcatAppend ==
  ASSUME NEW s \in Seq(Nat), NEW t \in Seq(Nat), NEW x \in Nat
  PROVE  Append(s \o t, x) = s \o Append(t, x)
  <1>0. Append(s \o t, x) \in Seq(Nat) /\ s \o Append(t, x) \in Seq(Nat)
    OBVIOUS
  <1>1. PICK l \in Seq(Nat) : l = Append(s \o t, x)
    BY <1>0
  <1>2. PICK r \in Seq(Nat) : r = s \o Append(t, x)
    BY <1>0
  <1>3. Len(l) = Len(s) + Len(t) + 1 /\ Len(r) = Len(s) + Len(t) + 1 /\ Len(s) \in Nat /\ Len(t) \in Nat
    BY <1>1, <1>2
  <1>4. ASSUME NEW i \in 1 .. Len(s) + Len(t) + 1
        PROVE  l[i] = r[i]
    <2>1. CASE i \in 1 .. Len(s)
      BY <1>1, <1>2, <1>3, <2>1
    <2>2. CASE i - Len(s) \in 1 .. Len(t)
      BY <1>1, <1>2, <1>3, <2>2
    <2>3. CASE i = Len(s) + Len(t) + 1
      BY <1>1, <1>2, <1>3, <2>3
    <2>4. i \in 1 .. Len(s) \/ i - Len(s) \in 1 .. Len(t) \/ i = Len(s) + Len(t) + 1
      <3>1. PICK m \in Nat, n \in Nat : m = Len(s) /\ n = Len(t)
        BY <1>3
      <3>2. i \in 1 .. m + n + 1
        BY <3>1
      <3>3. i \in 1 .. m \/ i - m \in 1 .. n \/ i = m + n + 1
        BY <3>2
      <3>. QED BY <3>1, <3>3
    <2>. QED BY <2>1, <2>2, <2>3, <2>4
  <1>5. l = r
    BY <1>3, <1>4
  <1>. QED BY <1>1, <1>2, <1>5

\* Sequences are appended in any grouping.
LEMMA ConcatAssoc ==
  ASSUME NEW s \in Seq(Nat), NEW t \in Seq(Nat), NEW u \in Seq(Nat)
  PROVE  s \o (t \o u) = s \o t \o u /\ s \o (t \o u) \in Seq(Nat)
  <1>1. s \o t \in Seq(Nat) /\ t \o u \in Seq(Nat)
    OBVIOUS
  <1>2. PICK st \in Seq(Nat) : st = s \o t
    BY <1>1
  <1>3. PICK tu \in Seq(Nat) : tu = t \o u
    BY <1>1
  <1>4. s \o tu \in Seq(Nat) /\ st \o u \in Seq(Nat)
    OBVIOUS
  <1>5. PICK l \in Seq(Nat) : l = s \o tu
    BY <1>4
  <1>6. PICK r \in Seq(Nat) : r = st \o u
    BY <1>4
  <1>7. PICK n \in Nat, m \in Nat, k \in Nat : n = Len(s) /\ m = Len(t) /\ k = Len(u)
    OBVIOUS
  <1>8. /\ Len(st) = n + m /\ \A i \in 1 .. n : st[i] = s[i]
        /\ \A i \in 1 .. m : st[n + i] = t[i]
    BY <1>2, <1>7
  <1>9. /\ Len(tu) = m + k /\ \A i \in 1 .. m : tu[i] = t[i]
        /\ \A i \in 1 .. k : tu[m + i] = u[i]
    BY <1>3, <1>7
  <1>10. /\ Len(l) = n + m + k /\ \A i \in 1 .. n : l[i] = s[i]
         /\ \A i \in 1 .. m + k : l[n + i] = tu[i]
    <2>1. PICK c \in Nat : c = Len(tu)
      OBVIOUS
    <2>2. /\ Len(l) = n + c /\ \A i \in 1 .. n : l[i] = s[i]
          /\ \A i \in 1 .. c : l[n + i] = tu[i]
      BY <1>5, <1>7, <2>1
    <2>3. c = m + k
      BY <1>9, <2>1
    <2>. QED BY <2>2, <2>3
  <1>11. /\ Len(r) = n + m + k /\ \A i \in 1 .. n + m : r[i] = st[i]
         /\ \A i \in 1 .. k : r[n + m + i] = u[i]
    <2>1. PICK c \in Nat : c = Len(st)
      OBVIOUS
    <2>2. /\ Len(r) = c + k /\ \A i \in 1 .. c : r[i] = st[i]
          /\ \A i \in 1 .. k : r[c + i] = u[i]
      BY <1>6, <1>7, <2>1
    <2>3. c = n + m
      BY <1>8, <2>1
    <2>. QED BY <2>2, <2>3
  <1>12. ASSUME NEW i \in 1 .. n + m + k
         PROVE  l[i] = r[i]
    <2>1. CASE i \in 1 .. n
      BY <1>8, <1>10, <1>11, <2>1
    <2>2. ASSUME NEW j \in 1 .. m, i = n + j
          PROVE  l[i] = r[i]
      <3>1. j \in 1 .. m + k /\ n + j \in 1 .. n + m
        OBVIOUS
      <3>. QED BY <1>8, <1>9, <1>10, <1>11, <2>2, <3>1
    <2>3. ASSUME NEW j \in 1 .. k, i = n + m + j
          PROVE  l[i] = r[i]
      <3>1. m + j \in 1 .. m + k /\ i = n + (m + j)
        BY <2>3
      <3>2. l[i] = tu[m + j]
        BY <1>10, <3>1
      <3>. QED BY <1>9, <1>11, <2>3, <3>2
    <2>4. i \in 1 .. n \/ i - n \in 1 .. m \/ i - n - m \in 1 .. k
      OBVIOUS
    <2>5. i = n + (i - n) /\ i = n + m + (i - n - m)
      OBVIOUS
    <2>. QED BY <2>1, <2>2, <2>3, <2>4, <2>5
  <1>13. l = r
    BY <1>10, <1>11, <1>12
  <1>. QED BY <1>2, <1>3, <1>4, <1>5, <1>6, <1>13

\* A prefix of a linked journal is linked.
LEMMA LinkedPrefix ==
  ASSUME NEW s \in Seq(Nat), NEW t \in Seq(Nat), Prefix(s, t), Linked(t)
  PROVE  Linked(s)
  <1>1. \A i \in 1 .. Len(s) : i \in 1 .. Len(t) /\ s[i] = t[i]
    BY DEF Prefix
  <1>. QED BY <1>1 DEF Linked

\* apply_transition: a transaction built on the journal's root extends it.
LEMMA LinkedAppend ==
  ASSUME Types, Submitted, NEW s \in Journals, Linked(s), NEW t \in Ids,
         txns[t].expected = RootIn(s, OfPrincipal(t))
  PROVE  Linked(Append(s, t))
  <1>0. s \in Seq(Nat) /\ Len(s) \in Nat /\ t \in Nat
    BY JournalOps DEF Ids
  <1>1. PICK n \in Nat : n = Len(s)
    BY <1>0
  <1>a. PICK more : more = Append(s, t)
    OBVIOUS
  <1>b. PICK p : p = OfPrincipal(t)
    OBVIOUS
  <1>2. /\ Len(more) = n + 1 /\ more[n + 1] = t /\ \A i \in 1 .. n : more[i] = s[i]
        /\ 1 .. n + 1 = (1 .. n) \cup {n + 1}
    BY <1>0, <1>1, <1>a, <1>b
  <1>3. \A i \in 1 .. n : s[i] \in Ids
    BY <1>0, <1>1, <1>a, <1>b DEF Journals, Range
  <1>4. ASSUME NEW i \in 1 .. n, OfPrincipal(s[i]) = p
        PROVE  s[i] <= txns[t].expected
    <2>1. PICK m \in 1 .. n : LastOf(s, p, m)
      BY <1>0, <1>1, <1>a, <1>b, <1>4, RootInLast
    <2>2. RootIn(s, p) = s[m] /\ OfPrincipal(s[m]) = p /\ i <= m
      BY <1>0, <1>1, <1>a, <1>b, <1>4, <2>1, RootInLast DEF LastOf
    <2>3. txns[t].expected = s[m] /\ s[m] \in Nat /\ s[i] \in Nat
      BY <1>1, <1>a, <1>b, <1>3, <2>2 DEF Ids
    <2>4. CASE i = m
      BY <2>3, <2>4
    <2>5. CASE i < m
      <3>1. s[i] <= txns[s[m]].expected
        BY <1>1, <1>a, <1>b, <1>4, <2>2, <2>5 DEF Linked
      <3>2. txns[s[m]].expected < s[m]
        BY <1>3 DEF Submitted
      <3>3. txns[s[m]].expected \in Nat
        BY <1>3, ObjectFacts DEF Txn
      <3>. QED BY <2>3, <3>1, <3>2, <3>3
    <2>. QED BY <2>2, <2>4, <2>5
  <1>5. ASSUME NEW i \in 1 .. n + 1, NEW j \in 1 .. n + 1, i < j,
               OfPrincipal(more[i]) = OfPrincipal(more[j])
        PROVE  more[i] <= txns[more[j]].expected
    <2>1. i \in 1 .. n
      BY <1>5
    <2>2. CASE j \in 1 .. n
      BY <1>1, <1>a, <1>b, <1>2, <1>5, <2>1, <2>2 DEF Linked
    <2>3. CASE j = n + 1
      BY <1>1, <1>a, <1>b, <1>2, <1>4, <1>5, <2>1, <2>3
    <2>. QED BY <1>2, <2>2, <2>3
  <1>. QED BY <1>1, <1>a, <1>b, <1>2, <1>5 DEF Linked

\* A linked journal stays linked.
LEMMA LinkedStable ==
  ASSUME IInv, [Next]_vars, NEW s \in Journals, Linked(s)
  PROVE  Linked(s)'
  <1>1. \A i \in 1 .. Len(s) : s[i] \in Ids
    BY DEF Journals, Range
  <1>2. \A i \in 1 .. Len(s) : OfPrincipal(s[i])' = OfPrincipal(s[i]) /\ txns'[s[i]] = txns[s[i]]
    BY <1>1, TxnStable DEF Ids, NoRoot
  <1>. QED BY <1>2 DEF Linked

\* The root that a batch leaves, as a function of what was accepted
RootAfter(acc, rts, p) == IF RootIn(acc, p) = NoRoot THEN rts[p] ELSE RootIn(acc, p)

\* The batch is yet to be written to the root journal or the overlay.
Behind(rc, lg, acc, rts, known) ==
  /\ Linked(rc \o lg \o acc)
  /\ \A p \in Principals : rts[p] = RootIn(rc \o lg, p)
  /\ \A p \in Principals : Closure(rts[p]) \subseteq known

\* The batch is in the root journal, and yet to be published.
Ahead(rc, acc, rts, known) ==
  /\ Linked(rc)
  /\ \A p \in Principals : RootAfter(acc, rts, p) = RootIn(rc, p)
  /\ \A p \in Principals : Closure(rts[p]) \subseteq known

\* The batch's root for a principal is its journal's.
LEMMA BehindRoot ==
  ASSUME Types, NEW rc \in Journals, NEW lg \in Journals, NEW acc \in Journals, NEW rts, NEW known,
         Behind(rc, lg, acc, rts, known), NEW p \in Principals
  PROVE  RootAfter(acc, rts, p) = RootIn(rc \o lg \o acc, p)
  <1>1. PICK base \in Journals : base = rc \o lg
    BY JournalOps
  <1>2. base \in Seq(Nat) /\ acc \in Seq(Nat) /\ NoRoot \notin Range(acc)
    BY JournalOps
  <1>3. RootIn(base \o acc, p) = IF RootIn(acc, p) = NoRoot THEN RootIn(base, p) ELSE RootIn(acc, p)
    BY <1>2, RootConcat
  <1>. QED BY <1>1, <1>3 DEF Behind, RootAfter

\* prepare accepts one more transaction.
LEMMA BehindPrepare ==
  ASSUME Types, Submitted, NEW rc \in Journals, NEW lg \in Journals, NEW acc \in Journals, NEW rts, NEW known,
         Behind(rc, lg, acc, rts, known), NEW t \in Ids, OfPrincipal(t) \in Principals,
         txns[t].expected = RootAfter(acc, rts, OfPrincipal(t))
  PROVE  Behind(rc, lg, Append(acc, t), rts, known)
  <1>1. PICK base \in Journals : base = rc \o lg
    BY JournalOps
  <1>2. PICK j \in Journals : j = base \o acc
    BY JournalOps
  <1>3. Linked(j) /\ txns[t].expected = RootIn(j, OfPrincipal(t))
    <2>1. PICK p \in Principals : p = OfPrincipal(t)
      OBVIOUS
    <2>2. RootAfter(acc, rts, p) = RootIn(rc \o lg \o acc, p)
      BY BehindRoot
    <2>. QED BY <1>1, <1>2, <2>1, <2>2 DEF Behind
  <1>4. Linked(Append(j, t))
    BY <1>3, LinkedAppend
  <1>5. Append(j, t) = base \o Append(acc, t)
    <2>1. base \in Seq(Nat) /\ acc \in Seq(Nat) /\ t \in Nat
      BY JournalOps DEF Ids
    <2>. QED BY <1>2, <2>1, ConcatAppend
  <1>. QED BY <1>1, <1>4, <1>5 DEF Behind

\* fold_pending_wal moves the overlay to the root journal.
LEMMA BehindFold ==
  ASSUME Types, NEW rc \in Journals, NEW lg \in Journals, NEW acc \in Journals, NEW rts, NEW known,
         Behind(rc, lg, acc, rts, known)
  PROVE  Behind(rc \o lg, <<>>, acc, rts, known)
  <1>1. PICK base \in Journals : base = rc \o lg
    BY JournalOps
  <1>2. base \o <<>> = base
    BY <1>1, JournalOps
  <1>. QED BY <1>1, <1>2 DEF Behind

\* persist_group_legacy appends the batch to the root journal.
LEMMA BehindAppend ==
  ASSUME Types, NEW rc \in Journals, NEW acc \in Journals, NEW rts, NEW known,
         Behind(rc, <<>>, acc, rts, known)
  PROVE  Ahead(rc \o acc, acc, rts, known)
  <1>1. <<>> \in Journals
    BY EmptyOps DEF Journals
  <1>2. rc \o <<>> = rc
    BY JournalOps
  <1>3. \A p \in Principals : RootAfter(acc, rts, p) = RootIn(rc \o acc, p)
    <2>1. PICK e \in Journals : e = <<>>
      BY <1>1
    <2>2. Behind(rc, e, acc, rts, known)
      BY <2>1
    <2>3. ASSUME NEW p \in Principals
          PROVE  RootAfter(acc, rts, p) = RootIn(rc \o e \o acc, p)
      BY <2>2, BehindRoot
    <2>. QED BY <1>2, <2>1, <2>3
  <1>. QED BY <1>2, <1>3 DEF Behind, Ahead

\* The engine's roots after the batch, its objects then known
LEMMA AfterClosed ==
  ASSUME NEW acc \in Seq(Nat), NEW rts, NEW known, NEW more, known \subseteq more,
         \A p \in Principals : Closure(rts[p]) \subseteq known,
         \A t \in Range(acc) : Closure(t) \subseteq more,
         NEW p \in Principals
  PROVE  Closure(RootAfter(acc, rts, p)) \subseteq more
  <1>1. RootIn(acc, p) \in Range(acc) \cup {NoRoot}
    BY RootInRange
  <1>2. CASE RootIn(acc, p) = NoRoot
    BY <1>2 DEF RootAfter
  <1>3. CASE RootIn(acc, p) # NoRoot
    BY <1>1, <1>3 DEF RootAfter
  <1>. QED BY <1>2, <1>3

\* install_wal_overlay publishes the batch from the overlay.
LEMMA BehindPublish ==
  ASSUME Types, NEW rc \in Journals, NEW lg \in Journals, NEW acc \in Journals, NEW rts, NEW known,
         Behind(rc, lg, acc, rts, known), NEW after, NEW more,
         \A p \in Principals : after[p] = RootAfter(acc, rts, p) /\ Closure(after[p]) \subseteq more
  PROVE  Behind(rc, lg \o acc, <<>>, after, more)
  <1>1. PICK j \in Journals : j = lg \o acc
    BY JournalOps
  <1>2. /\ rc \in Seq(Nat) /\ lg \in Seq(Nat) /\ acc \in Seq(Nat) /\ j \in Seq(Nat)
    BY JournalOps
  <1>3. rc \o j = rc \o lg \o acc /\ rc \o j \in Seq(Nat)
    <2>1. PICK s \in Seq(Nat), t \in Seq(Nat), u \in Seq(Nat) : s = rc /\ t = lg /\ u = acc
      BY <1>2
    <2>2. s \o (t \o u) = s \o t \o u /\ s \o (t \o u) \in Seq(Nat)
      BY ConcatAssoc
    <2>. QED BY <1>1, <2>1, <2>2
  <1>4. rc \o j \o <<>> = rc \o j
    BY <1>3
  <1>5. \A p \in Principals : after[p] = RootIn(rc \o j, p)
    BY <1>3, BehindRoot
  <1>. QED BY <1>1, <1>3, <1>4, <1>5 DEF Behind

\* publish_commit_frontier publishes a batch that the root journal holds.
LEMMA AheadPublish ==
  ASSUME Types, NEW rc \in Journals, NEW acc \in Journals, NEW rts, NEW known, Ahead(rc, acc, rts, known),
         NEW after, NEW more,
         \A p \in Principals : after[p] = RootAfter(acc, rts, p) /\ Closure(after[p]) \subseteq more
  PROVE  Behind(rc, <<>>, <<>>, after, more)
  <1>1. rc \o <<>> = rc /\ rc \o <<>> \o <<>> = rc
    BY JournalOps
  <1>. QED BY <1>1 DEF Ahead, Behind

\* A recovery installs the root journal alone.
LEMMA BehindInstall ==
  ASSUME Types, NEW rc \in Journals, Linked(rc), NEW rts, NEW known,
         \A p \in Principals : rts[p] = RootIn(rc, p) /\ Closure(rts[p]) \subseteq known
  PROVE  Behind(rc, <<>>, <<>>, rts, known)
  <1>1. rc \o <<>> = rc /\ rc \o <<>> \o <<>> = rc
    BY JournalOps
  <1>. QED BY <1>1 DEF Behind

\* What was accepted, if the mutex is held
InHand == IF job = None THEN <<>> ELSE job.accepted

\* What a usable engine serves, before and after its batch is in the journal
Serving(appended, rc, lg, acc, rts, known) ==
  /\ appended => lg = <<>> /\ Ahead(rc, acc, rts, known)
  /\ ~appended => Behind(rc, lg, acc, rts, known)

\* The same, of the state after a step
ServesNext ==
  /\ Linked(roots'.cache)
  /\ life' = "usable" =>
       /\ published' = mem'.roots
       /\ Serving(Appended', roots'.cache, mem'.log, InHand', mem'.roots, Known')

\* Served, with the journal split into its parts
LEMMA ServedForm ==
  ASSUME IInv
  PROVE  /\ roots.cache \in Journals /\ mem.log \in Journals /\ InHand \in Journals
         /\ Appended => ~walOn /\ mem.log = <<>>
         /\ life = "usable" => Serving(Appended, roots.cache, mem.log, InHand, mem.roots, Known)
  <1>. USE DEF IInv
  <1>1. roots.cache \in Journals /\ mem.log \in Journals
    BY FieldTypes, RecordIds DEF Journals
  <1>2. InHand \in Journals
    <2>1. CASE job = None
      BY <2>1, EmptyOps DEF InHand, Journals
    <2>2. CASE job # None
      BY <2>2, FieldTypes, AcceptedFacts DEF InHand, Journals
    <2>. QED BY <2>1, <2>2
  <1>3. Appended => ~walOn /\ mem.log = <<>> /\ job # None
    BY DEF Appended, At, Control, LegacySteps, Files
  <1>4. ASSUME life = "usable", Appended
        PROVE  Ahead(roots.cache, InHand, mem.roots, Known)
    <2>1. job # None /\ InHand = job.accepted
      BY <1>3, <1>4 DEF InHand
    <2>2. ASSUME NEW p \in Principals
          PROVE  RootAfter(InHand, mem.roots, p) = RootIn(roots.cache, p)
      BY <1>4, <2>1 DEF Served, PendingRoot, RootAfter
    <2>. QED BY <1>4, <2>2 DEF Served, Ahead
  <1>5. ASSUME life = "usable", ~Appended
        PROVE  Behind(roots.cache, mem.log, InHand, mem.roots, Known)
    <2>1. PICK j \in Journals : j = roots.cache \o mem.log
      BY <1>1, JournalOps
    <2>2. j \o <<>> = j
      BY JournalOps
    <2>3. Linked(roots.cache \o mem.log \o InHand)
      BY <1>5, <2>1, <2>2 DEF Served, Journal, InHand
    <2>. QED BY <1>5, <2>3 DEF Served, Behind, RootsIn
  <1>. QED BY <1>1, <1>2, <1>3, <1>4, <1>5 DEF Serving

\* One sequence after another keeps prefixes.
LEMMA ConcatPrefix ==
  ASSUME NEW s \in Seq(Nat), NEW t \in Seq(Nat), NEW u \in Seq(Nat)
  PROVE  Prefix(s, s \o u) /\ (Prefix(t, u) => Prefix(s \o t, s \o u))
  <1>0. s \o t \in Seq(Nat) /\ s \o u \in Seq(Nat)
    OBVIOUS
  <1>1. PICK l \in Seq(Nat) : l = s \o t
    BY <1>0
  <1>2. PICK r \in Seq(Nat) : r = s \o u
    BY <1>0
  <1>3. PICK n \in Nat, m \in Nat, k \in Nat : n = Len(s) /\ m = Len(t) /\ k = Len(u)
    OBVIOUS
  <1>4. /\ Len(l) = n + m /\ Len(r) = n + k
        /\ \A i \in 1 .. n : l[i] = s[i] /\ r[i] = s[i]
        /\ \A i \in 1 .. m : l[n + i] = t[i]
        /\ \A i \in 1 .. k : r[n + i] = u[i]
    BY <1>1, <1>2, <1>3
  <1>5. Prefix(s, r)
    BY <1>3, <1>4 DEF Prefix
  <1>6. ASSUME Prefix(t, u) PROVE Prefix(l, r)
    <2>1. m <= k /\ \A i \in 1 .. m : t[i] = u[i]
      BY <1>3, <1>6 DEF Prefix
    <2>2. ASSUME NEW i \in 1 .. n + m
          PROVE  l[i] = r[i]
      <3>1. CASE i \in 1 .. n
        BY <1>4, <3>1
      <3>2. CASE i > n
        <4>1. PICK j \in 1 .. m : i = n + j
          <5>1. i - n \in 1 .. m /\ i = n + (i - n)
            BY <2>2, <3>2
          <5>. QED BY <5>1
        <4>2. j \in 1 .. k
          BY <2>1
        <4>. QED BY <1>4, <2>1, <4>1, <4>2
      <3>. QED BY <3>1, <3>2
    <2>3. Len(l) <= Len(r) /\ 1 .. Len(l) = 1 .. n + m
      BY <1>4, <2>1
    <2>. QED BY <2>2, <2>3 DEF Prefix
  <1>. QED BY <1>1, <1>2, <1>5, <1>6

\* What a step leaves the engine serving, in terms of the transactions before
LEMMA ServesStep ==
  ASSUME IInv, [Next]_vars
  PROVE  ServesNext
  <1>. USE DEF IInv
  <1>a. /\ roots.cache \in Journals /\ mem.log \in Journals /\ InHand \in Journals
        /\ Appended => ~walOn /\ mem.log = <<>>
        /\ life = "usable" => Serving(Appended, roots.cache, mem.log, InHand, mem.roots, Known)
    BY ServedForm
  <1>b. Linked(roots.cache) /\ (life = "usable" => published = mem.roots)
    BY DEF Served
  <1>c. PICK rc \in Journals : rc = roots.cache
    BY <1>a
  <1>d. PICK lg \in Journals : lg = mem.log
    BY <1>a
  <1>e. PICK acc \in Journals : acc = InHand
    BY <1>a
  <1>f. rc \in Seq(Nat) /\ lg \in Seq(Nat) /\ acc \in Seq(Nat)
    BY JournalOps
  <1>k. ASSUME life = "usable", roots'.cache = roots.cache, mem'.log = mem.log, mem'.roots = mem.roots,
               published' = published, Known \subseteq Known', InHand' = InHand, Appended' <=> Appended
        PROVE  ServesNext
    <2>1. Linked(roots'.cache) /\ published' = mem'.roots
      BY <1>b, <1>k
    <2>2. CASE Appended
      BY <1>a, <1>k, <2>1, <2>2 DEF ServesNext, Serving, Ahead
    <2>3. CASE ~Appended
      BY <1>a, <1>k, <2>1, <2>3 DEF ServesNext, Serving, Behind
    <2>. QED BY <2>2, <2>3
  <1>n. ASSUME life' # "usable", roots'.cache = roots.cache
        PROVE  ServesNext
    BY <1>b, <1>n DEF ServesNext
  <1>p. ASSUME life' # "usable", NEW j \in Seq(Nat), NEW all \in Seq(Nat), Prefix(j, all), Linked(all), roots'.cache = j
        PROVE  ServesNext
    BY <1>p, LinkedPrefix DEF ServesNext
  <1>0. CASE UNCHANGED vars
    <2>1. UNCHANGED <<roots, mem, published, job, life, walOn>>
      BY <1>0 DEF vars, files
    <2>2. InHand' = InHand /\ (Appended' <=> Appended) /\ Known' = Known
      BY <2>1 DEF InHand, Appended, At, Known
    <2>. QED BY <1>k, <1>n, <2>1, <2>2
  <1>1. ASSUME NEW b \in Blobs, Stage(b)
        PROVE  ServesNext
    <2>1. life = "usable" /\ UNCHANGED <<life, published, walOn, job, roots>>
      BY <1>1, StageEffect
    <2>2. mem'.log = mem.log /\ mem'.roots = mem.roots /\ Known \subseteq Known'
      BY <1>1, StageEffect DEF MemIs, Known
    <2>3. InHand' = InHand /\ (Appended' <=> Appended)
      BY <2>1 DEF InHand, Appended, At
    <2>. QED BY <1>k, <2>1, <2>2, <2>3
  <1>2. ASSUME NEW c \in Callers, NEW p \in Principals, NEW b \in Blobs \cup {None}, NEW carried \in BOOLEAN,
               Submit(c, p, b, carried)
        PROVE  ServesNext
    <2>1. UNCHANGED <<roots, mem, published, job, life, walOn>>
      BY <1>2, SubmitEffect
    <2>2. InHand' = InHand /\ (Appended' <=> Appended) /\ Known' = Known
      BY <2>1 DEF InHand, Appended, At, Known
    <2>. QED BY <1>k, <1>n, <2>1, <2>2
  <1>3. ASSUME NEW c \in Callers, Drain(c)
        PROVE  ServesNext
    <2>1. UNCHANGED <<life, published, walOn, mem, roots>> /\ job = None /\ job' # None
          /\ job'.accepted = <<>> /\ (life = "usable" => job'.step = "prepare")
      BY <1>3, DrainEffect DEF Took
    <2>2. CASE life = "usable"
      <3>1. InHand' = InHand /\ (Appended' <=> Appended) /\ Known' = Known
        BY <2>1, <2>2 DEF InHand, Appended, At, Known
      <3>. QED BY <1>k, <2>1, <2>2, <3>1
    <2>. QED BY <1>n, <2>1, <2>2
  <1>4. ASSUME NEW c \in Callers, Release(c)
        PROVE  ServesNext
    <2>1. UNCHANGED <<roots, mem, published, job, life, walOn>>
      BY <1>4, ReleaseEffect
    <2>2. InHand' = InHand /\ (Appended' <=> Appended) /\ Known' = Known
      BY <2>1 DEF InHand, Appended, At, Known
    <2>. QED BY <1>k, <1>n, <2>1, <2>2
  <1>5. CASE Flush \/ Open
    <2>1. UNCHANGED <<life, published, walOn, mem, roots>> /\ job = None /\ job' # None
          /\ job'.accepted = <<>> /\ (life = "usable" => job'.step = "fold")
      BY <1>5, HoldEffect DEF Took
    <2>2. CASE life = "usable"
      <3>1. InHand' = InHand /\ (Appended' <=> Appended) /\ Known' = Known
        BY <2>1, <2>2 DEF InHand, Appended, At, Known
      <3>. QED BY <1>k, <2>1, <2>2, <3>1
    <2>. QED BY <1>n, <2>1, <2>2
  <1>6. CASE Prepare
    <2>1. life = "usable" /\ UNCHANGED <<life, published, walOn, mem, roots>> /\ job # None /\ job' # None
          /\ job.step = "prepare" /\ job'.step = "prepare"
      BY <1>6, PrepareEffect DEF Control, RecoverySteps
    <2>2. ~Appended /\ ~Appended' /\ InHand = job.accepted /\ InHand' = job'.accepted /\ Known' = Known
      BY <2>1 DEF InHand, Appended, At, Known
    <2>3. CASE job'.accepted = job.accepted
      BY <1>k, <2>1, <2>2, <2>3
    <2>4. CASE job'.accepted # job.accepted
      <3>1. PICK t \in Ids : /\ job'.accepted = Append(job.accepted, t)
                             /\ txns[t].expected = PendingRoot(OfPrincipal(t))
        BY <1>6, <2>4, PrepareEffect
      <3>2. PICK q \in Principals : q = OfPrincipal(t)
        BY ObjectFacts DEF Txn, OfPrincipal
      <3>3. txns[t].expected = RootAfter(acc, mem.roots, q)
        BY <1>e, <2>2, <3>1, <3>2 DEF PendingRoot, RootAfter
      <3>4. Behind(rc, lg, acc, mem.roots, Known)
        BY <1>a, <1>c, <1>d, <1>e, <2>1, <2>2 DEF Serving
      <3>5. PICK rts, known : rts = mem.roots /\ known = Known
        OBVIOUS
      <3>6. Behind(rc, lg, Append(acc, t), rts, known)
        BY <3>2, <3>3, <3>4, <3>5, BehindPrepare
      <3>7. Behind(roots'.cache, mem'.log, InHand', mem'.roots, Known')
        BY <1>c, <1>d, <1>e, <2>1, <2>2, <3>1, <3>5, <3>6
      <3>. QED BY <1>b, <2>1, <2>2, <3>7 DEF ServesNext, Serving
    <2>. QED BY <2>3, <2>4
  <1>7. CASE Persist
    <2>1. life = "usable" /\ UNCHANGED <<life, published, walOn, mem, roots>> /\ job # None /\ job.step = "prepare"
      BY <1>7, PersistEffect DEF Control, RecoverySteps
    <2>2. InHand' = InHand
      BY <1>7, PersistEffect DEF InHand, Ended
    <2>3. ~Appended /\ ~Appended'
      BY <1>7, <2>1, PersistEffect DEF Appended, At, Ended
    <2>. QED BY <1>k, <2>1, <2>2, <2>3 DEF Known
  <1>8. CASE AppendObjects
    <2>1. life = "usable" /\ UNCHANGED <<life, published, walOn>>
      BY <1>8, AppendObjectsEffect DEF AppendObjects, Busy, Control, RecoverySteps
    <2>2. roots'.cache = roots.cache /\ mem'.log = mem.log /\ mem'.roots = mem.roots /\ Known \subseteq Known'
      BY <1>8, AppendObjectsEffect DEF MemIs, Flushed, Known
    <2>3. InHand' = InHand /\ (Appended' <=> Appended)
      BY <1>8, <2>1, AppendObjectsEffect DEF Moved, InHand, Appended, At, Control, LegacySteps, WalSteps
    <2>. QED BY <1>k, <2>1, <2>2, <2>3
  <1>9. CASE SyncObjects
    <2>1. life = "usable" /\ UNCHANGED <<life, published, walOn>>
      BY <1>9, SyncObjectsEffect DEF SyncObjects, Busy, Control, RecoverySteps
    <2>2. roots'.cache = roots.cache /\ mem'.log = mem.log /\ mem'.roots = mem.roots /\ Known \subseteq Known'
      BY <1>9, SyncObjectsEffect DEF MemIs, Flushed, Known
    <2>3. InHand' = InHand /\ (Appended' <=> Appended)
      BY <1>9, <2>1, SyncObjectsEffect DEF Moved, InHand, Appended, At, Control, LegacySteps, WalSteps
    <2>. QED BY <1>k, <2>1, <2>2, <2>3
  <1>10. CASE AppendRoots
    <2>1. life = "usable" /\ UNCHANGED <<life, published, walOn, mem>> /\ job # None /\ job.step = "roots" /\ ~walOn
      BY <1>10, AppendRootsEffect DEF AppendRoots, Busy, Control, RecoverySteps, LegacySteps
    <2>2. ~Appended /\ Appended' /\ InHand = job.accepted /\ InHand' = InHand /\ lg = <<>> /\ Known' = Known
      BY <1>10, <1>d, <2>1, AppendRootsEffect DEF Moved, InHand, Appended, At, Files, Known
    <2>3. Behind(rc, <<>>, acc, mem.roots, Known)
      BY <1>a, <1>c, <1>d, <1>e, <2>1, <2>2 DEF Serving
    <2>4. PICK rts, known : rts = mem.roots /\ known = Known
      OBVIOUS
    <2>5. Ahead(rc \o acc, acc, rts, known)
      BY <2>3, <2>4, BehindAppend
    <2>6. roots'.cache = rc \o acc
      BY <1>10, <1>c, <1>e, <2>2, AppendRootsEffect DEF Wrote
    <2>7. Ahead(roots'.cache, InHand', mem'.roots, Known') /\ mem'.log = <<>>
      BY <1>d, <1>e, <2>1, <2>2, <2>4, <2>5, <2>6
    <2>8. Linked(roots'.cache)
      BY <2>7 DEF Ahead
    <2>. QED BY <1>b, <2>1, <2>2, <2>7, <2>8 DEF ServesNext, Serving
  <1>11. CASE SyncRoots
    <2>1. life = "usable" /\ UNCHANGED <<life, published, walOn>>
      BY <1>11, SyncRootsEffect DEF SyncRoots, Busy, Control, RecoverySteps
    <2>2. roots'.cache = roots.cache /\ mem'.log = mem.log /\ mem'.roots = mem.roots /\ Known \subseteq Known'
      BY <1>11, SyncRootsEffect DEF MemIs, Flushed, Known
    <2>3. InHand' = InHand /\ (Appended' <=> Appended)
      BY <1>11, <2>1, SyncRootsEffect DEF Moved, InHand, Appended, At, Control, LegacySteps, WalSteps
    <2>. QED BY <1>k, <2>1, <2>2, <2>3
  <1>12. CASE AppendWal
    <2>1. life = "usable" /\ UNCHANGED <<life, published, walOn>>
      BY <1>12, AppendWalEffect DEF AppendWal, Busy, Control, RecoverySteps
    <2>2. roots'.cache = roots.cache /\ mem'.log = mem.log /\ mem'.roots = mem.roots /\ Known \subseteq Known'
      BY <1>12, AppendWalEffect DEF MemIs, Flushed, Known
    <2>3. InHand' = InHand /\ (Appended' <=> Appended)
      BY <1>12, <2>1, AppendWalEffect DEF Moved, InHand, Appended, At, Control, LegacySteps, WalSteps
    <2>. QED BY <1>k, <2>1, <2>2, <2>3
  <1>13. CASE SyncWal
    <2>1. life = "usable" /\ UNCHANGED <<life, published, walOn>>
      BY <1>13, SyncWalEffect DEF SyncWal, Busy, Control, RecoverySteps
    <2>2. roots'.cache = roots.cache /\ mem'.log = mem.log /\ mem'.roots = mem.roots /\ Known \subseteq Known'
      BY <1>13, SyncWalEffect DEF MemIs, Flushed, Known
    <2>3. InHand' = InHand /\ (Appended' <=> Appended)
      BY <1>13, <2>1, SyncWalEffect DEF Moved, InHand, Appended, At, Control, LegacySteps, WalSteps
    <2>. QED BY <1>k, <2>1, <2>2, <2>3
  <1>14. CASE FoldObjects
    <2>1. life = "usable" /\ UNCHANGED <<life, published, walOn>>
      BY <1>14, FoldObjectsEffect DEF FoldObjects, Busy, Control, RecoverySteps
    <2>2. roots'.cache = roots.cache /\ mem'.log = mem.log /\ mem'.roots = mem.roots /\ Known \subseteq Known'
      BY <1>14, FoldObjectsEffect DEF MemIs, Flushed, Known
    <2>3. InHand' = InHand /\ (Appended' <=> Appended)
      BY <1>14, <2>1, FoldObjectsEffect DEF Moved, InHand, Appended, At, Control, LegacySteps, WalSteps
    <2>. QED BY <1>k, <2>1, <2>2, <2>3
  <1>15. CASE FoldRoots
    <2>1. life = "usable" /\ UNCHANGED <<life, published, walOn>> /\ job # None /\ job.step = "foldRoots"
      BY <1>15, FoldRootsEffect DEF FoldRoots, Busy, Control, RecoverySteps
    <2>2. ~Appended /\ ~Appended' /\ InHand' = InHand
      BY <1>15, <2>1, FoldRootsEffect DEF Moved, InHand, Appended, At
    <2>3. mem'.log = <<>> /\ mem'.roots = mem.roots /\ Known' = Known /\ roots'.cache = rc \o lg
      BY <1>15, <1>c, <1>d, FoldRootsEffect DEF MemIs, Known, Wrote
    <2>4. PICK rts, known : rts = mem.roots /\ known = Known
      OBVIOUS
    <2>5. Behind(rc, lg, acc, rts, known)
      BY <1>a, <1>c, <1>d, <1>e, <2>1, <2>2, <2>4 DEF Serving
    <2>6. Behind(rc \o lg, <<>>, acc, rts, known)
      BY <2>5, BehindFold
    <2>7. Behind(roots'.cache, mem'.log, InHand', mem'.roots, Known')
      BY <1>e, <2>2, <2>3, <2>4, <2>6
    <2>8. Linked(roots'.cache)
      <3>1. rc \o lg \in Seq(Nat)
        BY <1>f
      <3>2. Prefix(rc \o lg, rc \o lg \o acc) /\ rc \o lg \o acc \in Seq(Nat)
        <4>1. PICK h \in Seq(Nat) : h = rc \o lg
          BY <3>1
        <4>2. Prefix(h, h \o acc) /\ h \o acc \in Seq(Nat)
          BY <1>f, ConcatPrefix
        <4>. QED BY <4>1, <4>2
      <3>3. Linked(rc \o lg)
        BY <2>5, <3>1, <3>2, LinkedPrefix DEF Behind
      <3>. QED BY <2>3, <3>3
    <2>. QED BY <1>b, <2>1, <2>2, <2>3, <2>7, <2>8 DEF ServesNext, Serving
  <1>16. CASE FoldSyncObjects
    <2>1. life = "usable" /\ UNCHANGED <<life, published, walOn>>
      BY <1>16, FoldSyncObjectsEffect DEF FoldSyncObjects, Busy, Control, RecoverySteps
    <2>2. roots'.cache = roots.cache /\ mem'.log = mem.log /\ mem'.roots = mem.roots /\ Known \subseteq Known'
      BY <1>16, FoldSyncObjectsEffect DEF MemIs, Flushed, Known
    <2>3. InHand' = InHand /\ (Appended' <=> Appended)
      BY <1>16, <2>1, FoldSyncObjectsEffect DEF Moved, InHand, Appended, At, Control, LegacySteps, WalSteps
    <2>. QED BY <1>k, <2>1, <2>2, <2>3
  <1>17. CASE FoldSyncRoots
    <2>1. life = "usable" /\ UNCHANGED <<life, published, walOn>>
      BY <1>17, FoldSyncRootsEffect DEF FoldSyncRoots, Busy, Control, RecoverySteps
    <2>2. roots'.cache = roots.cache /\ mem'.log = mem.log /\ mem'.roots = mem.roots /\ Known \subseteq Known'
      BY <1>17, FoldSyncRootsEffect DEF MemIs, Flushed, Known
    <2>3. InHand' = InHand /\ (Appended' <=> Appended)
      BY <1>17, <2>1, FoldSyncRootsEffect DEF Moved, InHand, Appended, At, Control, LegacySteps, WalSteps
    <2>. QED BY <1>k, <2>1, <2>2, <2>3
  <1>18. CASE TruncateWal
    <2>1. life = "usable" /\ UNCHANGED <<life, published, walOn>>
      BY <1>18, TruncateWalEffect DEF TruncateWal, Busy, Control, RecoverySteps
    <2>2. roots'.cache = roots.cache /\ mem'.log = mem.log /\ mem'.roots = mem.roots /\ Known \subseteq Known'
      BY <1>18, TruncateWalEffect DEF MemIs, Flushed, Known
    <2>3. InHand' = InHand /\ (Appended' <=> Appended)
      BY <1>18, <2>1, TruncateWalEffect DEF Moved, InHand, Appended, At, Control, LegacySteps, WalSteps
    <2>. QED BY <1>k, <2>1, <2>2, <2>3
  <1>19. CASE SyncReplayed
    <2>1. life # "usable"
      BY <1>19 DEF SyncReplayed, Busy, Control, RecoverySteps
    <2>. QED BY <1>19, <1>n, <2>1, SyncReplayedEffect DEF Flushed
  <1>20. CASE RetireWal
    <2>1. life # "usable"
      BY <1>20 DEF RetireWal, Busy, Control, RecoverySteps
    <2>. QED BY <1>20, <1>n, <2>1, RetireWalEffect DEF Flushed
  <1>21. CASE Publish
    <2>1. job # None /\ job.step = "publish" /\ At({"publish"}) /\ job' = None /\ UNCHANGED <<walOn, roots, life>>
      BY <1>21, PublishEffect DEF At, Ended
    <2>2. life = "usable" /\ InHand = job.accepted /\ InHand' = <<>> /\ ~Appended' /\ (Appended <=> ~walOn)
      BY <2>1 DEF Control, RecoverySteps, InHand, Appended, At
    <2>3. PICK rts, known, more : rts = mem.roots /\ known = Known /\ more = Known'
      OBVIOUS
    <2>4. known \subseteq more /\ job.objs \subseteq more
      BY <1>21, <2>3, PublishEffect DEF MemIs, Known
    <2>5. \A t \in Range(acc) : Closure(t) \subseteq more
      <3>1. ASSUME NEW t \in Range(acc)
            PROVE  Closure(t) \subseteq more
        <4>1. PICK i \in 1 .. Len(job.accepted) : t = job.accepted[i]
          <5>1. DOMAIN job.accepted = 1 .. Len(job.accepted)
            BY <2>1, FieldTypes
          <5>. QED BY <1>e, <2>2, <3>1, <5>1 DEF Range
        <4>2. Closure(t) \subseteq Known \cup job.objs
          BY <2>1, <4>1 DEF Prepared, At, Steps, RecoverySteps
        <4>. QED BY <2>3, <2>4, <4>2
      <3>. QED BY <3>1
    <2>6. PICK after : after = mem'.roots
      OBVIOUS
    <2>7. Serving(Appended, rc, lg, acc, rts, known)
      BY <1>a, <1>c, <1>d, <1>e, <2>2, <2>3
    <2>8. \A p \in Principals : after[p] = RootAfter(acc, rts, p) /\ Closure(after[p]) \subseteq more
      <3>1. \A p \in Principals : Closure(rts[p]) \subseteq known
        BY <2>7 DEF Serving, Ahead, Behind
      <3>2. ASSUME NEW p \in Principals
            PROVE  after[p] = RootAfter(acc, rts, p)
        <4>1. after[p] = PendingRoot(p)
          BY <1>21, <2>6, PublishEffect DEF MemIs
        <4>. QED BY <1>e, <2>2, <2>3, <4>1 DEF PendingRoot, RootAfter
      <3>3. ASSUME NEW p \in Principals
            PROVE  Closure(RootAfter(acc, rts, p)) \subseteq more
        BY <1>f, <2>4, <2>5, <3>1, AfterClosed
      <3>. QED BY <3>2, <3>3
    <2>9. Behind(roots'.cache, mem'.log, InHand', mem'.roots, Known')
      <3>1. CASE walOn
        <4>1. Behind(rc, lg, acc, rts, known)
          BY <2>2, <2>7, <3>1 DEF Serving
        <4>2. Behind(rc, lg \o acc, <<>>, after, more)
          BY <2>8, <4>1, BehindPublish
        <4>3. mem'.log = lg \o acc
          BY <1>21, <1>d, <1>e, <2>2, <3>1, PublishEffect DEF MemIs
        <4>. QED BY <1>c, <2>1, <2>2, <2>3, <2>6, <4>2, <4>3
      <3>2. CASE ~walOn
        <4>1. Ahead(rc, acc, rts, known) /\ lg = <<>>
          BY <2>2, <2>7, <3>2 DEF Serving
        <4>2. Behind(rc, <<>>, <<>>, after, more)
          BY <2>8, <4>1, AheadPublish
        <4>3. mem'.log = <<>>
          BY <1>21, <1>d, <3>2, <4>1, PublishEffect DEF MemIs
        <4>. QED BY <1>c, <2>1, <2>2, <2>3, <2>6, <4>2, <4>3
      <3>. QED BY <3>1, <3>2
    <2>10. Linked(roots'.cache) /\ published' = mem'.roots
      BY <1>21, <1>b, <2>1, PublishEffect
    <2>. QED BY <2>2, <2>9, <2>10 DEF ServesNext, Serving
  <1>22. CASE SyncTruncation
    <2>1. life = "usable" /\ UNCHANGED <<life, published, walOn, roots>> /\ job # None /\ job.step = "truncateSync"
      BY <1>22, SyncTruncationEffect DEF Control, RecoverySteps, FoldSteps
    <2>2. mem'.log = mem.log /\ mem'.roots = mem.roots /\ Known \subseteq Known'
      BY <1>22, SyncTruncationEffect DEF MemIs, Known
    <2>3. job.next = "end" => job.accepted = <<>>
      BY <2>1 DEF Control, FoldSteps
    <2>4. InHand' = InHand
      BY <1>22, <2>1, <2>3, SyncTruncationEffect DEF Moved, InHand, Ended
    <2>5. ~Appended /\ ~Appended'
      BY <1>22, <2>1, SyncTruncationEffect DEF Moved, Appended, At, Ended
    <2>. QED BY <1>k, <2>1, <2>2, <2>4, <2>5
  <1>23. CASE Scan
    <2>1. life # "usable"
      BY <1>23 DEF Scan, Busy, Control, RecoverySteps
    <2>. QED BY <1>23, <1>n, <2>1, ScanEffect DEF Flushed
  <1>24. CASE ReplayObjects
    <2>1. life # "usable"
      BY <1>24 DEF ReplayObjects, Busy, Control, RecoverySteps
    <2>. QED BY <1>24, <1>n, <2>1, ReplayObjectsEffect DEF Flushed
  <1>25. CASE ReplayRoot
    <2>1. /\ life # "usable" /\ job.k \in 1 .. Len(wal.cache)
          /\ mem.roots = RootsIn(roots.cache)
      BY <1>25 DEF ReplayRoot, Busy, Control, Recovering, At, RecoverySteps
    <2>2. UNCHANGED life
      BY <1>25, <2>1, ReplayRootEffect
    <2>3. CASE roots'.cache = roots.cache
      BY <1>n, <2>1, <2>2, <2>3
    <2>4. CASE roots'.cache # roots.cache
      <3>1. PICK t \in Nat : t = wal.cache[job.k].txn
        BY <1>25, <2>1, ReplayRootEffect
      <3>2. t \in Ids
        <4>1. job.k \in DOMAIN wal.cache
          BY <2>1, FieldTypes
        <4>. QED BY <3>1, <4>1, RecordIds DEF Logged
      <3>3. PICK q \in Principals : q = OfPrincipal(t)
        BY <3>2, ObjectFacts DEF Txn, OfPrincipal
      <3>4. roots'.cache = Append(roots.cache, t) /\ mem.roots[q] = txns[t].expected
        BY <1>25, <2>1, <2>4, <3>1, <3>3, ReplayRootEffect
      <3>5. txns[t].expected = RootIn(rc, q)
        BY <1>c, <2>1, <3>4 DEF RootsIn
      <3>6. Linked(Append(rc, t))
        BY <1>b, <1>c, <3>2, <3>3, <3>5, LinkedAppend
      <3>. QED BY <1>c, <2>1, <2>2, <3>4, <3>6 DEF ServesNext
    <2>. QED BY <2>3, <2>4
  <1>26. CASE SyncRetirement
    <2>1. life # "usable"
      BY <1>26 DEF SyncRetirement, Busy, Control, RecoverySteps
    <2>. QED BY <1>26, <1>n, <2>1, SyncRetirementEffect DEF Flushed
  <1>27. CASE Install
    <2>0. job # None /\ life # "usable"
      BY <1>27 DEF Install, Busy, Control, RecoverySteps
    <2>1. CASE life' # "usable"
      BY <1>27, <1>n, <2>1, InstallEffect
    <2>2. CASE life' = "usable"
      <3>1. /\ \A p \in Principals : Closure(mem.roots[p]) \subseteq mem.index
            /\ roots'.cache = roots.cache /\ published' = mem.roots /\ mem' = mem
        BY <1>27, <2>0, <2>2, InstallEffect
      <3>2. mem.log = <<>> /\ mem.roots = RootsIn(roots.cache) /\ job.accepted = <<>>
        BY <1>27 DEF Install, Busy, Control, Recovering, At, RecoverySteps
      <3>3. InHand' = <<>> /\ ~Appended'
        BY <1>27, <2>0, <2>2, <3>2, InstallEffect DEF InHand, Appended, At, Ended
      <3>4. PICK rts, known : rts = mem.roots /\ known = Known
        OBVIOUS
      <3>5. \A p \in Principals : rts[p] = RootIn(rc, p) /\ Closure(rts[p]) \subseteq known
        BY <1>c, <3>1, <3>2, <3>4 DEF RootsIn, Known
      <3>6. Behind(rc, <<>>, <<>>, rts, known)
        BY <1>b, <1>c, <3>5, BehindInstall
      <3>7. Behind(roots'.cache, mem'.log, InHand', mem'.roots, Known')
        BY <1>c, <3>1, <3>2, <3>3, <3>4, <3>6 DEF Known
      <3>. QED BY <1>b, <3>1, <3>3, <3>7 DEF ServesNext, Serving
    <2>. QED BY <2>1, <2>2
  <1>28. CASE IoError
    <2>1. job # None /\ life' # "usable"
      BY <1>28, IoErrorEffect DEF Types
    <2>2. PICK s \in Seq(Nat) :
            /\ roots'.cache = roots.cache \o s
            /\ \/ s = <<>>
               \/ job.step = "roots" /\ Cut(s, job.accepted)
               \/ job.step = "foldRoots" /\ Cut(s, mem.log)
      BY <1>28, IoErrorEffect DEF Wrote
    <2>3. CASE s = <<>>
      <3>1. rc \o s = rc
        BY <1>f, <2>3
      <3>. QED BY <1>c, <1>n, <2>1, <2>2, <3>1
    <2>4. CASE job.step = "roots" /\ Cut(s, job.accepted)
      <3>1. life = "usable" /\ ~Appended /\ ~walOn /\ lg = <<>> /\ acc = job.accepted
        BY <1>d, <1>e, <2>1, <2>4 DEF Control, RecoverySteps, LegacySteps, Appended, At, Files, InHand
      <3>2. Linked(rc \o lg \o acc)
        BY <1>a, <1>c, <1>d, <1>e, <3>1 DEF Serving, Behind
      <3>3. rc \o lg = rc
        BY <1>f, <3>1
      <3>4. Prefix(s, acc)
        BY <1>f, <2>4, <3>1, CutPrefix
      <3>5. Prefix(rc \o s, rc \o acc) /\ rc \o s \in Seq(Nat) /\ rc \o acc \in Seq(Nat)
        BY <1>f, <3>4, ConcatPrefix
      <3>. QED BY <1>c, <1>p, <2>1, <2>2, <3>2, <3>3, <3>5
    <2>5. CASE job.step = "foldRoots" /\ Cut(s, mem.log)
      <3>1. life = "usable" /\ ~Appended
        BY <2>1, <2>5 DEF Control, RecoverySteps, Appended, At
      <3>2. Linked(rc \o lg \o acc)
        BY <1>a, <1>c, <1>d, <1>e, <3>1 DEF Serving, Behind
      <3>3. Prefix(s, lg)
        BY <1>d, <1>f, <2>5, CutPrefix
      <3>4. Prefix(rc \o s, rc \o lg) /\ rc \o s \in Seq(Nat) /\ rc \o lg \in Seq(Nat)
        BY <1>f, <3>3, ConcatPrefix
      <3>5. Prefix(rc \o lg, rc \o lg \o acc) /\ rc \o lg \o acc \in Seq(Nat)
        <4>1. PICK h \in Seq(Nat) : h = rc \o lg
          BY <3>4
        <4>2. Prefix(h, h \o acc) /\ h \o acc \in Seq(Nat)
          BY <1>f, ConcatPrefix
        <4>. QED BY <4>1, <4>2
      <3>6. Linked(rc \o lg)
        BY <3>2, <3>4, <3>5, LinkedPrefix
      <3>. QED BY <1>c, <1>p, <2>1, <2>2, <3>4, <3>6
    <2>. QED BY <2>2, <2>3, <2>4, <2>5
  <1>29. CASE ProcessCrash
    BY <1>29, <1>n, ProcessCrashEffect DEF Stopped
  <1>30. CASE PowerLoss
    <2>1. life' # "usable"
      BY <1>30, PowerLossEffect DEF Stopped
    <2>2. CASE Left(roots, roots'.cache)
      <3>1. PICK j \in Seq(Nat) : j = roots'.cache /\ Prefix(j, roots.cache)
        BY <2>2, LeftPrefix DEF Types
      <3>. QED BY <1>b, <1>c, <1>f, <1>p, <2>1, <3>1
    <2>3. CASE roots'.cache = roots.disk
      <3>1. PICK j \in Seq(Nat) : j = roots'.cache /\ Prefix(j, roots.cache)
        BY <2>3, FieldTypes DEF Files
      <3>. QED BY <1>b, <1>c, <1>f, <1>p, <2>1, <3>1
    <2>. QED BY <1>30, <2>2, <2>3, PowerLossEffect
  <1>. QED BY Cases, <1>0, <1>1, <1>2, <1>3, <1>4, <1>5, <1>6, <1>7, <1>8, <1>9, <1>10, <1>11, <1>12,
              <1>13, <1>14, <1>15, <1>16, <1>17, <1>18, <1>19, <1>20, <1>21, <1>22, <1>23, <1>24,
              <1>25, <1>26, <1>27, <1>28, <1>29, <1>30

\* Everything the next state names was submitted before the step.
LEMMA RecordsNext ==
  ASSUME IInv, [Next]_vars
  PROVE  roots'.cache \in Journals /\ mem'.log \in Journals /\ InHand' \in Journals
  <1>. USE DEF IInv
  <1>1. Traces' \subseteq Ids \cup Blobs
    <2>1. CASE Prepare
      BY <2>1, PrepareTraces, PrepareEffect DEF Submitted
    <2>2. CASE ~Prepare
      BY <2>2, TracesNext DEF Submitted
    <2>. QED BY <2>1, <2>2
  <1>2. PICK rc \in Seq(Nat) : rc = roots'.cache
    BY ControlNext, FileWrite DEF Types
  <1>3. PICK lg \in Seq(Nat) : lg = mem'.log
    BY ControlNext DEF Types, MemRec
  <1>4. PICK acc \in Seq(Nat) : acc = InHand'
    <2>1. CASE job' = None
      BY <2>1, EmptyOps DEF InHand
    <2>2. CASE job' # None
      BY <2>2, ControlNext DEF InHand, Types, Job
    <2>. QED BY <2>1, <2>2
  <1>5. Range(rc) \subseteq Nat /\ Range(lg) \subseteq Nat /\ Range(acc) \subseteq Nat
    BY RangeOps
  <1>6. Range(rc) \subseteq Ids \cup Blobs /\ Range(lg) \subseteq Ids \cup Blobs
    BY <1>1, <1>2, <1>3 DEF Traces
  <1>7. Range(acc) \subseteq Ids \cup Blobs
    <2>1. CASE job' = None
      BY <1>4, <2>1, EmptyOps DEF InHand
    <2>2. CASE job' # None
      BY <1>1, <1>4, <2>2 DEF InHand, Traces, InBatch
    <2>. QED BY <2>1, <2>2
  <1>. QED BY <1>2, <1>3, <1>4, <1>5, <1>6, <1>7, EngineAssumption DEF Journals

\* The engine serves what its journal and its overlay leave.
LEMMA ServedNext ==
  ASSUME IInv, [Next]_vars
  PROVE  Served'
  <1>. USE DEF IInv
  <1>1. ServesNext
    BY ServesStep
  <1>2. PICK rc \in Journals : rc = roots'.cache
    BY RecordsNext
  <1>3. PICK lg \in Journals : lg = mem'.log
    BY RecordsNext
  <1>4. PICK acc \in Journals : acc = InHand'
    BY RecordsNext
  <1>5. PICK rts : rts = mem'.roots
    OBVIOUS
  <1>6. PICK known : known = Known'
    OBVIOUS
  <1>7. Linked(roots.cache)'
    <2>1. Linked(rc)
      BY <1>1, <1>2 DEF ServesNext
    <2>2. Linked(rc)'
      BY <2>1, LinkedStable
    <2>. QED BY <1>2, <2>2 DEF Linked
  <1>8. ASSUME life' = "usable", ~Appended'
        PROVE  /\ Linked(Journal)' /\ mem'.roots = RootsIn(roots.cache \o mem.log)'
               /\ \A p \in Principals : Closure(mem.roots[p])' \subseteq Known'
    <2>1. Behind(rc, lg, acc, rts, known)
      BY <1>1, <1>2, <1>3, <1>4, <1>5, <1>6, <1>8 DEF ServesNext, Serving
    <2>2. PICK base \in Journals : base = rc \o lg
      BY JournalOps
    <2>3. PICK all \in Journals : all = base \o acc
      BY JournalOps
    <2>4. Linked(all)'
      <3>1. Linked(all)
        BY <2>1, <2>2, <2>3 DEF Behind
      <3>. QED BY <3>1, LinkedStable
    <2>5. PICK journal : journal = Journal'
      OBVIOUS
    <2>6. journal = all
      <3>1. CASE job' = None
        <4>1. acc = <<>> /\ journal = base
          BY <1>2, <1>3, <1>4, <2>2, <2>5, <3>1 DEF InHand, Journal
        <4>2. base \o <<>> = base
          BY JournalOps
        <4>. QED BY <2>3, <4>1, <4>2
      <3>2. CASE job' # None
        BY <1>2, <1>3, <1>4, <1>8, <2>2, <2>3, <2>5, <3>2 DEF InHand, Journal
      <3>. QED BY <3>1, <3>2
    <2>7. Linked(Journal)'
      BY <2>4, <2>5, <2>6 DEF Linked
    <2>8. ASSUME NEW p \in Principals
          PROVE  rts[p] = RootIn(base, p)'
      <3>1. base \in Seq(Nat) /\ Range(base) \subseteq Ids
        BY DEF Journals
      <3>2. RootIn(base, p)' = RootIn(base, p)
        BY <3>1, RootStable
      <3>. QED BY <2>1, <2>2, <3>2 DEF Behind
    <2>9. rts = RootsIn(base)'
      <3>1. rts \in [Principals -> Nat]
        BY <1>5, ControlNext DEF Types, MemRec
      <3>. QED BY <2>8, <3>1 DEF RootsIn
    <2>10. RootsIn(roots.cache \o mem.log)' = RootsIn(base)'
      BY <1>2, <1>3, <2>2 DEF RootsIn, RootIn
    <2>11. ASSUME NEW p \in Principals
          PROVE  Closure(mem.roots[p])' \subseteq Known'
      <3>1. PICK r \in Ids \cup {NoRoot} : r = mem'.roots[p]
        <4>1. PICK n \in Nat : n = Len(txns)
          BY DEF Types
        <4>2. mem'.roots[p] \in 0 .. n
          BY <4>1, RootsNext
        <4>3. 0 .. n = (1 .. n) \cup {0}
          OBVIOUS
        <4>. QED BY <4>1, <4>2, <4>3 DEF Ids, NoRoot
      <3>2. Closure(r)' = Closure(r)
        BY TxnStable
      <3>3. Closure(r) \subseteq known
        BY <1>5, <2>1, <3>1 DEF Behind
      <3>4. Closure(mem.roots[p])' = Closure(r)'
        BY <3>1 DEF Closure
      <3>. QED BY <1>6, <3>2, <3>3, <3>4
    <2>. QED BY <1>5, <2>7, <2>9, <2>10, <2>11
  <1>9. ASSUME life' = "usable", Appended'
        PROVE  /\ Linked(Journal)' /\ \A p \in Principals : PendingRoot(p)' = RootIn(roots.cache, p)'
               /\ \A p \in Principals : Closure(mem.roots[p])' \subseteq Known'
    <2>1. Ahead(rc, acc, rts, known) /\ lg = <<>>
      BY <1>1, <1>2, <1>3, <1>4, <1>5, <1>6, <1>9 DEF ServesNext, Serving
    <2>2. rc \o lg = rc
      BY <2>1, JournalOps
    <2>3. PICK journal : journal = Journal'
      OBVIOUS
    <2>4. journal = rc
      BY <1>2, <1>3, <1>9, <2>2, <2>3 DEF Journal
    <2>5. Linked(Journal)'
      <3>1. Linked(rc)'
        BY <2>1, LinkedStable DEF Ahead
      <3>. QED BY <2>3, <2>4, <3>1 DEF Linked
    <2>6. ASSUME NEW p \in Principals
          PROVE  PendingRoot(p)' = RootIn(roots.cache, p)'
      <3>1. rc \in Seq(Nat) /\ Range(rc) \subseteq Ids /\ acc \in Seq(Nat) /\ Range(acc) \subseteq Ids
        BY DEF Journals
      <3>2. RootIn(rc, p)' = RootIn(rc, p) /\ RootIn(acc, p)' = RootIn(acc, p)
        BY <3>1, RootStable
      <3>3. RootAfter(acc, rts, p) = RootIn(rc, p)
        BY <2>1 DEF Ahead
      <3>4. acc = job'.accepted
        BY <1>4, <1>9 DEF InHand, Appended, At
      <3>5. RootIn(roots.cache, p)' = RootIn(rc, p)' /\ RootIn(job.accepted, p)' = RootIn(acc, p)'
        BY <1>2, <3>4 DEF RootIn
      <3>6. PendingRoot(p)' = IF RootIn(job.accepted, p)' = NoRoot THEN mem'.roots[p] ELSE RootIn(job.accepted, p)'
        BY DEF PendingRoot, NoRoot
      <3>. QED BY <1>5, <3>2, <3>3, <3>5, <3>6 DEF RootAfter
    <2>7. ASSUME NEW p \in Principals
          PROVE  Closure(mem.roots[p])' \subseteq Known'
      <3>1. PICK r \in Ids \cup {NoRoot} : r = mem'.roots[p]
        <4>1. PICK n \in Nat : n = Len(txns)
          BY DEF Types
        <4>2. mem'.roots[p] \in 0 .. n
          BY <4>1, RootsNext
        <4>3. 0 .. n = (1 .. n) \cup {0}
          OBVIOUS
        <4>. QED BY <4>1, <4>2, <4>3 DEF Ids, NoRoot
      <3>2. Closure(r)' = Closure(r)
        BY TxnStable
      <3>3. Closure(r) \subseteq known
        BY <1>5, <2>1, <3>1 DEF Ahead
      <3>4. Closure(mem.roots[p])' = Closure(r)'
        BY <3>1 DEF Closure
      <3>. QED BY <1>6, <3>2, <3>3, <3>4
    <2>. QED BY <2>5, <2>6, <2>7
  <1>10. life' = "usable" => published' = mem'.roots
    BY <1>1 DEF ServesNext
  <1>. QED BY <1>7, <1>8, <1>9, <1>10 DEF Served

\* Everything acknowledged, and the batch that is published, is in the journal.
LEMMA JournalHolds ==
  ASSUME IInv, life = "usable", job = None \/ job.step \in {"prepare", "publish"}
  PROVE  /\ Journal \in Journals
         /\ acked \subseteq Range(Journal)
         /\ job # None => Range(job.accepted) \subseteq Range(Journal)
         /\ job = None \/ job.step = "prepare" => acked \subseteq Range(roots.cache \o mem.log)
  <1>. USE DEF IInv
  <1>1. PICK rc \in Journals : rc = roots.cache
    BY ServedForm
  <1>2. PICK lg \in Journals : lg = mem.log
    BY ServedForm
  <1>3. PICK acc \in Journals : acc = InHand
    BY ServedForm
  <1>4. PICK base \in Journals : base = rc \o lg
    BY JournalOps
  <1>5. PICK all \in Journals : all = base \o acc
    BY JournalOps
  <1>6. Range(base) = Range(rc) \cup Range(lg) /\ Range(all) = Range(base) \cup Range(acc)
    <2>1. rc \in Seq(Nat) /\ lg \in Seq(Nat) /\ acc \in Seq(Nat) /\ base \in Seq(Nat)
      BY JournalOps
    <2>2. Range(rc \o lg) = Range(rc) \cup Range(lg)
      BY <2>1, RangeOps
    <2>3. Range(base \o acc) = Range(base) \cup Range(acc)
      BY <2>1, RangeOps
    <2>. QED BY <1>4, <1>5, <2>2, <2>3
  <1>7. Journal = base \/ Journal = all
    BY <1>1, <1>2, <1>3, <1>4, <1>5 DEF Journal, InHand
  <1>8. ~Appended => Journal = all
    <2>1. CASE job = None
      <3>1. acc = <<>> /\ Journal = base
        BY <1>1, <1>2, <1>3, <1>4, <2>1 DEF Journal, InHand
      <3>2. base \o <<>> = base
        BY JournalOps
      <3>. QED BY <1>5, <3>1, <3>2
    <2>2. CASE job # None
      BY <1>1, <1>2, <1>3, <1>4, <1>5, <2>2 DEF Journal, InHand
    <2>. QED BY <2>1, <2>2
  <1>9. Range(roots.disk) \subseteq Range(rc)
    BY <1>1, FieldTypes, PrefixRange DEF Files
  <1>10. job # None => Range(job.accepted) \subseteq Range(Journal)
    <2>1. CASE Appended /\ job # None
      <3>1. Range(job.accepted) \subseteq Range(roots.disk)
        BY <2>1 DEF Persisting, Appended, At
      <3>. QED BY <1>6, <1>7, <1>9, <3>1
    <2>2. CASE ~Appended /\ job # None
      BY <1>3, <1>6, <1>8, <2>2 DEF InHand
    <2>. QED BY <2>1, <2>2
  <1>11. /\ Logged(wal.disk) \subseteq Range(base) \cup (IF At({"publish"}) THEN Range(job.accepted) ELSE {})
    <2>1. Prefix(wal.disk, wal.cache)
      BY DEF Overlay, At
    <2>2. Logged(wal.disk) \subseteq Logged(wal.cache)
      BY <2>1, FieldTypes, PrefixLog
    <2>3. Logged(wal.cache) \subseteq Range(rc) \cup Range(lg) \cup (IF At({"publish"}) THEN Range(job.accepted) ELSE {})
      BY <1>1, <1>2 DEF Overlay, At
    <2>. QED BY <1>6, <2>2, <2>3
  <1>12. acked \subseteq Range(base) \cup (IF At({"publish"}) THEN Range(job.accepted) ELSE {})
    BY <1>6, <1>9, <1>11 DEF AckedDurable
  <1>13. acked \subseteq Range(Journal)
    BY <1>6, <1>7, <1>10, <1>12 DEF At
  <1>14. job = None \/ job.step = "prepare" => acked \subseteq Range(base)
    BY <1>12 DEF At
  <1>. QED BY <1>1, <1>2, <1>4, <1>5, <1>7, <1>10, <1>13, <1>14

\* Two transactions of a linked journal do not replace the same root.
LEMMA LinkedDistinct ==
  ASSUME IInv, NEW journal \in Journals, Linked(journal),
         NEW s \in Range(journal), NEW t \in Range(journal),
         OfPrincipal(s) = OfPrincipal(t), txns[s].expected = txns[t].expected
  PROVE  s = t
  <1>. USE DEF IInv
  <1>0. DOMAIN journal = 1 .. Len(journal) /\ Len(journal) \in Nat /\ s \in Ids /\ t \in Ids
    BY DEF Journals
  <1>1. PICK i \in 1 .. Len(journal) : s = journal[i]
    BY <1>0 DEF Range
  <1>2. PICK j \in 1 .. Len(journal) : t = journal[j]
    BY <1>0 DEF Range
  <1>3. /\ txns[s].expected \in Nat /\ txns[t].expected \in Nat /\ s \in Nat /\ t \in Nat
        /\ txns[s].expected < s /\ txns[t].expected < t
    BY <1>0, ObjectFacts DEF Submitted, Txn
  <1>4. CASE i < j
    <2>1. s <= txns[t].expected
      BY <1>1, <1>2, <1>4 DEF Linked
    <2>. QED BY <1>3, <2>1
  <1>5. CASE j < i
    <2>1. t <= txns[s].expected
      BY <1>1, <1>2, <1>5 DEF Linked
    <2>. QED BY <1>3, <2>1
  <1>6. CASE i = j
    BY <1>1, <1>2, <1>6
  <1>. QED BY <1>0, <1>4, <1>5, <1>6

\* No commit replaces a root that another successful commit has replaced.
LEMMA NoLostUpdateNext ==
  ASSUME IInv, [Next]_vars
  PROVE  NoLostUpdate'
  <1>. USE DEF IInv
  <1>1. ASSUME NEW s \in acked', NEW t \in acked',
               OfPrincipal(s) = OfPrincipal(t), txns[s].expected = txns[t].expected
        PROVE  s = t
    <2>1. CASE Publish
      <3>1. life = "usable" /\ job # None /\ job.step = "publish" /\ acked' = acked \cup Range(job.accepted)
        BY <2>1, PublishEffect DEF Control, RecoverySteps
      <3>2. PICK j \in Journals : j = Journal
        BY <3>1, JournalHolds
      <3>3. s \in Range(j) /\ t \in Range(j)
        BY <1>1, <3>1, <3>2, JournalHolds
      <3>4. Linked(j)
        BY <3>1, <3>2 DEF Served
      <3>. QED BY <1>1, <3>3, <3>4, LinkedDistinct
    <2>2. CASE acked' = acked
      BY <1>1, <2>2 DEF NoLostUpdate
    <2>. QED BY <2>1, <2>2, FrameNext
  <1>2. acked' \subseteq Ids
    <2>1. CASE Publish
      BY <2>1, PublishEffect, AcceptedFacts DEF Submitted
    <2>2. CASE acked' = acked
      BY <2>2 DEF Submitted
    <2>. QED BY <2>1, <2>2, FrameNext
  <1>3. \A t \in acked' : OfPrincipal(t)' = OfPrincipal(t) /\ txns'[t] = txns[t]
    BY <1>2, TxnStable DEF Ids, NoRoot
  <1>. QED BY <1>1, <1>3 DEF NoLostUpdate

-----------------------------------------------------------------------------
(* The theorems *)

\* A new store satisfies the inductive invariant.
LEMMA InitIInv ==
  ASSUME Init
  PROVE  IInv
  <1>. USE DEF Init
  <1>0. /\ \A S : <<>> \in Seq(S)
        /\ Range(<<>>) = {} /\ Logged(<<>>) = {} /\ LoggedObjects(<<>>) = {}
    BY EmptyOps
  <1>1. /\ arena.disk = {} /\ arena.cache = {} /\ roots.disk = <<>> /\ roots.cache = <<>>
        /\ wal.disk = <<>> /\ wal.cache = <<>> /\ Len(txns) = 0 /\ Ids = {}
        /\ mem.index = {} /\ mem.staged = {} /\ mem.objs = {} /\ mem.log = <<>>
        /\ mem.roots = [p \in Principals |-> 0] /\ mem.roots \in [Principals -> Nat]
    BY DEF Ids, EmptyMem, NoRoot
  <1>2. Types
    <2>1. mem \in MemRec
      BY <1>0 DEF EmptyMem, MemRec, NoRoot
    <2>2. call \in [Callers -> CallRec]
      BY DEF Idle, CallRec, NoRoot
    <2>3. /\ arena \in [disk : SUBSET Object, cache : SUBSET Object]
          /\ roots \in [disk : Seq(Nat), cache : Seq(Nat)]
          /\ wal \in [disk : Seq(WalRec), cache : Seq(WalRec)]
          /\ queue \in Seq(Callers) /\ txns \in Seq(Txn)
      BY <1>0
    <2>4. published \in [Principals -> Nat]
      BY DEF NoRoot
    <2>. QED BY <2>1, <2>2, <2>3, <2>4 DEF Types
  <1>3. Control
    BY DEF Control
  <1>4. Traces = {}
    BY <1>0, <1>1 DEF Traces, InBatch
  <1>5. Submitted
    BY <1>1, <1>4 DEF Submitted, NoRoot
  <1>6. OwnTxn
    <2>1. Len(queue) = 0 /\ \A c \in Callers : call[c].txn = NoRoot
      BY DEF Idle
    <2>. QED BY <1>1, <2>1 DEF OwnTxn, NoRoot, Distinct
  <1>7. Untouched
    BY <1>0, <1>4 DEF Untouched, Pending, At
  <1>8. Files /\ Overlay
    BY <1>0, <1>1 DEF Files, Overlay, Prefix, At
  <1>9. Prepared /\ Persisting /\ Folding /\ Recovering
    BY DEF Prepared, Persisting, Folding, Recovering, At
  <1>10. AckedDurable /\ NoDanglingRoot /\ NoLostUpdate
    BY DEF AckedDurable, NoDanglingRoot, NoLostUpdate
  <1>11. Rooted
    BY <1>0, <1>1 DEF Rooted
  <1>12. Served
    <2>1. ~Appended /\ Journal = <<>> /\ roots.cache \o mem.log = <<>>
      BY <1>1 DEF Appended, At, Journal
    <2>2. Linked(<<>>)
      BY DEF Linked
    <2>3. RootsIn(<<>>) = [p \in Principals |-> 0]
      BY DEF RootsIn, RootIn, NoRoot
    <2>4. \A p \in Principals : Closure(mem.roots[p]) = {}
      BY <1>1 DEF Closure, NoRoot
    <2>. QED BY <1>1, <2>1, <2>2, <2>3, <2>4 DEF Served, NoRoot
  <1>. QED BY <1>2, <1>3, <1>5, <1>6, <1>7, <1>8, <1>9, <1>10, <1>11, <1>12 DEF IInv

\* Every step of a commit, a checkpoint or a recovery, and every fault, keeps
\* the inductive invariant.
LEMMA NextIInv ==
  ASSUME IInv, [Next]_vars
  PROVE  IInv'
  BY ControlNext, SubmittedNext, CallsNext, UntouchedNext, FilesNext, OverlayNext, PreparedNext,
     PersistingNext, FoldingNext, RecoveringNext, AckedDurableNext, RootedNext, NoDanglingNext,
     ServedNext, NoLostUpdateNext DEF IInv

\* The inductive invariant of the durable engine holds in every state.
THEOREM EngineInv == Spec => []IInv
  BY InitIInv, NextIInv, PTL DEF Spec

\* What the invariant says, in the words of the properties
LEMMA IInvProperties ==
  ASSUME IInv
  PROVE  TypeOK /\ RefusedLeavesNothing /\ AckedServed
  <1>. USE DEF IInv
  <1>1. TypeOK
    <2>1. mem.roots \in [Principals -> {NoRoot} \cup Ids]
      <3>1. \A p \in Principals : mem.roots[p] \in {NoRoot} \cup Ids
        BY DEF Submitted, Ids, NoRoot, Types
      <3>. QED BY <3>1, FieldTypes
    <2>2. Range(queue) \subseteq {c \in Callers : call[c].pc \in {"lead", "waiting"}}
      <3>1. DOMAIN queue = 1 .. Len(queue) /\ \A i \in 1 .. Len(queue) : queue[i] \in Callers
        BY DEF Types
      <3>. QED BY <3>1 DEF OwnTxn, Waits, Range
    <2>3. \A c \in Callers : call[c].pc \in {"idle", "waiting", "lead", "release"}
      BY DEF Types, CallRec
    <2>. QED BY <2>1, <2>2, <2>3, RecordIds DEF TypeOK, Files, Types
  <1>2. RefusedLeavesNothing
    BY DEF RefusedLeavesNothing, Untouched, Traces
  <1>3. AckedServed
    <2>1. SUFFICES ASSUME life = "usable", job = None \/ job.step = "prepare"
                   PROVE  /\ acked \subseteq Range(roots.cache \o mem.log)
                          /\ mem.roots = RootsIn(roots.cache \o mem.log)
                          /\ published = mem.roots
                          /\ \A p \in Principals : Closure(mem.roots[p]) \subseteq Known
      BY DEF AckedServed
    <2>2. ~Appended
      BY <2>1 DEF Appended, At
    <2>3. acked \subseteq Range(roots.cache \o mem.log)
      BY <2>1, JournalHolds
    <2>. QED BY <2>1, <2>2, <2>3 DEF Served
  <1>. QED BY <1>1, <1>2, <1>3

\* The files, the queue, the calls and the engine's roots have their types,
\* and every record names a submitted transaction.
THEOREM TypeCorrect == Spec => []TypeOK
  BY EngineInv, IInvProperties, PTL

\* A commit that returned Ok survives whatever power loss comes next: its
\* root and every object it needs are flushed, in the canonical files or in
\* the transaction WAL.
THEOREM CommitsDurable == Spec => []AckedDurable
  <1>1. IInv => AckedDurable
    BY DEF IInv
  <1>. QED BY <1>1, EngineInv, PTL

\* A usable engine serves every acknowledged commit, after every recovery and
\* every partial write: its roots are what the journal and the overlay leave,
\* and it knows every object of a root.
THEOREM CommitsServed == Spec => []AckedServed
  BY EngineInv, IInvProperties, PTL

\* Two commits that both succeeded never replaced the same root.
THEOREM UpdatesKept == Spec => []NoLostUpdate
  <1>1. IInv => NoLostUpdate
    BY DEF IInv
  <1>. QED BY <1>1, EngineInv, PTL

\* A transaction refused in a group leaves nothing behind in any file.
THEOREM RefusalsClean == Spec => []RefusedLeavesNothing
  BY EngineInv, IInvProperties, PTL

\* Neither replay_transaction nor recover_roots ever finds a root whose
\* objects are gone, whatever a crash or a power loss left of the files.
THEOREM RootsComplete == Spec => []NoDanglingRoot
  <1>1. IInv => NoDanglingRoot
    BY DEF IInv
  <1>. QED BY <1>1, EngineInv, PTL

\* No step, crash or power loss takes back what was flushed: a transaction or
\* an object leaves the flushed WAL only when the flushed canonical files have
\* it.
THEOREM FlushedStays == Spec => [][FlushedKept]_vars
  BY EngineInv, FlushedKeptNext, PTL DEF Spec
=============================================================================
