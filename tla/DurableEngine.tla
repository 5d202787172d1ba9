--------------------------- MODULE DurableEngine ----------------------------
(***************************************************************************)
(* The durable principal store of crates/astrid-storage/src/engine/durable: *)
(* group commit with leader hand-off, the arena, root journal and          *)
(* transaction WAL it writes, the checkpoint that folds the WAL into the   *)
(* canonical files, and the recovery that reads them back.                 *)
(*                                                                         *)
(* The engine mutex is held for a whole batch, flush or recovery; `job' is *)
(* its holder between two file operations.  A file is what is written      *)
(* (cache) and what is known to be on the medium (disk).                   *)
(*                                                                         *)
(* Abstractions: a transaction is its number, which is also its root and   *)
(* the identity of its commit object; objects are one commit object per    *)
(* transaction and the members of Blobs; the arena is the set of its       *)
(* frames.  The index cache, representations, compaction, the decoded      *)
(* object cache and close() are left out.                                  *)
(***************************************************************************)
EXTENDS Naturals, Sequences, FiniteSets

CONSTANTS
  Callers,      \* threads that call commit
  Principals,
  Blobs,        \* objects that transactions refer to
  MaxTxns,      \* bound: transactions submitted
  MaxFaults,    \* bound: I/O errors, process crashes and power losses
  None

ASSUME EngineAssumption ==
  /\ MaxTxns \in Nat /\ MaxFaults \in Nat
  /\ None \notin Blobs
  /\ Blobs \cap Nat = {}   \* an object is a blob or a transaction, never both

\* The steps at which the engine mutex is held, and its holder
LegacySteps == {"arena", "arenaSync", "roots", "rootsSync"}
WalSteps == {"wal", "walSync"}
FoldSteps == {"fold", "foldRoots", "foldArenaSync", "foldRootsSync", "truncate", "truncateSync"}
RecoverySteps == {"scan", "replay", "replayRoot", "retire", "retireSync", "validate"}
Steps == {"prepare", "publish"} \cup LegacySteps \cup WalSteps \cup FoldSteps \cup RecoverySteps
Object == Nat \cup Blobs
Job == [batch : Seq(Callers), accepted : Seq(Nat), objs : SUBSET Object, k : Nat \ {0},
        next : {"prepare", "end", "wal"}, step : Steps]
ASSUME NoneIsNoJob == None \notin Job

VARIABLES
  walOn,     \* TransactionWalPolicy: enabled or disabled
  arena,     \* [disk, cache], sets of objects
  roots,     \* [disk, cache], sequences of transactions
  wal,       \* [disk, cache], sequences of [txn, objs]
  life,      \* "usable", "poisoned" or, when no process has it open, "down"
  mem,       \* DurableInner
  published, \* published_roots, read without the engine mutex
  leader,    \* CommitGroup.leader_active
  queue,     \* CommitGroup.queue, the callers in it
  call,      \* each caller's commit call
  job,       \* the holder of the engine mutex
  txns,      \* every transaction submitted
  acked,     \* history: transactions whose commit returned Ok
  refused,   \* history: those refused for a root conflict or missing object
  verdict,   \* history: the result of the last recovery
  faults

files == <<arena, roots, wal>>
group == <<leader, queue>>
vars == <<walOn, files, life, mem, published, group, call, job, txns, acked,
          refused, verdict, faults>>

NoRoot == 0
Ids == 1 .. Len(txns)
Idle == [pc |-> "idle", txn |-> NoRoot]
EmptyMem == [roots |-> [p \in Principals |-> NoRoot], index |-> {}, staged |-> {},
             objs |-> {}, log |-> <<>>]

Init ==
  /\ walOn \in BOOLEAN
  /\ arena = [disk |-> {}, cache |-> {}]
  /\ roots = [disk |-> <<>>, cache |-> <<>>]
  /\ wal = [disk |-> <<>>, cache |-> <<>>]
  /\ life = "usable" /\ mem = EmptyMem
  /\ published = [p \in Principals |-> NoRoot]
  /\ leader = FALSE /\ queue = <<>>
  /\ call = [c \in Callers |-> Idle]
  /\ job = None
  /\ txns = <<>> /\ acked = {} /\ refused = {}
  /\ verdict = "ok" /\ faults = 0

-----------------------------------------------------------------------------
(* Journals and closures *)

OfPrincipal(t) == txns[t].principal
\* The root that a journal of transactions leaves a principal with
RootIn(journal, p) ==
  LET own == {i \in DOMAIN journal : OfPrincipal(journal[i]) = p}
  IN  IF own = {} THEN NoRoot ELSE journal[CHOOSE i \in own : \A j \in own : j <= i]
RootsIn(journal) == [p \in Principals |-> RootIn(journal, p)]
\* apply_transition, for every record
ChainValid(journal) ==
  \A i \in DOMAIN journal :
    txns[journal[i]].expected = RootIn(SubSeq(journal, 1, i - 1), OfPrincipal(journal[i]))

Closure(t) == IF t = NoRoot THEN {} ELSE {t} \cup ({txns[t].blob} \ {None})
\* The records that come with the transaction
Incoming(t) == {t} \cup (IF txns[t].carried THEN Closure(t) ELSE {})
Known == mem.index \cup mem.objs

-----------------------------------------------------------------------------
(* Callers *)

\* stage_object: appended to the arena, not flushed
Stage(b) ==
  /\ life = "usable" /\ job = None /\ b \notin mem.index
  /\ arena' = [arena EXCEPT !.cache = @ \cup {b}]
  /\ mem' = [mem EXCEPT !.index = @ \cup {b}, !.staged = @ \cup {b}]
  /\ UNCHANGED <<walOn, roots, wal, life, published, group, call, job, txns, acked,
                 refused, verdict, faults>>

\* A reader is given the published root (root_if_ready), and the caller
\* builds its transaction on that root.
Submit(c, p, b, carried) ==
  /\ call[c].pc = "idle" /\ life # "down" /\ Len(txns) < MaxTxns
  /\ carried => b # None
  /\ txns' = Append(txns, [principal |-> p, expected |-> published[p], blob |-> b,
                           carried |-> carried])
  \* commit_inner
  /\ queue' = Append(queue, c)
  /\ leader' = TRUE
  /\ call' = [call EXCEPT ![c] = [pc |-> IF leader THEN "waiting" ELSE "lead",
                                  txn |-> Len(txns) + 1]]
  /\ UNCHANGED <<walOn, files, life, mem, published, job, acked, refused, verdict, faults>>

\* What a drain leaves in the queue
Remaining == <<>>

\* run_one_commit_group drains the queue; process_commit_batch takes the
\* engine mutex and, when the engine is poisoned, recovers it first.
Drain(c) ==
  /\ call[c].pc = "lead" /\ job = None
  /\ queue' = Remaining
  /\ job' = [batch |-> queue, accepted |-> <<>>, objs |-> {}, k |-> 1, next |-> "prepare",
             step |-> IF life = "usable" THEN "prepare" ELSE "scan"]
  /\ UNCHANGED <<walOn, files, life, mem, published, leader, call, txns, acked, refused, verdict, faults>>

\* flush: with a WAL, a checkpoint; without one, a flush of both files.
\* An engine that is down is opened.
Hold(step, next) ==
  job' = [batch |-> <<>>, accepted |-> <<>>, objs |-> {}, k |-> 1, next |-> next, step |-> step]
Flush ==
  /\ life = "usable" /\ job = None
  /\ walOn => wal.cache # <<>>
  /\ ~walOn => arena.disk # arena.cache
  /\ Hold("fold", "end")
  /\ UNCHANGED <<walOn, files, life, mem, published, group, call, txns, acked, refused, verdict, faults>>
Open ==
  /\ life = "down" /\ job = None
  /\ Hold("scan", "end")
  /\ UNCHANGED <<walOn, files, life, mem, published, group, call, txns, acked, refused, verdict, faults>>

Busy(step) == job # None /\ job.step = step
GoTo(step) == job' = [job EXCEPT !.step = step]
Batch == {job.batch[i] : i \in DOMAIN job.batch}

\* The mutex is released and every receipt of the batch completed; the leader
\* still holds its lease.
Complete ==
  /\ job' = None
  /\ call' = [c \in Callers |->
                IF c \notin Batch THEN call[c]
                ELSE IF call[c].pc = "lead" THEN [Idle EXCEPT !.pc = "release"] ELSE Idle]

\* The caller that becomes leader when the lease ends
Promoted(c) == queue # <<>> /\ c = Head(queue)

\* LeaderLease::release, and the promotion of the next leader
Release(c) ==
  /\ call[c].pc = "release"
  /\ leader' = (queue # <<>>)
  /\ call' = [d \in Callers |->
                IF d = c THEN Idle
                ELSE IF Promoted(d) THEN [call[d] EXCEPT !.pc = "lead"] ELSE call[d]]
  /\ UNCHANGED <<walOn, files, life, mem, published, queue, job, txns, acked, refused,
                 verdict, faults>>

-----------------------------------------------------------------------------
(* A batch *)

\* Mutation: transactions of one batch do not see each other.
PendingRoot_committed(p) == mem.roots[p]

\* The root that the accepted transactions of the batch leave (pending_roots)
PendingRoot(p) ==
  LET r == RootIn(job.accepted, p) IN IF r = NoRoot THEN mem.roots[p] ELSE r

\* Mutation: frames are reserved before the transaction is validated.
Reserved_unvalidated(t, ok) == job.objs \cup (Incoming(t) \ Known)

\* The frames the batch will append once t is prepared (reserve_group_frames)
Reserved(t, ok) == job.objs \cup (IF ok THEN Incoming(t) \ Known ELSE {})

\* prepare and reserve_group_frames, for the next transaction of the batch
Prepare ==
  LET t == call[job.batch[job.k]].txn
      ok == /\ txns[t].expected = PendingRoot(OfPrincipal(t))
            /\ Closure(t) \subseteq Known \cup Incoming(t)
  IN  /\ Busy("prepare") /\ job.k <= Len(job.batch)
      /\ job' = [job EXCEPT !.k = @ + 1,
                            !.accepted = IF ok THEN Append(@, t) ELSE @,
                            !.objs = Reserved(t, ok)]
      /\ refused' = IF ok THEN refused ELSE refused \cup {t}
      /\ UNCHANGED <<walOn, files, life, mem, published, group, call, txns, acked,
                     verdict, faults>>

\* persist_group: with a WAL that has grown enough, it is checkpointed first.
Persist ==
  /\ Busy("prepare") /\ job.k > Len(job.batch)
  /\ IF job.accepted = <<>> THEN Complete
     ELSE /\ \/ ~walOn /\ job' = [job EXCEPT !.step = "arena"]
             \/ walOn /\ job' = [job EXCEPT !.step = "wal"]
             \/ walOn /\ wal.cache # <<>>
                  /\ job' = [job EXCEPT !.step = "fold", !.next = "wal"]
          /\ UNCHANGED call
  /\ UNCHANGED <<walOn, files, life, mem, published, group, txns, acked, refused,
                 verdict, faults>>

\* persist_group_legacy: objects, flush, root frames, flush
AppendObjects ==
  /\ Busy("arena")
  /\ arena' = [arena EXCEPT !.cache = @ \cup job.objs]
  /\ GoTo("arenaSync")
  /\ UNCHANGED <<walOn, roots, wal, life, mem, published, group, call, txns, acked, refused, verdict, faults>>
SyncObjects ==
  /\ Busy("arenaSync")
  /\ arena' = [arena EXCEPT !.disk = arena.cache]
  /\ GoTo("roots")
  /\ UNCHANGED <<walOn, roots, wal, life, mem, published, group, call, txns, acked, refused, verdict, faults>>
AppendRoots ==
  /\ Busy("roots")
  /\ roots' = [roots EXCEPT !.cache = @ \o job.accepted]
  /\ GoTo("rootsSync")
  /\ UNCHANGED <<walOn, arena, wal, life, mem, published, group, call, txns, acked, refused, verdict, faults>>

\* Mutation: the root journal is not flushed before the receipts.
SyncRoots_deferred ==
  /\ Busy("rootsSync")
  /\ GoTo("publish")
  /\ UNCHANGED <<walOn, files, life, mem, published, group, call, txns, acked, refused, verdict, faults>>

SyncRoots ==
  /\ Busy("rootsSync")
  /\ roots' = [roots EXCEPT !.disk = roots.cache]
  /\ GoTo("publish")
  /\ UNCHANGED <<walOn, arena, wal, life, mem, published, group, call, txns, acked, refused, verdict, faults>>

\* Mutation: staged objects are taken to be durable.
WalObjects_prepared(i) == Incoming(job.accepted[i]) \cap job.objs

\* append_wal_transactions: the first transaction also carries the staged
\* objects whose arena frames are not durable (collect_unsynced_staged).
WalObjects(i) ==
  (Incoming(job.accepted[i]) \cap job.objs)
    \cup (IF i = 1 THEN mem.staged \ mem.objs ELSE {})
WalRecords == [i \in DOMAIN job.accepted |-> [txn |-> job.accepted[i], objs |-> WalObjects(i)]]
AppendWal ==
  /\ Busy("wal")
  /\ wal' = [wal EXCEPT !.cache = @ \o WalRecords]
  /\ GoTo("walSync")
  /\ UNCHANGED <<walOn, arena, roots, life, mem, published, group, call, txns, acked, refused, verdict, faults>>
SyncWal ==
  /\ Busy("walSync")
  /\ wal' = [wal EXCEPT !.disk = wal.cache]
  /\ GoTo("publish")
  /\ UNCHANGED <<walOn, arena, roots, life, mem, published, group, call, txns, acked, refused, verdict, faults>>

\* publish_commit_frontier, install_wal_overlay and publish_durable_root,
\* then the receipts
Publish ==
  LET after == [p \in Principals |-> PendingRoot(p)]
      done == {job.accepted[i] : i \in DOMAIN job.accepted}
  IN  /\ Busy("publish")
      /\ mem' = [mem EXCEPT !.roots = after, !.staged = {},
                            !.index = IF walOn THEN @ ELSE @ \cup job.objs,
                            !.objs = IF walOn THEN @ \cup job.objs \cup mem.staged ELSE @,
                            !.log = IF walOn THEN @ \o job.accepted ELSE @]
      /\ published' = after
      /\ acked' = acked \cup done
      /\ Complete
      /\ UNCHANGED <<walOn, files, life, group, txns, refused, verdict, faults>>

-----------------------------------------------------------------------------
(* The checkpoint: fold_pending_wal, then WalWriter::checkpoint *)

FoldObjects ==
  /\ Busy("fold")
  /\ arena' = [arena EXCEPT !.cache = @ \cup (mem.objs \ mem.index)]
  /\ mem' = [mem EXCEPT !.index = @ \cup mem.objs, !.objs = {}]
  /\ GoTo("foldRoots")
  /\ UNCHANGED <<walOn, roots, wal, life, published, group, call, txns, acked, refused,
                 verdict, faults>>
FoldRoots ==
  /\ Busy("foldRoots")
  /\ roots' = [roots EXCEPT !.cache = @ \o mem.log]
  /\ mem' = [mem EXCEPT !.log = <<>>]
  /\ GoTo("foldArenaSync")
  /\ UNCHANGED <<walOn, arena, wal, life, published, group, call, txns, acked, refused,
                 verdict, faults>>
FoldSyncObjects ==
  /\ Busy("foldArenaSync")
  /\ arena' = [arena EXCEPT !.disk = arena.cache]
  /\ GoTo("foldRootsSync")
  /\ UNCHANGED <<walOn, roots, wal, life, mem, published, group, call, txns, acked, refused, verdict, faults>>
FoldSyncRoots ==
  /\ Busy("foldRootsSync")
  /\ roots' = [roots EXCEPT !.disk = roots.cache]
  /\ GoTo("truncate")
  /\ UNCHANGED <<walOn, arena, wal, life, mem, published, group, call, txns, acked, refused, verdict, faults>>
TruncateWal ==
  /\ Busy("truncate")
  /\ wal' = [wal EXCEPT !.cache = <<>>]
  /\ GoTo("truncateSync")
  /\ UNCHANGED <<walOn, arena, roots, life, mem, published, group, call, txns, acked, refused, verdict, faults>>
SyncTruncation ==
  /\ Busy("truncateSync")
  /\ wal' = [wal EXCEPT !.disk = <<>>]
  /\ mem' = [mem EXCEPT !.staged = {}]
  /\ IF job.next = "end" THEN Complete ELSE GoTo(job.next) /\ UNCHANGED call
  /\ UNCHANGED <<walOn, arena, roots, life, published, group, txns, acked, refused,
                 verdict, faults>>

-----------------------------------------------------------------------------
(* Recovery: recover_store, recover_wal, recover_locked *)

\* The operation that needed the engine fails; the files stay as they are.
FailRecovery(reason) ==
  /\ verdict' = reason
  /\ Complete

\* The arena and the root journal are read.
Scan ==
  /\ Busy("scan")
  /\ mem' = [EmptyMem EXCEPT !.index = arena.cache, !.roots = RootsIn(roots.cache)]
  /\ IF ~ChainValid(roots.cache) THEN FailRecovery("conflict")
     ELSE /\ job' = [job EXCEPT !.step = IF walOn THEN "replay" ELSE "validate", !.k = 1]
          /\ UNCHANGED <<call, verdict>>
  /\ UNCHANGED <<walOn, files, life, published, group, txns, acked, refused, faults>>

\* replay_transaction folds the objects first and flushes the arena.
ReplayObjects ==
  LET missing == wal.cache[job.k].objs \ mem.index
  IN  /\ Busy("replay") /\ job.k <= Len(wal.cache)
      /\ LET all == arena.cache \cup missing
         IN  arena' = [disk |-> all, cache |-> all]
      /\ mem' = [mem EXCEPT !.index = @ \cup missing]
      /\ GoTo("replayRoot")
      /\ UNCHANGED <<walOn, roots, wal, life, published, group, call, txns, acked, refused, verdict, faults>>

ReplayRoot ==
  LET t == wal.cache[job.k].txn
      p == OfPrincipal(t)
  IN  /\ Busy("replayRoot")
      /\ IF mem.roots[p] \notin {txns[t].expected, t}
         THEN FailRecovery("conflict") /\ UNCHANGED <<roots, mem>>
         ELSE IF ~(Closure(t) \subseteq mem.index)
         THEN FailRecovery("missing") /\ UNCHANGED <<roots, mem>>
         ELSE /\ roots' = IF mem.roots[p] = t THEN roots
                          ELSE [roots EXCEPT !.cache = Append(@, t)]
              /\ mem' = [mem EXCEPT !.roots[p] = t]
              /\ job' = [job EXCEPT !.step = "replay", !.k = @ + 1]
              /\ UNCHANGED <<call, verdict>>
      /\ UNCHANGED <<walOn, arena, wal, life, published, group, txns, acked, refused,
                     faults>>

\* Every canonical file is flushed before the WAL is retired.
SyncReplayed ==
  /\ Busy("replay") /\ job.k > Len(wal.cache)
  /\ arena' = [arena EXCEPT !.disk = arena.cache]
  /\ roots' = [roots EXCEPT !.disk = roots.cache]
  /\ GoTo("retire")
  /\ UNCHANGED <<walOn, wal, life, mem, published, group, call, txns, acked, refused,
                 verdict, faults>>
RetireWal ==
  /\ Busy("retire")
  /\ wal' = [wal EXCEPT !.cache = <<>>]
  /\ GoTo("retireSync")
  /\ UNCHANGED <<walOn, arena, roots, life, mem, published, group, call, txns, acked, refused, verdict, faults>>
SyncRetirement ==
  /\ Busy("retireSync")
  /\ wal' = [wal EXCEPT !.disk = <<>>]
  /\ GoTo("validate")
  /\ UNCHANGED <<walOn, arena, roots, life, mem, published, group, call, txns, acked, refused, verdict, faults>>

\* Mutation: the lock-free roots keep their value from before the fault.
Republished_stale == published

\* The lock-free roots after a recovery
Republished == mem.roots

\* recover_roots checks every closure; an in-process recovery then flushes
\* what it read (stabilize_recovered_store), an opening process does not.
Install ==
  /\ Busy("validate")
  /\ IF \E p \in Principals : ~(Closure(mem.roots[p]) \subseteq mem.index)
     THEN /\ FailRecovery("missing")
          /\ UNCHANGED <<arena, roots, published, life>>
     ELSE /\ arena' = IF life = "poisoned" THEN [arena EXCEPT !.disk = arena.cache] ELSE arena
          /\ roots' = IF life = "poisoned" THEN [roots EXCEPT !.disk = roots.cache] ELSE roots
          /\ published' = Republished
          /\ life' = "usable" /\ verdict' = "ok"
          /\ IF job.next = "end" THEN Complete
             ELSE job' = [job EXCEPT !.step = job.next, !.k = 1] /\ UNCHANGED call
  /\ UNCHANGED <<walOn, wal, mem, group, txns, acked, refused, faults>>

-----------------------------------------------------------------------------
(* Faults *)

Prefixes(s, from) == {SubSeq(s, 1, n) : n \in from .. Len(s)}
\* A failed write leaves some of its frames behind.
Partial(step, frames) == IF Busy(step) THEN Prefixes(frames, 0) ELSE {<<>>}
PartialSet(step, objs) == IF Busy(step) THEN SUBSET objs ELSE {{}}

\* An I/O error, or a panic of the leader: mark_requires_recovery, and every
\* receipt of the batch completes with an error.
IoError ==
  /\ job # None /\ faults < MaxFaults
  /\ \E a \in PartialSet("arena", job.objs), f \in PartialSet("fold", mem.objs \ mem.index) :
       arena' = [arena EXCEPT !.cache = @ \cup a \cup f]
  /\ \E r \in Partial("roots", job.accepted), f \in Partial("foldRoots", mem.log) :
       roots' = [roots EXCEPT !.cache = @ \o r \o f]
  /\ \E w \in Partial("wal", WalRecords) : wal' = [wal EXCEPT !.cache = @ \o w]
  /\ life' = IF life = "usable" THEN "poisoned" ELSE life
  /\ Complete
  /\ faults' = faults + 1
  /\ UNCHANGED <<walOn, mem, published, group, txns, acked, refused, verdict>>

Stop ==
  /\ faults < MaxFaults /\ faults' = faults + 1
  /\ life' = "down" /\ mem' = EmptyMem
  /\ published' = [p \in Principals |-> NoRoot]
  /\ leader' = FALSE /\ queue' = <<>>
  /\ call' = [c \in Callers |-> Idle]
  /\ job' = None
  /\ UNCHANGED <<walOn, txns, acked, refused, verdict>>

\* The process dies: what it wrote is kept, except WAL records that were
\* still in its write buffer.
ProcessCrash ==
  /\ Stop
  /\ \E log \in {wal.cache} \cup Prefixes(wal.cache, Len(wal.disk)) :
       wal' = [wal EXCEPT !.cache = log]
  /\ UNCHANGED <<arena, roots>>

\* Power is lost: each file keeps what was flushed and some of the rest, and
\* an unflushed truncation may not have happened.
Images(f) == {f.disk, f.cache} \cup Prefixes(f.cache, Len(f.disk))
PowerLoss ==
  /\ Stop
  /\ \E lost \in SUBSET (arena.cache \ arena.disk) :
       LET kept == arena.cache \ lost IN arena' = [disk |-> kept, cache |-> kept]
  /\ \E j \in Images(roots) : roots' = [disk |-> j, cache |-> j]
  /\ \E log \in Images(wal) : wal' = [disk |-> log, cache |-> log]

CommitStep ==
  \/ \E c \in Callers : Drain(c) \/ Release(c)
  \/ Prepare \/ Persist \/ AppendObjects \/ SyncObjects \/ AppendRoots \/ SyncRoots
  \/ AppendWal \/ SyncWal \/ Publish
CheckpointStep ==
  \/ FoldObjects \/ FoldRoots \/ FoldSyncObjects \/ FoldSyncRoots \/ TruncateWal
  \/ SyncTruncation
RecoveryStep ==
  \/ Scan \/ ReplayObjects \/ ReplayRoot \/ SyncReplayed \/ RetireWal
  \/ SyncRetirement \/ Install
Request ==
  \/ \E b \in Blobs : Stage(b)
  \/ \E c \in Callers, p \in Principals, b \in Blobs \cup {None}, carried \in BOOLEAN :
       Submit(c, p, b, carried)
  \/ Flush \/ Open
Fault == IoError \/ ProcessCrash \/ PowerLoss

Next == Request \/ CommitStep \/ CheckpointStep \/ RecoveryStep \/ Fault

Spec == Init /\ [][Next]_vars

-----------------------------------------------------------------------------
(* Properties *)

Range(s) == {s[i] : i \in DOMAIN s}
Logged(log) == {log[i].txn : i \in DOMAIN log}
LoggedObjects(log) == UNION {log[i].objs : i \in DOMAIN log}

\* Type invariant: the shapes of the files, of the queue and of the calls.
TypeOK ==
  /\ arena.disk \subseteq arena.cache
  /\ Range(roots.cache) \cup Logged(wal.cache) \subseteq Ids
  /\ life \in {"usable", "poisoned", "down"}
  /\ mem.roots \in [Principals -> {NoRoot} \cup Ids]
  /\ Range(queue) \subseteq {c \in Callers : call[c].pc \in {"lead", "waiting"}}
  /\ \A c \in Callers : call[c].pc \in {"idle", "waiting", "lead", "release"}

\* A commit that returned Ok survives whatever power loss comes next: its
\* root is flushed in the journal or the WAL, and so is every object it needs.
AckedDurable ==
  \A t \in acked :
    /\ t \in Range(roots.disk) \cup Logged(wal.disk)
    /\ Closure(t) \subseteq arena.disk \cup LoggedObjects(wal.disk)

\* A usable engine serves every acknowledged commit: the journal with the WAL
\* overlay holds it, the engine's roots and the lock-free ones are what they
\* leave, and every object of a root is known, also after recoveries and
\* partial writes.
AckedServed ==
  life = "usable" /\ (job = None \/ job.step = "prepare") =>
    /\ acked \subseteq Range(roots.cache \o mem.log)
    /\ mem.roots = RootsIn(roots.cache \o mem.log)
    /\ published = mem.roots
    /\ \A p \in Principals : Closure(mem.roots[p]) \subseteq Known

\* Two commits that both succeeded never replaced the same root, even when an
\* error hid from one caller that its commit was durable.
NoLostUpdate ==
  \A s, t \in acked :
    OfPrincipal(s) = OfPrincipal(t) /\ txns[s].expected = txns[t].expected => s = t

\* A transaction refused in a group leaves nothing behind in any file.
RefusedLeavesNothing ==
  refused \cap (Range(roots.cache) \cup Logged(wal.cache) \cup arena.cache) = {}

\* No crash image leaves a root whose objects are gone.
NoDanglingRoot == verdict # "missing"

\* Recovery never meets a transaction it cannot reconcile: a fault does not
\* disable the store for good (engine/durable/mod.rs: a prolonged incident "does
\* not permanently disable the store").
StoreReopens == verdict # "conflict"

=============================================================================
