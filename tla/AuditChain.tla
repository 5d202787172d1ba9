----------------------------- MODULE AuditChain -----------------------------
(***************************************************************************)
(* The durable audit log of crates/astrid-audit for one session: signed    *)
(* hash chains, appended to by concurrent writers, pruned under signed     *)
(* receipts and anchored by watermarks, over a key-value store in which    *)
(* every write is a separate durable step.                                 *)
(*                                                                         *)
(* Every storage operation runs under DURABLE_APPEND_LOCK; `job' is the    *)
(* operation that holds it between two of its writes.  A fault (a crash,   *)
(* or a store error or cancellation of the operation) may come between any *)
(* two writes.  Scans, archiving and mark verification hold no lock.       *)
(*                                                                         *)
(* Abstractions: an entry is its identifier, which is also its content     *)
(* hash; every entry has the same size, so only entry counts are kept;     *)
(* the batch path appends one entry per call; the key registry, the        *)
(* committed-entry markers and the degraded flags are left out.            *)
(***************************************************************************)
EXTENDS Naturals, FiniteSets, Sequences

CONSTANTS
  Chains,        \* the (session, principal) chains of the session
  Certified,     \* those an anchoring service certifies
  Writers,       \* tasks that append
  BatchWriters,  \* those of them that use append_batch_with_principal
  SegMax,        \* DEFAULT_SEGMENT_MAX_ENTRIES
  PageSize,      \* entries read per deletion page (256)
  Cap,           \* cap_entries
  Retains,       \* retain_entries of the operator's prunes
  MaxEntries,    \* bound: entries ever signed
  MaxGen,        \* bound: prune generations per chain
  MaxFaults,     \* bound: faults
  None

ASSUME AuditAssumption ==
  /\ SegMax \in Nat \ {0}
  /\ PageSize \in Nat \ {0}
  /\ Cap \in Nat \ {0}
  /\ Retains \subseteq Nat \ {0}
  /\ BatchWriters \subseteq Writers /\ Certified \subseteq Chains
  /\ MaxEntries \in Nat /\ MaxGen \in Nat /\ MaxFaults \in Nat

VARIABLES
  atomic,    \* whether the store applies a batch of writes at once
  entries,   \* audit:entries, identifiers of the stored entries
  index,     \* audit:session_entries, records [ord, id]
  seq,       \* audit:session_sequence
  head,      \* audit:chain_heads
  meta,      \* audit:chain_metadata
  global,    \* audit:global_metadata
  segs,      \* audit:segment_index, descriptors of sealed segments
  intent,    \* audit:append_intents
  plan,      \* audit:prune_plans
  receipt,   \* audit:prune_receipts, the latest of each chain
  history,   \* audit:receipt_history
  mark,      \* audit:anchor_marks
  archive,   \* the archiver's files, one per chain and generation
  cache,     \* AuditLog::chain_heads, the in-memory heads
  wr,        \* the appending tasks
  job,       \* the operation under DURABLE_APPEND_LOCK
  pruner,    \* the prune under PRUNE_LOCK
  marker,    \* one mark_anchored call
  signed,    \* history: every entry ever signed
  faults

store == <<entries, index, seq, head, meta, global, segs, intent>>
pruneStore == <<plan, receipt, history, archive>>
vars == <<atomic, store, pruneStore, mark, cache, wr, job, pruner, marker,
          signed, faults>>

Ids == 1 .. Len(signed)
NoEntry == 0
Unknown == MaxEntries + 1     \* OMITTED_TOTAL_UNKNOWN

\* Generations count from 1; 0 stands for an absent omitted_generation.
EmptyMeta == [segment |-> 0, sealed |-> FALSE, count |-> 0, head |-> NoEntry,
              segCount |-> 0, ord |-> 0, omitted |-> 0, gen |-> 0]
Idle == [pc |-> "idle", chain |-> None, id |-> NoEntry, exp |-> NoEntry]

(* The shapes of the stored records and of the operations *)

Entry == [chain : Chains, prev : Nat, at : Nat]
Key == [ord : Nat, id : Nat]
Meta == [segment : Nat, sealed : BOOLEAN, count : Nat, head : Nat, segCount : Nat,
         ord : Nat, omitted : Nat, gen : Nat]
Global == [total : Nat, ord : Nat, hold : BOOLEAN]
Segment == [ord : Nat, chain : Chains, segment : Nat, count : Nat]
Intent == [id : Nat, chain : Chains, ord : Nat, expHead : Nat, expMeta : Meta,
           nextMeta : Meta, expGlobal : Global, nextGlobal : Global]
Digest == {None} \cup (Nat \X Nat \X (Nat \cup {None}) \X Nat)
Receipt == [gen : Nat, prior : Digest, omitted : Nat, cutoff : Nat \cup {None}, last : Nat,
            rhead : Nat, segment : Nat, ord : Nat]
Plan == [r : Receipt, from : Nat, complete : BOOLEAN, segs : SUBSET Segment]
Mark == [pos : Nat, id : Nat, ord : Nat]
WriterPc == {"idle", "store", "append", "refused", "retry", "full", "capped", "pruning",
             "hold", "publish", "failed"}
Writer == [pc : WriterPc, chain : Chains \cup {None}, id : Nat, exp : Nat]
AppendSteps == {"entry", "seq", "index", "head", "meta", "seg", "global", "remove"}
PruneSteps == {"plan", "page", "retain", "account", "segment", "history", "receipt", "unplan"}
Job == [op : {"append"}, by : Writers, step : AppendSteps]
         \cup [op : {"recover"}, by : Writers \cup {None}, step : AppendSteps]
         \cup [op : {"prune"}, by : {None}, step : PruneSteps]
DeleteJob == [op : {"prune"}, by : {None}, step : {"delete", "unindex"},
              doomed : SUBSET Key, from : Nat, complete : BOOLEAN]
Pruner == [pc : {"scan", "check", "archive", "run"}, chain : Chains, retain : Nat \ {0},
           sel : Segment \cup {None}, by : Writers \cup {None}, r : Receipt \cup {None}]
Marker == [pc : {"locate", "install", "clear", "unhold"}, chain : Chains, pos : Nat, omitted : Nat,
           receipt : Receipt \cup {None}, mark : Mark \cup {None}, id : Nat,
           ord : Nat \cup {None}]

ASSUME NoneIsAbsence ==
  None \notin Nat \cup Intent \cup Receipt \cup Plan \cup Mark \cup Job \cup DeleteJob
               \cup Pruner \cup Marker \cup Writers

Init ==
  /\ atomic \in BOOLEAN
  /\ entries = {} /\ index = {} /\ seq = 0
  /\ head = [c \in Chains |-> NoEntry]
  /\ meta = [c \in Chains |-> EmptyMeta]
  /\ global = [total |-> 0, ord |-> 0, hold |-> FALSE]
  /\ segs = {} /\ intent = None
  /\ plan = [c \in Chains |-> None]
  /\ receipt = [c \in Chains |-> None]
  /\ history = [c \in Chains |-> {}]
  /\ archive = [c \in Chains |-> [g \in 1 .. MaxGen |-> {}]]
  /\ mark = [c \in Chains |-> None]
  /\ cache = [c \in Chains |-> NoEntry]
  /\ wr = [w \in Writers |-> Idle]
  /\ job = None /\ pruner = None /\ marker = None
  /\ signed = <<>> /\ faults = 0

-----------------------------------------------------------------------------
(* Reads of the store *)

ChainKeys(c) == {k \in index : signed[k.id].chain = c}
\* The n-th of some keys, and the last, in index order
Nth(keys, n) == CHOOSE k \in keys : Cardinality({l \in keys : l.ord < k.ord}) = n - 1
LastId(keys) == IF keys = {} THEN NoEntry ELSE Nth(keys, Cardinality(keys)).id
\* A page read fails on an index key whose entry is gone.
Readable(keys) == \A k \in keys : k.id \in entries
\* get_session_entries skips such a key instead.
Survivors(c) == {k \in ChainKeys(c) : k.id \in entries}

\* get_chain_head, and the parent that previous_hash_locked takes from it
ChainHead(c) == IF meta[c].head \in entries THEN meta[c].head ELSE head[c]
StoredParent(c) == IF ChainHead(c) \in entries THEN ChainHead(c) ELSE NoEntry

\* DURABLE_APPEND_LOCK: taken by an operation, and kept by a mark that recovers an
\* interrupted append before it clears the hold
Locked == job # None \/ (marker # None /\ marker.pc = "unhold")
Finishing(c) == plan[c] # None /\ plan[c].complete
\* resolved_omitted_total, as chain_positions reads it
Omitted(c, finishing) ==
  CASE meta[c].gen > 0 -> meta[c].omitted
    [] meta[c].gen = 0 /\ finishing -> Unknown
    [] meta[c].gen = 0 /\ ~finishing /\ receipt[c] = None -> 0
    [] OTHER -> IF receipt[c].gen = 1 THEN receipt[c].omitted ELSE Unknown

\* PruneLimit::check
WithinMark(c, omitted, n) ==
  mark[c] # None => /\ omitted # Unknown
                    /\ omitted + n <= mark[c].pos

-----------------------------------------------------------------------------
(* Appending: the log *)

Holds(w, c) == w \notin BatchWriters /\ wr[w].chain = c
MutexFree(c) == \A w \in Writers : ~Holds(w, c)
CoordinatorFree == \A w \in BatchWriters : wr[w].pc = "idle"

\* previous_hash_locked and sign_entry: the parent is the cached head or the
\* stored one, read without the durable lock.
SignEntry(w, c) ==
  /\ Len(signed) < MaxEntries
  /\ LET parent == IF cache[c] # NoEntry THEN cache[c] ELSE StoredParent(c)
         at == IF parent = NoEntry THEN 1 ELSE signed[parent].at + 1
     IN  /\ signed' = Append(signed, [chain |-> c, prev |-> parent, at |-> at])
         /\ wr' = [wr EXCEPT ![w] = [pc |-> "store", chain |-> c,
                                     id |-> Len(signed) + 1, exp |-> parent]]
  \* append_inner forgets the cached head before it awaits the store.
  /\ cache' = IF w \in BatchWriters THEN cache ELSE [cache EXCEPT ![c] = NoEntry]
  /\ UNCHANGED <<atomic, store, pruneStore, mark, job, pruner, marker, faults>>

\* append_inner holds the chain's mutex to its end; a batch holds the
\* coordinator and locks each chain only to read or publish its head.
StartAppend(w, c) ==
  /\ wr[w].pc = "idle"
  /\ MutexFree(c)
  /\ w \in BatchWriters => CoordinatorFree
  /\ SignEntry(w, c)

RetryAppend(w) ==
  /\ wr[w].pc = "retry"
  /\ w \in BatchWriters => MutexFree(wr[w].chain)
  /\ SignEntry(w, wr[w].chain)

\* A batch whose append was refused, met the cap or failed drops the cached
\* head before it goes on.
InvalidateHead(w) ==
  /\ wr[w].pc \in {"refused", "full", "failed"}
  /\ MutexFree(wr[w].chain)
  /\ cache' = [cache EXCEPT ![wr[w].chain] = NoEntry]
  /\ wr' = [wr EXCEPT ![w] = CASE @.pc = "refused" -> [@ EXCEPT !.pc = "retry"]
                               [] @.pc = "full" -> [@ EXCEPT !.pc = "capped"]
                               [] @.pc = "failed" -> Idle]
  /\ UNCHANGED <<atomic, store, pruneStore, mark, job, pruner, marker, signed, faults>>

\* publish_batch_heads
PublishHead(w) ==
  /\ wr[w].pc = "publish"
  /\ MutexFree(wr[w].chain)
  /\ cache' = [cache EXCEPT ![wr[w].chain] = wr[w].id]
  /\ wr' = [wr EXCEPT ![w] = Idle]
  /\ UNCHANGED <<atomic, store, pruneStore, mark, job, pruner, marker, signed, faults>>

\* What an append does next when the store refuses it or it meets the cap
Refused(w) == IF w \in BatchWriters THEN "refused" ELSE "retry"
Full(w) == IF w \in BatchWriters THEN "full" ELSE "capped"
Failed(w) == IF w \in BatchWriters THEN [wr[w] EXCEPT !.pc = "failed"] ELSE Idle

\* The store reported the entry durable.
Stored(w) ==
  IF w \in BatchWriters
  THEN /\ wr' = [wr EXCEPT ![w].pc = "publish"]
       /\ UNCHANGED cache
  ELSE /\ wr' = [wr EXCEPT ![w] = Idle]
       /\ cache' = [cache EXCEPT ![wr[w].chain] = wr[w].id]

-----------------------------------------------------------------------------
(* Appending: the store *)

\* advance_chain
NextMeta(m, id) ==
  LET n == IF m.sealed THEN 1
           ELSE 1 + (IF m.segCount = 0 THEN m.count ELSE m.segCount)
      sealed == n >= SegMax
  IN  [m EXCEPT !.segment = IF m.sealed THEN @ + 1 ELSE @,
                !.sealed = sealed,
                !.count = @ + 1,
                !.head = id,
                !.segCount = n,
                !.ord = IF sealed THEN global.ord + 1 ELSE IF m.sealed THEN 0 ELSE @]

\* account_global_append (the CAS path clears the hold only when the segment
\* was not sealed before) and update_global_metadata
NextGlobal(m, next) ==
  [global EXCEPT !.total = @ + 1,
                 !.ord = IF next.sealed THEN @ + 1 ELSE @,
                 !.hold = @ /\ ~(next.sealed /\ (atomic \/ ~m.sealed))]

\* The descriptor written for a segment that the append seals
SegmentOf(c, next) ==
  IF next.sealed
  THEN {[ord |-> next.ord, chain |-> c, segment |-> next.segment, count |-> next.segCount]}
  ELSE {}

\* admit_append and the cap check of prepare_batch
AtCap == global.total >= Cap /\ ~global.hold

\* Mutation: the head is not compared with the one the entry was signed on.
HeadMatches_unchecked(w) == wr[w].exp \in Ids \cup {NoEntry}

\* parent_metadata_for_append, prepare_append
HeadMatches(w) ==
  /\ meta[wr[w].chain].head = wr[w].exp
  /\ ~atomic => ChainHead(wr[w].chain) = wr[w].exp

AppendReady(w) == wr[w].pc = "store" /\ ~Locked /\ intent = None

\* The head moved since the entry was signed: Ok(false).
AppendRefused(w) ==
  /\ AppendReady(w) /\ ~HeadMatches(w)
  /\ wr' = [wr EXCEPT ![w].pc = Refused(w)]
  /\ UNCHANGED <<atomic, store, pruneStore, mark, cache, job, pruner, marker, signed, faults>>

\* Err(RetentionCapReached)
AppendAtCap(w) ==
  /\ AppendReady(w) /\ HeadMatches(w) /\ AtCap
  /\ wr' = [wr EXCEPT ![w].pc = Full(w)]
  /\ UNCHANGED <<atomic, store, pruneStore, mark, cache, job, pruner, marker, signed, faults>>

\* append_batch_if_heads_durable on a store with atomic batches
AppendBatch(w) ==
  LET c == wr[w].chain
      next == NextMeta(meta[c], wr[w].id)
  IN  /\ atomic /\ AppendReady(w) /\ HeadMatches(w) /\ ~AtCap
      /\ entries' = entries \cup {wr[w].id}
      /\ index' = index \cup {[ord |-> seq, id |-> wr[w].id]}
      /\ seq' = seq + 1
      /\ head' = [head EXCEPT ![c] = wr[w].id]
      /\ meta' = [meta EXCEPT ![c] = next]
      /\ global' = NextGlobal(meta[c], next)
      /\ segs' = segs \cup SegmentOf(c, next)
      /\ Stored(w)
      /\ UNCHANGED <<atomic, intent, pruneStore, mark, job, pruner, marker, signed, faults>>

\* append_if_head_durable_locked up to install_append_intent, with the
\* correction of a stale stored head (reconcile_stored_head)
InstallIntent(w) ==
  LET c == wr[w].chain
      next == NextMeta(meta[c], wr[w].id)
  IN  /\ ~atomic /\ AppendReady(w) /\ HeadMatches(w) /\ ~AtCap
      /\ head' = [head EXCEPT ![c] = wr[w].exp]
      /\ intent' = [id |-> wr[w].id, chain |-> c, ord |-> seq + 1,
                    expHead |-> wr[w].exp, expMeta |-> meta[c], nextMeta |-> next,
                    expGlobal |-> global, nextGlobal |-> NextGlobal(meta[c], next)]
      /\ job' = [op |-> "append", by |-> w, step |-> "entry"]
      /\ wr' = [wr EXCEPT ![w].pc = "append"]
      /\ UNCHANGED <<atomic, entries, index, seq, meta, global, segs, pruneStore,
                     mark, cache, pruner, marker, signed, faults>>

\* recover_append_intents, run first by an append and by a change of the hold
StartRecovery(w) ==
  /\ wr[w].pc \in {"store", "hold"} /\ ~Locked /\ intent # None
  /\ job' = [op |-> "recover", by |-> w, step |-> "entry"]
  /\ UNCHANGED <<atomic, store, pruneStore, mark, cache, wr, pruner, marker, signed, faults>>

Appending(step) == job # None /\ job.op \in {"append", "recover"} /\ job.step = step
GoTo(step) == job' = [job EXCEPT !.step = step]

\* The owner of a failed operation gets an error: the append is reported as
\* failed, a prune is given up, a mark leaves the hold as it is.
FailOwner ==
  /\ job' = None
  /\ wr' = CASE job.by # None -> [wr EXCEPT ![job.by] = Failed(job.by)]
             [] job.op = "prune" /\ pruner.by # None -> [wr EXCEPT ![pruner.by] = Idle]
             [] OTHER -> wr
  /\ pruner' = IF job.op = "prune" THEN None ELSE pruner

\* compare_and_swap, and recover_cas, which also accepts the next value
Swap(current, expected, next, step, Write) ==
  IF current = expected \/ (job.op = "recover" /\ current = next)
  THEN Write /\ GoTo(step) /\ UNCHANGED <<wr, pruner>>
  ELSE FailOwner /\ UNCHANGED <<head, meta, global, seq>>

WriteEntry ==
  /\ Appending("entry")
  /\ entries' = entries \cup {intent.id}
  /\ GoTo("seq")
  /\ UNCHANGED <<atomic, index, seq, head, meta, global, segs, intent, pruneStore,
                 mark, cache, wr, pruner, marker, signed, faults>>

WriteSequence ==
  /\ Appending("seq")
  /\ Swap(seq, intent.ord - 1, intent.ord, "index",
          seq' = intent.ord /\ UNCHANGED <<head, meta, global>>)
  /\ UNCHANGED <<atomic, entries, index, segs, intent, pruneStore, mark, cache, marker,
                 signed, faults>>

WriteIndex ==
  /\ Appending("index")
  /\ index' = index \cup {[ord |-> intent.ord, id |-> intent.id]}
  /\ GoTo("head")
  /\ UNCHANGED <<atomic, entries, seq, head, meta, global, segs, intent, pruneStore,
                 mark, cache, wr, pruner, marker, signed, faults>>

WriteHead ==
  /\ Appending("head")
  /\ Swap(head[intent.chain], intent.expHead, intent.id, "meta",
          head' = [head EXCEPT ![intent.chain] = intent.id]
            /\ UNCHANGED <<meta, global, seq>>)
  /\ UNCHANGED <<atomic, entries, index, segs, intent, pruneStore, mark, cache, marker,
                 signed, faults>>

WriteMeta ==
  /\ Appending("meta")
  /\ Swap(meta[intent.chain], intent.expMeta, intent.nextMeta, "seg",
          meta' = [meta EXCEPT ![intent.chain] = intent.nextMeta]
            /\ UNCHANGED <<head, global, seq>>)
  /\ UNCHANGED <<atomic, entries, index, segs, intent, pruneStore, mark, cache, marker,
                 signed, faults>>

WriteSegment ==
  /\ Appending("seg")
  /\ segs' = segs \cup SegmentOf(intent.chain, intent.nextMeta)
  /\ GoTo("global")
  /\ UNCHANGED <<atomic, entries, index, seq, head, meta, global, intent, pruneStore,
                 mark, cache, wr, pruner, marker, signed, faults>>

WriteGlobal ==
  /\ Appending("global")
  /\ Swap(global, intent.expGlobal, intent.nextGlobal, "remove",
          global' = intent.nextGlobal /\ UNCHANGED <<head, meta, seq>>)
  /\ UNCHANGED <<atomic, entries, index, segs, intent, pruneStore, mark, cache, marker,
                 signed, faults>>

RemoveIntent ==
  /\ Appending("remove")
  /\ intent' = None
  /\ job' = None
  /\ IF job.op = "append" THEN Stored(job.by) ELSE UNCHANGED <<wr, cache>>
  /\ UNCHANGED <<atomic, entries, index, seq, head, meta, global, segs, pruneStore,
                 mark, pruner, marker, signed, faults>>

-----------------------------------------------------------------------------
(* Pruning: the log, under PRUNE_LOCK *)

Larger(a, b) == IF a > b THEN a ELSE b
Minus(a, b) == IF a > b THEN a - b ELSE 0       \* saturating_sub
Hash(r) == IF r = None THEN None ELSE <<r.gen, r.omitted, r.cutoff, r.rhead>>

\* prune_chain
StartPrune(c, n) ==
  /\ pruner = None
  /\ pruner' = [pc |-> "scan", chain |-> c, retain |-> n, sel |-> None, by |-> None,
                r |-> None]
  /\ UNCHANGED <<atomic, store, pruneStore, mark, cache, wr, job, marker, signed, faults>>

\* segment_prune: the retention that removes segment s
RetainFor(s, n) == Larger(n, Minus(meta[s.chain].count, s.count))
SegmentPrunable(s, n) ==
  LET remove == Minus(meta[s.chain].count, RetainFor(s, n))
  IN  remove > 0 => WithinMark(s.chain, Omitted(s.chain, Finishing(s.chain)), remove)

\* select_prunable_segment: the first segment of a chain blocks its later ones
OldestSegments == {s \in segs : \A t \in segs : t.chain = s.chain => s.ord <= t.ord}
Prunable(n) == {s \in OldestSegments : SegmentPrunable(s, n)}

\* relieve_retention_cap: prune_oldest for an append at the cap, which fails
\* when nothing is sealed and sets the hold when every segment is refused
RelieveCap(w) ==
  /\ wr[w].pc = "capped" /\ pruner = None /\ ~Locked
  /\ \/ \E s \in Prunable(1) :
          /\ \A t \in Prunable(1) : s.ord <= t.ord
          /\ pruner' = [pc |-> "scan", chain |-> s.chain, retain |-> RetainFor(s, 1),
                        sel |-> s, by |-> w, r |-> None]
          /\ wr' = [wr EXCEPT ![w].pc = "pruning"]
     \/ /\ Prunable(1) = {}
        /\ wr' = [wr EXCEPT ![w] = IF segs = {} THEN Idle ELSE [@ EXCEPT !.pc = "hold"]]
        /\ UNCHANGED pruner
  /\ UNCHANGED <<atomic, store, pruneStore, mark, cache, job, marker, signed, faults>>

\* set_retention_hold(Some(reason))
SetHold(w) ==
  /\ wr[w].pc = "hold" /\ ~Locked /\ intent = None
  /\ global' = [global EXCEPT !.hold = TRUE]
  /\ wr' = [wr EXCEPT ![w].pc = "retry"]
  /\ UNCHANGED <<atomic, entries, index, seq, head, meta, segs, intent, pruneStore, mark,
                 cache, job, pruner, marker, signed, faults>>

\* The prune ends: pc is what an append that asked for it does next.
EndPrune(pc) ==
  /\ pruner' = None
  /\ wr' = IF pruner.by = None THEN wr
           ELSE [wr EXCEPT ![pruner.by] = IF pc = "idle" THEN Idle ELSE [@ EXCEPT !.pc = pc]]

\* scan_retention and prior_receipt; a key without its entry fails the scan
ScanChain ==
  LET c == pruner.chain
      keys == ChainKeys(c)
      n == Minus(Cardinality(keys), pruner.retain)
      gen == IF receipt[c] = None THEN 1 ELSE receipt[c].gen + 1
  IN  /\ pruner # None /\ pruner.pc = "scan"
      /\ IF Readable(index)
         THEN /\ gen <= MaxGen
              /\ pruner' = [pruner EXCEPT !.pc = "check", !.r =
                   [gen |-> gen, prior |-> Hash(receipt[c]), omitted |-> n,
                    cutoff |-> IF n = 0 THEN None ELSE Nth(keys, n).ord,
                    last |-> IF n = 0 THEN NoEntry ELSE Nth(keys, n).id,
                    rhead |-> LastId(keys),
                    segment |-> IF pruner.sel = None THEN meta[c].segment
                                ELSE pruner.sel.segment,
                    ord |-> IF pruner.sel = None THEN meta[c].ord ELSE pruner.sel.ord]]
              /\ UNCHANGED wr
         ELSE EndPrune("idle")
      /\ UNCHANGED <<atomic, store, pruneStore, mark, cache, job, marker, signed, faults>>

\* check_prune_reach
CheckReach ==
  LET c == pruner.chain
  IN  /\ pruner # None /\ pruner.pc = "check" /\ ~Locked
      /\ IF pruner.r.omitted = 0
            \/ WithinMark(c, Omitted(c, Finishing(c)), pruner.r.omitted)
         THEN pruner' = [pruner EXCEPT !.pc = "archive"] /\ UNCHANGED wr
         ELSE EndPrune("hold")
      /\ UNCHANGED <<atomic, store, pruneStore, mark, cache, job, marker, signed, faults>>

\* archive_pruned: skipped when nothing is removed or a plan is pending
ArchivePruned ==
  LET c == pruner.chain
      keys == {k \in ChainKeys(c) : k.ord <= pruner.r.cutoff}
  IN  /\ pruner # None /\ pruner.pc = "archive"
      /\ IF pruner.r.omitted = 0 \/ plan[c] # None
         THEN pruner' = [pruner EXCEPT !.pc = "run"] /\ UNCHANGED <<archive, wr>>
         ELSE IF Readable(index) /\ Cardinality(keys) = pruner.r.omitted
         THEN /\ archive' = [archive EXCEPT ![c][pruner.r.gen] = {k.id : k \in keys}]
              /\ pruner' = [pruner EXCEPT !.pc = "run"]
              /\ UNCHANGED wr
         ELSE EndPrune("idle") /\ UNCHANGED archive
      /\ UNCHANGED <<atomic, store, plan, receipt, history, mark, cache, job, marker,
                     signed, faults>>

\* One iteration of persist_prune's loop
CallPrune ==
  /\ pruner # None /\ pruner.pc = "run" /\ ~Locked
  /\ job' = [op |-> "prune", by |-> None, step |-> "plan"]
  /\ UNCHANGED <<atomic, store, pruneStore, mark, cache, wr, pruner, marker, signed, faults>>

-----------------------------------------------------------------------------
(* Pruning: the store *)

Pruning(step) == job # None /\ job.op = "prune" /\ job.step = step

\* validate_receipt_generation
Linked(c, r) ==
  receipt[c] # None => r.gen = receipt[c].gen + 1 /\ r.prior = Hash(receipt[c])

\* Mutation: the watermark is checked before the scan only.
PlanAllowed_unchecked(c, r) == r.omitted >= 0

\* check_plan_against_watermark
PlanAllowed(c, r) == r.omitted > 0 => WithinMark(c, Omitted(c, FALSE), r.omitted)

\* load_or_create_prune_plan: an existing plan is resumed under its own
\* receipt, a new one is checked against the watermark again.
LoadPlan ==
  LET c == pruner.chain
      r == pruner.r
  IN  /\ Pruning("plan")
      /\ CASE plan[c] # None ->
                 /\ GoTo(IF plan[c].complete THEN "retain" ELSE "page")
                 /\ UNCHANGED <<plan, wr, pruner>>
           [] plan[c] = None /\ (seq = 0 \/ ~Linked(c, r)) ->
                 FailOwner /\ UNCHANGED plan
           [] plan[c] = None /\ seq > 0 /\ Linked(c, r) ->
                 IF ~PlanAllowed(c, r)
                 THEN job' = None /\ EndPrune("hold") /\ UNCHANGED plan
                 ELSE /\ plan' = [plan EXCEPT ![c] =
                           [r |-> r, from |-> 0, complete |-> FALSE,
                            segs |-> {s \in segs : /\ r.omitted > 0
                                                   /\ s.chain = c
                                                   /\ s.segment = r.segment
                                                   /\ s.ord = r.ord}]]
                      /\ GoTo("page")
                      /\ UNCHANGED <<wr, pruner>>
      /\ UNCHANGED <<atomic, store, receipt, history, archive, mark, cache, marker, signed,
                     faults>>

\* delete_prune_page reads its page; doomed are the keys it will delete.
ReadPage ==
  LET c == pruner.chain
      p == plan[c]
      rest == {k \in index : k.ord >= p.from}
      page == {k \in rest : Cardinality({l \in rest : l.ord < k.ord}) < PageSize}
      upTo == {k \in page : k.ord <= p.r.cutoff}
  IN  /\ Pruning("page")
      /\ IF p.r.cutoff = None
         THEN job' = [op |-> "prune", by |-> None, step |-> "delete", doomed |-> {},
                      from |-> p.from, complete |-> TRUE]
              /\ UNCHANGED <<wr, pruner>>
         ELSE IF ~Readable(page) THEN FailOwner
         ELSE /\ job' = [op |-> "prune", by |-> None, step |-> "delete",
                         doomed |-> {k \in upTo : signed[k.id].chain = c},
                         from |-> IF upTo = {} THEN p.from
                                  ELSE Nth(upTo, Cardinality(upTo)).ord + 1,
                         complete |-> page = {} \/ \E k \in page : k.ord >= p.r.cutoff]
              /\ UNCHANGED <<wr, pruner>>
      /\ UNCHANGED <<atomic, store, pruneStore, mark, cache, marker, signed, faults>>

\* A page's keys are deleted in index order.
Oldest(keys) == Nth(keys, 1)

\* delete_pruned_entry deletes the entry first and its index key last.
DeleteEntry ==
  /\ Pruning("delete") /\ job.doomed # {}
  /\ entries' = entries \ {Oldest(job.doomed).id}
  /\ GoTo("unindex")
  /\ UNCHANGED <<atomic, index, seq, head, meta, global, segs, intent, pruneStore, mark,
                 cache, wr, pruner, marker, signed, faults>>

DeleteKey ==
  /\ Pruning("unindex")
  /\ index' = index \ {Oldest(job.doomed)}
  /\ job' = [job EXCEPT !.step = "delete", !.doomed = @ \ {Oldest(@)}]
  /\ UNCHANGED <<atomic, entries, seq, head, meta, global, segs, intent, pruneStore, mark,
                 cache, wr, pruner, marker, signed, faults>>

\* persist_prune_plan; the lock is released between two pages.
SavePlan ==
  /\ Pruning("delete") /\ job.doomed = {}
  /\ plan' = [plan EXCEPT ![pruner.chain].from = job.from,
                          ![pruner.chain].complete = job.complete]
  /\ job' = IF job.complete THEN [op |-> "prune", by |-> None, step |-> "retain"] ELSE None
  /\ UNCHANGED <<atomic, store, receipt, history, archive, mark, cache, wr, pruner, marker,
                 signed, faults>>

\* Mutation: a resumed prune counts its entries again.
CountPrune_again(m, r, installed) ==
  [m EXCEPT !.gen = r.gen, !.omitted = @ + r.omitted]

\* count_prune: a generation already counted is not counted again.
CountPrune(m, r, installed) ==
  LET before == IF m.gen > 0
                THEN IF m.gen = r.gen - 1 THEN m.omitted ELSE Unknown
                ELSE CASE r.gen = 1 -> 0
                       [] r.gen = 2 /\ installed # None -> IF installed.gen = 1
                                                          THEN installed.omitted ELSE Unknown
                       [] OTHER -> Unknown
  IN  IF m.gen = r.gen THEN m
      ELSE [m EXCEPT !.gen = r.gen,
                     !.omitted = IF before = Unknown THEN Unknown ELSE before + r.omitted]

\* Mutation: the head of the receipt is restored.
KeptHead_planned(c) == plan[c].r.rhead

\* The head that the surviving entries leave
KeptHead(c) == LastId(Survivors(c))

\* update_retained_chain re-reads the survivors: appends may have committed
\* since the receipt was signed.
RetainChain ==
  LET c == pruner.chain
      r == plan[c].r
      keys == Survivors(c)
      m == CountPrune(meta[c], r, receipt[c])
      kept == [m EXCEPT !.count = Cardinality(keys), !.head = KeptHead(c)]
  IN  /\ Pruning("retain")
      /\ meta' = IF meta[c] = EmptyMeta THEN meta
                 ELSE [meta EXCEPT ![c] = IF meta[c].head = r.rhead
                                          THEN [kept EXCEPT !.sealed = TRUE,
                                                            !.segCount = Cardinality(keys)]
                                          ELSE kept]
      /\ GoTo("account")
      /\ UNCHANGED <<atomic, entries, index, seq, head, global, segs, intent, pruneStore,
                     mark, cache, wr, pruner, marker, signed, faults>>

\* account_pruned_entries
AccountPruned ==
  /\ Pruning("account")
  /\ global' = [global EXCEPT !.total = Minus(@, plan[pruner.chain].r.omitted),
                              !.hold = FALSE]
  /\ GoTo("segment")
  /\ UNCHANGED <<atomic, entries, index, seq, head, meta, segs, intent, pruneStore, mark,
                 cache, wr, pruner, marker, signed, faults>>

RemoveSegment ==
  /\ Pruning("segment")
  /\ segs' = segs \ plan[pruner.chain].segs
  /\ GoTo("history")
  /\ UNCHANGED <<atomic, entries, index, seq, head, meta, global, intent, pruneStore, mark,
                 cache, wr, pruner, marker, signed, faults>>

\* Mutation: only the receipt that is replaced is recorded.
NewReceipts_replaced(c) == {receipt[c]} \ {None}

\* install_prune_receipt records the receipt it replaces and the new one.
NewReceipts(c) == {receipt[c], plan[c].r} \ {None}

\* record_receipt_history refuses a second receipt of a recorded generation.
RecordHistory ==
  LET c == pruner.chain
      new == NewReceipts(c)
  IN  /\ Pruning("history")
      /\ IF \E h \in history[c], n \in new : h.gen = n.gen /\ h # n
         THEN FailOwner /\ UNCHANGED history
         ELSE /\ history' = [history EXCEPT ![c] = @ \cup new]
              /\ GoTo("receipt")
              /\ UNCHANGED <<wr, pruner>>
      /\ UNCHANGED <<atomic, store, plan, receipt, archive, mark, cache, marker, signed, faults>>

InstallReceipt ==
  /\ Pruning("receipt")
  /\ receipt' = [receipt EXCEPT ![pruner.chain] = plan[pruner.chain].r]
  /\ GoTo("unplan")
  /\ UNCHANGED <<atomic, store, plan, history, archive, mark, cache, wr, pruner, marker,
                 signed, faults>>

\* The plan is deleted; the loop ends when the installed receipt is its own.
RemovePlan ==
  LET c == pruner.chain
  IN  /\ Pruning("unplan")
      /\ plan' = [plan EXCEPT ![c] = None]
      /\ job' = None
      /\ IF receipt[c] = pruner.r THEN EndPrune("retry") ELSE UNCHANGED <<wr, pruner>>
      /\ UNCHANGED <<atomic, store, receipt, history, archive, mark, cache, marker, signed,
                     faults>>

-----------------------------------------------------------------------------
(* Watermarks *)

\* Mutation: a mark may move back.
Advances_unchecked(c, pos) == pos > 0

\* compare_with_watermark: a mark only moves forward.
Advances(c, pos) == mark[c] # None => pos > mark[c].pos

\* mark_anchored reads the positions and the watermark it will replace.
StartMark(c, pos) ==
  /\ marker = None /\ ~Locked
  /\ meta[c] # EmptyMeta /\ plan[c] = None
  /\ Omitted(c, FALSE) # Unknown
  /\ pos \in Larger(1, Omitted(c, FALSE)) .. Omitted(c, FALSE) + meta[c].count
  /\ Advances(c, pos)
  /\ marker' = [pc |-> "locate", chain |-> c, pos |-> pos, omitted |-> Omitted(c, FALSE),
                receipt |-> receipt[c], mark |-> mark[c], id |-> NoEntry, ord |-> None]
  /\ UNCHANGED <<atomic, store, pruneStore, mark, cache, wr, job, pruner, signed, faults>>

\* locate_position walks the retained entries, onward from the watermark's
\* key when that is not behind the pruned boundary; at the boundary it takes
\* the last pruned entry from the receipt.  The call is rejected here unless
\* the hash it supplies, that of some entry, is that of the located entry.
LocatePosition ==
  LET m == marker
      onward == m.mark # None /\ m.mark.pos >= m.omitted
      rest == IF onward THEN {k \in index : k.ord > m.mark.ord} ELSE index
      keys == {k \in rest : signed[k.id].chain = m.chain}
      n == m.pos - (IF onward THEN m.mark.pos ELSE m.omitted)
  IN  /\ marker # None /\ m.pc = "locate"
      /\ \/ /\ m.pos = m.omitted /\ m.receipt # None /\ m.receipt.last # NoEntry
            /\ marker' = [m EXCEPT !.pc = "install", !.ord = m.receipt.cutoff,
                                   !.id = m.receipt.last]
         \/ /\ m.pos # m.omitted /\ Readable(rest) /\ n \in 1 .. Cardinality(keys)
            /\ marker' = [m EXCEPT !.pc = "install", !.ord = Nth(keys, n).ord,
                                   !.id = Nth(keys, n).id]
         \/ marker' = None
      /\ UNCHANGED <<atomic, store, pruneStore, mark, cache, wr, job, pruner, signed, faults>>

\* Mutation: a prune that ran during the verification is not noticed.
MarkCurrent_markOnly(c) == mark[c] = marker.mark

\* What was verified without the lock still holds.
MarkCurrent(c) == plan[c] = None /\ receipt[c] = marker.receipt /\ mark[c] = marker.mark

\* install_anchor_mark refuses when a prune started or finished meanwhile.
InstallMark ==
  LET c == marker.chain
  IN  /\ marker # None /\ marker.pc = "install" /\ ~Locked
      /\ IF MarkCurrent(c)
         THEN /\ mark' = [mark EXCEPT ![c] = [pos |-> marker.pos, id |-> marker.id,
                                              ord |-> marker.ord]]
              /\ marker' = [marker EXCEPT !.pc = "clear"]
         ELSE marker' = None /\ UNCHANGED mark
      /\ UNCHANGED <<atomic, store, pruneStore, cache, wr, job, pruner, signed, faults>>

\* set_retention_hold(None) recovers an interrupted append first, under its lock.
RecoverForClear ==
  /\ marker # None /\ marker.pc = "clear" /\ ~Locked /\ intent # None
  /\ job' = [op |-> "recover", by |-> None, step |-> "entry"]
  /\ marker' = [marker EXCEPT !.pc = "unhold"]
  /\ UNCHANGED <<atomic, store, pruneStore, mark, cache, wr, pruner, signed, faults>>

\* Then it clears the hold; when the recovery failed it does not, and its error
\* is only logged.
ClearHold ==
  /\ marker # None /\ job = None
  /\ marker.pc = "unhold" \/ (marker.pc = "clear" /\ intent = None)
  /\ global' = [global EXCEPT !.hold = @ /\ intent # None]
  /\ marker' = None
  /\ UNCHANGED <<atomic, entries, index, seq, head, meta, segs, intent, pruneStore, mark,
                 cache, wr, job, pruner, signed, faults>>

-----------------------------------------------------------------------------
(* Faults *)

\* The running operation's next write fails, or its caller is cancelled.
FailOperation ==
  /\ job # None /\ faults < MaxFaults
  /\ FailOwner
  /\ faults' = faults + 1
  /\ UNCHANGED <<atomic, store, pruneStore, mark, cache, marker, signed>>

\* The process stops and starts again: only the store and the archive remain.
Crash ==
  /\ faults < MaxFaults
  /\ cache' = [c \in Chains |-> NoEntry]
  /\ wr' = [w \in Writers |-> Idle]
  /\ job' = None /\ pruner' = None /\ marker' = None
  /\ faults' = faults + 1
  /\ UNCHANGED <<atomic, store, pruneStore, mark, signed>>

WriterStep(w) ==
  \/ \E c \in Chains : StartAppend(w, c)
  \/ RetryAppend(w) \/ InvalidateHead(w) \/ PublishHead(w)
  \/ AppendRefused(w) \/ AppendAtCap(w) \/ AppendBatch(w) \/ InstallIntent(w)
  \/ StartRecovery(w) \/ RelieveCap(w) \/ SetHold(w)
AppendStep ==
  WriteEntry \/ WriteSequence \/ WriteIndex \/ WriteHead \/ WriteMeta \/ WriteSegment
    \/ WriteGlobal \/ RemoveIntent
PruneStep ==
  \/ \E c \in Chains, n \in Retains : StartPrune(c, n)
  \/ ScanChain \/ CheckReach \/ ArchivePruned \/ CallPrune
  \/ LoadPlan \/ ReadPage \/ DeleteEntry \/ DeleteKey \/ SavePlan
  \/ RetainChain \/ AccountPruned \/ RemoveSegment
  \/ RecordHistory \/ InstallReceipt \/ RemovePlan
MarkStep ==
  \/ \E c \in Certified, pos \in 1 .. MaxEntries : StartMark(c, pos)
  \/ LocatePosition \/ InstallMark \/ RecoverForClear \/ ClearHold
Fault == FailOperation \/ Crash

Next ==
  \/ \E w \in Writers : WriterStep(w)
  \/ AppendStep \/ PruneStep \/ MarkStep \/ Fault

Spec == Init /\ [][Next]_vars

-----------------------------------------------------------------------------
(* Properties *)

Retained(c) == {i \in entries : signed[i].chain = c}

\* Type invariant: the shapes of the stored records and of the operations, with
\* every stored identifier that of a signed entry.
TypeOK ==
  /\ atomic \in BOOLEAN
  /\ signed \in Seq(Entry)
  /\ entries \subseteq Ids
  /\ index \subseteq [ord : 0 .. seq, id : Ids]
  /\ seq \in Nat
  /\ head \in [Chains -> Ids \cup {NoEntry}]
  /\ cache \in [Chains -> Ids \cup {NoEntry}]
  /\ meta \in [Chains -> Meta]
  /\ global \in Global
  /\ segs \subseteq Segment
  /\ intent \in Intent \cup {None}
  /\ plan \in [Chains -> Plan \cup {None}]
  /\ receipt \in [Chains -> Receipt \cup {None}]
  /\ history \in [Chains -> SUBSET Receipt]
  /\ mark \in [Chains -> Mark \cup {None}]
  /\ wr \in [Writers -> Writer]
  /\ job \in Job \cup DeleteJob \cup {None}
  /\ pruner \in Pruner \cup {None}
  /\ marker \in Marker \cup {None}

\* append_inner's locking contract: two entries of one chain never claim the
\* same predecessor, whichever writers raced and wherever a fault hit them.
NoFork ==
  \A i, j \in entries :
    signed[i].chain = signed[j].chain /\ signed[i].prev = signed[j].prev => i = j

\* The entries a chain retains are a contiguous suffix that ends at its head,
\* except for the entry of an interrupted append.
RetainedSuffix ==
  \A c \in Chains : \A i \in Retained(c) :
    \/ i = meta[c].head
    \/ \E j \in Retained(c) : signed[j].prev = i
    \/ intent # None /\ i = intent.id

\* Readers never see the retained count without the pruned total it belongs
\* to: together they are the position of the head, counted from genesis, unless
\* the total is marked as unknown.
PositionsExact ==
  \A c \in Chains : meta[c].head # NoEntry /\ meta[c].omitted # Unknown =>
    meta[c].omitted + meta[c].count = signed[meta[c].head].at

\* No prune, planned before or after a mark, resumed or not, removes an entry
\* past the chain's watermark.
AnchoredKept ==
  \A c \in Chains : mark[c] # None =>
    \A i \in Ids : /\ signed[i].chain = c
                   /\ signed[i].at > mark[c].pos
                   /\ \E j \in entries : signed[j].prev = i
                   => i \in entries

\* A watermark names the entry at its position, although the position was
\* verified without a lock.
MarkNamesItsEntry ==
  \A c \in Chains : mark[c] # None => signed[mark[c].id].at = mark[c].pos

\* The recorded receipts of a chain are its generations from the first on, one
\* of each and each linked to the one before, and the installed one is recorded.
ReceiptsLinked ==
  \A c \in Chains :
    /\ \A h \in history[c] :
         h.gen = 1 \/ \E p \in history[c] : p.gen + 1 = h.gen /\ h.prior = Hash(p)
    /\ \A h, g \in history[c] : h.gen = g.gen => h = g
    /\ receipt[c] # None => receipt[c] \in history[c]

\* Nothing rolls a chain back: its head, counted from genesis, its watermark
\* and its receipt generation only advance, an interrupted or resumed prune
\* and a racing append included.
NeverRolledBack ==
  [][\A c \in Chains :
       /\ meta[c].head # NoEntry =>
            meta[c]'.head # NoEntry /\ signed[meta[c].head].at <= (signed[meta[c].head].at)'
       /\ mark[c] # None => mark[c].pos <= mark[c]'.pos
       /\ receipt[c] # None => receipt[c].gen <= receipt[c]'.gen]_vars

\* Every entry that a prune removed is in an archive file, as archive_pruned
\* promises (log/archive.rs: "deletion starts only after the commit succeeds",
\* and a resumed plan needs no archive because "whoever started the plan
\* archived its entries").
ArchivedBeforeDeleted ==
  \A i \in Ids : (i \notin entries /\ \E j \in entries : signed[j].prev = i) =>
    \E g \in 1 .. MaxGen : i \in archive[signed[i].chain][g]

=============================================================================
