-------------------------- MODULE CapsuleInvocation --------------------------
(****************************************************************************)
(* One invocation of a pooled WebAssembly capsule, from the CPU-rate gate   *)
(* to the return of the instance (astrid-capsule engine/wasm/mod.rs,        *)
(* invoke_interceptor), with the three parts it goes through:               *)
(*   - the per-principal fuel window and its reservations                   *)
(*     (astrid-capsule-types fuel_ledger.rs, user_cpu/execution.rs);        *)
(*   - the instance pool (engine/wasm/pool.rs);                             *)
(*   - the workspace commit that must find the pool idle (mod.rs,           *)
(*     commit_workspace).                                                   *)
(* The future of an invocation may be dropped at any of its awaits; what    *)
(* its destructors then do is part of the model (Abandon, Return, Release,  *)
(* Unwind).                                                                 *)
(* Abstractions: every principal has the same finite budget and no user     *)
(* limit, so a Store's fuel is set to the share and a call burns no more;   *)
(* memory ledgers, profiles and the capsule's unloading are left out.       *)
(****************************************************************************)
EXTENDS Naturals, Sequences, FiniteSets

CONSTANTS
    Callers,     \* the tasks that invoke the capsule
    Principals,  \* who they invoke it for
    None,        \* no instance
    Budget,      \* max_fuel_per_sec of every principal
    Share,       \* invocation_fuel_share: what one call reserves and may burn
    PoolSize,    \* instance_pool_size of a free-checkout pool
    MinIdle      \* instance_pool_min_idle of a free-checkout pool

\* A budget of zero would mean unlimited; a share above the budget is refused.
ASSUME ShareFits == Budget \in Nat \ {0} /\ Share \in 1..Budget
ASSUME PoolSizes == PoolSize \in Nat /\ MinIdle \in 1..PoolSize
ASSUME CallersFinite == IsFiniteSet(Callers)
ASSUME NoneIsNoInstance == None \notin [ctx : BOOLEAN, res : BOOLEAN, torn : BOOLEAN]

VARIABLES
    hosting,   \* the capsule has host_process: one Store, its handles persist
    pc,        \* where each caller's invocation is
    who,       \* the principal it is made for
    win,       \* FuelWindow.fuel_in_window of each principal
    stale,     \* its window is a second old: the next access rolls it
    reserved,  \* FuelRateLimiter.reserved
    resv,      \* the caller owns an unsettled FuelReservation
    notified,  \* its EventListener was notified
    due,       \* its replenishment timer ran out
    permits,   \* free permits of the pool's semaphore
    available, \* the warm instances; checkout and return use the back
    inst,      \* the instance a caller leases
    reuse,     \* PoolCheckout.reusable, decided when the lease ends
    commit,    \* where the workspace commit is
    live       \* a child process of the capsule runs in the workspace

fuel == <<win, stale, reserved, resv, notified, due>>
pool == <<permits, available, inst, reuse>>
vars == <<hosting, pc, who, fuel, pool, commit, live>>

Max == IF hosting THEN 1 ELSE PoolSize
Idle == IF hosting THEN 1 ELSE MinIdle

\* HostState and guest of a Store: a caller's context is installed (ctx), host
\* resources are open (res), a guest call was entered and did not return (torn).
Instances == [ctx : BOOLEAN, res : BOOLEAN, torn : BOOLEAN]
Fresh == [ctx |-> FALSE, res |-> FALSE, torn |-> FALSE]

\* The caller holds a permit of the pool.
Leasing == {"permitted", "building", "leased", "set", "call", "returning", "releasing",
            "expiring"}
Phases == Leasing \cup
    {"idle", "admission", "subscribed", "denied", "parked", "admitted", "unwinding",
     "expired"}

Init ==
    /\ hosting \in BOOLEAN
    /\ pc = [c \in Callers |-> "idle"]
    /\ who \in [Callers -> Principals]
    /\ win = [p \in Principals |-> 0]
    /\ stale = [p \in Principals |-> FALSE]
    /\ reserved = [p \in Principals |-> 0]
    /\ resv = [c \in Callers |-> FALSE]
    /\ notified = [c \in Callers |-> FALSE]
    /\ due = [c \in Callers |-> FALSE]
    /\ permits = Max
    /\ available = [i \in 1..Idle |-> Fresh]
    /\ inst = [c \in Callers |-> None]
    /\ reuse = [c \in Callers |-> TRUE]
    /\ commit = "idle"
    /\ live = FALSE

Goto(c, phase) == pc' = [pc EXCEPT ![c] = phase]

-----------------------------------------------------------------------------
(* The fuel window *)

\* FuelRateLimiter::roll. A window that maybe_prune drops is stale, has no listener and
\* no reservation: the fresh one made in its place is what rolling it would give.
Rolled(p) == IF stale[p] THEN 0 ELSE win[p]
Roll(p, burned) ==
    /\ win' = [win EXCEPT ![p] = Rolled(p) + burned]
    /\ stale' = [stale EXCEPT ![p] = FALSE]

\* over_budget and try_reserve compare settled fuel, promised fuel and the request.
Fits(p, amount) == Rolled(p) + reserved[p] + amount <= Budget

\* Mutation: the listener is registered when the caller suspends.
Listeners_parked(p) == {c \in Callers : who[c] = p /\ pc[c] = "parked"}

\* The callers with an EventListener on p's window.
Listeners(p) ==
    {c \in Callers : who[c] = p /\ pc[c] \in {"subscribed", "denied", "parked"}}

\* Mutation: a settlement clears every reservation of the principal.
Unreserved_all(p) == [reserved EXCEPT ![p] = 0]

\* What a settlement leaves reserved: only this call's share goes.
Unreserved(p) == [reserved EXCEPT ![p] = @ - Share]

\* FuelReservation::settle, settle_reserved; a dropped reservation burns it all.
Settle(c, burned) ==
    LET p == who[c] IN
    /\ Roll(p, burned)
    /\ reserved' = Unreserved(p)
    /\ resv' = [resv EXCEPT ![c] = FALSE]
    /\ notified' = [d \in Callers |-> notified[d] \/ d \in Listeners(p)]
    /\ UNCHANGED due

\* The gate before any reservation (cpu_rate_deny): a principal over its budget is
\* refused at once.
Invoke(c) ==
    LET p == who[c] IN
    /\ pc[c] = "idle"
    /\ Roll(p, 0)
    /\ IF Fits(p, 0) THEN Goto(c, "admission") ELSE UNCHANGED pc
    /\ UNCHANGED <<hosting, who, reserved, resv, notified, due, pool, commit, live>>

\* capacity_changed: the listener is registered before the check. It starts unnotified
\* and goes with the attempt it was made for, as does the timer.
Heard(c) == [notified EXCEPT ![c] = FALSE]
Unlisten(c) ==
    /\ notified' = Heard(c)
    /\ due' = [due EXCEPT ![c] = FALSE]
    /\ UNCHANGED <<win, stale, reserved, resv>>

Subscribe(c) ==
    /\ pc[c] = "admission"
    /\ Goto(c, "subscribed")
    /\ UNCHANGED <<hosting, who, fuel, pool, commit, live>>

TryReserve(c) ==
    LET p == who[c] IN
    /\ pc[c] = "subscribed"
    /\ Roll(p, 0)
    /\ \/ /\ Fits(p, Share)
          /\ reserved' = [reserved EXCEPT ![p] = @ + Share]
          /\ resv' = [resv EXCEPT ![c] = TRUE]
          /\ notified' = Heard(c)
          /\ Goto(c, "admitted")
       \/ /\ ~Fits(p, Share)
          /\ Goto(c, "denied")
          /\ UNCHANGED <<reserved, resv, notified>>
    /\ UNCHANGED <<hosting, who, due, pool, commit, live>>

\* replenishment_delay is read after the denial: the timer is armed for the window
\* of that moment.
Park(c) ==
    /\ pc[c] = "denied"
    /\ due' = [due EXCEPT ![c] = stale[who[c]]]
    /\ Goto(c, "parked")
    /\ UNCHANGED <<hosting, who, win, stale, reserved, resv, notified, pool, commit, live>>

Retry(c) ==
    /\ pc[c] = "parked"
    /\ notified[c] \/ due[c]
    /\ Unlisten(c)
    /\ Goto(c, "admission")
    /\ UNCHANGED <<hosting, who, pool, commit, live>>

\* The throttle is refused, reserve_with_timeout expires, or the future is dropped
\* while it waits: nothing was reserved.
GiveUp(c) ==
    /\ pc[c] \in {"admission", "parked"}
    /\ Unlisten(c)
    /\ Goto(c, "idle")
    /\ UNCHANGED <<hosting, who, pool, commit, live>>

\* A second passes since p's window began; timers armed for that window run out.
Tick(p) ==
    /\ ~stale[p]
    /\ stale' = [stale EXCEPT ![p] = TRUE]
    /\ due' = [c \in Callers |-> due[c] \/ (who[c] = p /\ pc[c] = "parked")]
    /\ UNCHANGED <<hosting, pc, who, win, reserved, resv, notified, pool, commit, live>>

-----------------------------------------------------------------------------
(* The instance pool *)

\* checkout: a permit first.
Acquire(c) ==
    /\ pc[c] = "admitted"
    /\ permits > 0
    /\ permits' = permits - 1
    /\ Goto(c, "permitted")
    /\ UNCHANGED <<hosting, who, fuel, available, inst, reuse, commit, live>>

\* The deadline passes before a permit or an instance came. The checkout's future is
\* dropped first, with the instance it builds and then its permit.
CheckoutTimeout(c) ==
    /\ pc[c] \in {"admitted", "building"}
    /\ Goto(c, IF pc[c] = "building" THEN "expiring" ELSE "expired")
    /\ UNCHANGED <<hosting, who, fuel, pool, commit, live>>

\* Mutation: the idle instances are kept in reserve.
Warm_aboveIdle == Len(available) > Idle

\* A warm instance is leased whenever there is one.
Warm == available # <<>>
Pop(c) ==
    /\ pc[c] = "permitted"
    /\ \/ /\ Warm
          /\ inst' = [inst EXCEPT ![c] = available[Len(available)]]
          /\ available' = SubSeq(available, 1, Len(available) - 1)
          /\ Goto(c, "leased")
       \/ /\ ~Warm
          /\ Goto(c, "building")
          /\ UNCHANGED <<inst, available>>
    /\ UNCHANGED <<hosting, who, fuel, permits, reuse, commit, live>>

Build(c) ==
    /\ pc[c] = "building"
    /\ inst' = [inst EXCEPT ![c] = Fresh]
    /\ Goto(c, "leased")
    /\ UNCHANGED <<hosting, who, fuel, permits, available, reuse, commit, live>>

\* Phase 1: caller context, profile, overlays.
SetContext(c) ==
    /\ pc[c] = "leased"
    /\ inst' = [inst EXCEPT ![c].ctx = TRUE]
    /\ Goto(c, "set")
    /\ UNCHANGED <<hosting, who, fuel, permits, available, reuse, commit, live>>

\* Phase 2: begin_call, then the guest.
BeginCall(c) ==
    /\ pc[c] = "set"
    /\ inst' = [inst EXCEPT ![c].torn = TRUE]
    /\ Goto(c, "call")
    /\ UNCHANGED <<hosting, who, fuel, permits, available, reuse, commit, live>>

\* The guest opens or closes host resources; with host_process, children are spawned.
Guest(c) ==
    /\ pc[c] = "call"
    /\ \E open \in BOOLEAN :
          /\ inst' = [inst EXCEPT ![c].res = open]
          /\ live' = (live \/ (hosting /\ open))
    /\ UNCHANGED <<hosting, pc, who, fuel, permits, available, reuse, commit>>

\* A child ends by itself, or is killed with the table that held its handle.
ChildExits ==
    /\ live
    /\ live' = FALSE
    /\ UNCHANGED <<hosting, pc, who, fuel, pool, commit>>

\* The call is over and its exact fuel settled: it returned; it trapped or its view
\* was retired; or the export is missing and the guest was never entered.
EndCall(c) ==
    /\ \/ /\ pc[c] = "call"
          /\ \E burned \in 0..Share : Settle(c, burned)
          /\ \/ /\ inst' = [inst EXCEPT ![c].torn = FALSE]
                /\ reuse' = [reuse EXCEPT ![c] = TRUE]
             \/ /\ reuse' = [reuse EXCEPT ![c] = FALSE]
                /\ UNCHANGED inst
       \/ /\ pc[c] = "set"
          /\ Settle(c, 0)
          /\ reuse' = [reuse EXCEPT ![c] = TRUE]
          /\ UNCHANGED inst
    /\ Goto(c, "returning")
    /\ UNCHANGED <<hosting, who, permits, available, commit, live>>

\* The invocation leaves early with its reservation unsettled: the overlay, the
\* build or the CPU binding failed, or the future was dropped.
Abandon(c) ==
    /\ pc[c] \in {"admitted", "building", "leased", "set", "call"}
    /\ reuse' = [reuse EXCEPT ![c] = pc[c] # "call"]
    /\ Goto(c, CASE pc[c] = "admitted" -> "unwinding"
                 [] pc[c] = "building" -> "releasing"
                 [] OTHER -> "returning")
    /\ UNCHANGED <<hosting, who, fuel, permits, available, inst, commit, live>>

\* clear_on_return
Cleared(i, reset) == [i EXCEPT !.ctx = FALSE, !.res = @ /\ ~reset]

\* Mutation: an interrupted Store is reused.
GoesBack_always(c) == TRUE

\* PoolCheckout::drop: which Stores go back to the pool.
GoesBack(c) == reuse[c]
Return(c) ==
    /\ pc[c] = "returning"
    /\ available' = IF GoesBack(c)
                      THEN Append(available, Cleared(inst[c], ~hosting \/ ~reuse[c]))
                      ELSE available
    /\ inst' = [inst EXCEPT ![c] = None]
    /\ Goto(c, "releasing")
    /\ UNCHANGED <<hosting, who, fuel, permits, reuse, commit, live>>

\* The permit is the checkout's last field; the next checkout starts out reusable.
Release(c) ==
    /\ pc[c] \in {"releasing", "expiring"}
    /\ permits' = permits + 1
    /\ reuse' = [reuse EXCEPT ![c] = TRUE]
    /\ Goto(c, IF pc[c] = "expiring" THEN "expired" ELSE "unwinding")
    /\ UNCHANGED <<hosting, who, fuel, available, inst, commit, live>>

\* A timed-out checkout ran nothing and settles to zero. FuelReservation::drop charges
\* a reservation that is still unsettled in full.
Unwind(c) ==
    /\ pc[c] \in {"unwinding", "expired"}
    /\ IF resv[c] THEN Settle(c, IF pc[c] = "expired" THEN 0 ELSE Share)
       ELSE UNCHANGED fuel
    /\ Goto(c, "idle")
    /\ UNCHANGED <<hosting, who, pool, commit, live>>

\* evict_loop, drain_excess: the coldest instances above the idle count.
Evict ==
    /\ Len(available) > Idle
    /\ available' = SubSeq(available, Len(available) - Idle + 1, Len(available))
    /\ UNCHANGED <<hosting, pc, who, fuel, permits, inst, reuse, commit, live>>

-----------------------------------------------------------------------------
(* The workspace commit *)

\* Mutation: a single permit is taken for exclusive access.
Exclusive_one == 1

\* try_acquire_exclusive wants every permit; a busy capsule is refused at once.
Exclusive == Max
CommitBegin ==
    /\ commit = "idle"
    /\ permits >= Exclusive
    /\ permits' = permits - Exclusive
    /\ commit' = "exclusive"
    /\ UNCHANGED <<hosting, pc, who, fuel, available, inst, reuse, live>>

\* A live child refuses the commit.
CommitCheck ==
    /\ commit = "exclusive"
    /\ commit' = IF live THEN "idle" ELSE "running"
    /\ permits' = IF live THEN permits + Exclusive ELSE permits
    /\ UNCHANGED <<hosting, pc, who, fuel, available, inst, reuse, live>>

CommitEnd ==
    /\ commit = "running"
    /\ commit' = "idle"
    /\ permits' = permits + Exclusive
    /\ UNCHANGED <<hosting, pc, who, fuel, available, inst, reuse, live>>

-----------------------------------------------------------------------------

Step(c) ==
    \/ Invoke(c) \/ Subscribe(c) \/ TryReserve(c) \/ Park(c) \/ Retry(c) \/ GiveUp(c)
    \/ Acquire(c) \/ CheckoutTimeout(c) \/ Pop(c) \/ Build(c) \/ SetContext(c)
    \/ BeginCall(c) \/ Guest(c) \/ EndCall(c) \/ Abandon(c) \/ Return(c)
    \/ Release(c) \/ Unwind(c)

Next ==
    \/ \E c \in Callers : Step(c)
    \/ \E p \in Principals : Tick(p)
    \/ ChildExits \/ Evict \/ CommitBegin \/ CommitCheck \/ CommitEnd

Spec == Init /\ [][Next]_vars

-----------------------------------------------------------------------------
(* Properties *)

TypeOK ==
    /\ hosting \in BOOLEAN
    /\ pc \in [Callers -> Phases]
    /\ who \in [Callers -> Principals]
    /\ win \in [Principals -> Nat] /\ reserved \in [Principals -> Nat]
    /\ stale \in [Principals -> BOOLEAN]
    /\ resv \in [Callers -> BOOLEAN] /\ reuse \in [Callers -> BOOLEAN]
    /\ notified \in [Callers -> BOOLEAN] /\ due \in [Callers -> BOOLEAN]
    /\ permits \in 0..Max
    /\ available \in Seq(Instances)
    /\ inst \in [Callers -> Instances \cup {None}]
    /\ commit \in {"idle", "exclusive", "running"}
    /\ live \in BOOLEAN

\* The calls with an unsettled reservation
InFlight(p) == {c \in Callers : who[c] = p /\ resv[c]}

\* A principal's settled fuel of the running window together with the shares of all
\* its calls still in flight stays within its budget, through window rolls, timeouts,
\* traps and dropped futures ("the ledger still bounds total in-flight consumption to
\* the per-second budget", fuel_ledger.rs).
BudgetHolds ==
    \A p \in Principals : win[p] + Share * Cardinality(InFlight(p)) <= Budget

\* A caller that parked without a notification and with its timer still running could
\* not be admitted: no settlement slips between its failed check and its suspension.
\* The one exception the code leaves is a window rolled by somebody else in that gap,
\* after which nothing has been charged yet; that caller waits one window more.
SettlementSeen ==
    \A c \in Callers :
        (pc[c] = "parked" /\ ~notified[c] /\ ~due[c] /\ win[who[c]] > 0)
            => ~Fits(who[c], Share)

\* Never more instances than the pool's ceiling: warm ones, leased ones and those under
\* construction ("Total-instance invariant: never more than `max`", pool.rs).
InstancesBounded ==
    Len(available)
      + Cardinality({c \in Callers : inst[c] # None \/ pc[c] = "building"}) <= Max

\* No lease starts with what an earlier call left: its caller context, its open host
\* resources (but for the single Store of a host_process capsule, which keeps its
\* handles) or a guest that was interrupted.
CleanLease ==
    \A c \in Callers : pc[c] = "leased" =>
        /\ ~inst[c].ctx /\ ~inst[c].torn
        /\ inst[c].res => hosting

\* While a workspace is promoted or rolled back, no invocation holds or builds an
\* instance and no child process of the capsule runs in the workspace.
CommitAlone ==
    commit = "running" => ~live /\ \A c \in Callers : pc[c] \notin Leasing
=============================================================================
