---------------------------- MODULE MCRouteEntry ----------------------------
(* Instances of RouteEntry for TLC. *)
EXTENDS RouteEntry

CONSTANTS sys, alice, bob, s1

kind(p, n) == [principal |-> p, size |-> n, owner |-> NoOwner, receipt |-> "none"]

\* Three principals whose sizes fill and overflow a small budget.
MCKinds == {kind(sys, 1), kind(alice, 2), kind(bob, 1)}
MCAll == {[kind |-> "all", key |-> sys]}
MCNone == {NoOwner}

\* Scoped routes, with foreign, peer-receipt and foreign-owner traffic.
ScopedKinds ==
  MCKinds \cup
    { [principal |-> alice, size |-> 1, owner |-> s1, receipt |-> "own"],
      [principal |-> alice, size |-> 1, owner |-> s1, receipt |-> "peer"] }
MCScopes ==
  { [kind |-> "all", key |-> sys],
    [kind |-> "exact", key |-> alice],
    [kind |-> "principal_or_system", key |-> alice] }
MCRequests == {NoOwner, s1}
=============================================================================
