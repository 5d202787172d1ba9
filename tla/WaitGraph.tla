----------------------------- MODULE WaitGraph -----------------------------
(***************************************************************************)
(* The graph of publication waits between consumers                        *)
(* (crates/astrid-capsule/src/dispatcher/wait_graph.rs).  An edge (s, t)   *)
(* says that an invocation running on consumer s waits for a slot of       *)
(* consumer t's queue; edges are counted because several invocations of    *)
(* one consumer key may wait at once.                                      *)
(***************************************************************************)
EXTENDS Naturals

CONSTANT Keys    \* ConsumerKey: (RuntimeId, PrincipalKey)

Edge == Keys \X Keys
Graph == [Edge -> Nat]

NoEdges == [e \in Edge |-> 0]
present(edges) == {e \in Edge : edges[e] > 0}

closed_under(E, S) == \A x, y \in Keys : <<x, y>> \in E /\ x \in S => y \in S

\* The search loop of enter: b is in every set that contains a and follows the
\* edges, hence in the set of visited nodes.
reaches(E, a, b) ==
  \A S \in SUBSET Keys : a \in S /\ closed_under(E, S) => b \in S

\* Mutation: only a direct cycle of two consumers is refused.
rejects_direct(edges, source, target) ==
  source = target \/ edges[<<target, source>>] > 0

\* Mutation: only a wait on oneself is refused.
rejects_self(edges, source, target) == source = target

\* enter refuses a wait whose target already depends on its source.
rejects(edges, source, target) == reaches(present(edges), target, source)

entered(edges, source, target) == [edges EXCEPT ![<<source, target>>] = @ + 1]

\* Drop of WaitGuard.
dropped(edges, source, target) ==
  [edges EXCEPT ![<<source, target>>] = IF @ > 0 THEN @ - 1 ELSE 0]

\* No consumer waits, through any number of others, on itself.
acyclic(E) == \A x, y \in Keys : <<x, y>> \in E => ~reaches(E, y, x)
=============================================================================
