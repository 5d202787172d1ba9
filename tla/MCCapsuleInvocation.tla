------------------------ MODULE MCCapsuleInvocation ------------------------
(* The capsule invocation for TLC: callers and principals are interchangeable. *)
EXTENDS CapsuleInvocation, TLC

Sym == Permutations(Callers) \cup Permutations(Principals)
=============================================================================
