---------------------------- MODULE MCChainLocks ----------------------------
(* Instances of ChainLocks for TLC. *)
EXTENDS ChainLocks

CONSTANTS a, b

\* Two capsules in both orders, and one capsule with two handlers.
Long == {<<a>>, <<a, b>>, <<b, a>>, <<a, a>>}
=============================================================================
