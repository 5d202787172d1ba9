-------------------------- MODULE MCDurableEngine ---------------------------
(* DurableEngine on a small instance.  Callers are interchangeable, and so *)
(* are principals.                                                         *)
EXTENDS DurableEngine, TLC

Sym == Permutations(Callers) \cup Permutations(Principals)
=============================================================================
