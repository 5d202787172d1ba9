---------------------------- MODULE MCDispatcher ----------------------------
(* Dispatcher on a small instance. *)
EXTENDS Dispatcher
=============================================================================
