----------------------------- MODULE MCEventBus -----------------------------
(* EventBus on a small instance. *)
EXTENDS EventBus
=============================================================================
