---------------------------- MODULE MCAuditChain ----------------------------
(* AuditChain on a small instance. *)
EXTENDS AuditChain
=============================================================================
