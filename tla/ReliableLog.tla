---------------------------- MODULE ReliableLog ----------------------------
(***************************************************************************)
(* What the reserved lane of the event bus promises to its publishers      *)
(* (crates/astrid-events/src/admission.rs, ordered_delivery.rs): a         *)
(* publication either fails and has no effect, or is committed in one      *)
(* total order, and committed publications are handed to their consumers   *)
(* exactly once, in that order.                                            *)
(***************************************************************************)
EXTENDS Naturals, Sequences

CONSTANT Publication

VARIABLES committed, delivered

logVars == <<committed, delivered>>

Init == committed = <<>> /\ delivered = <<>>

Commit(p) ==
  /\ \A i \in DOMAIN committed : committed[i] # p
  /\ committed' = Append(committed, p)
  /\ UNCHANGED delivered

\* The oldest publication not handed over yet.
Deliver ==
  /\ Len(delivered) < Len(committed)
  /\ delivered' = Append(delivered, committed[Len(delivered) + 1])
  /\ UNCHANGED committed

\* With no inbox installed, the commit itself delivers.
CommitAndDeliver(p) ==
  /\ delivered = committed
  /\ \A i \in DOMAIN committed : committed[i] # p
  /\ committed' = Append(committed, p)
  /\ delivered' = committed'

Next ==
  \/ \E p \in Publication : Commit(p) \/ CommitAndDeliver(p)
  \/ Deliver

Spec == Init /\ [][Next]_logVars

FairSpec == Spec /\ WF_logVars(Deliver)
=============================================================================
