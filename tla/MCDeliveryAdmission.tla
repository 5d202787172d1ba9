------------------------ MODULE MCDeliveryAdmission ------------------------
(* Instances of DeliveryAdmission for TLC. *)
EXTENDS DeliveryAdmission

CONSTANTS x, y, z

\* One matching handler per publication.
Single == {<<k>> : k \in Keys}

\* Publications that match handlers of two consumers at one priority.
Multi == Single \cup {<<x, y>>}
=============================================================================
