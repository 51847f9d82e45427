------------------------------ MODULE MCClaims ------------------------------
(* Instance of Claims for TLC: two tasks on one replica, one on another.   *)
EXTENDS Claims

CONSTANTS t1, t2, t3, r1, r2

MCTasks     == {t1, t2, t3}
MCReplicas  == {r1, r2}
MCReplicaOf == [t \in MCTasks |-> IF t = t3 THEN r2 ELSE r1]

=============================================================================
