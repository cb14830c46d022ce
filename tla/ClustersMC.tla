----------------------------- MODULE ClustersMC -----------------------------
(* Clusters for TLC.  The rule and the admin's changes do not multiply: with a *)
(* rule the clock runs longer, and without one the admin does more.            *)
EXTENDS Clusters

CONSTANT ChangesWithRule

MCInit ==
    /\ Init
    /\ reader.host = CHOOSE h \in Hosts : TRUE
    /\ now = IF rule THEN 1 ELSE 2
    /\ changes = IF rule THEN MaxChanges - ChangesWithRule ELSE 0

MCSpec == MCInit /\ [][Next]_vars /\ Fairness

=============================================================================
