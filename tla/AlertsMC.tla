------------------------------ MODULE AlertsMC ------------------------------
(***************************************************************************)
(* Instances of Alerts for TLC.                                            *)
(***************************************************************************)
EXTENDS Alerts, TLC

CONSTANTS r1, r2, h1, a1, a2, cpu

TwoNames == {[name |-> n, metric |-> cpu, servers |-> {AllHosts}, trigger |-> 1] : n \in {"A", "B"}}
OneName == {[name |-> "A", metric |-> cpu, servers |-> {h1}, trigger |-> t] : t \in {1, 2}}
BothNames == TwoNames \cup OneName

Above == [op |-> ">", warn |-> 0, critical |-> 1]

AlertSymmetry == Permutations({a1, a2})
RowSymmetry == Permutations({r1, r2}) \cup Permutations({a1, a2})

\* Rules are created and deleted, nothing fails.
DeletedNext ==
    \/ \E r \in Rules, c \in Configs : CreateRule(r, c, TRUE)
    \/ \E r \in Rules : DeleteRule(r)
    \/ SampleNext
    \/ Tick
    \/ EvaluatorNext
    \/ NoticeQueued

DeletedSpec == Init /\ [][DeletedNext]_vars

=============================================================================
