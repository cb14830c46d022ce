--------------------------- MODULE NotificationsMC ---------------------------
(***************************************************************************)
(* Instances of Notifications for TLC.  Where things are lost there is one *)
(* channel that is on, with two rows of two alerts or four rows of one     *)
(* alert; where nothing is there is one alert, with two channels.  In the  *)
(* live instance two alerts have one channel that is switched on and off   *)
(* and may be deleted, and whose service may answer too late.              *)
(***************************************************************************)
EXTENDS Notifications, FiniteSets, TLC

CONSTANTS a1, a2

AllOn == {[on |-> TRUE, default |-> TRUE, skips |-> FALSE]}
OnOrOff == {[on |-> on, default |-> TRUE, skips |-> FALSE] : on \in BOOLEAN}
OnlyOn == {[on |-> TRUE, default |-> TRUE, skips |-> skips] : skips \in BOOLEAN}

MCKind == <<"pagerduty", "slack">>
OneSlack == <<"slack">>

OneWait == <<1>>

AlertSymmetry == Permutations(AlertIds)

\* The options of the channels there are.
Used == {channels[c] : c \in used} \ {None}

OneAlert == Cardinality({a \in AlertIds : told[a] # None}) <= 1

Faults ==
    /\ lossy
    /\ Next
    /\ used' \subseteq {1}
    /\ Used' \subseteq AllOn
    /\ Len(rows') <= IF OneAlert' THEN 4 ELSE 2

Kept == ~lossy /\ Next /\ OneAlert'

MCSpec == Init /\ [][Faults \/ Kept]_vars

LiveInit == Init /\ lossy = TRUE

LiveSpec == LiveInit /\ [][KeptNext \/ DeleteNext \/ SendUnanswered]_vars /\ Fairness

=============================================================================
