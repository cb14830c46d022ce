--------------------------- MODULE AlertsSteadyMC ---------------------------
(***************************************************************************)
(* AlertsSteady in three instances: two rules for a short time (rows), one *)
(* rule for longer (life), and a steady one.                               *)
(***************************************************************************)
EXTENDS AlertsMC, AlertsSteady

VARIABLE mode   \* which of the instances the behaviour is of

Until == [rows |-> 2, life |-> 4, steady |-> 6]

Allowed == [rows |-> TwoNames, life |-> {c \in OneName : c.trigger = 1}, steady |-> OneName]

\* What keeps a behaviour in its instance.
Within ==
    /\ now' <= Until[mode]
    /\ \A r \in Rules : rules'[r] # None => rules'[r].config \in Allowed[mode]
    /\ mode # "rows" => Cardinality({r \in Rules : rules'[r] # None}) <= 1
    /\ UNCHANGED mode

MCInit == SteadyInit /\ mode \in DOMAIN Until /\ steady = (mode = "steady")

MCSpec == MCInit /\ [][SteadyNext /\ Within]_<<vars, steady, calm, mode>>

=============================================================================
