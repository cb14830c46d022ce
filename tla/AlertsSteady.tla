---------------------------- MODULE AlertsSteady ----------------------------
(***************************************************************************)
(* When alerts open and resolve.  In a steady behaviour a rule that was    *)
(* created stays on and looks at the same samples, and every sample is     *)
(* checked before the next one comes: an agent's interval is longer than   *)
(* the 15 seconds between rounds, like the 30 of agent/.env-example.  The  *)
(* other behaviours are any of Alerts.                                     *)
(***************************************************************************)
EXTENDS Alerts

VARIABLES
    steady, \* whether the behaviour is steady
    calm    \* history: no fault yet, and no rule changed after its creation

CreatedOn == \E r \in Rules, c \in Configs : CreateRule(r, c, TRUE)

\* The same rule: it looks at the same samples under the same name.
SameRule(c, d) == c.name = d.name /\ c.metric = d.metric /\ c.servers = d.servers

EditStaysOn ==
    \E r \in Rules, c \in Configs :
        rules[r] # None /\ SameRule(rules[r].config, c) /\ UpdateRule(r, c, TRUE)

\* Every rule that looks at the samples of a host saw the newest one.
EveryRuleSaw(h, m) ==
    \A r \in Rules :
        /\ rules[r] # None /\ rules[r].enabled
        /\ rules[r].config.metric = m /\ h \in ruleHosts(rules[r].config)
        /\ sample[h, m] # None
        => checked[Key(rules[r].config, h)] = sample[h, m].at

SlowSample ==
    \E h \in Hosts, m \in Metrics, value \in Values :
        Idle /\ EveryRuleSaw(h, m) /\ SaveSample(h, m, value)

CalmNext ==
    \/ now = 0 /\ CreatedOn
    \/ SlowSample
    \/ Tick
    \/ EvaluatorNext
    \/ NoticeQueued

\* Rules created late or edited, resolved alerts purged, failing writes, restarts.
DisturbedNext ==
    \/ now > 0 /\ CreatedOn
    \/ EditStaysOn
    \/ \E a \in AlertIds : PurgeResolvedAlerts(a)
    \/ WriteFails
    \/ CollectorRestarts

SteadyInit == Init /\ steady \in BOOLEAN /\ calm = TRUE

SteadyNext ==
    /\ UNCHANGED steady
    /\ \/ ~steady /\ Next /\ UNCHANGED calm
       \/ steady /\ CalmNext /\ UNCHANGED calm
       \/ steady /\ DisturbedNext /\ calm' = FALSE

SteadySpec == SteadyInit /\ [][SteadyNext]_<<vars, steady, calm>>

-----------------------------------------------------------------------------
(* Properties *)

\* An alert mirrors its samples: while nothing failed and rules stayed as they
\* were, an alert is open, at the newest sample's severity, once the breach has
\* lasted the rule's interval, and none is once normal has.
OpenWhileBreached ==
    steady /\ calm /\ Idle => \A r \in Rules, h \in Hosts :
        rules[r] # None =>
            LET c == rules[r].config
                s == <<h, c.metric>>
                lasted == /\ sample[s] # None
                          /\ checked[Key(c, h)] = sample[s].at
                          /\ since[s] < sample[s].at
                          /\ sample[s].at - since[s] >= c.trigger
            IN  lasted => IF Breached(s)
                          THEN \E a \in OpenAlert(c, h) : alerts[a].severity = getAlertType(sample[s].value)
                          ELSE OpenAlert(c, h) = {}

\* "A value has to stay past a threshold for TriggerIntveral seconds before the
\* alert opens": the samples were breached for that long, without a break.
OpensAfterBreach ==
    [][steady => \A a \in AlertIds : CreateAlert(a) =>
          LET s == <<writing.host, writing.config.metric>>
          IN  Breached(s) /\ writing.at - since[s] >= writing.config.trigger]_vars

\* "... and back to normal for as long before it resolves."
ResolvesAfterCalm ==
    [][steady /\ ResolveAlert =>
          LET s == <<writing.host, writing.config.metric>>
          IN  ~Breached(s) /\ writing.at - since[s] >= writing.config.trigger]_vars

=============================================================================
