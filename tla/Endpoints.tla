------------------------------ MODULE Endpoints -----------------------------
(***************************************************************************)
(* The endpoint checks.  A round reads the rules once and requests every   *)
(* endpoint at the same time; a check is saved under its rule's name when  *)
(* it is answered, while rules are edited, renamed and deleted.  A rule's  *)
(* status is that of its newest check.                                     *)
(*                                                                         *)
(*   collector/endpoints.go, evaluator.go   runEndpointChecks, checkEndpoint *)
(*   internal/store/endpoints.go, rules.go                                 *)
(***************************************************************************)
EXTENDS Naturals, FiniteSets

CONSTANTS
    RuleNames,
    URLs,
    NoRule,
    MaxClock    \* bound

ASSUME EndpointsAssumption == MaxClock \in Nat /\ NoRule \notin [url : URLs, on : BOOLEAN]

VARIABLES
    rule,       \* the endpoint rules, by name
    saved,      \* endpoint_checks: the newest of each name, several if they have one time
    round,      \* the checks of the round that are on their way
    clock,
    edited      \* history: when each name last got another rule or URL

endpointVars == <<rule, saved, round, clock, edited>>

EndpointsInit ==
    /\ rule = [n \in RuleNames |-> NoRule]
    /\ saved = [n \in RuleNames |-> {}]
    /\ round = {}
    /\ clock = 0
    /\ edited = [n \in RuleNames |-> 0]

Defined == {n \in RuleNames : rule[n] # NoRule}

Edited(names) == edited' = [n \in RuleNames |-> IF n \in names THEN clock ELSE edited[n]]

CreateRule(n, url) ==
    /\ n \notin Defined
    /\ rule' = [rule EXCEPT ![n] = [url |-> url, on |-> TRUE]]
    /\ Edited({n})
    /\ UNCHANGED <<saved, round, clock>>

\* UpdateRule with another URL, or that turns the rule on or off.
UpdateRule(n, url, on) ==
    /\ n \in Defined
    /\ rule' = [rule EXCEPT ![n] = [url |-> url, on |-> on]]
    /\ IF url = rule[n].url THEN UNCHANGED edited ELSE Edited({n})
    /\ UNCHANGED <<saved, round, clock>>

\* ORDER BY time DESC LIMIT 1; of several with one time the query picks any.
Newest(checks) == {c \in checks : \A d \in checks : d.time <= c.time}

\* UpdateRule with another name takes the checks along.
RenameRule(old, new) ==
    /\ old \in Defined /\ new \notin Defined
    /\ rule' = [rule EXCEPT ![old] = NoRule, ![new] = rule[old]]
    /\ saved' = [saved EXCEPT ![old] = {}, ![new] = Newest(saved[old] \cup saved[new])]
    /\ Edited({old, new})
    /\ UNCHANGED <<round, clock>>

\* A deleted rule's checks stay.
DeleteRuleOf(n) ==
    /\ n \in Defined
    /\ rule' = [rule EXCEPT ![n] = NoRule]
    /\ Edited({n})
    /\ UNCHANGED <<saved, round, clock>>

EnabledRules == {n \in Defined : rule[n].on}

\* A round begins when every check of the one before is saved.
runEndpointChecks ==
    /\ round = {}
    /\ EnabledRules # {}
    /\ round' = {[name |-> n, check |-> [url |-> rule[n].url, time |-> clock]] : n \in EnabledRules}
    /\ UNCHANGED <<rule, saved, clock, edited>>

\* Mutant: a check has the time of its answer.
SaveEndpointCheck_Now(c) ==
    saved' = [saved EXCEPT ![c.name] = Newest(@ \cup {[c.check EXCEPT !.time = clock]})]

\* A check has the time it began.
SaveEndpointCheck(c) == saved' = [saved EXCEPT ![c.name] = Newest(@ \cup {c.check})]

\* The endpoint answers, or the request fails or times out; both are checks.
checkEndpoint(c) ==
    /\ c \in round
    /\ round' = round \ {c}
    /\ SaveEndpointCheck(c)
    /\ UNCHANGED <<rule, clock, edited>>

\* The check cannot be saved, which is logged.
CheckNotSaved(c) ==
    /\ c \in round
    /\ round' = round \ {c}
    /\ UNCHANGED <<rule, saved, clock, edited>>

\* The collector restarts in the middle of a round.
RoundLost ==
    /\ round # {}
    /\ round' = {}
    /\ UNCHANGED <<rule, saved, clock, edited>>

ClockTicks ==
    /\ clock < MaxClock
    /\ clock' = clock + 1
    /\ UNCHANGED <<rule, saved, round, edited>>

EndpointsNext ==
    \/ \E n \in RuleNames, url \in URLs :
          CreateRule(n, url) \/ (\E on \in BOOLEAN : UpdateRule(n, url, on))
    \/ \E old, new \in RuleNames : RenameRule(old, new)
    \/ \E n \in RuleNames : DeleteRuleOf(n)
    \/ runEndpointChecks
    \/ \E c \in round : checkEndpoint(c) \/ CheckNotSaved(c)
    \/ RoundLost
    \/ ClockTicks

EndpointsSpec == EndpointsInit /\ [][EndpointsNext]_endpointVars

-----------------------------------------------------------------------------
\* The checks of which one is the rule's status.
LatestEndpointCheck(n) == saved[n]

\* A rule whose newest check is younger than the rule's last change is judged by an
\* answer of its own URL: an answer of the URL it had, or of another rule that had
\* its name, is never newer, however late it comes.
JudgedByOwnURL ==
    \A n \in Defined : \A s \in LatestEndpointCheck(n) :
        s.time > edited[n] => s.url = rule[n].url

=============================================================================
