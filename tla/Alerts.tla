------------------------------- MODULE Alerts -------------------------------
(***************************************************************************)
(* Alert rules and the evaluator.  Every 15 seconds the collector reads    *)
(* the rules that are on and the hosts, and checks each rule's newest      *)
(* sample on each of its hosts.  An alert opens once the rule has been     *)
(* breached for its trigger interval and resolves once it has been back to *)
(* normal for as long.  Meanwhile admins create, change, switch off,       *)
(* rename, import and delete rules, hosts come and go, and samples arrive. *)
(*                                                                         *)
(*   collector/evaluator.go   check, updateOpen, openIfBreached            *)
(*   collector/alerts.go      handleAlerts, the round                      *)
(*   internal/store/alerts.go, internal/store/rules.go   the statements    *)
(*                                                                         *)
(* Every rule has the same thresholds.  The rounds are sequential; what    *)
(* runs at the same time are the statements of the dashboard and the       *)
(* agents between those of the evaluator.                                  *)
(***************************************************************************)
EXTENDS Integers, FiniteSets

CONSTANTS
    Rules,      \* ids of alert_rules
    Configs,    \* rules as saved: name, metric, servers, trigger and more
    Hosts,      \* host names
    Metrics,    \* a metric with its disk or service
    Values,     \* the values of samples
    Thresholds, \* of the rules: op, warn and critical
    AlertIds,   \* ids of alerts, never reused
    AllHosts,   \* "*" in a rule's servers
    MaxTime,    \* bound: the last time a sample can have
    None

\* alertstatus
Normal == 0
Warning == 1
Critical == 2

\* A row of alert_rules, a sample, a status change that has not lasted yet, and
\* what a check is about to write.
RuleRows == [config : Configs, enabled : BOOLEAN]
Samples == [value : Values, at : Nat]
Changes == [status : {Normal, Warning, Critical}, since : Nat]
Statements ==
    [does : {"create", "update", "resolve"}, config : Configs, host : Hosts,
     level : {Normal, Warning, Critical}, at : Nat, alert : AlertIds \cup {None}]

ASSUME AlertsAssumption ==
    /\ MaxTime \in Nat
    /\ AllHosts \notin Hosts
    /\ None \notin AlertIds \cup {"opened", "changed", "resolved"}
    /\ None \notin RuleRows \cup Samples \cup Changes \cup Statements
    /\ Values \subseteq Int
    /\ Thresholds \in [op : {"==", "!=", ">", "<", ">=", "<=", "inactive", "active"}, warn : Int, critical : Int]
    /\ \A c \in Configs : /\ c.metric \in Metrics
                          /\ c.servers \subseteq Hosts \cup {AllHosts}
                          /\ c.trigger \in Nat

Names == {c.name : c \in Configs}

\* What the evaluator's maps are indexed by, alertKey.
Keys == Hosts \X Names \X Metrics
Key(c, h) == <<h, c.name, c.metric>>

VARIABLES
    \* the store
    rules,      \* alert_rules: the config and whether it is on, None without a row
    hosts,      \* the names in hosts
    sample,     \* the newest sample of each host and metric, None without one
    alerts,     \* alerts: where the row is, and its columns
    \* the evaluator
    work,       \* what this round still has to check
    writing,    \* the statement the check in progress is about to make
    pending,    \* a status change that has not lasted yet, by key
    checked,    \* the newest sample time seen, by key
    notice,     \* the notice on its way to the queue
    \* the clock, and history for the properties
    now,
    since,      \* when the samples last went from normal to breached or back
    told        \* the last event passed on about an alert

storeVars == <<rules, hosts, sample, alerts>>
evaluatorVars == <<work, writing, pending, checked, notice>>
vars == <<storeVars, evaluatorVars, now, since, told>>

NoAlert == [state |-> "none", host |-> None, rule |-> None, metric |-> None, severity |-> Normal]

EvaluatorStarts ==
    /\ work = {}
    /\ writing = None
    /\ pending = [k \in Keys |-> None]
    /\ checked = [k \in Keys |-> 0]
    /\ notice = None

Init ==
    /\ rules = [r \in Rules |-> None]
    /\ hosts = Hosts
    /\ sample = [s \in Hosts \X Metrics |-> None]
    /\ alerts = [a \in AlertIds |-> NoAlert]
    /\ EvaluatorStarts
    /\ now = 0
    /\ since = [s \in Hosts \X Metrics |-> 0]
    /\ told = [a \in AlertIds |-> None]

-----------------------------------------------------------------------------
(* The dashboard and the command line *)

NameTaken(name, others) == \E r \in others : rules[r] # None /\ rules[r].config.name = name

CreateRule(r, c, on) ==
    /\ rules[r] = None
    /\ ~NameTaken(c.name, Rules)
    /\ rules' = [rules EXCEPT ![r] = [config |-> c, enabled |-> on]]
    /\ UNCHANGED <<hosts, sample, alerts, evaluatorVars, now, since, told>>

IsOpen(a) == alerts[a].state = "open"

Renamed(a, old, new) ==
    IF IsOpen(a) /\ alerts[a].rule = old THEN [alerts[a] EXCEPT !.rule = new] ELSE alerts[a]

\* resolveRuleAlerts
RuleResolved(alert, name) ==
    IF alert.state = "open" /\ alert.rule = name THEN [alert EXCEPT !.state = "resolved"] ELSE alert

SameTarget(x, y) == x.host = y.host /\ x.rule = y.rule /\ x.metric = y.metric

\* Mutant: the unique index is missing.
OneOpenIn_Any(rows) == TRUE

\* The unique index alerts_one_open: a statement that would leave two open
\* alerts for one target fails.
OneOpenIn(rows) ==
    \A a, b \in AlertIds :
        rows[a].state = "open" /\ rows[b].state = "open" /\ SameTarget(rows[a], rows[b]) => a = b

\* UpdateRule: a new name carries the open alerts along, and switching the rule
\* off resolves them, in one transaction.
UpdateRule(r, c, on) ==
    /\ rules[r] # None
    /\ ~NameTaken(c.name, Rules \ {r})
    /\ LET carried == [a \in AlertIds |-> Renamed(a, rules[r].config.name, c.name)]
       IN  /\ OneOpenIn(carried)
           /\ alerts' = [a \in AlertIds |-> IF on THEN carried[a]
                                            ELSE RuleResolved(carried[a], c.name)]
    /\ rules' = [rules EXCEPT ![r] = [config |-> c, enabled |-> on]]
    /\ UNCHANGED <<hosts, sample, evaluatorVars, now, since, told>>

\* DeleteRule: the rule goes and its open alerts resolve.
DeleteRule(r) ==
    /\ rules[r] # None
    /\ alerts' = [a \in AlertIds |-> RuleResolved(alerts[a], rules[r].config.name)]
    /\ rules' = [rules EXCEPT ![r] = None]
    /\ UNCHANGED <<hosts, sample, evaluatorVars, now, since, told>>

\* ImportRules with a file of one rule: add it, or replace the one of that name
\* and leave its switch as it is.
ImportRules(r, c) ==
    /\ IF NameTaken(c.name, Rules)
       THEN rules[r] # None /\ rules[r].config.name = c.name
       ELSE rules[r] = None
    /\ rules' = [rules EXCEPT ![r] = [config |-> c,
                                      enabled |-> IF @ = None THEN TRUE ELSE @.enabled]]
    /\ UNCHANGED <<hosts, sample, alerts, evaluatorVars, now, since, told>>

\* RemoveHost: the alerts go with the host, and a host added again has no
\* samples of its own yet.
RemoveHost(h) ==
    /\ h \in hosts
    /\ hosts' = hosts \ {h}
    /\ alerts' = [a \in AlertIds |-> IF alerts[a].host = h
                                     THEN [NoAlert EXCEPT !.state = "deleted"] ELSE alerts[a]]
    /\ sample' = [s \in Hosts \X Metrics |-> IF s[1] = h THEN None ELSE sample[s]]
    /\ since' = [s \in Hosts \X Metrics |-> IF s[1] = h THEN 0 ELSE since[s]]
    /\ UNCHANGED <<rules, evaluatorVars, now, told>>

AddHost(h) ==
    /\ h \notin hosts
    /\ hosts' = hosts \cup {h}
    /\ UNCHANGED <<rules, sample, alerts, evaluatorVars, now, since, told>>

\* PurgeResolvedAlerts: any resolved alert may be old enough.
PurgeResolvedAlerts(a) ==
    /\ alerts[a].state = "resolved"
    /\ alerts' = [alerts EXCEPT ![a] = [NoAlert EXCEPT !.state = "deleted"]]
    /\ UNCHANGED <<rules, hosts, sample, evaluatorVars, now, since, told>>

-----------------------------------------------------------------------------
(* Samples *)

Passes(value, threshold) ==
    CASE Thresholds.op = "==" -> value = threshold
      [] Thresholds.op = "!=" -> value # threshold
      [] Thresholds.op = ">" -> value > threshold
      [] Thresholds.op = "<" -> value < threshold
      [] Thresholds.op = ">=" -> value >= threshold
      [] Thresholds.op = "<=" -> value <= threshold

\* The status of a value; a service is active (1) or not (0).
getAlertType(value) ==
    IF Thresholds.op \in {"inactive", "active"}
    THEN IF value = (IF Thresholds.op = "active" THEN 1 ELSE 0) THEN Critical ELSE Normal
    ELSE IF Passes(value, Thresholds.critical) THEN Critical
    ELSE IF Passes(value, Thresholds.warn) THEN Warning
    ELSE Normal

Breached(s) == sample[s] # None /\ getAlertType(sample[s].value) # Normal

\* SaveSnapshot: a newer sample of a host.
SaveSample(h, m, value) ==
    /\ h \in hosts
    /\ sample[h, m] # None => sample[h, m].at < now
    /\ now > 0
    /\ sample' = [sample EXCEPT ![<<h, m>>] = [value |-> value, at |-> now]]
    /\ since' = [since EXCEPT ![<<h, m>>] =
                    IF sample[h, m] = None \/ Breached(<<h, m>>) # (getAlertType(value) # Normal) THEN now ELSE @]
    /\ UNCHANGED <<rules, hosts, alerts, evaluatorVars, now, told>>

Tick ==
    /\ now < MaxTime
    /\ now' = now + 1
    /\ UNCHANGED <<storeVars, evaluatorVars, since, told>>

-----------------------------------------------------------------------------
(* The evaluator *)

Idle == work = {} /\ writing = None /\ notice = None

ruleHosts(c) == IF AllHosts \in c.servers THEN hosts ELSE c.servers

\* A round of handleAlerts begins: the rules that are on and the hosts are read.
RoundBegins ==
    /\ Idle
    /\ work' = UNION {{rules[r].config} \X ruleHosts(rules[r].config) :
                         r \in {q \in Rules : rules[q] # None /\ rules[q].enabled}}
    /\ UNCHANGED <<storeVars, writing, pending, checked, notice, now, since, told>>

\* Mutant: resolved alerts are found as well.
OpenAlert_Any(c, h) ==
    {a \in AlertIds : /\ alerts[a].state \in {"open", "resolved"}
                      /\ SameTarget(alerts[a], [host |-> h, rule |-> c.name, metric |-> c.metric])}

\* The row OpenAlert finds, as a set of at most one.
OpenAlert(c, h) ==
    {a \in AlertIds : /\ IsOpen(a)
                      /\ SameTarget(alerts[a], [host |-> h, rule |-> c.name, metric |-> c.metric])}

\* Mutant: the interval is one too short.
Lasted_TooSoon(c, k, at) == at - pending[k].since >= c.trigger - 1

\* Mutant: the interval is one too long.
Lasted_TooLate(c, k, at) == at - pending[k].since > c.trigger

\* The pending change has lasted the trigger interval.
Lasted(c, k, at) == at - pending[k].since >= c.trigger

\* Mutant: any pending change counts as a return to normal.
WaitingForNormal_Any(k) == pending[k] # None

WaitingForNormal(k) == pending[k] # None /\ pending[k].status = Normal
WaitingForBreach(k) == pending[k] # None /\ pending[k].status # Normal

Pend(k, what) == pending' = [pending EXCEPT ![k] = what]

NoPending(k) == Pend(k, None)

Will(does, c, h, s, a) ==
    writing' = [does |-> does, config |-> c, host |-> h, level |-> getAlertType(s.value), at |-> s.at, alert |-> a]
WillNot == writing' = None

\* updateOpen, up to its statement.  The severity is the one OpenAlert read.
updateOpen(c, h, s, a) ==
    LET k == Key(c, h)
        status == getAlertType(s.value)
    IN  \/ /\ status = Normal /\ ~WaitingForNormal(k)
           /\ Pend(k, [status |-> Normal, since |-> s.at])
           /\ WillNot
        \/ /\ status = Normal /\ WaitingForNormal(k) /\ ~Lasted(c, k, s.at)
           /\ UNCHANGED pending
           /\ WillNot
        \/ /\ status = Normal /\ WaitingForNormal(k) /\ Lasted(c, k, s.at)
           /\ UNCHANGED pending
           /\ Will("resolve", c, h, s, a)
        \/ /\ status # Normal /\ status = alerts[a].severity
           /\ NoPending(k)
           /\ WillNot
        \/ /\ status # Normal /\ status # alerts[a].severity
           /\ NoPending(k)
           /\ Will("update", c, h, s, a)

\* openIfBreached, up to its statement.
openIfBreached(c, h, s) ==
    LET k == Key(c, h)
        status == getAlertType(s.value)
    IN  \/ /\ status = Normal
           /\ NoPending(k)
           /\ WillNot
        \/ /\ status # Normal /\ ~WaitingForBreach(k)
           /\ Pend(k, [status |-> status, since |-> s.at])
           /\ WillNot
        \/ /\ status # Normal /\ WaitingForBreach(k) /\ ~Lasted(c, k, s.at)
           /\ UNCHANGED pending
           /\ WillNot
        \/ /\ status # Normal /\ WaitingForBreach(k) /\ Lasted(c, k, s.at)
           /\ UNCHANGED pending
           /\ Will("create", c, h, s, None)

\* What a check has before it: a sample newer than the last one it saw.
Fresh(c, h) ==
    /\ h \in hosts
    /\ sample[h, c.metric] # None
    /\ sample[h, c.metric].at > checked[Key(c, h)]

Take(c, h) ==
    /\ writing = None
    /\ notice = None
    /\ <<c, h>> \in work
    /\ work' = work \ {<<c, h>>}

\* evaluate without data, or check with a sample it has seen.
NothingNew(c, h) ==
    /\ Take(c, h)
    /\ ~Fresh(c, h)
    /\ UNCHANGED <<storeVars, writing, pending, checked, notice, now, since, told>>

\* check: note the sample's time, read the open alert, decide.
Check(c, h) ==
    /\ Take(c, h)
    /\ Fresh(c, h)
    /\ LET s == sample[h, c.metric]
       IN  /\ checked' = [checked EXCEPT ![Key(c, h)] = s.at]
           /\ \/ OpenAlert(c, h) = {} /\ openIfBreached(c, h, s)
              \/ \E a \in OpenAlert(c, h) : updateOpen(c, h, s, a)
    /\ UNCHANGED <<storeVars, notice, now, since, told>>

\* A read fails.  When it is OpenAlert's, the sample's time is noted already.
ReadFails(c, h) ==
    /\ Take(c, h)
    /\ Fresh(c, h)
    /\ checked' \in {checked, [checked EXCEPT ![Key(c, h)] = sample[h, c.metric].at]}
    /\ UNCHANGED <<storeVars, writing, pending, notice, now, since, told>>

\* e.notify: the notice goes to the queue before the next check.
Notify(a, event) ==
    /\ notice' = [alert |-> a, event |-> event, severity |-> writing.level,
                  config |-> writing.config]
    /\ told' = [told EXCEPT ![a] = event]

WritingKey == Key(writing.config, writing.host)

Opened(a) ==
    [alerts EXCEPT ![a] = [state |-> "open", host |-> writing.host, rule |-> writing.config.name,
                           metric |-> writing.config.metric, severity |-> writing.level]]

CanCreate(a) == alerts[a].state = "none" /\ writing.host \in hosts /\ OneOpenIn(Opened(a))

CreateAlert(a) ==
    /\ writing # None /\ writing.does = "create"
    /\ CanCreate(a)
    /\ alerts' = Opened(a)
    /\ NoPending(WritingKey)
    /\ Notify(a, "opened")
    /\ writing' = None
    /\ UNCHANGED <<rules, hosts, sample, work, checked, now, since>>

\* The host is gone, or the index refuses the row: the pending status stays.
CreateRefused(a) ==
    /\ writing # None /\ writing.does = "create"
    /\ alerts[a].state = "none"
    /\ ~CanCreate(a)
    /\ writing' = None
    /\ UNCHANGED <<storeVars, work, pending, checked, notice, now, since, told>>

\* Both statements go by id: nothing happens to a row that is gone, and nothing
\* keeps them from a row that was resolved meanwhile.
Updated ==
    [alerts EXCEPT ![writing.alert].severity =
        IF alerts[writing.alert].state = "deleted" THEN @ ELSE writing.level]
Resolved ==
    [alerts EXCEPT ![writing.alert].state = IF @ = "deleted" THEN @ ELSE "resolved"]

UpdateAlert ==
    /\ writing # None /\ writing.does = "update"
    /\ alerts' = Updated
    /\ Notify(writing.alert, "changed")
    /\ writing' = None
    /\ UNCHANGED <<rules, hosts, sample, work, pending, checked, now, since>>

ResolveAlert ==
    /\ writing # None /\ writing.does = "resolve"
    /\ alerts' = Resolved
    /\ NoPending(WritingKey)
    /\ Notify(writing.alert, "resolved")
    /\ writing' = None
    /\ UNCHANGED <<rules, hosts, sample, work, checked, now, since>>

\* The statement fails and check returns its error.  When only its answer was
\* lost, it took effect.
WriteFails ==
    /\ writing # None
    /\ \/ UNCHANGED alerts
       \/ writing.does = "create" /\ \E a \in AlertIds : CanCreate(a) /\ alerts' = Opened(a)
       \/ writing.does = "update" /\ alerts' = Updated
       \/ writing.does = "resolve" /\ alerts' = Resolved
    /\ writing' = None
    /\ UNCHANGED <<rules, hosts, sample, work, pending, checked, notice, now, since, told>>

\* queueNotice returns.
NoticeQueued ==
    /\ notice # None
    /\ notice' = None
    /\ UNCHANGED <<storeVars, work, writing, pending, checked, now, since, told>>

\* The collector restarts: the maps and the round in progress are gone.
CollectorRestarts ==
    /\ work' = {}
    /\ writing' = None
    /\ pending' = [k \in Keys |-> None]
    /\ checked' = [k \in Keys |-> 0]
    /\ notice' = None
    /\ UNCHANGED <<storeVars, now, since, told>>

-----------------------------------------------------------------------------
RuleNext ==
    \/ \E r \in Rules, c \in Configs : \/ \E on \in BOOLEAN : CreateRule(r, c, on)
                                       \/ \E on \in BOOLEAN : UpdateRule(r, c, on)
                                       \/ ImportRules(r, c)
    \/ \E r \in Rules : DeleteRule(r)

HostNext ==
    \/ \E h \in Hosts : RemoveHost(h) \/ AddHost(h)
    \/ \E a \in AlertIds : PurgeResolvedAlerts(a)

SampleNext == \E h \in Hosts, m \in Metrics, value \in Values : SaveSample(h, m, value)

EvaluatorNext ==
    \/ RoundBegins
    \/ \E c \in Configs, h \in Hosts : NothingNew(c, h) \/ Check(c, h)
    \/ \E a \in AlertIds : CreateAlert(a) \/ CreateRefused(a)
    \/ UpdateAlert
    \/ ResolveAlert

FaultNext ==
    \/ \E c \in Configs, h \in Hosts : ReadFails(c, h)
    \/ WriteFails
    \/ CollectorRestarts

Next == RuleNext \/ HostNext \/ SampleNext \/ Tick \/ EvaluatorNext \/ NoticeQueued \/ FaultNext

Spec == Init /\ [][Next]_vars

-----------------------------------------------------------------------------
(* Properties *)

\* At most one alert is open for a rule's target on a host, whatever renames,
\* deletions and evaluations overlap.
OneOpenPerTarget ==
    \A a, b \in AlertIds : IsOpen(a) /\ IsOpen(b) /\ a # b => ~SameTarget(alerts[a], alerts[b])

\* The notices about an alert are in an order a reader can follow: its opening
\* comes before any other, and once updateOpen told of its resolution it is never
\* spoken of again.
NoticesInOrder ==
    [][notice' # notice /\ notice' # None =>
          LET before == told[notice'.alert]
          IN  IF notice'.event = "opened" THEN before = None ELSE before # "resolved"]_vars

RuleIsOn(name) == \E r \in Rules : rules[r] # None /\ rules[r].enabled /\ rules[r].config.name = name

\* Between rounds, every open alert belongs to a rule that is on: deleting or
\* switching off a rule resolves "its open alerts, which nothing would check any
\* more".
NoOrphans == Idle => \A a \in AlertIds : IsOpen(a) => RuleIsOn(alerts[a].rule)

=============================================================================
