---------------------------- MODULE AlertsProofs ----------------------------
(***************************************************************************)
(* Alerts, for any number of rules, hosts, metrics and alerts: never two   *)
(* open for one target, notices in an order a reader can follow, and, in a *)
(* steady behaviour, alerts that open and resolve when their samples have  *)
(* stayed as they are for the rule's interval.  And forecasts, for any     *)
(* mounts and whatever their fits: alert rules and the fleet say the same  *)
(* of a disk.                                                              *)
(***************************************************************************)
EXTENDS AlertsSteady, Forecasts, WellFoundedInduction, TLAPS

Levels == {Normal, Warning, Critical}

AlertRows ==
    [state : {"none", "open", "resolved", "deleted"}, host : Hosts \cup {None}, rule : Names \cup {None},
     metric : Metrics \cup {None}, severity : Levels]

RowsTypeOK == alerts \in [AlertIds -> AlertRows] /\ DOMAIN told = AlertIds

\* The statement of the check in progress.  An alert it is about was open when OpenAlert
\* found it, and nobody but this check tells of its resolution.
WritingOK ==
    writing # None =>
        /\ writing.config \in Configs /\ writing.host \in Hosts /\ writing.level \in Levels
        /\ writing.does \in {"update", "resolve"} =>
              /\ writing.alert \in AlertIds
              /\ alerts[writing.alert].state # "none"
              /\ told[writing.alert] # "resolved"

\* Nothing was told of an alert that is not there yet, and an alert whose resolution
\* was told is not open again.
ToldOK ==
    \A a \in AlertIds :
        /\ alerts[a].state = "none" => told[a] = None
        /\ told[a] = "resolved" => alerts[a].state \in {"resolved", "deleted"}

AlertsInv == RowsTypeOK /\ WritingOK /\ ToldOK /\ OneOpenPerTarget

-----------------------------------------------------------------------------
(* The statements on the alerts *)

LEMMA StatusIsLevel ==
    ASSUME NEW value
    PROVE  getAlertType(value) \in Levels
BY DEF getAlertType, Levels, Normal, Warning, Critical

LEMMA DeletedRow == [NoAlert EXCEPT !.state = "deleted"] \in AlertRows /\ NoAlert \in AlertRows
                    /\ [NoAlert EXCEPT !.state = "deleted"].state = "deleted" /\ NoAlert.state = "none"
BY Zenon DEF NoAlert, AlertRows, Levels, Normal

\* What a statement may do to a row without opening it: an open row stays for its
\* target, or it is over.
Settles(x, y) ==
    /\ y \in AlertRows
    /\ x.state = "none" <=> y.state = "none"
    /\ x.state \in {"resolved", "deleted"} => y.state \in {"resolved", "deleted"}
    /\ y.state = "open" => x.state = "open" /\ SameTarget(x, y)

LEMMA Settled ==
    ASSUME AlertsInv, DOMAIN alerts' = AlertIds, alerts' = [a \in AlertIds |-> alerts'[a]],
           \A a \in AlertIds : Settles(alerts[a], alerts'[a]), UNCHANGED told,
           writing' = None \/ writing' = writing
    PROVE  AlertsInv'
<1>1. alerts' \in [AlertIds -> AlertRows]
  BY Zenon DEF Settles
<1>2. WritingOK'
  BY DEF AlertsInv, WritingOK, Settles
<1>3. ToldOK'
  BY DEF AlertsInv, ToldOK, Settles
<1>4. OneOpenPerTarget'
  BY DEF AlertsInv, OneOpenPerTarget, Settles, SameTarget, IsOpen
<1> QED
  BY <1>1, <1>2, <1>3, <1>4 DEF AlertsInv, RowsTypeOK

\* A step that leaves the alerts alone.
LEMMA AlertsUntouched ==
    ASSUME AlertsInv, UNCHANGED <<alerts, told>>, writing' = None \/ writing' = writing
    PROVE  AlertsInv'
BY Zenon DEF AlertsInv, RowsTypeOK, WritingOK, ToldOK, OneOpenPerTarget, IsOpen

LEMMA RuleResolvedSettles ==
    ASSUME NEW x \in AlertRows, NEW name
    PROVE  Settles(x, RuleResolved(x, name))
BY DEF Settles, RuleResolved, AlertRows, SameTarget

LEMMA UpdateRuleStep ==
    ASSUME AlertsInv, NEW r \in Rules, NEW c \in Configs, NEW on \in BOOLEAN, UpdateRule(r, c, on)
    PROVE  AlertsInv'
<1> DEFINE old == rules[r].config.name
           carried == [a \in AlertIds |-> Renamed(a, old, c.name)]
<1>1. /\ OneOpenIn(carried) /\ UNCHANGED <<told, writing>>
      /\ alerts' = [a \in AlertIds |-> IF on THEN carried[a] ELSE RuleResolved(carried[a], c.name)]
  BY Zenon DEF UpdateRule, evaluatorVars
<1>2. ASSUME NEW a \in AlertIds
      PROVE  carried[a] \in AlertRows /\ carried[a].state = alerts[a].state
  <2>1. alerts[a] \in AlertRows /\ c.name \in Names
    BY Zenon DEF AlertsInv, RowsTypeOK, Names
  <2>2. [alerts[a] EXCEPT !.rule = c.name] \in AlertRows /\ [alerts[a] EXCEPT !.rule = c.name].state = alerts[a].state
    BY <2>1, Zenon DEF AlertRows
  <2> QED
    BY <2>1, <2>2, Zenon DEF Renamed
<1> HIDE DEF old, carried
<1>3. ASSUME NEW a \in AlertIds
      PROVE  Settles(carried[a], alerts'[a])
  <2>1. CASE on
    BY <1>1, <1>2, <2>1, Zenon DEF Settles, SameTarget
  <2>2. CASE ~on
    BY <1>1, <1>2, <2>2, RuleResolvedSettles, Zenon
  <2> QED
    BY <2>1, <2>2
<1>4. RowsTypeOK' /\ WritingOK' /\ ToldOK'
  <2>1. \A a \in AlertIds : /\ alerts'[a] \in AlertRows
                            /\ alerts[a].state = "none" <=> alerts'[a].state = "none"
                            /\ alerts[a].state \in {"resolved", "deleted"} => alerts'[a].state \in {"resolved", "deleted"}
    BY <1>2, <1>3, Zenon DEF Settles
  <2>2. alerts' \in [AlertIds -> AlertRows]
    BY <1>1, <2>1, Zenon
  <2> QED
    BY <1>1, <2>1, <2>2, Zenon DEF AlertsInv, RowsTypeOK, WritingOK, ToldOK
<1>5. OneOpenPerTarget'
  BY <1>1, <1>3 DEF OneOpenPerTarget, OneOpenIn, Settles, SameTarget, IsOpen
<1> QED
  BY <1>4, <1>5 DEF AlertsInv

\* CreateAlert's statement, whether its answer arrives or not.
LEMMA OpenedRow ==
    ASSUME AlertsInv, writing # None, NEW a \in AlertIds, CanCreate(a)
    PROVE  /\ Opened(a) \in [AlertIds -> AlertRows]
           /\ Opened(a)[a].state = "open"
           /\ \A b \in AlertIds \ {a} : Opened(a)[b] = alerts[b]
           /\ \A b, d \in AlertIds :
                 Opened(a)[b].state = "open" /\ Opened(a)[d].state = "open" /\ b # d => ~SameTarget(Opened(a)[b], Opened(a)[d])
<1> DEFINE new == [state |-> "open", host |-> writing.host, rule |-> writing.config.name,
                   metric |-> writing.config.metric, severity |-> writing.level]
<1>1. new \in AlertRows /\ new.state = "open"
  BY AlertsAssumption, Zenon DEF AlertsInv, WritingOK, AlertRows, Names
<1>2. Opened(a) = [alerts EXCEPT ![a] = new]
  BY Zenon DEF Opened
<1> HIDE DEF new
<1>3. Opened(a) \in [AlertIds -> AlertRows] /\ Opened(a)[a] = new /\ \A b \in AlertIds \ {a} : Opened(a)[b] = alerts[b]
  BY <1>1, <1>2 DEF AlertsInv, RowsTypeOK
<1> QED
  BY <1>1, <1>3, Zenon DEF CanCreate, OneOpenIn

\* The statements that go by id.
LEMMA WrittenRow ==
    ASSUME AlertsInv, writing # None, writing.does \in {"update", "resolve"}
    PROVE  /\ Updated = [a \in AlertIds |-> Updated[a]] /\ Resolved = [a \in AlertIds |-> Resolved[a]]
           /\ \A a \in AlertIds : Settles(alerts[a], Updated[a]) /\ Settles(alerts[a], Resolved[a])
           /\ Resolved[writing.alert].state \in {"resolved", "deleted"}
<1> PICK b : b = writing.alert
  OBVIOUS
<1>1. b \in AlertIds /\ writing.level \in Levels /\ alerts \in [AlertIds -> AlertRows] /\ alerts[b].state # "none"
  BY Zenon DEF AlertsInv, WritingOK, RowsTypeOK
<1>2. ASSUME NEW x \in AlertRows, NEW y \in Levels, x.state # "none"
      PROVE  /\ Settles(x, [x EXCEPT !.severity = y])
             /\ Settles(x, [x EXCEPT !.state = "resolved"])
             /\ Settles(x, [x EXCEPT !.severity = x.severity])
             /\ Settles(x, [x EXCEPT !.state = x.state])
             /\ [x EXCEPT !.state = "resolved"].state = "resolved" /\ [x EXCEPT !.state = x.state].state = x.state
  BY <1>2 DEF Settles, AlertRows, SameTarget
<1>3. \A x \in AlertRows : Settles(x, x)
  BY DEF Settles, SameTarget
<1>4. /\ Updated = [alerts EXCEPT ![b] = [alerts[b] EXCEPT !.severity =
                       IF alerts[b].state = "deleted" THEN alerts[b].severity ELSE writing.level]]
      /\ Resolved = [alerts EXCEPT ![b] = [alerts[b] EXCEPT !.state =
                       IF alerts[b].state = "deleted" THEN alerts[b].state ELSE "resolved"]]
  BY DEF Updated, Resolved
<1>5. Settles(alerts[b], Updated[b])
  <2>1. CASE alerts[b].state = "deleted"
    BY <1>1, <1>2, <1>4, <2>1, Zenon
  <2>2. CASE alerts[b].state # "deleted"
    BY <1>1, <1>2, <1>4, <2>2, Zenon
  <2> QED
    BY <2>1, <2>2, Zenon
<1>6. Settles(alerts[b], Resolved[b]) /\ Resolved[b].state \in {"resolved", "deleted"}
  <2>1. CASE alerts[b].state = "deleted"
    BY <1>1, <1>2, <1>4, <2>1, Zenon
  <2>2. CASE alerts[b].state # "deleted"
    BY <1>1, <1>2, <1>4, <2>2, Zenon
  <2> QED
    BY <2>1, <2>2, Zenon
<1>7. \A a \in AlertIds : a # b => Updated[a] = alerts[a] /\ Resolved[a] = alerts[a] /\ alerts[a] \in AlertRows
  BY <1>1, <1>4, Zenon
<1>8. DOMAIN Updated = AlertIds /\ DOMAIN Resolved = AlertIds
  BY <1>1, <1>4, Zenon
<1>9. Updated = [a \in AlertIds |-> Updated[a]] /\ Resolved = [a \in AlertIds |-> Resolved[a]]
  BY <1>1, <1>4, <1>8, Zenon
<1> QED
  BY <1>3, <1>5, <1>6, <1>7, <1>9, Zenon

-----------------------------------------------------------------------------
(* The steps *)

\* What check decides: no statement, or one about the alert it found, if any.
LEMMA CheckStep ==
    ASSUME AlertsInv, NEW c \in Configs, NEW h \in Hosts, Check(c, h)
    PROVE  AlertsInv'
<1> DEFINE s == sample[<<h, c.metric>>]
<1>1. UNCHANGED <<alerts, told>>
  BY Zenon DEF Check, storeVars
<1>2. ASSUME NEW does, NEW a, Will(does, c, h, s, a), does = "create" \/ a \in OpenAlert(c, h)
      PROVE  AlertsInv'
  <2>1. /\ writing'.config = c /\ writing'.host = h /\ writing'.level = getAlertType(s.value)
        /\ writing'.does = does /\ writing'.alert = a
    BY <1>2, Zenon DEF Will
  <2>2. does # "create" => a \in AlertIds /\ alerts[a].state = "open" /\ told[a] # "resolved"
    BY <1>2, Zenon DEF OpenAlert, IsOpen, AlertsInv, ToldOK
  <2>3. WritingOK'
    BY <1>1, <2>1, <2>2, StatusIsLevel, Zenon DEF WritingOK
  <2> QED
    BY <1>1, <2>3 DEF AlertsInv, RowsTypeOK, ToldOK, OneOpenPerTarget, IsOpen
<1>3. CASE WillNot
  BY <1>1, <1>3, AlertsUntouched DEF WillNot
<1>4. CASE openIfBreached(c, h, s)
  BY <1>2, <1>3, <1>4, Zenon DEF openIfBreached
<1>5. ASSUME NEW a \in OpenAlert(c, h), updateOpen(c, h, s, a)
      PROVE  AlertsInv'
  BY <1>2, <1>3, <1>5, Zenon DEF updateOpen
<1> QED
  BY <1>4, <1>5, Zenon DEF Check

LEMMA AlertsStep ==
    ASSUME AlertsInv, [Next]_vars
    PROVE  AlertsInv'
<1>0. alerts \in [AlertIds -> AlertRows] /\ DOMAIN told = AlertIds
  BY DEF AlertsInv, RowsTypeOK
<1>1. \A x \in AlertRows : Settles(x, x)
  BY DEF Settles, SameTarget
<1>2. CASE RuleNext
  <2>1. ASSUME NEW r \in Rules, NEW c \in Configs, NEW on \in BOOLEAN, CreateRule(r, c, on)
        PROVE  AlertsInv'
    BY <2>1, AlertsUntouched, Zenon DEF CreateRule, evaluatorVars
  <2>2. ASSUME NEW r \in Rules, NEW c \in Configs, ImportRules(r, c)
        PROVE  AlertsInv'
    BY <2>2, AlertsUntouched, Zenon DEF ImportRules, evaluatorVars
  <2>3. ASSUME NEW r \in Rules, DeleteRule(r)
        PROVE  AlertsInv'
    <3> PICK name : name = rules[r].config.name
      BY Zenon
    <3>1. alerts' = [a \in AlertIds |-> RuleResolved(alerts[a], name)] /\ UNCHANGED <<told, writing>>
      BY <2>3, Zenon DEF DeleteRule, evaluatorVars
    <3>2. \A a \in AlertIds : Settles(alerts[a], alerts'[a])
      BY <1>0, <3>1, RuleResolvedSettles, Zenon
    <3> QED
      BY <3>1, <3>2, Settled, Zenon
  <2> QED
    BY <1>2, <2>1, <2>2, <2>3, UpdateRuleStep, Zenon DEF RuleNext
<1>3. CASE HostNext
  <2>1. ASSUME NEW h \in Hosts, RemoveHost(h)
        PROVE  AlertsInv'
    <3> DEFINE gone == [NoAlert EXCEPT !.state = "deleted"]
    <3>1. gone \in AlertRows /\ gone.state = "deleted"
      BY DeletedRow
    <3>2. alerts' = [a \in AlertIds |-> IF alerts[a].host = h THEN gone ELSE alerts[a]] /\ UNCHANGED <<told, writing>>
      BY <2>1, Zenon DEF RemoveHost, evaluatorVars
    <3> HIDE DEF gone
    <3>3. ASSUME NEW a \in AlertIds
          PROVE  alerts'[a].state = "none" => alerts'[a] = alerts[a]
      BY <3>1, <3>2, Zenon
    <3>4. \A a \in AlertIds : alerts[a].state # "none" => Settles(alerts[a], alerts'[a])
      BY <1>0, <1>1, <3>1, <3>2, Zenon DEF Settles
    <3>5. ToldOK' /\ WritingOK' /\ OneOpenPerTarget' /\ RowsTypeOK'
      <4>1. alerts' \in [AlertIds -> AlertRows]
        BY <1>0, <3>1, <3>2
      <4>2. ToldOK'
        BY <3>1, <3>2, Zenon DEF AlertsInv, ToldOK
      <4>3. WritingOK'
        BY <3>2, <3>4, Zenon DEF AlertsInv, WritingOK, Settles
      <4>4. OneOpenPerTarget'
        BY <3>1, <3>2, Zenon DEF AlertsInv, OneOpenPerTarget, IsOpen
      <4> QED
        BY <1>0, <3>2, <4>1, <4>2, <4>3, <4>4, Zenon DEF RowsTypeOK
    <3> QED
      BY <3>5 DEF AlertsInv
  <2>2. ASSUME NEW h \in Hosts, AddHost(h)
        PROVE  AlertsInv'
    BY <2>2, AlertsUntouched DEF AddHost, evaluatorVars
  <2>3. ASSUME NEW b \in AlertIds, PurgeResolvedAlerts(b)
        PROVE  AlertsInv'
    <3> DEFINE gone == [NoAlert EXCEPT !.state = "deleted"]
    <3>1. gone \in AlertRows /\ gone.state = "deleted"
      BY DeletedRow
    <3>2. alerts' = [alerts EXCEPT ![b] = gone] /\ UNCHANGED <<told, writing>> /\ alerts[b].state = "resolved"
      BY <2>3 DEF PurgeResolvedAlerts, evaluatorVars
    <3> HIDE DEF gone
    <3>3. \A a \in AlertIds : Settles(alerts[a], alerts'[a])
      BY <1>0, <1>1, <3>1, <3>2 DEF Settles
    <3>4. DOMAIN alerts' = AlertIds /\ alerts' = [a \in AlertIds |-> alerts'[a]]
      BY <1>0, <3>2, Zenon
    <3> QED
      BY <3>2, <3>3, <3>4, Settled, Zenon
  <2> QED
    BY <1>3, <2>1, <2>2, <2>3 DEF HostNext
<1>4. CASE SampleNext \/ Tick \/ NoticeQueued \/ CollectorRestarts \/ RoundBegins \/ UNCHANGED vars
  <2>1. UNCHANGED <<alerts, told>> /\ (writing' = None \/ writing' = writing)
    BY <1>4, Zenon DEF SampleNext, SaveSample, Tick, NoticeQueued, CollectorRestarts, RoundBegins, vars, storeVars, evaluatorVars
  <2> QED
    BY <2>1, AlertsUntouched
<1>5. ASSUME NEW c \in Configs, NEW h \in Hosts, NothingNew(c, h) \/ ReadFails(c, h)
      PROVE  AlertsInv'
  <2>1. UNCHANGED <<alerts, told, writing>>
    BY <1>5, Zenon DEF NothingNew, ReadFails, storeVars
  <2> QED
    BY <2>1, AlertsUntouched
<1>6. ASSUME NEW a \in AlertIds, writing # None, CanCreate(a), alerts' = Opened(a), writing' = None,
             UNCHANGED told \/ told' = [told EXCEPT ![a] = "opened"]
      PROVE  AlertsInv'
  <2>1. /\ Opened(a) \in [AlertIds -> AlertRows] /\ Opened(a)[a].state = "open"
        /\ \A b \in AlertIds \ {a} : Opened(a)[b] = alerts[b]
        /\ \A b, d \in AlertIds :
              Opened(a)[b].state = "open" /\ Opened(a)[d].state = "open" /\ b # d => ~SameTarget(Opened(a)[b], Opened(a)[d])
    BY <1>6, OpenedRow, Zenon
  <2>2. alerts[a].state = "none" /\ told[a] = None
    BY <1>6, Zenon DEF CanCreate, AlertsInv, ToldOK
  <2>3. DOMAIN told' = AlertIds /\ told'[a] \in {told[a], "opened"} /\ \A b \in AlertIds \ {a} : told'[b] = told[b]
    BY <1>0, <1>6
  <2>4. ToldOK'
    <3> SUFFICES ASSUME NEW b \in AlertIds
                 PROVE  /\ alerts'[b].state = "none" => told'[b] = None
                        /\ told'[b] = "resolved" => alerts'[b].state \in {"resolved", "deleted"}
      BY Zenon DEF ToldOK
    <3>1. CASE b = a
      BY <1>6, <2>1, <2>2, <2>3, <3>1, Zenon DEF AlertsInv, ToldOK
    <3>2. CASE b # a
      BY <1>6, <2>1, <2>3, <3>2 DEF AlertsInv, ToldOK
    <3> QED
      BY <3>1, <3>2, Zenon
  <2>5. OneOpenPerTarget'
    BY <1>6, <2>1, Zenon DEF OneOpenPerTarget, IsOpen
  <2> QED
    BY <1>6, <2>1, <2>3, <2>4, <2>5, Zenon DEF AlertsInv, RowsTypeOK, WritingOK
<1>7. ASSUME NEW a \in AlertIds, CreateAlert(a)
      PROVE  AlertsInv'
  BY <1>6, <1>7, Zenon DEF CreateAlert, Notify
<1>8. ASSUME NEW a \in AlertIds, CreateRefused(a)
      PROVE  AlertsInv'
  BY <1>8, AlertsUntouched, Zenon DEF CreateRefused, storeVars
<1>9. ASSUME writing # None, writing.does \in {"update", "resolve"}, writing' = None,
             alerts' = Updated \/ alerts' = Resolved, UNCHANGED told
      PROVE  AlertsInv'
  <2>1. /\ Updated = [a \in AlertIds |-> Updated[a]] /\ Resolved = [a \in AlertIds |-> Resolved[a]]
        /\ \A a \in AlertIds : Settles(alerts[a], Updated[a]) /\ Settles(alerts[a], Resolved[a])
    BY <1>9, WrittenRow, Zenon
  <2>2. alerts' = [a \in AlertIds |-> alerts'[a]] /\ \A a \in AlertIds : Settles(alerts[a], alerts'[a])
    BY <1>9, <2>1, Zenon
  <2> QED
    BY <1>9, <2>2, Settled, Zenon
<1>10. ASSUME NEW b \in AlertIds, NEW event \in {"changed", "resolved"}, writing # None, b = writing.alert,
              writing.does \in {"update", "resolve"}, writing' = None, told' = [told EXCEPT ![b] = event],
              \/ alerts' = Updated /\ event = "changed"
              \/ alerts' = Resolved /\ event = "resolved"
       PROVE  AlertsInv'
  <2>1. /\ Updated = [a \in AlertIds |-> Updated[a]] /\ Resolved = [a \in AlertIds |-> Resolved[a]]
        /\ \A a \in AlertIds : Settles(alerts[a], Updated[a]) /\ Settles(alerts[a], Resolved[a])
        /\ Resolved[b].state \in {"resolved", "deleted"}
    BY <1>10, WrittenRow, Zenon
  <2>2. alerts' = [a \in AlertIds |-> alerts'[a]] /\ \A a \in AlertIds : Settles(alerts[a], alerts'[a])
    BY <1>10, <2>1, Zenon
  <2>3. event = "resolved" => alerts'[b].state \in {"resolved", "deleted"}
    BY <1>10, <2>1, Zenon
  <2>4. DOMAIN told' = AlertIds /\ told'[b] = event /\ \A a \in AlertIds \ {b} : told'[a] = told[a]
    BY <1>0, <1>10, Zenon
  <2>5. alerts[b].state # "none"
    BY <1>10, Zenon DEF AlertsInv, WritingOK
  <2>6. ToldOK'
    <3> SUFFICES ASSUME NEW a \in AlertIds
                 PROVE  /\ alerts'[a].state = "none" => told'[a] = None
                        /\ told'[a] = "resolved" => alerts'[a].state \in {"resolved", "deleted"}
      BY Zenon DEF ToldOK
    <3>1. CASE a = b
      BY <2>2, <2>3, <2>4, <2>5, <3>1, Zenon DEF Settles
    <3>2. CASE a # b
      BY <2>2, <2>4, <3>2 DEF AlertsInv, ToldOK, Settles
    <3> QED
      BY <3>1, <3>2, Zenon
  <2>7. OneOpenPerTarget'
    BY <2>2 DEF AlertsInv, OneOpenPerTarget, Settles, SameTarget, IsOpen
  <2>8. alerts' \in [AlertIds -> AlertRows]
    BY <2>2, Zenon DEF Settles
  <2> QED
    BY <1>10, <2>4, <2>6, <2>7, <2>8, Zenon DEF AlertsInv, RowsTypeOK, WritingOK
<1>11. CASE UpdateAlert \/ ResolveAlert
  <2>1. writing # None /\ writing.does \in {"update", "resolve"} /\ writing.alert \in AlertIds
    BY <1>11, Zenon DEF UpdateAlert, ResolveAlert, AlertsInv, WritingOK
  <2>2. CASE UpdateAlert
    BY <1>10, <2>1, <2>2, Zenon DEF UpdateAlert, Notify
  <2>3. CASE ResolveAlert
    BY <1>10, <2>1, <2>3, Zenon DEF ResolveAlert, Notify
  <2> QED
    BY <1>11, <2>2, <2>3
<1>12. CASE WriteFails
  <2>1. writing # None /\ writing' = None /\ UNCHANGED told
    BY <1>12, Zenon DEF WriteFails
  <2>2. CASE UNCHANGED alerts
    BY <2>1, <2>2, AlertsUntouched
  <2>3. ASSUME NEW a \in AlertIds, CanCreate(a), alerts' = Opened(a)
        PROVE  AlertsInv'
    BY <1>6, <2>1, <2>3
  <2>4. CASE writing.does \in {"update", "resolve"} /\ (alerts' = Updated \/ alerts' = Resolved)
    BY <1>9, <2>1, <2>4
  <2> QED
    BY <1>12, <2>2, <2>3, <2>4, Zenon DEF WriteFails
<1> QED
  <2>1. CASE EvaluatorNext
    BY <1>4, <1>5, <1>7, <1>8, <1>11, <2>1, CheckStep, Zenon DEF EvaluatorNext
  <2>2. CASE FaultNext
    BY <1>4, <1>5, <1>12, <2>2 DEF FaultNext
  <2> QED
    BY <1>2, <1>3, <1>4, <2>1, <2>2 DEF Next

LEMMA AlertsInvInitially ==
    ASSUME Init
    PROVE  AlertsInv
<1>1. alerts \in [AlertIds -> AlertRows] /\ \A a \in AlertIds : alerts[a].state = "none"
  BY DeletedRow DEF Init
<1>2. RowsTypeOK /\ WritingOK
  BY <1>1, Zenon DEF Init, EvaluatorStarts, RowsTypeOK, WritingOK
<1>3. ToldOK
  BY <1>1, AlertsAssumption, Zenon DEF Init, ToldOK
<1>4. OneOpenPerTarget
  BY <1>1 DEF OneOpenPerTarget, IsOpen
<1> QED
  BY <1>2, <1>3, <1>4 DEF AlertsInv

\* The unique index refuses what would leave two open alerts for a target, and every
\* other statement only settles rows: for any rules, hosts and metrics, at most one
\* alert is open for a rule's target on a host.
THEOREM OneOpenAlert == Spec => []OneOpenPerTarget
<1>1. Init => AlertsInv
  BY AlertsInvInitially
<1>2. AlertsInv /\ [Next]_vars => AlertsInv'
  BY AlertsStep
<1>3. AlertsInv => OneOpenPerTarget
  BY DEF AlertsInv
<1> QED
  BY <1>1, <1>2, <1>3, PTL DEF Spec

\* e.notify is called once the statement of a check succeeded: whatever fails or
\* restarts, nothing is told of an alert before its opening, nor after its resolution.
THEOREM NoticesFollow == Spec => NoticesInOrder
<1>1. Init => AlertsInv
  BY AlertsInvInitially
<1>2. AlertsInv /\ [Next]_vars => AlertsInv'
  BY AlertsStep
<1>3. ASSUME AlertsInv, [Next]_vars
      PROVE  [notice' # notice /\ notice' # None =>
                 LET before == told[notice'.alert]
                 IN  IF notice'.event = "opened" THEN before = None ELSE before # "resolved"]_vars
  <2> SUFFICES ASSUME notice' # notice, notice' # None
               PROVE  IF notice'.event = "opened" THEN told[notice'.alert] = None
                      ELSE told[notice'.alert] # "resolved"
    BY Zenon
  <2>1. ASSUME NEW a \in AlertIds, CreateAlert(a)
        PROVE  notice'.event = "opened" /\ told[notice'.alert] = None
    BY <1>3, <2>1, Zenon DEF CreateAlert, Notify, CanCreate, AlertsInv, ToldOK
  <2>2. CASE UpdateAlert \/ ResolveAlert
    BY <1>3, <2>2 DEF UpdateAlert, ResolveAlert, Notify, AlertsInv, WritingOK
  <2>3. ~RuleNext /\ ~HostNext /\ ~SampleNext /\ ~Tick /\ ~NoticeQueued /\ ~FaultNext /\ ~UNCHANGED vars
    BY DEF RuleNext, CreateRule, UpdateRule, ImportRules, DeleteRule, HostNext, RemoveHost, AddHost,
           PurgeResolvedAlerts, SampleNext, SaveSample, Tick, NoticeQueued, FaultNext, ReadFails, WriteFails,
           CollectorRestarts, vars, evaluatorVars
  <2>4. ~RoundBegins /\ \A c \in Configs, h \in Hosts : ~NothingNew(c, h) /\ ~Check(c, h)
    BY Zenon DEF RoundBegins, NothingNew, Check
  <2>5. \A a \in AlertIds : ~CreateRefused(a)
    BY Zenon DEF CreateRefused
  <2> QED
    BY <1>3, <2>1, <2>2, <2>3, <2>4, <2>5, Zenon DEF Next, EvaluatorNext
<1> QED
  BY <1>1, <1>2, <1>3, PTL DEF Spec, NoticesInOrder

-----------------------------------------------------------------------------
(* When alerts open and resolve: the invariant *)

SteadyTypeOK ==
    /\ hosts = Hosts
    /\ now \in Nat
    /\ rules \in [Rules -> [config : Configs, enabled : {TRUE}] \cup {None}]
    /\ sample \in [Hosts \X Metrics -> Samples \cup {None}]
    /\ since \in [Hosts \X Metrics -> Nat]
    /\ pending \in [Keys -> Changes \cup {None}]
    /\ checked \in [Keys -> Nat]
    /\ work \subseteq Configs \X Hosts

\* Samples are not from the future.
SamplesOK ==
    \A s \in Hosts \X Metrics : sample[s] # None =>
        0 < sample[s].at /\ sample[s].at <= now /\ since[s] <= sample[s].at

UniqueNames ==
    \A r, q \in Rules :
        rules[r] # None /\ rules[q] # None /\ rules[r].config.name = rules[q].config.name => r = q

\* Some rule looks at the key.
Watched(k) ==
    \E r \in Rules : /\ rules[r] # None
                     /\ k[1] \in ruleHosts(rules[r].config)
                     /\ k = Key(rules[r].config, k[1])

\* The evaluator remembers, checks and writes only for rules, and only rules have
\* open alerts.
OnlyWatched ==
    /\ \A k \in Keys : pending[k] # None \/ checked[k] # 0 => Watched(k)
    /\ \A w \in work : Watched(Key(w[1], w[2]))
    /\ writing # None => Watched(WritingKey)
    /\ \A a \in AlertIds : IsOpen(a) => NameTaken(alerts[a].rule, Rules)

\* The samples of a key.
Source(k) == <<k[1], k[3]>>

\* A pending change is no older than what it is a change to.
PendingOK ==
    \A k \in Keys :
        /\ checked[k] # 0 => sample[Source(k)] # None /\ checked[k] <= sample[Source(k)].at
        /\ pending[k] # None =>
              /\ checked[k] # 0
              /\ (pending[k].status # Normal <=> Breached(Source(k))) => since[Source(k)] <= pending[k].since
              /\ checked[k] = sample[Source(k)].at => (pending[k].status # Normal <=> Breached(Source(k)))

\* The statement in progress is about the newest sample.
StatementOK ==
    writing # None =>
        /\ writing.does \in {"create", "update", "resolve"}
        /\ sample[Source(WritingKey)] # None
        /\ writing.at = sample[Source(WritingKey)].at
        /\ checked[WritingKey] = writing.at
        /\ writing.level = getAlertType(sample[Source(WritingKey)].value)
        /\ Breached(Source(WritingKey)) <=> writing.does # "resolve"
        /\ writing.does # "update" => writing.at - since[Source(WritingKey)] >= writing.config.trigger

SteadyInv ==
    AlertsInv /\ SteadyTypeOK /\ SamplesOK /\ UniqueNames /\ OnlyWatched /\ PendingOK /\ StatementOK

\* Rules are checked as they are.
AsTheyAre(c) == \E r \in Rules : rules[r] # None /\ rules[r].config = c

HasOpen(c, h) == OpenAlert(c, h) # {}

\* The change to what the samples are now is pending since they are.
Waits(k) ==
    /\ pending[k] # None
    /\ pending[k].status # Normal <=> Breached(Source(k))
    /\ pending[k].since = since[Source(k)]

\* A key between checks.  While the samples stay as they are, an alert that mirrors
\* them has nothing pending and one that does not waits.  After a sample that broke
\* with those before, nothing waits for what it is.
Quiet(k, c, h) ==
    LET s == Source(k)
        seen == checked[k] = sample[s].at
    IN  /\ sample[s] = None => ~HasOpen(c, h) /\ pending[k] = None
        /\ sample[s] # None /\ (seen \/ since[s] < sample[s].at) =>
              IF Breached(s) <=> HasOpen(c, h) THEN pending[k] = None ELSE Waits(k)
        /\ sample[s] # None /\ seen =>
              IF Breached(s) <=> HasOpen(c, h)
              THEN Breached(s) => \E a \in OpenAlert(c, h) : alerts[a].severity = getAlertType(sample[s].value)
              ELSE since[s] = sample[s].at \/ sample[s].at - since[s] < c.trigger
        /\ sample[s] # None /\ ~seen /\ since[s] = sample[s].at /\ pending[k] # None =>
              (pending[k].status = Normal <=> Breached(s))

\* A key whose check is about to write.
AtWork(c, h) ==
    /\ writing.does = "create" => ~HasOpen(c, h)
    /\ writing.does # "create" => writing.alert \in OpenAlert(c, h)
    /\ writing.does = "update" => pending[Key(c, h)] = None

Mirrors(c, h) == IF writing # None /\ WritingKey = Key(c, h) THEN AtWork(c, h) ELSE Quiet(Key(c, h), c, h)

CalmInv ==
    /\ \A w \in work : AsTheyAre(w[1])
    /\ writing # None => AsTheyAre(writing.config)
    /\ \A r \in Rules : rules[r] # None =>
          \A h \in ruleHosts(rules[r].config) : Mirrors(rules[r].config, h)

SteadyAlertsInv == steady => SteadyInv /\ (calm => CalmInv)

LEMMA KeyOf ==
    ASSUME NEW c \in Configs, NEW h \in Hosts
    PROVE  /\ Key(c, h) \in Keys /\ c.name \in Names
           /\ Key(c, h)[1] = h /\ Key(c, h)[2] = c.name /\ Key(c, h)[3] = c.metric
           /\ Source(Key(c, h)) = <<h, c.metric>> /\ <<h, c.metric>> \in Hosts \X Metrics
<1>1. c.name \in Names /\ c.metric \in Metrics
  BY AlertsAssumption, Zenon DEF Names
<1> QED BY <1>1 DEF Key, Keys, Source

LEMMA SourceOf ==
    ASSUME NEW k \in Keys
    PROVE  Source(k) \in Hosts \X Metrics /\ k = <<k[1], k[2], k[3]>> /\ k[1] \in Hosts
BY DEF Keys, Source

\* A rule's row.
LEMMA RuleHas ==
    ASSUME SteadyInv, NEW r \in Rules, rules[r] # None
    PROVE  rules[r].config \in Configs /\ rules[r].enabled /\ hosts = Hosts
<1>1. rules[r] \in [config : Configs, enabled : {TRUE}]
  BY Zenon DEF SteadyInv, SteadyTypeOK
<1>2. rules[r].config \in Configs /\ rules[r].enabled \in {TRUE}
  BY <1>1, Zenon
<1> QED BY <1>2, Zenon DEF SteadyInv, SteadyTypeOK

\* The statement in progress is about a key.
LEMMA KeyOfWriting ==
    ASSUME AlertsInv, writing # None
    PROVE  /\ writing.config \in Configs /\ writing.host \in Hosts
           /\ WritingKey \in Keys /\ Source(WritingKey) = <<writing.host, writing.config.metric>>
<1>1. writing.config \in Configs /\ writing.host \in Hosts
  BY Zenon DEF AlertsInv, WritingOK
<1> QED BY <1>1, KeyOf, Zenon DEF WritingKey

\* The hosts of a rule are hosts, the same ones after a step that keeps the hosts.
LEMMA HostsOfRule ==
    ASSUME hosts = Hosts, NEW c \in Configs
    PROVE  ruleHosts(c) \subseteq Hosts
BY AlertsAssumption DEF ruleHosts

\* Rules that stay as they are look at the same keys.
LEMMA WatchedStays ==
    ASSUME UNCHANGED <<rules, hosts>>, NEW k
    PROVE  Watched(k)' <=> Watched(k)
BY Zenon DEF Watched, ruleHosts, Key

\* The evaluator's statements, with or without an answer: a change that was pending
\* stays or goes, and alerts open only for rules.
LEMMA StatementKeepsSteady ==
    ASSUME SteadyInv, AlertsInv', UNCHANGED <<rules, hosts, sample, now, since, work, checked>>,
           writing' = None \/ writing' = writing,
           pending' \in [Keys -> Changes \cup {None}], \A k \in Keys : pending'[k] \in {None, pending[k]},
           \A a \in AlertIds : alerts'[a].state = "open" => NameTaken(alerts'[a].rule, Rules)
    PROVE  SteadyInv'
<1>1. SteadyTypeOK' /\ SamplesOK' /\ UniqueNames'
  BY Zenon DEF SteadyInv, SteadyTypeOK, SamplesOK, UniqueNames
<1>2. OnlyWatched'
  <2>1. \A k : Watched(k)' <=> Watched(k)
    BY WatchedStays, Zenon
  <2>2. \A k \in Keys : pending'[k] # None \/ checked'[k] # 0 => Watched(k)'
    BY <2>1 DEF SteadyInv, OnlyWatched
  <2>3. \A w \in work' : Watched(Key(w[1], w[2]))'
    BY <2>1, Zenon DEF SteadyInv, OnlyWatched, Key
  <2>4. writing' # None => Watched(WritingKey)'
    <3> SUFFICES ASSUME writing' # None, writing' = writing PROVE Watched(WritingKey)'
      BY Zenon
    <3>1. WritingKey' = WritingKey
      BY Zenon DEF WritingKey, Key
    <3> QED BY <2>1, <3>1, Zenon DEF SteadyInv, OnlyWatched
  <2>5. \A a \in AlertIds : IsOpen(a)' => NameTaken(alerts[a].rule, Rules)'
    BY Zenon DEF IsOpen, NameTaken
  <2> QED BY <2>2, <2>3, <2>4, <2>5, Zenon DEF OnlyWatched
<1>3. PendingOK'
  <2>1. \A s : Breached(s)' <=> Breached(s)
    BY Zenon DEF Breached
  <2> QED BY <2>1 DEF SteadyInv, PendingOK
<1>4. StatementOK'
  <2> SUFFICES ASSUME writing' # None, writing' = writing PROVE StatementOK'
    BY Zenon DEF StatementOK
  <2>1. WritingKey' = WritingKey
    BY Zenon DEF WritingKey, Key
  <2> QED BY <2>1, Zenon DEF SteadyInv, StatementOK, Breached
<1> QED BY <1>1, <1>2, <1>3, <1>4, Zenon DEF SteadyInv

\* Nothing of a key's own changes.
LEMMA RestKeepsSteady ==
    ASSUME SteadyInv, AlertsInv', UNCHANGED <<rules, hosts, sample, now, since, checked, pending, alerts, writing>>,
           work' \subseteq work
    PROVE  SteadyInv'
<1>1. SteadyTypeOK' /\ SamplesOK' /\ UniqueNames'
  BY Zenon DEF SteadyInv, SteadyTypeOK, SamplesOK, UniqueNames
<1>2. OnlyWatched'
  <2>1. \A k : Watched(k)' <=> Watched(k)
    BY WatchedStays, Zenon
  <2>2. WritingKey' = WritingKey
    BY Zenon DEF WritingKey, Key
  <2> QED BY <2>1, <2>2, Zenon DEF SteadyInv, OnlyWatched, IsOpen, NameTaken, Key
<1>3. PendingOK' /\ StatementOK'
  <2>1. WritingKey' = WritingKey /\ \A s : Breached(s)' <=> Breached(s)
    BY Zenon DEF WritingKey, Key, Breached
  <2> QED BY <2>1, Zenon DEF SteadyInv, PendingOK, StatementOK
<1> QED BY <1>1, <1>2, <1>3, Zenon DEF SteadyInv

LEMMA RoundBeginsSteady ==
    ASSUME SteadyInv, AlertsInv', RoundBegins
    PROVE  SteadyInv'
<1>1. /\ UNCHANGED <<rules, hosts, sample, now, since, checked, pending, alerts, writing>>
      /\ work' = UNION {{rules[r].config} \X ruleHosts(rules[r].config) :
                           r \in {q \in Rules : rules[q] # None /\ rules[q].enabled}}
  BY Zenon DEF RoundBegins, storeVars
<1>2. \A w \in work' : \E r \in Rules : /\ rules[r] # None /\ w = <<rules[r].config, w[2]>>
                                        /\ w[2] \in ruleHosts(rules[r].config)
  BY <1>1
<1>3. ASSUME NEW w \in work'
      PROVE  w \in Configs \X Hosts /\ Watched(Key(w[1], w[2]))
  <2>1. PICK r \in Rules : /\ rules[r] # None /\ w = <<rules[r].config, w[2]>>
                           /\ w[2] \in ruleHosts(rules[r].config)
    BY <1>2, Zenon
  <2>2. rules[r].config \in Configs /\ hosts = Hosts
    BY <2>1, RuleHas, Zenon
  <2>3. w[2] \in Hosts /\ w[1] = rules[r].config
    BY <2>1, <2>2, HostsOfRule
  <2>4. Key(w[1], w[2])[1] = w[2]
    BY <2>2, <2>3, KeyOf, Zenon
  <2>5. Watched(Key(w[1], w[2]))
    BY <2>1, <2>3, <2>4, Zenon DEF Watched
  <2> QED BY <2>1, <2>2, <2>3, <2>5
<1>4. SteadyTypeOK' /\ SamplesOK' /\ UniqueNames'
  <2>1. work' \subseteq Configs \X Hosts
    BY <1>3
  <2> QED BY <1>1, <2>1, Zenon DEF SteadyInv, SteadyTypeOK, SamplesOK, UniqueNames
<1>5. OnlyWatched'
  <2>1. \A k : Watched(k)' <=> Watched(k)
    BY <1>1, WatchedStays, Zenon
  <2>2. WritingKey' = WritingKey
    BY <1>1, Zenon DEF WritingKey, Key
  <2>3. \A w \in work' : Watched(Key(w[1], w[2]))'
    BY <1>3, <2>1, Zenon DEF Key
  <2> QED BY <1>1, <2>1, <2>2, <2>3, Zenon DEF SteadyInv, OnlyWatched, IsOpen, NameTaken
<1>6. PendingOK' /\ StatementOK'
  <2>1. WritingKey' = WritingKey /\ \A s : Breached(s)' <=> Breached(s)
    BY <1>1, Zenon DEF WritingKey, Key, Breached
  <2> QED BY <1>1, <2>1, Zenon DEF SteadyInv, PendingOK, StatementOK
<1> QED BY <1>4, <1>5, <1>6, Zenon DEF SteadyInv

LEMMA TickSteady ==
    ASSUME SteadyInv, AlertsInv', Tick
    PROVE  SteadyInv'
<1>1. /\ UNCHANGED <<rules, hosts, sample, since, checked, pending, alerts, writing, work>>
      /\ now' = now + 1
  BY Zenon DEF Tick, storeVars, evaluatorVars
<1>2. SteadyTypeOK' /\ SamplesOK' /\ UniqueNames'
  <2>1. now \in Nat /\ now' \in Nat
    BY <1>1 DEF SteadyInv, SteadyTypeOK
  <2>2. SteadyTypeOK' /\ UniqueNames'
    BY <1>1, <2>1, Zenon DEF SteadyInv, SteadyTypeOK, UniqueNames
  <2>3. \A s \in Hosts \X Metrics : sample[s] # None => sample[s].at \in Nat
    BY DEF SteadyInv, SteadyTypeOK, Samples
  <2>4. SamplesOK'
    BY <1>1, <2>1, <2>3 DEF SteadyInv, SamplesOK
  <2> QED BY <2>2, <2>4
<1>3. OnlyWatched'
  <2>1. \A k : Watched(k)' <=> Watched(k)
    BY <1>1, WatchedStays, Zenon
  <2>2. WritingKey' = WritingKey
    BY <1>1, Zenon DEF WritingKey, Key
  <2> QED BY <1>1, <2>1, <2>2, Zenon DEF SteadyInv, OnlyWatched, IsOpen, NameTaken, Key
<1>4. PendingOK' /\ StatementOK'
  <2>1. WritingKey' = WritingKey /\ \A s : Breached(s)' <=> Breached(s)
    BY <1>1, Zenon DEF WritingKey, Key, Breached
  <2> QED BY <1>1, <2>1, Zenon DEF SteadyInv, PendingOK, StatementOK
<1> QED BY <1>2, <1>3, <1>4, Zenon DEF SteadyInv

LEMMA RestartSteady ==
    ASSUME SteadyInv, AlertsInv', CollectorRestarts
    PROVE  SteadyInv'
<1>1. /\ UNCHANGED <<rules, hosts, sample, since, alerts, now>>
      /\ work' = {} /\ writing' = None
      /\ pending' = [k \in Keys |-> None] /\ checked' = [k \in Keys |-> 0]
  BY Zenon DEF CollectorRestarts, storeVars
<1>2. \A k \in Keys : pending'[k] = None /\ checked'[k] = 0
  BY <1>1
<1>3. SteadyTypeOK' /\ SamplesOK' /\ UniqueNames'
  <2>1. pending' \in [Keys -> Changes \cup {None}] /\ checked' \in [Keys -> Nat] /\ work' \subseteq Configs \X Hosts
    BY <1>1
  <2> QED BY <1>1, <2>1, Zenon DEF SteadyInv, SteadyTypeOK, SamplesOK, UniqueNames
<1>4. OnlyWatched'
  BY <1>1, <1>2 DEF SteadyInv, OnlyWatched, IsOpen, NameTaken
<1>5. PendingOK' /\ StatementOK'
  BY <1>1, <1>2 DEF PendingOK, StatementOK
<1> QED BY <1>3, <1>4, <1>5, Zenon DEF SteadyInv

-----------------------------------------------------------------------------
(* When alerts open and resolve: rules and samples *)

LEMMA RuleRow ==
    ASSUME NEW c \in Configs
    PROVE  /\ [config |-> c, enabled |-> TRUE] \in [config : Configs, enabled : {TRUE}]
           /\ [config |-> c, enabled |-> TRUE] # None
           /\ [config |-> c, enabled |-> TRUE].config = c /\ [config |-> c, enabled |-> TRUE].enabled
<1>1. [config |-> c, enabled |-> TRUE] \in RuleRows
  BY DEF RuleRows
<1> QED BY <1>1, AlertsAssumption, Zenon

LEMMA CreateSteady ==
    ASSUME SteadyInv, AlertsInv', NEW r \in Rules, NEW c \in Configs, CreateRule(r, c, TRUE)
    PROVE  SteadyInv'
<1>1. PICK new : new = [config |-> c, enabled |-> TRUE]
  BY Zenon
<1>2. new \in [config : Configs, enabled : {TRUE}] /\ new # None /\ new.config = c
  BY <1>1, RuleRow, Zenon
<1>3. /\ UNCHANGED <<hosts, sample, since, checked, pending, alerts, writing, work, now>>
      /\ rules' = [rules EXCEPT ![r] = new] /\ rules[r] = None
      /\ \A q \in Rules : rules[q] # None => rules[q].config.name # c.name
  BY <1>1, Zenon DEF CreateRule, evaluatorVars, NameTaken
<1>4. rules \in [Rules -> [config : Configs, enabled : {TRUE}] \cup {None}]
  BY Zenon DEF SteadyInv, SteadyTypeOK
<1>5. /\ rules' \in [Rules -> [config : Configs, enabled : {TRUE}] \cup {None}]
      /\ rules'[r] = new
      /\ \A q \in Rules : q # r => rules'[q] = rules[q]
  BY <1>2, <1>3, <1>4, Zenon
<1>6. SteadyTypeOK' /\ SamplesOK'
  BY <1>3, <1>5, Zenon DEF SteadyInv, SteadyTypeOK, SamplesOK
<1>7. UniqueNames'
  BY <1>2, <1>3, <1>5, Zenon DEF SteadyInv, UniqueNames
<1>8. \A q \in Rules : rules[q] # None => rules'[q] = rules[q]
  BY <1>3, <1>5, Zenon
<1>9. \A k : Watched(k) => Watched(k)'
  BY <1>3, <1>8, Zenon DEF Watched, ruleHosts, Key
<1>10. OnlyWatched'
  <2>1. WritingKey' = WritingKey
    BY <1>3, Zenon DEF WritingKey, Key
  <2>2. \A a \in AlertIds : IsOpen(a)' => NameTaken(alerts[a].rule, Rules)'
    <3>1. \A n : NameTaken(n, Rules) => NameTaken(n, Rules)'
      BY <1>8, Zenon DEF NameTaken
    <3>2. \A a \in AlertIds : IsOpen(a)' => NameTaken(alerts'[a].rule, Rules)
      BY <1>3, Zenon DEF SteadyInv, OnlyWatched, IsOpen
    <3> QED BY <3>1, <3>2, Zenon DEF NameTaken
  <2>3. \A w \in work' : Watched(Key(w[1], w[2]))'
    BY <1>3, <1>9, Zenon DEF SteadyInv, OnlyWatched, Key
  <2> QED BY <1>3, <1>9, <2>1, <2>2, <2>3, Zenon DEF SteadyInv, OnlyWatched
<1>11. PendingOK' /\ StatementOK'
  <2>1. WritingKey' = WritingKey /\ \A s : Breached(s)' <=> Breached(s)
    BY <1>3, Zenon DEF WritingKey, Key, Breached
  <2> QED BY <1>3, <2>1, Zenon DEF SteadyInv, PendingOK, StatementOK
<1> QED BY <1>6, <1>7, <1>10, <1>11, Zenon DEF SteadyInv

LEMMA EditSteady ==
    ASSUME SteadyInv, AlertsInv', NEW r \in Rules, NEW c \in Configs,
           rules[r] # None, SameRule(rules[r].config, c), UpdateRule(r, c, TRUE)
    PROVE  SteadyInv'
<1>1. PICK new : new = [config |-> c, enabled |-> TRUE]
  BY Zenon
<1>2. new \in [config : Configs, enabled : {TRUE}] /\ new # None /\ new.config = c
  BY <1>1, RuleRow, Zenon
<1>3. PICK old : old = rules[r].config
  BY Zenon
<1>4. /\ UNCHANGED <<hosts, sample, since, checked, pending, writing, work, now>>
      /\ rules' = [rules EXCEPT ![r] = new]
      /\ alerts' = [a \in AlertIds |-> Renamed(a, old.name, c.name)]
      /\ old.name = c.name /\ old.metric = c.metric /\ old.servers = c.servers
  <2>1. alerts' = [a \in AlertIds |-> IF TRUE THEN [b \in AlertIds |-> Renamed(b, old.name, c.name)][a]
                                      ELSE RuleResolved([b \in AlertIds |-> Renamed(b, old.name, c.name)][a], c.name)]
    BY <1>3, Zenon DEF UpdateRule
  <2>2. alerts' = [a \in AlertIds |-> Renamed(a, old.name, c.name)]
    BY <2>1
  <2> QED BY <1>1, <1>3, <2>2, Zenon DEF UpdateRule, evaluatorVars, SameRule
<1>5. rules \in [Rules -> [config : Configs, enabled : {TRUE}] \cup {None}]
  BY Zenon DEF SteadyInv, SteadyTypeOK
<1>6. /\ rules' \in [Rules -> [config : Configs, enabled : {TRUE}] \cup {None}]
      /\ rules'[r] = new
      /\ \A q \in Rules : q # r => rules'[q] = rules[q]
  BY <1>2, <1>4, <1>5, Zenon
<1>7. SteadyTypeOK' /\ SamplesOK'
  BY <1>4, <1>6, Zenon DEF SteadyInv, SteadyTypeOK, SamplesOK
<1>8. \A q \in Rules : /\ rules'[q] # None <=> rules[q] # None
                       /\ rules'[q].config.name = rules[q].config.name
                       /\ rules'[q].config.metric = rules[q].config.metric
                       /\ rules'[q].config.servers = rules[q].config.servers
  BY <1>2, <1>3, <1>4, <1>6, Zenon
<1>9. UniqueNames'
  BY <1>8 DEF SteadyInv, UniqueNames
<1>10. \A k : Watched(k) => Watched(k)'
  <2>1. \A q \in Rules : \A h : /\ Key(rules[q].config, h)' = Key(rules[q].config, h)
                                /\ ruleHosts(rules[q].config)' = ruleHosts(rules[q].config)
    BY <1>4, <1>8, Zenon DEF Key, ruleHosts
  <2> SUFFICES ASSUME NEW k, NEW q \in Rules, rules[q] # None, k[1] \in ruleHosts(rules[q].config),
                      k = Key(rules[q].config, k[1])
               PROVE  Watched(k)'
    BY Zenon DEF Watched
  <2>2. rules'[q] # None /\ k[1] \in ruleHosts(rules[q].config)' /\ k = Key(rules[q].config, k[1])'
    BY <1>8, <2>1, Zenon
  <2> QED BY <2>2, Zenon DEF Watched
<1>11. \A a \in AlertIds : alerts'[a].state = "open" => alerts[a].state = "open" /\ alerts'[a].rule = alerts[a].rule
  <2> SUFFICES ASSUME NEW a \in AlertIds, alerts'[a].state = "open"
               PROVE  alerts[a].state = "open" /\ alerts'[a].rule = alerts[a].rule
    BY Zenon
  <2>1. alerts'[a] = IF alerts[a].state = "open" /\ alerts[a].rule = old.name
                     THEN [alerts[a] EXCEPT !.rule = c.name] ELSE alerts[a]
    BY <1>4, Zenon DEF Renamed, IsOpen
  <2>2. alerts[a] \in AlertRows
    BY Zenon DEF SteadyInv, AlertsInv, RowsTypeOK
  <2>3. [alerts[a] EXCEPT !.rule = c.name].rule = c.name
    BY <2>2, Zenon DEF AlertRows
  <2> QED BY <1>4, <2>1, <2>3, Zenon
<1>12. OnlyWatched'
  <2>1. WritingKey' = WritingKey
    BY <1>4, Zenon DEF WritingKey, Key
  <2>2. \A a \in AlertIds : IsOpen(a)' => NameTaken(alerts[a].rule, Rules)'
    BY <1>8, <1>11, Zenon DEF SteadyInv, OnlyWatched, IsOpen, NameTaken
  <2>3. \A w \in work' : Watched(Key(w[1], w[2]))'
    BY <1>4, <1>10, Zenon DEF SteadyInv, OnlyWatched, Key
  <2> QED BY <1>4, <1>10, <2>1, <2>2, <2>3, Zenon DEF SteadyInv, OnlyWatched
<1>13. PendingOK' /\ StatementOK'
  <2>1. WritingKey' = WritingKey /\ \A s : Breached(s)' <=> Breached(s)
    BY <1>4, Zenon DEF WritingKey, Key, Breached
  <2> QED BY <1>4, <2>1, Zenon DEF SteadyInv, PendingOK, StatementOK
<1> QED BY <1>7, <1>9, <1>12, <1>13, Zenon DEF SteadyInv

\* What a sample changes: the time since when the samples are as they are moves when
\* it is the first one or breaks with the one before.
LEMMA SampleDoes ==
    ASSUME SteadyInv, NEW h \in Hosts, NEW m \in Metrics, NEW value \in Values, SaveSample(h, m, value)
    PROVE  /\ UNCHANGED <<rules, hosts, checked, pending, alerts, writing, work, now>>
           /\ now \in Nat /\ now > 0 /\ (sample[<<h, m>>] # None => sample[<<h, m>>].at < now)
           /\ \A s \in Hosts \X Metrics : s # <<h, m>> => /\ sample'[s] = sample[s] /\ since'[s] = since[s]
                                                          /\ Breached(s)' <=> Breached(s)
           /\ sample'[<<h, m>>] # None /\ sample'[<<h, m>>].at = now
           /\ sample' \in [Hosts \X Metrics -> Samples \cup {None}]
           /\ since' \in [Hosts \X Metrics -> Nat]
           /\ \/ sample[<<h, m>>] = None /\ since'[<<h, m>>] = now
              \/ sample[<<h, m>>] # None /\ since'[<<h, m>>] = now /\ (Breached(<<h, m>>)' <=> ~Breached(<<h, m>>))
              \/ sample[<<h, m>>] # None /\ since'[<<h, m>>] = since[<<h, m>>] /\ (Breached(<<h, m>>)' <=> Breached(<<h, m>>))
<1>1. PICK t, new : t = <<h, m>> /\ new = [value |-> value, at |-> now]
  BY Zenon
<1>2. PICK y : y = IF sample[t] = None \/ Breached(t) # (getAlertType(value) # Normal) THEN now ELSE since[t]
  BY Zenon
<1>3. /\ UNCHANGED <<rules, hosts, checked, pending, alerts, writing, work, now>>
      /\ now > 0 /\ (sample[t] # None => sample[t].at < now)
      /\ sample' = [sample EXCEPT ![t] = new]
      /\ since' = [since EXCEPT ![t] = y]
  BY <1>1, <1>2, Zenon DEF SaveSample, evaluatorVars
<1>4. now \in Nat /\ new \in Samples /\ new # None /\ new.at = now /\ new.value = value /\ t \in Hosts \X Metrics
  <2>1. now \in Nat
    BY DEF SteadyInv, SteadyTypeOK
  <2>2. new \in Samples /\ new.at = now /\ new.value = value
    BY <1>1, <2>1 DEF Samples
  <2> QED BY <1>1, <2>1, <2>2, AlertsAssumption
<1>5. sample \in [Hosts \X Metrics -> Samples \cup {None}] /\ since \in [Hosts \X Metrics -> Nat]
  BY DEF SteadyInv, SteadyTypeOK
<1>6. /\ sample' \in [Hosts \X Metrics -> Samples \cup {None}] /\ since' \in [Hosts \X Metrics -> Nat]
      /\ sample'[t] = new /\ since'[t] = y
      /\ \A s \in Hosts \X Metrics : s # t => sample'[s] = sample[s] /\ since'[s] = since[s]
  <2>1. y \in Nat
    BY <1>2, <1>4, <1>5
  <2> QED BY <1>3, <1>4, <1>5, <2>1, Zenon
<1>7. Breached(t)' <=> getAlertType(value) # Normal
  BY <1>4, <1>6, Zenon DEF Breached
<1>8. \A s \in Hosts \X Metrics : s # t => (Breached(s)' <=> Breached(s))
  BY <1>6, Zenon DEF Breached
<1>9. \/ sample[t] = None /\ since'[t] = now
      \/ sample[t] # None /\ since'[t] = now /\ (Breached(t)' <=> ~Breached(t))
      \/ sample[t] # None /\ since'[t] = since[t] /\ (Breached(t)' <=> Breached(t))
  <2>1. CASE sample[t] = None
    BY <1>2, <1>6, <2>1, Zenon
  <2>2. CASE sample[t] # None /\ (Breached(t) <=> getAlertType(value) # Normal)
    <3>1. Breached(t) = (getAlertType(value) # Normal)
      BY <2>2 DEF Breached
    <3> QED BY <1>2, <1>6, <1>7, <2>2, <3>1, Zenon
  <2>3. CASE sample[t] # None /\ (Breached(t) <=> ~(getAlertType(value) # Normal))
    <3>1. Breached(t) # (getAlertType(value) # Normal)
      BY <2>3 DEF Breached
    <3> QED BY <1>2, <1>6, <1>7, <2>3, <3>1, Zenon
  <2> QED BY <2>1, <2>2, <2>3, Zenon
<1> QED BY <1>1, <1>3, <1>4, <1>6, <1>8, <1>9, Zenon

LEMMA SampleSteady ==
    ASSUME SteadyInv, AlertsInv', NEW h \in Hosts, NEW m \in Metrics, NEW value \in Values,
           Idle, EveryRuleSaw(h, m), SaveSample(h, m, value)
    PROVE  SteadyInv'
<1>1. PICK t : t = <<h, m>>
  BY Zenon
<1>2. t \in Hosts \X Metrics /\ t[1] = h /\ t[2] = m
  BY <1>1
<1>3. /\ UNCHANGED <<rules, hosts, checked, pending, alerts, writing, work, now>>
      /\ now \in Nat /\ now > 0 /\ (sample[t] # None => sample[t].at < now)
      /\ \A s \in Hosts \X Metrics : s # t => /\ sample'[s] = sample[s] /\ since'[s] = since[s]
                                              /\ Breached(s)' <=> Breached(s)
      /\ sample'[t] # None /\ sample'[t].at = now
      /\ sample' \in [Hosts \X Metrics -> Samples \cup {None}] /\ since' \in [Hosts \X Metrics -> Nat]
      /\ \/ sample[t] = None /\ since'[t] = now
         \/ sample[t] # None /\ since'[t] = now /\ (Breached(t)' <=> ~Breached(t))
         \/ sample[t] # None /\ since'[t] = since[t] /\ (Breached(t)' <=> Breached(t))
  BY <1>1, SampleDoes, Zenon
<1>4. work = {} /\ writing = None
  BY Zenon DEF Idle
<1>5. SteadyTypeOK' /\ UniqueNames'
  BY <1>3, Zenon DEF SteadyInv, SteadyTypeOK, UniqueNames
<1>6. SamplesOK'
  <2>1. \A s \in Hosts \X Metrics : since[s] \in Nat /\ (sample[s] # None => sample[s].at \in Nat)
    BY DEF SteadyInv, SteadyTypeOK, Samples
  <2> SUFFICES ASSUME NEW s \in Hosts \X Metrics, sample'[s] # None
               PROVE  0 < sample'[s].at /\ sample'[s].at <= now' /\ since'[s] <= sample'[s].at
    BY DEF SamplesOK
  <2>2. CASE s # t
    BY <1>3, <2>2 DEF SteadyInv, SamplesOK
  <2>3. CASE s = t
    BY <1>2, <1>3, <2>1, <2>3 DEF SteadyInv, SamplesOK
  <2> QED BY <2>2, <2>3
<1>7. OnlyWatched'
  <2>1. \A k : Watched(k)' <=> Watched(k)
    BY <1>3, WatchedStays, Zenon
  <2> QED BY <1>3, <1>4, <2>1 DEF SteadyInv, OnlyWatched, IsOpen, NameTaken
<1>8. ASSUME NEW k \in Keys, Source(k) = t, checked[k] # 0
      PROVE  sample[t] # None /\ checked[k] = sample[t].at
  <2>1. sample[t] # None /\ Watched(k)
    BY <1>8, Zenon DEF SteadyInv, OnlyWatched, PendingOK
  <2>2. PICK r \in Rules : rules[r] # None /\ k[1] \in ruleHosts(rules[r].config) /\ k = Key(rules[r].config, k[1])
    BY <2>1, Zenon DEF Watched
  <2>3. k[1] = h /\ k[3] = m
    BY <1>1, <1>8 DEF Source
  <2>4. rules[r].config \in Configs /\ rules[r].enabled
    BY <2>2, RuleHas, Zenon
  <2>5. rules[r].config.metric = m
    BY <2>2, <2>3 DEF Key
  <2> QED BY <1>1, <2>1, <2>2, <2>3, <2>4, <2>5, Zenon DEF EveryRuleSaw
<1>9. PendingOK'
  <2> SUFFICES ASSUME NEW k \in Keys
               PROVE  /\ checked[k] # 0 => sample'[Source(k)] # None /\ checked[k] <= sample'[Source(k)].at
                      /\ pending[k] # None =>
                            /\ checked[k] # 0
                            /\ (pending[k].status # Normal <=> Breached(Source(k))') => since'[Source(k)] <= pending[k].since
                            /\ checked[k] = sample'[Source(k)].at => (pending[k].status # Normal <=> Breached(Source(k))')
    BY <1>3, Zenon DEF PendingOK
  <2>1. Source(k) \in Hosts \X Metrics
    BY SourceOf
  <2>2. CASE Source(k) # t
    BY <1>3, <2>1, <2>2, Zenon DEF SteadyInv, PendingOK
  <2>3. CASE Source(k) = t
    <3>1. checked[k] # 0 => sample[t] # None /\ checked[k] = sample[t].at /\ checked[k] < now
      BY <1>3, <1>8, <2>3
    <3>2. checked[k] \in Nat
      BY DEF SteadyInv, SteadyTypeOK
    <3>3. checked[k] # 0 => sample'[t] # None /\ checked[k] <= sample'[t].at /\ checked[k] # sample'[t].at
      BY <1>3, <3>1, <3>2
    <3>4. ASSUME pending[k] # None
          PROVE  /\ checked[k] # 0
                 /\ (pending[k].status # Normal <=> Breached(t)') => since'[t] <= pending[k].since
      <4>1. checked[k] # 0 /\ (pending[k].status # Normal <=> Breached(t)) /\ since[t] <= pending[k].since
        BY <2>3, <3>1, <3>4, Zenon DEF SteadyInv, PendingOK
      <4> QED BY <1>3, <3>1, <4>1, Zenon
    <3> QED BY <2>3, <3>3, <3>4, Zenon
  <2> QED BY <2>2, <2>3
<1>10. StatementOK'
  BY <1>3, <1>4 DEF StatementOK
<1> QED BY <1>5, <1>6, <1>7, <1>9, <1>10, Zenon DEF SteadyInv

-----------------------------------------------------------------------------
(* When alerts open and resolve: a check and its statement *)

Statement(does, c, h, s, a) ==
    [does |-> does, config |-> c, host |-> h, level |-> getAlertType(s.value), at |-> s.at, alert |-> a]

LEMMA StatementFields ==
    ASSUME NEW does \in {"create", "update", "resolve"}, NEW c \in Configs, NEW h \in Hosts,
           NEW s \in Samples, NEW a \in AlertIds \cup {None}, NEW w, w = Statement(does, c, h, s, a)
    PROVE  /\ w # None /\ w.does = does /\ w.config = c /\ w.host = h
           /\ w.level = getAlertType(s.value) /\ w.at = s.at /\ w.alert = a
<1>1. s.at \in Nat /\ getAlertType(s.value) \in {Normal, Warning, Critical}
  BY StatusIsLevel DEF Samples, Levels
<1>2. w \in Statements
  BY <1>1, Zenon DEF Statement, Statements
<1>3. w # None
  BY <1>2, AlertsAssumption, Zenon
<1> QED BY <1>3, Zenon DEF Statement

\* What waits is the change to what the samples are now.
Waiting(k) == pending[k] # None /\ (pending[k].status # Normal <=> Breached(Source(k)))

\* What a check finds and decides: the change x that is pending then, the statement w.
NothingToDo(c, h, x, w) ==
    /\ Breached(Source(Key(c, h))) <=> HasOpen(c, h)
    /\ x = None /\ w = None
    /\ Breached(Source(Key(c, h))) =>
          \E a \in OpenAlert(c, h) : alerts[a].severity = getAlertType(sample[Source(Key(c, h))].value)

NewLevel(c, h, x, w) ==
    /\ Breached(Source(Key(c, h))) /\ HasOpen(c, h)
    /\ x = None
    /\ \E a \in OpenAlert(c, h) : w = Statement("update", c, h, sample[Source(Key(c, h))], a)

BeginsToWait(c, h, x, w) ==
    /\ Breached(Source(Key(c, h))) <=> ~HasOpen(c, h)
    /\ ~Waiting(Key(c, h))
    /\ x \in Changes /\ x.since = sample[Source(Key(c, h))].at
    /\ x.status # Normal <=> Breached(Source(Key(c, h)))
    /\ w = None

WaitsOn(c, h, x, w) ==
    /\ Breached(Source(Key(c, h))) <=> ~HasOpen(c, h)
    /\ Waiting(Key(c, h))
    /\ x = pending[Key(c, h)] /\ ~(sample[Source(Key(c, h))].at - x.since >= c.trigger)
    /\ w = None

HasLasted(c, h, x, w) ==
    /\ Breached(Source(Key(c, h))) <=> ~HasOpen(c, h)
    /\ Waiting(Key(c, h))
    /\ x = pending[Key(c, h)] /\ sample[Source(Key(c, h))].at - x.since >= c.trigger
    /\ \/ Breached(Source(Key(c, h))) /\ w = Statement("create", c, h, sample[Source(Key(c, h))], None)
       \/ /\ ~Breached(Source(Key(c, h)))
          /\ \E a \in OpenAlert(c, h) : w = Statement("resolve", c, h, sample[Source(Key(c, h))], a)

Decides(c, h, x, w) ==
    \/ NothingToDo(c, h, x, w)
    \/ NewLevel(c, h, x, w)
    \/ BeginsToWait(c, h, x, w)
    \/ WaitsOn(c, h, x, w)
    \/ HasLasted(c, h, x, w)

LEMMA CheckDoes ==
    ASSUME SteadyInv, NEW c \in Configs, NEW h \in Hosts, Check(c, h)
    PROVE  /\ UNCHANGED <<rules, hosts, sample, since, alerts, now>>
           /\ writing = None /\ <<c, h>> \in work /\ work' = work \ {<<c, h>>}
           /\ sample[<<h, c.metric>>] # None /\ checked[Key(c, h)] < sample[<<h, c.metric>>].at
           /\ checked' = [checked EXCEPT ![Key(c, h)] = sample[<<h, c.metric>>].at]
           /\ \E x : pending' = [pending EXCEPT ![Key(c, h)] = x] /\ Decides(c, h, x, writing')
<1>1. PICK k, t, s : k = Key(c, h) /\ t = <<h, c.metric>> /\ s = sample[t]
  BY Zenon
<1>2. /\ UNCHANGED <<rules, hosts, sample, since, alerts, now>>
      /\ writing = None /\ <<c, h>> \in work /\ work' = work \ {<<c, h>>}
      /\ s # None /\ s.at > checked[k] /\ checked' = [checked EXCEPT ![k] = s.at]
      /\ \/ OpenAlert(c, h) = {} /\ openIfBreached(c, h, s)
         \/ \E a \in OpenAlert(c, h) : updateOpen(c, h, s, a)
  BY <1>1, Zenon DEF Check, Take, Fresh, storeVars
<1>3. /\ Source(k) = t /\ t \in Hosts \X Metrics /\ k \in Keys
      /\ s \in Samples /\ s.at \in Nat /\ checked[k] \in Nat
      /\ pending \in [Keys -> Changes \cup {None}]
  <2>1. Source(k) = t /\ t \in Hosts \X Metrics /\ k \in Keys
    BY <1>1, KeyOf, Zenon
  <2>2. s \in Samples
    BY <1>1, <1>2, <2>1, Zenon DEF SteadyInv, SteadyTypeOK
  <2> QED BY <2>1, <2>2 DEF SteadyInv, SteadyTypeOK, Samples
<1>4. PICK status : status = getAlertType(s.value)
  BY Zenon
<1>5. Breached(t) <=> status # Normal
  BY <1>1, <1>2, <1>4, Zenon DEF Breached
<1>6. pending = [pending EXCEPT ![k] = pending[k]]
  BY <1>3, Zenon
<1>7. status \in {Normal, Warning, Critical}
  BY <1>4, StatusIsLevel DEF Levels
<1>8. \A u \in {Normal, Warning, Critical} : /\ [status |-> u, since |-> s.at] \in Changes
                                             /\ [status |-> u, since |-> s.at].since = s.at
                                             /\ [status |-> u, since |-> s.at].status = u
  BY <1>3 DEF Changes
<1>9. ASSUME OpenAlert(c, h) = {}, openIfBreached(c, h, s)
      PROVE  \E x : pending' = [pending EXCEPT ![k] = x] /\ Decides(c, h, x, writing')
  <2>0. ~HasOpen(c, h)
    BY <1>9, Zenon DEF HasOpen
  <2>1. ASSUME status = Normal, NoPending(k), WillNot
        PROVE  NothingToDo(c, h, None, writing') /\ pending' = [pending EXCEPT ![k] = None]
    BY <1>1, <1>3, <1>5, <2>0, <2>1, Zenon DEF NothingToDo, NoPending, Pend, WillNot
  <2>2. ASSUME status # Normal, ~WaitingForBreach(k), Pend(k, [status |-> status, since |-> s.at]), WillNot
        PROVE  /\ BeginsToWait(c, h, [status |-> status, since |-> s.at], writing')
               /\ pending' = [pending EXCEPT ![k] = [status |-> status, since |-> s.at]]
    BY <1>1, <1>3, <1>5, <1>7, <1>8, <2>0, <2>2, Zenon DEF BeginsToWait, Pend, WillNot, Waiting, WaitingForBreach
  <2>3. ASSUME status # Normal, WaitingForBreach(k), ~Lasted(c, k, s.at), UNCHANGED pending, WillNot
        PROVE  WaitsOn(c, h, pending[k], writing') /\ pending' = [pending EXCEPT ![k] = pending[k]]
    BY <1>1, <1>3, <1>5, <1>6, <2>0, <2>3, Zenon DEF WaitsOn, WillNot, Waiting, WaitingForBreach, Lasted
  <2>4. ASSUME status # Normal, WaitingForBreach(k), Lasted(c, k, s.at), UNCHANGED pending,
               Will("create", c, h, s, None)
        PROVE  HasLasted(c, h, pending[k], writing') /\ pending' = [pending EXCEPT ![k] = pending[k]]
    BY <1>1, <1>3, <1>5, <1>6, <2>0, <2>4, Zenon DEF HasLasted, Will, Statement, Waiting, WaitingForBreach, Lasted
  <2> QED BY <1>1, <1>4, <1>9, <2>1, <2>2, <2>3, <2>4, Zenon DEF openIfBreached, Decides
<1>10. ASSUME NEW a \in OpenAlert(c, h), updateOpen(c, h, s, a)
       PROVE  \E x : pending' = [pending EXCEPT ![k] = x] /\ Decides(c, h, x, writing')
  <2>0. HasOpen(c, h)
    BY <1>10, Zenon DEF HasOpen
  <2>1. ASSUME status = Normal, ~WaitingForNormal(k), Pend(k, [status |-> Normal, since |-> s.at]), WillNot
        PROVE  /\ BeginsToWait(c, h, [status |-> Normal, since |-> s.at], writing')
               /\ pending' = [pending EXCEPT ![k] = [status |-> Normal, since |-> s.at]]
    BY <1>1, <1>3, <1>5, <1>7, <1>8, <2>0, <2>1, Zenon DEF BeginsToWait, Pend, WillNot, Waiting, WaitingForNormal
  <2>2. ASSUME status = Normal, WaitingForNormal(k), ~Lasted(c, k, s.at), UNCHANGED pending, WillNot
        PROVE  WaitsOn(c, h, pending[k], writing') /\ pending' = [pending EXCEPT ![k] = pending[k]]
    BY <1>1, <1>3, <1>5, <1>6, <2>0, <2>2, Zenon DEF WaitsOn, WillNot, Waiting, WaitingForNormal, Lasted
  <2>3. ASSUME status = Normal, WaitingForNormal(k), Lasted(c, k, s.at), UNCHANGED pending,
               Will("resolve", c, h, s, a)
        PROVE  HasLasted(c, h, pending[k], writing') /\ pending' = [pending EXCEPT ![k] = pending[k]]
    BY <1>1, <1>3, <1>5, <1>6, <2>0, <2>3, Zenon DEF HasLasted, Will, Statement, Waiting, WaitingForNormal, Lasted
  <2>4. ASSUME status # Normal, status = alerts[a].severity, NoPending(k), WillNot
        PROVE  NothingToDo(c, h, None, writing') /\ pending' = [pending EXCEPT ![k] = None]
    BY <1>1, <1>3, <1>4, <1>5, <2>0, <2>4, Zenon DEF NothingToDo, NoPending, Pend, WillNot
  <2>5. ASSUME status # Normal, NoPending(k), Will("update", c, h, s, a)
        PROVE  NewLevel(c, h, None, writing') /\ pending' = [pending EXCEPT ![k] = None]
    BY <1>1, <1>3, <1>5, <2>0, <2>5, Zenon DEF NewLevel, NoPending, Pend, Will, Statement
  <2> QED BY <1>1, <1>4, <1>10, <2>1, <2>2, <2>3, <2>4, <2>5, Zenon DEF updateOpen, Decides
<1>11. checked[k] < s.at
  BY <1>2, <1>3
<1> QED BY <1>1, <1>2, <1>9, <1>10, <1>11, Zenon

\* The rest of what is in the statement follows from what was found.
LEMMA DecidedStatement ==
    ASSUME SteadyInv, NEW c \in Configs, NEW h \in Hosts, NEW t, t = <<h, c.metric>>, NEW s, s = sample[t], s # None,
           NEW x, NEW w, Decides(c, h, x, w), w # None
    PROVE  /\ w.config = c /\ w.host = h /\ w.at = s.at /\ w.level = getAlertType(s.value)
           /\ w.does \in {"create", "update", "resolve"}
           /\ Breached(t) <=> w.does # "resolve"
           /\ w.does = "create" => ~HasOpen(c, h)
           /\ w.does # "create" => w.alert \in OpenAlert(c, h)
           /\ w.does = "update" => x = None
           /\ w.does # "update" => HasLasted(c, h, x, w)
<1>1. Source(Key(c, h)) = t /\ t \in Hosts \X Metrics
  BY KeyOf, Zenon
<1>2. s \in Samples
  BY <1>1, Zenon DEF SteadyInv, SteadyTypeOK
<1>3. \A a \in OpenAlert(c, h) : a \in AlertIds \cup {None}
  BY DEF OpenAlert
<1>4. ASSUME NEW does \in {"create", "update", "resolve"}, NEW a \in AlertIds \cup {None}, w = Statement(does, c, h, s, a)
      PROVE  /\ w.config = c /\ w.host = h /\ w.at = s.at /\ w.level = getAlertType(s.value)
             /\ w.does = does /\ w.alert = a
  BY <1>2, <1>4, StatementFields
<1>5. CASE NewLevel(c, h, x, w)
  <2>1. PICK a \in OpenAlert(c, h) : w = Statement("update", c, h, s, a)
    BY <1>1, <1>5, Zenon DEF NewLevel
  <2>2. /\ w.config = c /\ w.host = h /\ w.at = s.at /\ w.level = getAlertType(s.value)
        /\ w.does = "update" /\ w.alert = a
    BY <1>3, <1>4, <2>1
  <2>3. Breached(t) /\ x = None
    BY <1>1, <1>5, Zenon DEF NewLevel
  <2> QED BY <2>2, <2>3
<1>6. CASE HasLasted(c, h, x, w)
  <2>1. CASE Breached(t)
    <3>1. w = Statement("create", c, h, s, None) /\ ~HasOpen(c, h)
      BY <1>1, <1>6, <2>1, Zenon DEF HasLasted
    <3>2. /\ w.config = c /\ w.host = h /\ w.at = s.at /\ w.level = getAlertType(s.value)
          /\ w.does = "create"
      BY <1>4, <3>1
    <3> QED BY <1>6, <2>1, <3>1, <3>2
  <2>2. CASE ~Breached(t)
    <3>1. PICK a \in OpenAlert(c, h) : w = Statement("resolve", c, h, s, a)
      BY <1>1, <1>6, <2>2, Zenon DEF HasLasted
    <3>2. /\ w.config = c /\ w.host = h /\ w.at = s.at /\ w.level = getAlertType(s.value)
          /\ w.does = "resolve" /\ w.alert = a
      BY <1>3, <1>4, <3>1
    <3> QED BY <1>6, <2>2, <3>1, <3>2
  <2> QED BY <2>1, <2>2
<1> QED BY <1>5, <1>6, Zenon DEF Decides, NothingToDo, BeginsToWait, WaitsOn

LEMMA CheckSteady ==
    ASSUME SteadyInv, AlertsInv', NEW c \in Configs, NEW h \in Hosts, Check(c, h)
    PROVE  SteadyInv'
<1>1. PICK k, t, s : k = Key(c, h) /\ t = <<h, c.metric>> /\ s = sample[t]
  BY Zenon
<1>2. /\ UNCHANGED <<rules, hosts, sample, since, alerts, now>>
      /\ writing = None /\ <<c, h>> \in work /\ work' = work \ {<<c, h>>}
      /\ s # None /\ checked[k] < s.at /\ checked' = [checked EXCEPT ![k] = s.at]
      /\ \E x : pending' = [pending EXCEPT ![k] = x] /\ Decides(c, h, x, writing')
  BY <1>1, CheckDoes, Zenon
<1>3. PICK x : pending' = [pending EXCEPT ![k] = x] /\ Decides(c, h, x, writing')
  BY <1>2, Zenon
<1>4. /\ Source(k) = t /\ t \in Hosts \X Metrics /\ k \in Keys /\ k[1] = h
      /\ s \in Samples /\ s.at \in Nat /\ checked[k] \in Nat /\ since[t] \in Nat
      /\ pending \in [Keys -> Changes \cup {None}] /\ checked \in [Keys -> Nat]
  <2>1. Source(k) = t /\ t \in Hosts \X Metrics /\ k \in Keys /\ k[1] = h
    BY <1>1, KeyOf, Zenon
  <2>2. s \in Samples
    BY <1>1, <1>2, <2>1, Zenon DEF SteadyInv, SteadyTypeOK
  <2> QED BY <2>1, <2>2 DEF SteadyInv, SteadyTypeOK, Samples
<1>5. x \in Changes \cup {None}
  <2>1. pending[k] \in Changes \cup {None}
    BY <1>4, Zenon
  <2> QED BY <1>1, <1>3, <2>1, Zenon DEF Decides, NothingToDo, NewLevel, BeginsToWait, WaitsOn, HasLasted
<1>6. /\ pending' \in [Keys -> Changes \cup {None}] /\ pending'[k] = x
      /\ checked' \in [Keys -> Nat] /\ checked'[k] = s.at
      /\ \A j \in Keys : j # k => pending'[j] = pending[j] /\ checked'[j] = checked[j]
  BY <1>2, <1>3, <1>4, <1>5, Zenon
<1>7. Watched(k) /\ \A j : Watched(j)' <=> Watched(j)
  <2>1. Watched(k)
    BY <1>1, <1>2 DEF SteadyInv, OnlyWatched
  <2> QED BY <1>2, <2>1, WatchedStays, Zenon
<1>8. \A u : Breached(u)' <=> Breached(u)
  BY <1>2, Zenon DEF Breached
<1>9. x # None => (x.status # Normal <=> Breached(t)) /\ since[t] <= x.since
  <2>1. CASE BeginsToWait(c, h, x, writing')
    <3>1. x.since = s.at /\ (x.status # Normal <=> Breached(t))
      BY <1>1, <1>4, <2>1, Zenon DEF BeginsToWait
    <3>2. since[t] <= s.at
      BY <1>1, <1>2, <1>4, Zenon DEF SteadyInv, SamplesOK
    <3> QED BY <3>1, <3>2
  <2>2. CASE WaitsOn(c, h, x, writing') \/ HasLasted(c, h, x, writing')
    <3>1. x = pending[k] /\ pending[k] # None /\ (pending[k].status # Normal <=> Breached(t))
      BY <1>1, <1>4, <2>2, Zenon DEF WaitsOn, HasLasted, Waiting
    <3> QED BY <1>4, <3>1, Zenon DEF SteadyInv, PendingOK
  <2> QED BY <1>3, <2>1, <2>2, Zenon DEF Decides, NothingToDo, NewLevel
<1>10. SteadyTypeOK' /\ SamplesOK' /\ UniqueNames'
  <2>1. work' \subseteq Configs \X Hosts
    BY <1>2 DEF SteadyInv, SteadyTypeOK
  <2> QED BY <1>2, <1>6, <2>1, Zenon DEF SteadyInv, SteadyTypeOK, SamplesOK, UniqueNames
<1>11. writing' # None => /\ writing'.config = c /\ writing'.host = h /\ writing'.at = s.at
                          /\ writing'.level = getAlertType(s.value)
                          /\ writing'.does \in {"create", "update", "resolve"}
                          /\ Breached(t) <=> writing'.does # "resolve"
                          /\ writing'.does # "update" => HasLasted(c, h, x, writing')
  <2>1. PICK w : w = writing'
    BY Zenon
  <2>2. Decides(c, h, x, w)
    BY <1>3, <2>1, Zenon
  <2>3. w # None => /\ w.config = c /\ w.host = h /\ w.at = s.at /\ w.level = getAlertType(s.value)
                    /\ w.does \in {"create", "update", "resolve"} /\ (Breached(t) <=> w.does # "resolve")
                    /\ (w.does # "update" => HasLasted(c, h, x, w))
    BY <1>1, <1>2, <2>2, DecidedStatement
  <2> QED BY <2>1, <2>3, Zenon
<1>12. writing' # None => WritingKey' = k
  BY <1>1, <1>11, Zenon DEF WritingKey, Key
<1>13. OnlyWatched'
  <2>1. \A j \in Keys : pending'[j] # None \/ checked'[j] # 0 => Watched(j)'
    BY <1>6, <1>7, Zenon DEF SteadyInv, OnlyWatched
  <2>2. \A w \in work' : Watched(Key(w[1], w[2]))'
    <3>1. \A w \in work' : w \in work
      BY <1>2
    <3> QED BY <1>7, <3>1, Zenon DEF SteadyInv, OnlyWatched, Key
  <2> QED BY <1>2, <1>7, <1>12, <2>1, <2>2, Zenon DEF SteadyInv, OnlyWatched, IsOpen, NameTaken
<1>14. PendingOK'
  <2> SUFFICES ASSUME NEW j \in Keys
               PROVE  /\ checked'[j] # 0 => sample[Source(j)] # None /\ checked'[j] <= sample[Source(j)].at
                      /\ pending'[j] # None =>
                            /\ checked'[j] # 0
                            /\ (pending'[j].status # Normal <=> Breached(Source(j))) => since[Source(j)] <= pending'[j].since
                            /\ checked'[j] = sample[Source(j)].at => (pending'[j].status # Normal <=> Breached(Source(j)))
    BY <1>2, <1>8, Zenon DEF PendingOK
  <2>1. CASE j # k
    BY <1>6, <2>1, Zenon DEF SteadyInv, PendingOK
  <2>2. CASE j = k
    <3>1. s.at # 0 /\ s.at <= s.at
      BY <1>2, <1>4
    <3> QED BY <1>1, <1>2, <1>4, <1>6, <1>9, <2>2, <3>1, Zenon
  <2> QED BY <2>1, <2>2
<1>15. StatementOK'
  <2> SUFFICES ASSUME writing' # None PROVE StatementOK'
    BY Zenon DEF StatementOK
  <2>1. writing'.does # "update" => s.at - since[t] >= c.trigger
    <3> SUFFICES ASSUME writing'.does # "update" PROVE s.at - since[t] >= c.trigger
      BY Zenon
    <3>1. x = pending[k] /\ x # None /\ s.at - x.since >= c.trigger
      BY <1>1, <1>4, <1>11, Zenon DEF HasLasted, Waiting
    <3>2. x.since \in Nat /\ c.trigger \in Nat
      BY <1>5, <3>1, AlertsAssumption DEF Changes
    <3> QED BY <1>4, <1>9, <3>1, <3>2
  <2> QED BY <1>1, <1>2, <1>4, <1>6, <1>8, <1>11, <1>12, <2>1, Zenon DEF StatementOK
<1> QED BY <1>10, <1>13, <1>14, <1>15, Zenon DEF SteadyInv

\* The statement of a check belongs to a rule.
LEMMA WritingForRule ==
    ASSUME SteadyInv, writing # None
    PROVE  NameTaken(writing.config.name, Rules)
<1>1. writing.config \in Configs /\ writing.host \in Hosts
  BY KeyOfWriting, Zenon DEF SteadyInv
<1>2. PICK r \in Rules : /\ rules[r] # None /\ WritingKey[1] \in ruleHosts(rules[r].config)
                         /\ WritingKey = Key(rules[r].config, WritingKey[1])
  BY Zenon DEF SteadyInv, OnlyWatched, Watched
<1>3. rules[r].config.name = writing.config.name
  BY <1>2 DEF WritingKey, Key
<1> QED BY <1>2, <1>3, Zenon DEF NameTaken

LEMMA OpenedForRule ==
    ASSUME SteadyInv, writing # None, NEW a \in AlertIds, CanCreate(a), alerts' = Opened(a)
    PROVE  \A b \in AlertIds : alerts'[b].state = "open" => NameTaken(alerts'[b].rule, Rules)
<1>1. NameTaken(writing.config.name, Rules)
  BY WritingForRule, Zenon
<1>2. \A b \in AlertIds \ {a} : alerts'[b] = alerts[b]
  BY OpenedRow, Zenon DEF SteadyInv
<1>3. alerts'[a].rule = writing.config.name
  <2>1. alerts \in [AlertIds -> AlertRows]
    BY DEF SteadyInv, AlertsInv, RowsTypeOK
  <2>2. alerts'[a] = [state |-> "open", host |-> writing.host, rule |-> writing.config.name,
                      metric |-> writing.config.metric, severity |-> writing.level]
    BY <2>1, Zenon DEF Opened
  <2> QED BY <2>2
<1> QED BY <1>1, <1>2, <1>3, Zenon DEF SteadyInv, OnlyWatched, IsOpen

LEMMA WrittenForRule ==
    ASSUME SteadyInv, \A a \in AlertIds : Settles(alerts[a], alerts'[a])
    PROVE  \A b \in AlertIds : alerts'[b].state = "open" => NameTaken(alerts'[b].rule, Rules)
BY Zenon DEF SteadyInv, OnlyWatched, IsOpen, Settles, SameTarget

\* Forgetting what was pending.
LEMMA Forgotten ==
    ASSUME SteadyInv, NEW k \in Keys, NoPending(k)
    PROVE  /\ pending' \in [Keys -> Changes \cup {None}]
           /\ pending'[k] = None
           /\ \A j \in Keys : pending'[j] \in {None, pending[j]}
           /\ \A j \in Keys : j # k => pending'[j] = pending[j]
<1>1. pending \in [Keys -> Changes \cup {None}]
  BY DEF SteadyInv, SteadyTypeOK
<1> QED BY <1>1 DEF NoPending, Pend

LEMMA CreateAlertSteady ==
    ASSUME SteadyInv, AlertsInv', NEW a \in AlertIds, CreateAlert(a)
    PROVE  SteadyInv'
<1>1. /\ writing # None /\ CanCreate(a) /\ alerts' = Opened(a) /\ NoPending(WritingKey) /\ writing' = None
      /\ UNCHANGED <<rules, hosts, sample, now, since, work, checked>>
  BY Zenon DEF CreateAlert
<1>2. WritingKey \in Keys
  BY <1>1, KeyOfWriting, Zenon DEF SteadyInv
<1>3. pending' \in [Keys -> Changes \cup {None}] /\ \A k \in Keys : pending'[k] \in {None, pending[k]}
  BY <1>1, <1>2, Forgotten, Zenon
<1>4. \A b \in AlertIds : alerts'[b].state = "open" => NameTaken(alerts'[b].rule, Rules)
  BY <1>1, OpenedForRule, Zenon
<1> QED BY <1>1, <1>3, <1>4, StatementKeepsSteady, Zenon

LEMMA PendingKept ==
    ASSUME SteadyInv, UNCHANGED pending
    PROVE  pending' \in [Keys -> Changes \cup {None}] /\ \A k \in Keys : pending'[k] \in {None, pending[k]}
BY DEF SteadyInv, SteadyTypeOK

LEMMA AlertsKept ==
    ASSUME SteadyInv, UNCHANGED alerts
    PROVE  \A b \in AlertIds : alerts'[b].state = "open" => NameTaken(alerts'[b].rule, Rules)
BY Zenon DEF SteadyInv, OnlyWatched, IsOpen

LEMMA ByIdSteady ==
    ASSUME SteadyInv, AlertsInv', UpdateAlert \/ ResolveAlert
    PROVE  SteadyInv'
<1>1. /\ writing # None /\ writing.does \in {"update", "resolve"} /\ writing' = None
      /\ alerts' = Updated \/ alerts' = Resolved
      /\ UNCHANGED pending \/ NoPending(WritingKey)
      /\ UNCHANGED <<rules, hosts, sample, now, since, work, checked>>
  BY Zenon DEF UpdateAlert, ResolveAlert
<1>2. WritingKey \in Keys
  BY <1>1, KeyOfWriting, Zenon DEF SteadyInv
<1>3. pending' \in [Keys -> Changes \cup {None}] /\ \A k \in Keys : pending'[k] \in {None, pending[k]}
  BY <1>1, <1>2, Forgotten, PendingKept, Zenon
<1>4. \A a \in AlertIds : Settles(alerts[a], alerts'[a])
  BY <1>1, WrittenRow, Zenon DEF SteadyInv
<1>5. \A b \in AlertIds : alerts'[b].state = "open" => NameTaken(alerts'[b].rule, Rules)
  BY <1>4, WrittenForRule, Zenon
<1> QED BY <1>1, <1>3, <1>5, StatementKeepsSteady, Zenon

LEMMA WriteFailsSteady ==
    ASSUME SteadyInv, AlertsInv', WriteFails
    PROVE  SteadyInv'
<1>1. writing # None /\ writing' = None /\ UNCHANGED <<rules, hosts, sample, now, since, work, checked, pending>>
  BY Zenon DEF WriteFails
<1>2. pending' \in [Keys -> Changes \cup {None}] /\ \A k \in Keys : pending'[k] \in {None, pending[k]}
  BY <1>1, PendingKept, Zenon
<1>3. \A b \in AlertIds : alerts'[b].state = "open" => NameTaken(alerts'[b].rule, Rules)
  <2>1. CASE UNCHANGED alerts
    BY <2>1, AlertsKept, Zenon
  <2>2. ASSUME NEW a \in AlertIds, CanCreate(a), alerts' = Opened(a)
        PROVE  \A b \in AlertIds : alerts'[b].state = "open" => NameTaken(alerts'[b].rule, Rules)
    BY <1>1, <2>2, OpenedForRule, Zenon
  <2>3. ASSUME writing.does \in {"update", "resolve"}, alerts' = Updated \/ alerts' = Resolved
        PROVE  \A b \in AlertIds : alerts'[b].state = "open" => NameTaken(alerts'[b].rule, Rules)
    <3>1. \A a \in AlertIds : Settles(alerts[a], alerts'[a])
      BY <1>1, <2>3, WrittenRow, Zenon DEF SteadyInv
    <3> QED BY <3>1, WrittenForRule, Zenon
  <2> QED BY <2>1, <2>2, <2>3, Zenon DEF WriteFails
<1> QED BY <1>1, <1>2, <1>3, StatementKeepsSteady, Zenon

LEMMA PurgeSteady ==
    ASSUME SteadyInv, AlertsInv', NEW a \in AlertIds, PurgeResolvedAlerts(a)
    PROVE  SteadyInv'
<1>1. /\ UNCHANGED <<rules, hosts, sample, now, since, work, checked, pending, writing>>
      /\ alerts' = [alerts EXCEPT ![a] = [NoAlert EXCEPT !.state = "deleted"]]
  BY Zenon DEF PurgeResolvedAlerts, evaluatorVars
<1>2. pending' \in [Keys -> Changes \cup {None}] /\ \A k \in Keys : pending'[k] \in {None, pending[k]}
  BY <1>1, PendingKept, Zenon
<1>3. alerts'[a].state # "open" /\ \A b \in AlertIds : b # a => alerts'[b] = alerts[b]
  <2>1. alerts \in [AlertIds -> AlertRows]
    BY DEF SteadyInv, AlertsInv, RowsTypeOK
  <2>2. alerts'[a] = [NoAlert EXCEPT !.state = "deleted"] /\ \A b \in AlertIds : b # a => alerts'[b] = alerts[b]
    BY <1>1, <2>1, Zenon
  <2> QED BY <2>2, DeletedRow
<1>4. \A b \in AlertIds : alerts'[b].state = "open" => NameTaken(alerts'[b].rule, Rules)
  BY <1>3, Zenon DEF SteadyInv, OnlyWatched, IsOpen
<1> QED BY <1>1, <1>2, <1>4, StatementKeepsSteady, Zenon

LEMMA CreateRefusedSteady ==
    ASSUME SteadyInv, AlertsInv', NEW a \in AlertIds, CreateRefused(a)
    PROVE  SteadyInv'
<1>1. writing' = None /\ UNCHANGED <<rules, hosts, sample, now, since, work, checked, pending, alerts>>
  BY Zenon DEF CreateRefused, storeVars
<1> QED BY <1>1, PendingKept, AlertsKept, StatementKeepsSteady, Zenon

LEMMA EvaluatorSteady ==
    ASSUME SteadyInv, AlertsInv', EvaluatorNext
    PROVE  SteadyInv'
<1>1. ASSUME NEW c \in Configs, NEW h \in Hosts, NothingNew(c, h)
      PROVE  SteadyInv'
  <2>1. UNCHANGED <<rules, hosts, sample, now, since, checked, pending, alerts, writing>> /\ work' = work \ {<<c, h>>}
    BY <1>1, Zenon DEF NothingNew, Take, storeVars
  <2>2. work' \subseteq work
    BY <2>1
  <2> QED BY <2>1, <2>2, RestKeepsSteady, Zenon
<1> QED BY <1>1, RoundBeginsSteady, CheckSteady, CreateAlertSteady, CreateRefusedSteady, ByIdSteady, Zenon
        DEF EvaluatorNext

\* Every step of a steady behaviour is one of Alerts.
LEMMA SteadyIsNext ==
    ASSUME CalmNext \/ DisturbedNext
    PROVE  Next
<1>1. CreatedOn => RuleNext
  BY Zenon DEF CreatedOn, RuleNext
<1>2. EditStaysOn => RuleNext
  BY Zenon DEF EditStaysOn, RuleNext
<1>3. SlowSample => SampleNext
  BY Zenon DEF SlowSample, SampleNext
<1> QED BY <1>1, <1>2, <1>3, Zenon DEF CalmNext, DisturbedNext, Next, HostNext, FaultNext

LEMMA SteadyStep ==
    ASSUME SteadyInv, CalmNext \/ DisturbedNext
    PROVE  SteadyInv'
<1>1. AlertsInv'
  BY SteadyIsNext, AlertsStep, Zenon DEF SteadyInv
<1>2. CreatedOn => SteadyInv'
  BY <1>1, CreateSteady, Zenon DEF CreatedOn
<1>3. EditStaysOn => SteadyInv'
  BY <1>1, EditSteady, Zenon DEF EditStaysOn
<1>4. SlowSample => SteadyInv'
  BY <1>1, SampleSteady, Zenon DEF SlowSample
<1>5. NoticeQueued => SteadyInv'
  <2> SUFFICES ASSUME NoticeQueued PROVE SteadyInv'
    BY Zenon
  <2>1. UNCHANGED <<rules, hosts, sample, now, since, checked, pending, alerts, writing>> /\ work' = work
    BY Zenon DEF NoticeQueued, storeVars
  <2>2. work' \subseteq work
    BY <2>1, Zenon
  <2> QED BY <1>1, <2>1, <2>2, RestKeepsSteady, Zenon
<1>6. \A a \in AlertIds : PurgeResolvedAlerts(a) => SteadyInv'
  BY <1>1, PurgeSteady, Zenon
<1> QED BY <1>1, <1>2, <1>3, <1>4, <1>5, <1>6, TickSteady, EvaluatorSteady, WriteFailsSteady, RestartSteady, Zenon
        DEF CalmNext, DisturbedNext

-----------------------------------------------------------------------------
(* When alerts open and resolve: while nothing fails *)

\* The alerts open for a key.
OpenAt(k) == {a \in AlertIds : IsOpen(a) /\ <<alerts[a].host, alerts[a].rule, alerts[a].metric>> = k}

LEMMA OpenAlertAt ==
    ASSUME NEW c, NEW h, NEW k, k = Key(c, h)
    PROVE  OpenAlert(c, h) = OpenAt(k) /\ OpenAlert(c, h)' = OpenAt(k)'
<1>1. PICK x : x = [host |-> h, rule |-> c.name, metric |-> c.metric]
  BY Zenon
<1>2. x.host = h /\ x.rule = c.name /\ x.metric = c.metric
  BY <1>1, Zenon
<1>3. \A row : SameTarget(row, x) <=> <<row.host, row.rule, row.metric>> = k
  BY <1>2 DEF SameTarget, Key
<1>4. OpenAlert(c, h) = OpenAt(k)
  BY <1>1, <1>3, Zenon DEF OpenAlert, OpenAt
<1>5. OpenAlert(c, h)' = OpenAt(k)'
  BY <1>1, <1>3, Zenon DEF OpenAlert, OpenAt, SameTarget
<1> QED BY <1>4, <1>5

\* A rule's key stays as it is when nothing it is about changes.
LEMMA QuietStays ==
    ASSUME NEW c, NEW h, NEW k, k = Key(c, h),
           sample'[Source(k)] = sample[Source(k)], since'[Source(k)] = since[Source(k)],
           checked'[k] = checked[k], pending'[k] = pending[k],
           OpenAlert(c, h)' = OpenAlert(c, h),
           \A a \in OpenAlert(c, h) : alerts'[a].severity = alerts[a].severity,
           Quiet(k, c, h)
    PROVE  Quiet(k, c, h)'
<1>1. Breached(Source(k))' <=> Breached(Source(k))
  BY Zenon DEF Breached, Source
<1>2. HasOpen(c, h)' <=> HasOpen(c, h)
  BY Zenon DEF HasOpen
<1>3. Waits(k)' <=> Waits(k)
  BY <1>1, Zenon DEF Waits, Source
<1>4. Source(k)' = Source(k)
  BY Zenon DEF Source
<1> QED BY <1>1, <1>2, <1>3, <1>4, Zenon DEF Quiet

\* Rules with one name are one.
LEMMA OneRulePerKey ==
    ASSUME UniqueNames, NEW c, NEW d, AsTheyAre(c), AsTheyAre(d), NEW h, NEW g, Key(d, g) = Key(c, h)
    PROVE  d = c /\ g = h
<1>1. PICK q \in Rules : rules[q] # None /\ rules[q].config = c
  BY Zenon DEF AsTheyAre
<1>2. PICK r \in Rules : rules[r] # None /\ rules[r].config = d
  BY Zenon DEF AsTheyAre
<1>3. d.name = c.name /\ g = h
  BY DEF Key
<1> QED BY <1>1, <1>2, <1>3, Zenon DEF UniqueNames

\* A rule looks at a host.
Looks(c, h) == \E r \in Rules : rules[r] # None /\ rules[r].config = c /\ h \in ruleHosts(c)

LEMMA LooksAtKey ==
    ASSUME SteadyInv, NEW c, NEW h, Looks(c, h)
    PROVE  /\ c \in Configs /\ h \in Hosts /\ AsTheyAre(c) /\ Watched(Key(c, h))
           /\ Key(c, h) \in Keys /\ Source(Key(c, h)) = <<h, c.metric>> /\ <<h, c.metric>> \in Hosts \X Metrics
<1>1. PICK r \in Rules : rules[r] # None /\ rules[r].config = c /\ h \in ruleHosts(c)
  BY Zenon DEF Looks
<1>2. c \in Configs /\ hosts = Hosts
  BY <1>1, RuleHas, Zenon
<1>3. h \in Hosts
  BY <1>1, <1>2, HostsOfRule
<1>4. Key(c, h) \in Keys /\ Key(c, h)[1] = h /\ Source(Key(c, h)) = <<h, c.metric>> /\ <<h, c.metric>> \in Hosts \X Metrics
  BY <1>2, <1>3, KeyOf, Zenon
<1> QED BY <1>1, <1>2, <1>3, <1>4, Zenon DEF AsTheyAre, Watched

LEMMA CalmByKeys ==
    ASSUME UNCHANGED <<rules, hosts>>, \A w \in work' : AsTheyAre(w[1]), writing' # None => AsTheyAre(writing'.config),
           \A c, h : Looks(c, h) => Mirrors(c, h)'
    PROVE  CalmInv'
<1>1. \A c : AsTheyAre(c)' <=> AsTheyAre(c)
  BY Zenon DEF AsTheyAre
<1>2. \A w \in work' : AsTheyAre(w[1])'
  BY <1>1, Zenon
<1>3. writing' # None => AsTheyAre(writing.config)'
  BY <1>1, Zenon DEF AsTheyAre
<1>4. \A r \in Rules : rules'[r] # None => \A h \in ruleHosts(rules[r].config)' : Mirrors(rules[r].config, h)'
  <2>1. \A r \in Rules : ruleHosts(rules[r].config)' = ruleHosts(rules[r].config)
    BY Zenon DEF ruleHosts
  <2> SUFFICES ASSUME NEW r \in Rules, rules'[r] # None, NEW h \in ruleHosts(rules[r].config)
               PROVE  Mirrors(rules[r].config, h)'
    BY <2>1, Zenon
  <2>2. PICK c : c = rules[r].config
    BY Zenon
  <2>3. Looks(c, h)
    BY <2>2, Zenon DEF Looks
  <2>4. Mirrors(c, h)'
    BY <2>3, Zenon
  <2>5. c = rules[r].config'
    BY <2>2, Zenon
  <2> QED BY <2>4, <2>5, Zenon
<1> QED BY <1>2, <1>3, <1>4, Zenon DEF CalmInv

LEMMA MirrorsOf ==
    ASSUME CalmInv, NEW c, NEW h, Looks(c, h)
    PROVE  Mirrors(c, h)
BY Zenon DEF CalmInv, Looks

\* Without a statement about it, a key stays as it is when nothing it is about changes.
LEMMA MirrorsStays ==
    ASSUME NEW c, NEW h, NEW k, k = Key(c, h),
           sample'[Source(k)] = sample[Source(k)], since'[Source(k)] = since[Source(k)],
           checked'[k] = checked[k], pending'[k] = pending[k],
           OpenAlert(c, h)' = OpenAlert(c, h),
           \A a \in OpenAlert(c, h) : alerts'[a].severity = alerts[a].severity,
           writing # None => WritingKey # k, writing' # None => WritingKey' # k,
           Mirrors(c, h)
    PROVE  Mirrors(c, h)'
<1>1. Key(c, h)' = k
  BY Zenon DEF Key
<1>2. Quiet(k, c, h)
  BY Zenon DEF Mirrors
<1>3. Quiet(k, c, h)'
  BY <1>2, QuietStays, Zenon
<1> QED BY <1>1, <1>3, Zenon DEF Mirrors

LEMMA SameOpenAlert ==
    ASSUME UNCHANGED alerts, NEW c, NEW h
    PROVE  OpenAlert(c, h)' = OpenAlert(c, h) /\ \A a \in OpenAlert(c, h) : alerts'[a].severity = alerts[a].severity
BY Zenon DEF OpenAlert, IsOpen, SameTarget

\* A step that leaves rules, samples, alerts and the evaluator's maps alone.
LEMMA RestKeepsCalm ==
    ASSUME CalmInv, UNCHANGED <<rules, hosts, sample, since, checked, pending, alerts, writing>>,
           \A w \in work' : AsTheyAre(w[1])
    PROVE  CalmInv'
<1>1. ASSUME NEW c, NEW h, Looks(c, h)
      PROVE  Mirrors(c, h)'
  <2>1. Mirrors(c, h) /\ OpenAlert(c, h)' = OpenAlert(c, h) /\ \A a \in OpenAlert(c, h) : alerts'[a].severity = alerts[a].severity
    BY <1>1, MirrorsOf, SameOpenAlert, Zenon
  <2>2. PICK k : k = Key(c, h)
    BY Zenon
  <2>3. WritingKey' = WritingKey /\ Key(c, h)' = k
    BY <2>2, Zenon DEF Key, WritingKey
  <2>4. CASE writing # None /\ WritingKey = k
    <3>1. AtWork(c, h)
      BY <2>1, <2>2, <2>4, Zenon DEF Mirrors
    <3>2. AtWork(c, h)'
      BY <2>1, <2>2, <2>3, <3>1, Zenon DEF AtWork, HasOpen
    <3> QED BY <2>3, <2>4, <3>2, Zenon DEF Mirrors
  <2>5. CASE writing = None \/ WritingKey # k
    BY <2>1, <2>2, <2>3, <2>5, MirrorsStays, Zenon
  <2> QED BY <2>4, <2>5
<1>2. writing' # None => AsTheyAre(writing'.config)
  BY Zenon DEF CalmInv
<1> QED BY <1>1, <1>2, CalmByKeys, Zenon

LEMMA RoundBeginsCalm ==
    ASSUME CalmInv, RoundBegins
    PROVE  CalmInv'
<1>1. /\ UNCHANGED <<rules, hosts, sample, since, checked, pending, alerts, writing>>
      /\ work' = UNION {{rules[r].config} \X ruleHosts(rules[r].config) :
                           r \in {q \in Rules : rules[q] # None /\ rules[q].enabled}}
  BY Zenon DEF RoundBegins, storeVars
<1>2. \A w \in work' : \E r \in Rules : rules[r] # None /\ rules[r].config = w[1]
  BY <1>1
<1> QED BY <1>1, <1>2, RestKeepsCalm, Zenon DEF AsTheyAre

\* Before the first tick there are no samples, nothing is pending and nothing open.
LEMMA CreateCalm ==
    ASSUME SteadyInv, CalmInv, now = 0, NEW r \in Rules, NEW d \in Configs, CreateRule(r, d, TRUE)
    PROVE  CalmInv'
<1>1. PICK new : new = [config |-> d, enabled |-> TRUE]
  BY Zenon
<1>2. new # None /\ new.config = d
  BY <1>1, RuleRow, Zenon
<1>3. /\ UNCHANGED <<hosts, sample, since, checked, pending, alerts, writing, work>>
      /\ rules' = [rules EXCEPT ![r] = new] /\ rules[r] = None
      /\ \A q \in Rules : rules[q] # None => rules[q].config.name # d.name
  BY <1>1, Zenon DEF CreateRule, evaluatorVars, NameTaken
<1>4. rules \in [Rules -> [config : Configs, enabled : {TRUE}] \cup {None}] /\ hosts = Hosts
  BY Zenon DEF SteadyInv, SteadyTypeOK
<1>5. rules'[r] = new /\ \A q \in Rules : q # r => rules'[q] = rules[q]
  BY <1>3, <1>4, Zenon
<1>6. \A s \in Hosts \X Metrics : sample[s] = None
  <2>1. \A s \in Hosts \X Metrics : sample[s] # None => sample[s].at \in Nat
    BY DEF SteadyInv, SteadyTypeOK, Samples
  <2> QED BY <2>1 DEF SteadyInv, SamplesOK
<1>7. writing = None
  <2> SUFFICES ASSUME writing # None PROVE FALSE
    BY Zenon
  <2>1. WritingKey \in Keys
    BY KeyOfWriting, Zenon DEF SteadyInv
  <2>2. Source(WritingKey) \in Hosts \X Metrics
    BY <2>1, SourceOf, Zenon
  <2> QED BY <1>6, <2>2, Zenon DEF SteadyInv, StatementOK
<1>8. \A w \in work' : AsTheyAre(w[1])'
  <2>1. \A c : AsTheyAre(c) => AsTheyAre(c)'
    BY <1>3, <1>5, Zenon DEF AsTheyAre
  <2> QED BY <1>3, <2>1, Zenon DEF CalmInv
<1>9. ASSUME NEW q \in Rules, rules'[q] # None, NEW h \in ruleHosts(rules[q].config)'
      PROVE  Mirrors(rules[q].config, h)'
  <2>1. PICK c : c = rules'[q].config
    BY Zenon
  <2>2. c \in Configs
    <3>1. q # r => rules[q].config \in Configs
      BY <1>5, <1>9, RuleHas, Zenon
    <3> QED BY <1>2, <1>5, <2>1, <3>1, Zenon
  <2>3. h \in Hosts /\ h \in ruleHosts(c)
    <3>1. h \in ruleHosts(c)
      BY <1>3, <1>9, <2>1, Zenon DEF ruleHosts
    <3> QED BY <1>4, <2>2, <3>1, HostsOfRule
  <2>4. PICK k : k = Key(c, h)
    BY Zenon
  <2>5. k \in Keys /\ Source(k) \in Hosts \X Metrics /\ k[2] = c.name
    BY <2>2, <2>3, <2>4, KeyOf, Zenon
  <2>6. ~HasOpen(c, h) /\ pending[k] = None
    <3>1. CASE q # r
      <4>1. Looks(c, h)
        BY <1>5, <1>9, <2>1, <2>3, <3>1, Zenon DEF Looks
      <4>2. Quiet(k, c, h)
        BY <1>7, <2>4, <4>1, MirrorsOf, Zenon DEF Mirrors
      <4> QED BY <1>6, <2>5, <4>2, Zenon DEF Quiet
    <3>2. CASE q = r
      <4>1. c = d
        BY <1>2, <1>5, <2>1, <3>2, Zenon
      <4>2. ~Watched(k)
        <5> SUFFICES ASSUME NEW p \in Rules, rules[p] # None, k = Key(rules[p].config, k[1]) PROVE FALSE
          BY Zenon DEF Watched
        <5>1. k[2] = rules[p].config.name
          BY DEF Key
        <5> QED BY <1>3, <2>5, <4>1, <5>1, Zenon
      <4>3. pending[k] = None
        BY <2>5, <4>2, Zenon DEF SteadyInv, OnlyWatched
      <4>4. \A a \in AlertIds : IsOpen(a) => alerts[a].rule # c.name
        BY <1>3, <4>1, Zenon DEF SteadyInv, OnlyWatched, NameTaken
      <4>5. OpenAlert(c, h) = {}
        <5>1. \A a \in OpenAt(k) : a \in AlertIds /\ IsOpen(a) /\ alerts[a].rule = c.name
          BY <2>4 DEF OpenAt, Key
        <5>2. OpenAlert(c, h) = OpenAt(k)
          BY <2>4, OpenAlertAt, Zenon
        <5> QED BY <4>4, <5>1, <5>2
      <4> QED BY <4>3, <4>5, Zenon DEF HasOpen
    <3> QED BY <3>1, <3>2
  <2>7. Mirrors(c, h)'
    <3>1. OpenAlert(c, h)' = OpenAlert(c, h)
      BY <1>3, SameOpenAlert, Zenon
    <3>2. sample'[Source(k)'] = None /\ ~HasOpen(c, h)' /\ pending'[k] = None
      BY <1>3, <1>6, <2>5, <2>6, <3>1, Zenon DEF HasOpen, Source
    <3>3. Quiet(k, c, h)'
      BY <3>2, Zenon DEF Quiet
    <3>4. Key(c, h)' = k
      BY <2>4, Zenon DEF Key
    <3> QED BY <1>3, <1>7, <3>3, <3>4, Zenon DEF Mirrors
  <2> QED BY <2>1, <2>7, Zenon
<1> QED BY <1>3, <1>7, <1>8, <1>9, Zenon DEF CalmInv

LEMMA SampleCalm ==
    ASSUME SteadyInv, CalmInv, NEW h \in Hosts, NEW m \in Metrics, NEW value \in Values,
           Idle, EveryRuleSaw(h, m), SaveSample(h, m, value)
    PROVE  CalmInv'
<1>1. PICK t : t = <<h, m>>
  BY Zenon
<1>2. t \in Hosts \X Metrics
  BY <1>1
<1>3. /\ UNCHANGED <<rules, hosts, checked, pending, alerts, writing, work, now>>
      /\ now \in Nat /\ now > 0 /\ (sample[t] # None => sample[t].at < now)
      /\ \A s \in Hosts \X Metrics : s # t => sample'[s] = sample[s] /\ since'[s] = since[s]
      /\ sample'[t] # None /\ sample'[t].at = now
      /\ \/ sample[t] = None /\ since'[t] = now
         \/ sample[t] # None /\ since'[t] = now /\ (Breached(t)' <=> ~Breached(t))
         \/ sample[t] # None /\ since'[t] = since[t] /\ (Breached(t)' <=> Breached(t))
  BY <1>1, SampleDoes, Zenon
<1>4. work = {} /\ writing = None
  BY Zenon DEF Idle
<1>5. ASSUME NEW c, NEW g, Looks(c, g)
      PROVE  Mirrors(c, g)'
  <2>1. /\ c \in Configs /\ Key(c, g) \in Keys /\ Source(Key(c, g)) = <<g, c.metric>>
        /\ <<g, c.metric>> \in Hosts \X Metrics
    BY <1>5, LooksAtKey, Zenon
  <2>2. PICK k : k = Key(c, g)
    BY Zenon
  <2>3. /\ Mirrors(c, g) /\ OpenAlert(c, g)' = OpenAlert(c, g)
        /\ \A a \in OpenAlert(c, g) : alerts'[a].severity = alerts[a].severity
    BY <1>3, <1>5, MirrorsOf, SameOpenAlert, Zenon
  <2>4. CASE Source(k) # t
    <3>1. sample'[Source(k)] = sample[Source(k)] /\ since'[Source(k)] = since[Source(k)]
      BY <1>3, <2>1, <2>2, <2>4, Zenon
    <3> QED BY <1>3, <1>4, <2>2, <2>3, <3>1, MirrorsStays, Zenon
  <2>5. CASE Source(k) = t
    <3>1. Quiet(k, c, g) /\ Key(c, g)' = k /\ Source(k)' = t
      BY <1>4, <2>2, <2>3, <2>5, Zenon DEF Mirrors, Key, Source
    <3>2. sample[t] # None => checked[k] = sample[t].at
      <4>1. g = h /\ c.metric = m
        BY <1>1, <2>1, <2>2, <2>5
      <4>2. PICK r \in Rules : rules[r] # None /\ rules[r].config = c /\ g \in ruleHosts(c)
        BY <1>5, Zenon DEF Looks
      <4>3. rules[r].enabled
        BY <4>2, RuleHas, Zenon
      <4> QED BY <1>1, <2>2, <4>1, <4>2, <4>3, Zenon DEF EveryRuleSaw
    <3>3. k \in Keys /\ checked[k] \in Nat /\ since[t] \in Nat /\ (sample[t] # None => sample[t].at \in Nat)
      BY <1>2, <2>1, <2>2 DEF SteadyInv, SteadyTypeOK, Samples
    <3>4. checked[k] # now
      <4>1. sample[t] = None => checked[k] = 0
        BY <2>5, <3>3, Zenon DEF SteadyInv, PendingOK
      <4> QED BY <1>3, <3>2, <3>3, <4>1
    <3>5. HasOpen(c, g)' <=> HasOpen(c, g)
      BY <2>3, Zenon DEF HasOpen
    <3>6. CASE sample[t] = None
      <4>1. pending[k] = None
        BY <2>5, <3>1, <3>6, Zenon DEF Quiet
      <4>2. since'[t] = now /\ ~(now < now)
        BY <1>3, <3>6
      <4>3. Quiet(k, c, g)'
        BY <1>3, <3>1, <3>4, <4>1, <4>2, Zenon DEF Quiet
      <4> QED BY <1>3, <1>4, <3>1, <4>3, Zenon DEF Mirrors
    <3>7. CASE sample[t] # None /\ since'[t] = now /\ (Breached(t)' <=> ~Breached(t))
      <4>1. pending[k] # None => (pending[k].status # Normal <=> Breached(t))
        BY <2>5, <3>1, <3>2, <3>7, Zenon DEF Quiet, Waits
      <4>2. ~(now < now)
        BY <1>3
      <4>3. Quiet(k, c, g)'
        BY <1>3, <3>1, <3>4, <3>7, <4>1, <4>2, Zenon DEF Quiet
      <4> QED BY <1>3, <1>4, <3>1, <4>3, Zenon DEF Mirrors
    <3>8. CASE sample[t] # None /\ since'[t] = since[t] /\ (Breached(t)' <=> Breached(t))
      <4>1. IF Breached(t) <=> HasOpen(c, g) THEN pending[k] = None ELSE Waits(k)
        BY <2>5, <3>1, <3>2, <3>8, Zenon DEF Quiet
      <4>2. Waits(k)' <=> Waits(k)
        BY <1>3, <2>5, <3>1, <3>8, Zenon DEF Waits
      <4>3. since'[t] # now
        <5>1. since[t] <= sample[t].at
          BY <1>2, <3>8, Zenon DEF SteadyInv, SamplesOK
        <5> QED BY <1>3, <3>3, <3>8, <5>1
      <4>4. Quiet(k, c, g)'
        BY <1>3, <3>1, <3>4, <3>5, <3>8, <4>1, <4>2, <4>3, Zenon DEF Quiet
      <4> QED BY <1>3, <1>4, <3>1, <4>4, Zenon DEF Mirrors
    <3> QED BY <1>3, <3>6, <3>7, <3>8, Zenon
  <2> QED BY <2>4, <2>5
<1>6. \A w \in work' : AsTheyAre(w[1])
  BY <1>3, Zenon DEF CalmInv
<1> QED BY <1>3, <1>4, <1>5, <1>6, CalmByKeys, Zenon

LEMMA CheckCalm ==
    ASSUME SteadyInv, CalmInv, NEW c \in Configs, NEW h \in Hosts, Check(c, h)
    PROVE  CalmInv'
<1>1. PICK k, t, s : k = Key(c, h) /\ t = <<h, c.metric>> /\ s = sample[t]
  BY Zenon
<1>2. /\ UNCHANGED <<rules, hosts, sample, since, alerts, now>>
      /\ writing = None /\ <<c, h>> \in work /\ work' = work \ {<<c, h>>}
      /\ s # None /\ checked[k] < s.at /\ checked' = [checked EXCEPT ![k] = s.at]
      /\ \E x : pending' = [pending EXCEPT ![k] = x] /\ Decides(c, h, x, writing')
  BY <1>1, CheckDoes, Zenon
<1>3. PICK x : pending' = [pending EXCEPT ![k] = x] /\ Decides(c, h, x, writing')
  BY <1>2, Zenon
<1>4. /\ Source(k) = t /\ Source(k)' = t /\ t \in Hosts \X Metrics /\ k \in Keys
      /\ pending \in [Keys -> Changes \cup {None}] /\ checked \in [Keys -> Nat]
  <2>1. Source(k) = t /\ t \in Hosts \X Metrics /\ k \in Keys
    BY <1>1, KeyOf, Zenon
  <2>2. Source(k)' = Source(k)
    BY Zenon DEF Source
  <2> QED BY <2>1, <2>2, Zenon DEF SteadyInv, SteadyTypeOK
<1>5. s.at \in Nat /\ checked[k] \in Nat /\ since[t] \in Nat /\ since[t] <= s.at /\ c.trigger \in Nat
  <2>1. s \in Samples /\ since[t] <= s.at
    BY <1>1, <1>2, <1>4, Zenon DEF SteadyInv, SteadyTypeOK, SamplesOK
  <2> QED BY <1>4, <2>1, AlertsAssumption DEF SteadyInv, SteadyTypeOK, Samples
<1>6. /\ pending'[k] = x /\ checked'[k] = s.at
      /\ \A j \in Keys : j # k => pending'[j] = pending[j] /\ checked'[j] = checked[j]
  BY <1>2, <1>3, <1>4, Zenon
<1>7. writing' # None => /\ writing'.config = c /\ writing'.host = h
                         /\ writing'.does \in {"create", "update", "resolve"}
                         /\ writing'.does = "create" => ~HasOpen(c, h)
                         /\ writing'.does # "create" => writing'.alert \in OpenAlert(c, h)
                         /\ writing'.does = "update" => x = None
  <2>1. PICK w : w = writing'
    BY Zenon
  <2>2. Decides(c, h, x, w)
    BY <1>3, <2>1, Zenon
  <2>3. w # None => /\ w.config = c /\ w.host = h
                    /\ w.does \in {"create", "update", "resolve"}
                    /\ (w.does = "create" => ~HasOpen(c, h))
                    /\ (w.does # "create" => w.alert \in OpenAlert(c, h))
                    /\ (w.does = "update" => x = None)
    BY <1>1, <1>2, <2>2, DecidedStatement
  <2> QED BY <2>1, <2>3, Zenon
<1>8. AsTheyAre(c) /\ \A w \in work' : AsTheyAre(w[1])
  BY <1>2 DEF CalmInv
<1>9. writing' # None => WritingKey' = k /\ AsTheyAre(writing'.config)
  BY <1>1, <1>7, <1>8, Zenon DEF WritingKey, Key
<1>10. ASSUME NEW d, NEW g, Looks(d, g)
       PROVE  Mirrors(d, g)'
  <2>1. Key(d, g) \in Keys /\ Source(Key(d, g)) = <<g, d.metric>>
    BY <1>10, LooksAtKey, Zenon
  <2>2. /\ Mirrors(d, g) /\ OpenAlert(d, g)' = OpenAlert(d, g)
        /\ \A a \in OpenAlert(d, g) : alerts'[a].severity = alerts[a].severity
    BY <1>2, <1>10, MirrorsOf, SameOpenAlert, Zenon
  <2>3. CASE Key(d, g) # k
    <3>1. PICK j : j = Key(d, g)
      BY Zenon
    <3>2. checked'[j] = checked[j] /\ pending'[j] = pending[j]
      BY <1>6, <2>1, <2>3, <3>1, Zenon
    <3> QED BY <1>2, <1>9, <2>2, <2>3, <3>1, <3>2, MirrorsStays, Zenon
  <2>4. CASE Key(d, g) = k
    <3>1. d = c /\ g = h
      <4>1. AsTheyAre(d)
        BY <1>10, Zenon DEF Looks, AsTheyAre
      <4>2. UniqueNames
        BY DEF SteadyInv
      <4> QED BY <1>1, <1>8, <2>4, <4>1, <4>2, OneRulePerKey, Zenon
    <3>2. Quiet(k, c, h) /\ Key(c, h)' = k
      BY <1>1, <1>2, <2>2, <3>1, Zenon DEF Mirrors, Key
    <3>3. (HasOpen(c, h)' <=> HasOpen(c, h)) /\ (Breached(t)' <=> Breached(t))
      BY <1>2, <2>2, <3>1, Zenon DEF HasOpen, Breached
    <3>4. CASE writing' # None
      <4>1. AtWork(c, h)'
        BY <1>6, <1>7, <2>2, <3>1, <3>2, <3>3, <3>4, Zenon DEF AtWork
      <4> QED BY <1>9, <3>1, <3>2, <3>4, <4>1, Zenon DEF Mirrors
    <3>5. CASE writing' = None
      <4>0. checked[k] # s.at
        BY <1>2, <1>5
      <4>1. Quiet(k, c, h)'
        <5>1. CASE NothingToDo(c, h, x, writing')
          <6>1. /\ Breached(t) <=> HasOpen(c, h)
                /\ x = None
                /\ Breached(t) => \E a \in OpenAlert(c, h) : alerts[a].severity = getAlertType(s.value)
            BY <1>1, <1>4, <5>1, Zenon DEF NothingToDo
          <6>2. Breached(t)' => \E a \in OpenAlert(c, h)' : alerts'[a].severity = getAlertType(s.value)
            BY <2>2, <3>1, <3>3, <6>1, Zenon
          <6> QED BY <1>1, <1>2, <1>4, <1>6, <3>3, <6>1, <6>2, Zenon DEF Quiet
        <5>2. CASE BeginsToWait(c, h, x, writing')
          <6>1. /\ Breached(t) <=> ~HasOpen(c, h)
                /\ ~(pending[k] # None /\ (pending[k].status # Normal <=> Breached(t)))
                /\ x \in Changes /\ x.since = s.at /\ (x.status # Normal <=> Breached(t))
            BY <1>1, <1>4, <5>2, Zenon DEF BeginsToWait, Waiting
          <6>2. ~(since[t] < s.at)
            BY <1>1, <1>2, <1>4, <3>2, <6>1, Zenon DEF Quiet, Waits
          <6>3. since[t] = s.at
            BY <1>5, <6>2
          <6>4. x # None
            BY <6>1, AlertsAssumption, Zenon
          <6>5. Waits(k)'
            BY <1>2, <1>4, <1>6, <3>3, <6>1, <6>3, <6>4, Zenon DEF Waits
          <6> QED BY <1>1, <1>2, <1>4, <1>6, <3>3, <6>1, <6>3, <6>5, Zenon DEF Quiet
        <5>3. CASE WaitsOn(c, h, x, writing')
          <6>1. /\ Breached(t) <=> ~HasOpen(c, h)
                /\ pending[k] # None /\ (pending[k].status # Normal <=> Breached(t))
                /\ x = pending[k] /\ ~(s.at - x.since >= c.trigger)
            BY <1>1, <1>4, <5>3, Zenon DEF WaitsOn, Waiting
          <6>2. since[t] # s.at
            BY <1>1, <1>2, <1>4, <3>2, <4>0, <6>1, Zenon DEF Quiet
          <6>3. since[t] < s.at
            BY <1>5, <6>2
          <6>4. Waits(k)
            BY <1>1, <1>2, <1>4, <3>2, <6>1, <6>3, Zenon DEF Quiet
          <6>5. Waits(k)'
            BY <1>2, <1>4, <1>6, <3>3, <6>1, <6>4, Zenon DEF Waits
          <6>6. s.at - since[t] < c.trigger
            <7>1. x.since = since[t]
              BY <1>4, <6>1, <6>4, Zenon DEF Waits
            <7> QED BY <1>5, <6>1, <7>1
          <6> QED BY <1>1, <1>2, <1>4, <1>6, <3>3, <6>1, <6>5, <6>6, Zenon DEF Quiet
        <5>4. ~NewLevel(c, h, x, writing') /\ ~HasLasted(c, h, x, writing')
          <6>1. s \in Samples
            BY <1>1, <1>2, <1>4, Zenon DEF SteadyInv, SteadyTypeOK
          <6>2. \A does \in {"create", "update", "resolve"}, a \in AlertIds \cup {None} :
                   writing' # Statement(does, c, h, s, a)
            BY <3>5, <6>1, StatementFields
          <6>3. \A a \in OpenAlert(c, h) : a \in AlertIds \cup {None}
            BY DEF OpenAlert
          <6>4. ~NewLevel(c, h, x, writing')
            BY <1>1, <1>4, <6>2, <6>3, Zenon DEF NewLevel
          <6>5. ~HasLasted(c, h, x, writing')
            BY <1>1, <1>4, <6>2, <6>3, Zenon DEF HasLasted
          <6> QED BY <6>4, <6>5
        <5> QED BY <1>3, <5>1, <5>2, <5>3, <5>4, Zenon DEF Decides
      <4> QED BY <3>1, <3>2, <3>5, <4>1, Zenon DEF Mirrors
    <3> QED BY <3>4, <3>5
  <2> QED BY <2>3, <2>4
<1> QED BY <1>2, <1>8, <1>9, <1>10, CalmByKeys, Zenon

\* A statement settles the key it is about, and no other.
LEMMA WrittenCalm ==
    ASSUME SteadyInv, CalmInv, writing # None, writing' = None,
           UNCHANGED <<rules, hosts, sample, since, checked, work>>,
           pending'[WritingKey] = None, \A j \in Keys : j # WritingKey => pending'[j] = pending[j],
           \A d, g : Key(d, g) # WritingKey =>
               /\ OpenAlert(d, g)' = OpenAlert(d, g)
               /\ \A a \in OpenAlert(d, g) : alerts'[a].severity = alerts[a].severity,
           \A c, h : c = writing.config /\ h = writing.host =>
               IF writing.does = "resolve" THEN OpenAlert(c, h)' = {}
               ELSE \E a \in OpenAlert(c, h)' : alerts'[a].severity = writing.level
    PROVE  CalmInv'
<1>1. ASSUME NEW d, NEW g, Looks(d, g)
      PROVE  Mirrors(d, g)'
  <2>1. Mirrors(d, g) /\ Key(d, g) \in Keys
    BY <1>1, MirrorsOf, LooksAtKey, Zenon
  <2>2. PICK k : k = Key(d, g)
    BY Zenon
  <2>3. CASE k # WritingKey
    BY <2>1, <2>2, <2>3, MirrorsStays, Zenon
  <2>4. CASE k = WritingKey
    <3>1. d = writing.config /\ g = writing.host
      <4>1. AsTheyAre(d)
        BY <1>1, Zenon DEF Looks, AsTheyAre
      <4>2. UniqueNames /\ AsTheyAre(writing.config) /\ Key(d, g) = Key(writing.config, writing.host)
        BY <2>2, <2>4, Zenon DEF SteadyInv, CalmInv, WritingKey
      <4> QED BY <4>1, <4>2, OneRulePerKey
    <3>2. PICK t : t = Source(k)
      BY Zenon
    <3>3. /\ sample[t] # None /\ checked[k] = sample[t].at
          /\ writing.level = getAlertType(sample[t].value)
          /\ Breached(t) <=> writing.does # "resolve"
      BY <2>4, <3>2, Zenon DEF SteadyInv, StatementOK
    <3>4. /\ Breached(t)' <=> HasOpen(d, g)'
          /\ Breached(t)' => \E a \in OpenAlert(d, g)' : alerts'[a].severity = getAlertType(sample[t].value)
      <4>1. Breached(t)' <=> Breached(t)
        BY Zenon DEF Breached
      <4>2. CASE writing.does = "resolve"
        BY <3>1, <3>3, <4>1, <4>2, Zenon DEF HasOpen
      <4>3. CASE writing.does # "resolve"
        <5>1. \E a \in OpenAlert(d, g)' : alerts'[a].severity = writing.level
          BY <3>1, <4>3, Zenon
        <5> QED BY <3>3, <4>1, <4>3, <5>1, Zenon DEF HasOpen
      <4> QED BY <4>2, <4>3
    <3>5. Source(k)' = t /\ pending'[k] = None /\ Key(d, g)' = k
      BY <2>2, <2>4, <3>2, Zenon DEF Source, Key
    <3>6. Quiet(k, d, g)'
      BY <3>3, <3>4, <3>5, Zenon DEF Quiet
    <3> QED BY <3>5, <3>6, Zenon DEF Mirrors
  <2> QED BY <2>3, <2>4
<1>2. \A w \in work' : AsTheyAre(w[1])
  BY Zenon DEF CalmInv
<1> QED BY <1>1, <1>2, CalmByKeys, Zenon

\* The statement in progress is about a key of a rule as it is.
LEMMA WritingAtWork ==
    ASSUME SteadyInv, CalmInv, writing # None
    PROVE  AtWork(writing.config, writing.host)
<1>1. PICK c, h : c = writing.config /\ h = writing.host
  BY Zenon
<1>2. c \in Configs /\ h \in Hosts /\ AsTheyAre(c)
  BY <1>1, KeyOfWriting, Zenon DEF SteadyInv, CalmInv
<1>3. PICK r \in Rules : /\ rules[r] # None /\ Key(c, h)[1] \in ruleHosts(rules[r].config)
                         /\ Key(c, h) = Key(rules[r].config, Key(c, h)[1])
  BY <1>1, Zenon DEF SteadyInv, OnlyWatched, Watched, WritingKey
<1>4. Key(c, h)[1] = h
  BY <1>2, KeyOf, Zenon
<1>5. rules[r].config = c
  <2>1. UniqueNames
    BY DEF SteadyInv
  <2>2. AsTheyAre(rules[r].config)
    BY <1>3, Zenon DEF AsTheyAre
  <2>3. Key(rules[r].config, h) = Key(c, h)
    BY <1>3, <1>4, Zenon
  <2> QED BY <1>2, <2>1, <2>2, <2>3, OneRulePerKey, Zenon
<1>6. Mirrors(c, h)
  BY <1>3, <1>4, <1>5, Zenon DEF CalmInv
<1>7. WritingKey = Key(c, h)
  BY <1>1, Zenon DEF WritingKey
<1> QED BY <1>1, <1>6, <1>7, Zenon DEF Mirrors

\* The target of an alert that OpenAlert found is the key.
LEMMA OpenAtKey ==
    ASSUME NEW c, NEW h, NEW a \in OpenAlert(c, h)
    PROVE  a \in AlertIds /\ alerts[a].state = "open" /\ <<alerts[a].host, alerts[a].rule, alerts[a].metric>> = Key(c, h)
<1>1. PICK k : k = Key(c, h)
  BY Zenon
<1>2. a \in OpenAt(k)
  BY <1>1, OpenAlertAt, Zenon
<1> QED BY <1>1, <1>2, Zenon DEF OpenAt, IsOpen

LEMMA CreateAlertCalm ==
    ASSUME SteadyInv, CalmInv, NEW a \in AlertIds, CreateAlert(a)
    PROVE  CalmInv'
<1>1. /\ writing # None /\ writing.does = "create" /\ CanCreate(a) /\ alerts' = Opened(a)
      /\ NoPending(WritingKey) /\ writing' = None
      /\ UNCHANGED <<rules, hosts, sample, since, work, checked>>
  BY Zenon DEF CreateAlert
<1>2. WritingKey \in Keys
  BY <1>1, KeyOfWriting, Zenon DEF SteadyInv
<1>3. pending'[WritingKey] = None /\ \A j \in Keys : j # WritingKey => pending'[j] = pending[j]
  BY <1>1, <1>2, Forgotten, Zenon
<1>4. alerts[a].state # "open" /\ \A b \in AlertIds \ {a} : alerts'[b] = alerts[b]
  BY <1>1, OpenedRow DEF CanCreate, SteadyInv
<1>5. /\ alerts'[a].state = "open" /\ alerts'[a].severity = writing.level
      /\ <<alerts'[a].host, alerts'[a].rule, alerts'[a].metric>> = WritingKey
  <2>1. alerts \in [AlertIds -> AlertRows]
    BY DEF SteadyInv, AlertsInv, RowsTypeOK
  <2>2. alerts'[a] = [state |-> "open", host |-> writing.host, rule |-> writing.config.name,
                      metric |-> writing.config.metric, severity |-> writing.level]
    BY <1>1, <2>1, Zenon DEF Opened
  <2> QED BY <2>2 DEF WritingKey, Key
<1>6. ASSUME NEW d, NEW g, Key(d, g) # WritingKey
      PROVE  /\ OpenAlert(d, g)' = OpenAlert(d, g)
             /\ \A b \in OpenAlert(d, g) : alerts'[b].severity = alerts[b].severity
  <2>1. PICK k : k = Key(d, g)
    BY Zenon
  <2>2. \A b \in AlertIds : (IsOpen(b)' /\ <<alerts'[b].host, alerts'[b].rule, alerts'[b].metric>> = k)
                            <=> (IsOpen(b) /\ <<alerts[b].host, alerts[b].rule, alerts[b].metric>> = k)
    BY <1>4, <1>5, <1>6, <2>1, Zenon DEF IsOpen
  <2>3. OpenAt(k)' = OpenAt(k)
    BY <2>2, Zenon DEF OpenAt
  <2>4. OpenAlert(d, g) = OpenAt(k) /\ OpenAlert(d, g)' = OpenAt(k)'
    BY <2>1, OpenAlertAt, Zenon
  <2>5. \A b \in OpenAlert(d, g) : b \in AlertIds /\ b # a
    BY <1>4, OpenAtKey, Zenon
  <2> QED BY <1>4, <2>3, <2>4, <2>5
<1>7. ASSUME NEW c, NEW h, c = writing.config, h = writing.host
      PROVE  \E b \in OpenAlert(c, h)' : alerts'[b].severity = writing.level
  <2>1. PICK k : k = Key(c, h)
    BY Zenon
  <2>2. k = WritingKey /\ OpenAlert(c, h)' = OpenAt(k)'
    BY <1>7, <2>1, OpenAlertAt, Zenon DEF WritingKey
  <2>3. a \in OpenAlert(c, h)'
    BY <1>5, <2>2, Zenon DEF OpenAt, IsOpen
  <2> QED BY <1>5, <2>3, Zenon
<1>8. writing.does # "resolve"
  BY <1>1
<1> QED BY <1>1, <1>3, <1>6, <1>7, <1>8, WrittenCalm, Zenon

\* While nothing fails the index refuses no row: a check found none open.
LEMMA NeverRefused ==
    ASSUME SteadyInv, CalmInv, NEW a \in AlertIds
    PROVE  ~CreateRefused(a)
<1> SUFFICES ASSUME CreateRefused(a) PROVE FALSE
  BY Zenon
<1>1. writing # None /\ writing.does = "create" /\ alerts[a].state = "none" /\ ~CanCreate(a)
  BY Zenon DEF CreateRefused
<1>2. PICK c, h, k : c = writing.config /\ h = writing.host /\ k = Key(c, h)
  BY Zenon
<1>3. h \in Hosts /\ hosts = Hosts /\ alerts \in [AlertIds -> AlertRows]
  BY <1>1, <1>2, KeyOfWriting, Zenon DEF SteadyInv, SteadyTypeOK, AlertsInv, RowsTypeOK
<1>4. OpenAt(k) = {}
  <2>1. ~HasOpen(c, h)
    BY <1>1, <1>2, WritingAtWork, Zenon DEF AtWork
  <2> QED BY <1>2, <2>1, OpenAlertAt, Zenon DEF HasOpen
<1>5. PICK new : new = [state |-> "open", host |-> h, rule |-> c.name, metric |-> c.metric, severity |-> writing.level]
  BY Zenon
<1>6. new.host = h /\ new.rule = c.name /\ new.metric = c.metric
  BY <1>5, Zenon
<1>7. Opened(a)[a] = new /\ \A b \in AlertIds : b # a => Opened(a)[b] = alerts[b]
  BY <1>2, <1>3, <1>5, Zenon DEF Opened
<1>8. \A b \in AlertIds : alerts[b].state = "open" => ~SameTarget(alerts[b], new) /\ ~SameTarget(new, alerts[b])
  <2>1. \A row : SameTarget(row, new) \/ SameTarget(new, row) => <<row.host, row.rule, row.metric>> = k
    BY <1>2, <1>6 DEF SameTarget, Key
  <2> QED BY <1>4, <2>1 DEF OpenAt, IsOpen
<1>9. OneOpenIn(Opened(a))
  <2> SUFFICES ASSUME NEW b \in AlertIds, NEW d \in AlertIds, Opened(a)[b].state = "open", Opened(a)[d].state = "open",
                      SameTarget(Opened(a)[b], Opened(a)[d]), b # d
               PROVE  FALSE
    BY Zenon DEF OneOpenIn
  <2>1. CASE b = a
    BY <1>7, <1>8, <2>1, Zenon
  <2>2. CASE d = a
    BY <1>7, <1>8, <2>2, Zenon
  <2>3. CASE b # a /\ d # a
    BY <1>7, <2>3, Zenon DEF SteadyInv, AlertsInv, OneOpenPerTarget, IsOpen
  <2> QED BY <2>1, <2>2, <2>3
<1> QED BY <1>1, <1>2, <1>3, <1>9, Zenon DEF CanCreate

LEMMA UpdateAlertCalm ==
    ASSUME SteadyInv, CalmInv, UpdateAlert
    PROVE  CalmInv'
<1>1. /\ writing # None /\ writing.does = "update" /\ alerts' = Updated /\ writing' = None
      /\ UNCHANGED <<rules, hosts, sample, since, work, checked, pending>>
  BY Zenon DEF UpdateAlert
<1>2. PICK c, h, k, b : c = writing.config /\ h = writing.host /\ k = Key(c, h) /\ b = writing.alert
  BY Zenon
<1>3. b \in OpenAlert(c, h) /\ pending[k] = None /\ k = WritingKey
  BY <1>1, <1>2, WritingAtWork, Zenon DEF AtWork, WritingKey
<1>4. /\ b \in AlertIds /\ alerts[b].state = "open"
      /\ <<alerts[b].host, alerts[b].rule, alerts[b].metric>> = k
  BY <1>2, <1>3, OpenAtKey, Zenon
<1>5. alerts \in [AlertIds -> AlertRows]
  BY DEF SteadyInv, AlertsInv, RowsTypeOK
<1>6. alerts' = [alerts EXCEPT ![b] = [alerts[b] EXCEPT !.severity = writing.level]]
  BY <1>1, <1>2, <1>4 DEF Updated
<1>7. /\ alerts'[b] = [alerts[b] EXCEPT !.severity = writing.level]
      /\ \A a \in AlertIds : a # b => alerts'[a] = alerts[a]
  BY <1>4, <1>5, <1>6, Zenon
<1>8. /\ alerts'[b].severity = writing.level /\ alerts'[b].state = alerts[b].state
      /\ alerts'[b].host = alerts[b].host /\ alerts'[b].rule = alerts[b].rule /\ alerts'[b].metric = alerts[b].metric
  <2>1. alerts[b] \in AlertRows
    BY <1>4, <1>5, Zenon
  <2> QED BY <1>7, <2>1 DEF AlertRows
<1>9. \A j : OpenAt(j)' = OpenAt(j)
  BY <1>7, <1>8, Zenon DEF OpenAt, IsOpen
<1>10. ASSUME NEW d, NEW g, Key(d, g) # WritingKey
       PROVE  /\ OpenAlert(d, g)' = OpenAlert(d, g)
              /\ \A a \in OpenAlert(d, g) : alerts'[a].severity = alerts[a].severity
  <2>1. PICK j : j = Key(d, g)
    BY Zenon
  <2>2. OpenAlert(d, g)' = OpenAlert(d, g)
    BY <1>9, <2>1, OpenAlertAt, Zenon
  <2>3. \A a \in OpenAlert(d, g) : a \in AlertIds /\ <<alerts[a].host, alerts[a].rule, alerts[a].metric>> = j
    BY <2>1, OpenAtKey, Zenon
  <2> QED BY <1>3, <1>4, <1>7, <1>10, <2>1, <2>2, <2>3, Zenon
<1>11. OpenAlert(c, h)' = OpenAlert(c, h)
  BY <1>2, <1>9, OpenAlertAt, Zenon
<1>12. writing.does # "resolve"
  BY <1>1
<1> QED BY <1>1, <1>2, <1>3, <1>8, <1>10, <1>11, <1>12, WrittenCalm, Zenon

LEMMA ResolveAlertCalm ==
    ASSUME SteadyInv, CalmInv, ResolveAlert
    PROVE  CalmInv'
<1>1. /\ writing # None /\ writing.does = "resolve" /\ alerts' = Resolved /\ writing' = None
      /\ NoPending(WritingKey) /\ UNCHANGED <<rules, hosts, sample, since, work, checked>>
  BY Zenon DEF ResolveAlert
<1>2. PICK c, h, k, b : c = writing.config /\ h = writing.host /\ k = Key(c, h) /\ b = writing.alert
  BY Zenon
<1>3. b \in OpenAlert(c, h) /\ k = WritingKey
  <2>1. writing.does # "create"
    BY <1>1
  <2> QED BY <1>1, <1>2, <2>1, WritingAtWork, Zenon DEF AtWork, WritingKey
<1>4. /\ b \in AlertIds /\ alerts[b].state = "open"
      /\ <<alerts[b].host, alerts[b].rule, alerts[b].metric>> = k
  BY <1>2, <1>3, OpenAtKey, Zenon
<1>5. alerts \in [AlertIds -> AlertRows]
  BY DEF SteadyInv, AlertsInv, RowsTypeOK
<1>6. alerts' = [alerts EXCEPT ![b] = [alerts[b] EXCEPT !.state = "resolved"]]
  BY <1>1, <1>2, <1>4 DEF Resolved
<1>7. alerts'[b].state # "open" /\ \A a \in AlertIds : a # b => alerts'[a] = alerts[a]
  <2>1. alerts[b] \in AlertRows
    BY <1>4, <1>5, Zenon
  <2>2. [alerts[b] EXCEPT !.state = "resolved"].state # "open"
    BY <2>1 DEF AlertRows
  <2> QED BY <1>4, <1>5, <1>6, <2>2, Zenon
<1>8. ASSUME NEW d, NEW g, Key(d, g) # WritingKey
      PROVE  /\ OpenAlert(d, g)' = OpenAlert(d, g)
             /\ \A a \in OpenAlert(d, g) : alerts'[a].severity = alerts[a].severity
  <2>1. PICK j : j = Key(d, g)
    BY Zenon
  <2>2. OpenAt(j)' = OpenAt(j)
    BY <1>3, <1>4, <1>7, <1>8, <2>1, Zenon DEF OpenAt, IsOpen
  <2>3. OpenAlert(d, g)' = OpenAlert(d, g)
    BY <2>1, <2>2, OpenAlertAt, Zenon
  <2>4. \A a \in OpenAlert(d, g) : a \in AlertIds /\ <<alerts[a].host, alerts[a].rule, alerts[a].metric>> = j
    BY <2>1, OpenAtKey, Zenon
  <2> QED BY <1>3, <1>4, <1>7, <1>8, <2>1, <2>3, <2>4, Zenon
<1>9. OpenAlert(c, h)' = {}
  <2>1. ASSUME NEW a \in AlertIds, alerts'[a].state = "open", <<alerts'[a].host, alerts'[a].rule, alerts'[a].metric>> = k
        PROVE  FALSE
    <3>1. a # b /\ alerts[a].state = "open" /\ <<alerts[a].host, alerts[a].rule, alerts[a].metric>> = k
      BY <1>7, <2>1, Zenon
    <3>2. SameTarget(alerts[a], alerts[b])
      BY <1>4, <3>1 DEF SameTarget
    <3> QED BY <1>4, <3>1, <3>2, Zenon DEF SteadyInv, AlertsInv, OneOpenPerTarget, IsOpen
  <2>2. OpenAt(k)' = {}
    BY <2>1, Zenon DEF OpenAt, IsOpen
  <2> QED BY <1>2, <2>2, OpenAlertAt, Zenon
<1>10. WritingKey \in Keys
  BY <1>1, KeyOfWriting, Zenon DEF SteadyInv
<1>11. pending'[WritingKey] = None /\ \A j \in Keys : j # WritingKey => pending'[j] = pending[j]
  BY <1>1, <1>10, Forgotten, Zenon
<1> QED BY <1>1, <1>2, <1>8, <1>9, <1>11, WrittenCalm, Zenon

LEMMA CalmStep ==
    ASSUME SteadyInv, CalmInv, CalmNext
    PROVE  CalmInv'
<1>1. ASSUME UNCHANGED <<rules, hosts, sample, since, checked, pending, alerts, writing>>, work' \subseteq work
      PROVE  CalmInv'
  <2>1. \A w \in work' : AsTheyAre(w[1])
    BY <1>1, Zenon DEF CalmInv
  <2> QED BY <1>1, <2>1, RestKeepsCalm, Zenon
<1>2. now = 0 /\ CreatedOn => CalmInv'
  BY CreateCalm, Zenon DEF CreatedOn
<1>3. SlowSample => CalmInv'
  BY SampleCalm, Zenon DEF SlowSample
<1>4. Tick => CalmInv'
  BY <1>1, Zenon DEF Tick, storeVars, evaluatorVars
<1>5. NoticeQueued => CalmInv'
  BY <1>1, Zenon DEF NoticeQueued, storeVars
<1>6. ASSUME NEW c \in Configs, NEW h \in Hosts, NothingNew(c, h)
      PROVE  CalmInv'
  <2>1. UNCHANGED <<rules, hosts, sample, since, checked, pending, alerts, writing>> /\ work' = work \ {<<c, h>>}
    BY <1>6, Zenon DEF NothingNew, Take, storeVars
  <2>2. work' \subseteq work
    BY <2>1
  <2> QED BY <1>1, <2>1, <2>2, Zenon
<1>7. EvaluatorNext => CalmInv'
  BY <1>6, RoundBeginsCalm, CheckCalm, CreateAlertCalm, NeverRefused, UpdateAlertCalm, ResolveAlertCalm, Zenon
     DEF EvaluatorNext
<1> QED BY <1>2, <1>3, <1>4, <1>5, <1>7, Zenon DEF CalmNext

LEMMA SteadyInvInitially ==
    ASSUME Init
    PROVE  SteadyInv /\ CalmInv
<1>1. AlertsInv
  BY AlertsInvInitially, Zenon
<1>2. /\ \A r \in Rules : rules[r] = None
      /\ \A s \in Hosts \X Metrics : sample[s] = None
      /\ \A k \in Keys : pending[k] = None /\ checked[k] = 0
      /\ work = {} /\ writing = None
  BY DEF Init, EvaluatorStarts
<1>3. SteadyTypeOK
  BY DEF Init, EvaluatorStarts, SteadyTypeOK
<1>4. \A a \in AlertIds : ~IsOpen(a)
  BY DeletedRow DEF Init, IsOpen
<1>5. SamplesOK /\ UniqueNames /\ PendingOK /\ StatementOK
  BY <1>2, Zenon DEF SamplesOK, UniqueNames, PendingOK, StatementOK
<1>6. OnlyWatched
  BY <1>2, <1>4 DEF OnlyWatched
<1>7. CalmInv
  BY <1>2 DEF CalmInv
<1> QED BY <1>1, <1>3, <1>5, <1>6, <1>7, Zenon DEF SteadyInv

LEMMA SteadyAlertsStep ==
    ASSUME SteadyAlertsInv, [SteadyNext]_<<vars, steady, calm>>
    PROVE  SteadyAlertsInv'
<1>1. CASE UNCHANGED <<vars, steady, calm>>
  <2>1. /\ UNCHANGED <<rules, hosts, sample, alerts, work, writing, pending, checked, now, since, told>>
        /\ UNCHANGED <<steady, calm>>
    BY <1>1, Zenon DEF vars, storeVars, evaluatorVars
  <2>2. work' \subseteq work
    BY <2>1, Zenon
  <2>3. AlertsInv => AlertsInv'
    BY <2>1, AlertsUntouched, Zenon
  <2>4. SteadyInv => SteadyInv'
    BY <2>1, <2>2, <2>3, RestKeepsSteady, Zenon DEF SteadyInv
  <2>5. CalmInv => CalmInv'
    <3>1. CalmInv => \A w \in work' : AsTheyAre(w[1])
      BY <2>1, Zenon DEF CalmInv
    <3> QED BY <2>1, <3>1, RestKeepsCalm, Zenon
  <2> QED BY <2>1, <2>4, <2>5, Zenon DEF SteadyAlertsInv
<1>2. CASE SteadyNext
  <2>1. steady' = steady
    BY <1>2, Zenon DEF SteadyNext
  <2>2. CASE steady /\ CalmNext /\ UNCHANGED calm
    BY <2>1, <2>2, SteadyStep, CalmStep, Zenon DEF SteadyAlertsInv
  <2>3. CASE steady /\ DisturbedNext /\ calm' = FALSE
    BY <2>1, <2>3, SteadyStep, Zenon DEF SteadyAlertsInv
  <2>4. CASE ~steady
    BY <2>1, <2>4, Zenon DEF SteadyAlertsInv
  <2> QED BY <1>2, <2>2, <2>3, <2>4, Zenon DEF SteadyNext
<1> QED BY <1>1, <1>2

\* check and updateOpen keep an alert in step with its samples.  Whatever rules there
\* are, and with any interleaving of samples, rounds and statements: once the newest
\* sample was checked, and it and those before it breached a threshold for the rule's
\* interval, an alert is open at its severity, and once they were normal for as long
\* none is.
THEOREM AlertsMirrorSamples == SteadySpec => []OpenWhileBreached
<1>1. SteadyInit => SteadyAlertsInv
  BY SteadyInvInitially, Zenon DEF SteadyInit, SteadyAlertsInv
<1>2. SteadyAlertsInv /\ [SteadyNext]_<<vars, steady, calm>> => SteadyAlertsInv'
  BY SteadyAlertsStep, Zenon
<1>3. SteadyAlertsInv => OpenWhileBreached
  <2> SUFFICES ASSUME SteadyAlertsInv, steady, calm, Idle, NEW r \in Rules, NEW h \in Hosts, rules[r] # None,
                      NEW c, c = rules[r].config, NEW t, t = <<h, c.metric>>, sample[t] # None,
                      checked[Key(c, h)] = sample[t].at, since[t] < sample[t].at, sample[t].at - since[t] >= c.trigger
               PROVE  IF Breached(t)
                      THEN \E a \in OpenAlert(c, h) : alerts[a].severity = getAlertType(sample[t].value)
                      ELSE OpenAlert(c, h) = {}
    BY Zenon DEF OpenWhileBreached
  <2>1. SteadyInv /\ CalmInv /\ writing = None
    BY Zenon DEF SteadyAlertsInv, Idle
  <2>2. c \in Configs
    BY <2>1, RuleHas, Zenon
  <2>3. PICK k : k = Key(c, h)
    BY Zenon
  <2>4. k \in Keys /\ k[1] = h /\ Source(k) = t /\ t \in Hosts \X Metrics
    BY <2>2, <2>3, KeyOf, Zenon
  <2>5. checked[k] # 0
    <3>1. 0 < sample[t].at
      BY <2>1, <2>4, Zenon DEF SteadyInv, SamplesOK
    <3> QED BY <2>3, <3>1
  <2>6. h \in ruleHosts(c)
    <3>1. PICK q \in Rules : rules[q] # None /\ k[1] \in ruleHosts(rules[q].config) /\ k = Key(rules[q].config, k[1])
      BY <2>1, <2>4, <2>5, Zenon DEF SteadyInv, OnlyWatched, Watched
    <3>2. AsTheyAre(c) /\ UniqueNames
      BY <2>1, Zenon DEF AsTheyAre, SteadyInv
    <3>3. rules[q].config = c
      <4>1. AsTheyAre(rules[q].config)
        BY <3>1, Zenon DEF AsTheyAre
      <4>2. Key(rules[q].config, k[1]) = Key(c, h)
        BY <2>3, <3>1, Zenon
      <4> QED BY <3>2, <4>1, <4>2, OneRulePerKey
    <3> QED BY <2>4, <3>1, <3>3, Zenon
  <2>7. Quiet(k, c, h)
    BY <2>1, <2>3, <2>6, Zenon DEF CalmInv, Mirrors
  <2>8. since[t] # sample[t].at /\ ~(sample[t].at - since[t] < c.trigger)
    <3>1. since[t] \in Nat /\ sample[t].at \in Nat /\ c.trigger \in Nat
      BY <2>1, <2>2, <2>4, AlertsAssumption DEF SteadyInv, SteadyTypeOK, Samples
    <3> QED BY <3>1
  <2>9. /\ Breached(t) <=> HasOpen(c, h)
        /\ Breached(t) => \E a \in OpenAlert(c, h) : alerts[a].severity = getAlertType(sample[t].value)
    BY <2>3, <2>4, <2>7, <2>8, Zenon DEF Quiet
  <2> QED BY <2>9, Zenon DEF HasOpen
<1> QED BY <1>1, <1>2, <1>3, PTL DEF SteadySpec

\* pending remembers when a change began: an alert opens only when the samples breached
\* a threshold, without a break, for the rule's interval.
THEOREM OpensOnlyAfterBreach == SteadySpec => OpensAfterBreach
<1>1. SteadyInit => SteadyAlertsInv
  BY SteadyInvInitially, Zenon DEF SteadyInit, SteadyAlertsInv
<1>2. SteadyAlertsInv /\ [SteadyNext]_<<vars, steady, calm>> => SteadyAlertsInv'
  BY SteadyAlertsStep, Zenon
<1>3. SteadyAlertsInv =>
        (steady => \A a \in AlertIds : CreateAlert(a) =>
            LET s == <<writing.host, writing.config.metric>>
            IN  Breached(s) /\ writing.at - since[s] >= writing.config.trigger)
  <2> SUFFICES ASSUME SteadyAlertsInv, steady, NEW a \in AlertIds, CreateAlert(a)
               PROVE  /\ Breached(<<writing.host, writing.config.metric>>)
                      /\ writing.at - since[<<writing.host, writing.config.metric>>] >= writing.config.trigger
    BY Zenon
  <2>1. SteadyInv /\ writing # None /\ writing.does = "create"
    BY Zenon DEF SteadyAlertsInv, CreateAlert
  <2>2. Source(WritingKey) = <<writing.host, writing.config.metric>>
    BY <2>1, KeyOfWriting, Zenon DEF SteadyInv
  <2>3. writing.does # "resolve" /\ writing.does # "update"
    BY <2>1
  <2> QED BY <2>1, <2>2, <2>3, Zenon DEF SteadyInv, StatementOK
<1> QED BY <1>1, <1>2, <1>3, PTL DEF SteadySpec, OpensAfterBreach

\* ... and it resolves only when they were back to normal for as long.
THEOREM ResolvesOnlyAfterCalm == SteadySpec => ResolvesAfterCalm
<1>1. SteadyInit => SteadyAlertsInv
  BY SteadyInvInitially, Zenon DEF SteadyInit, SteadyAlertsInv
<1>2. SteadyAlertsInv /\ [SteadyNext]_<<vars, steady, calm>> => SteadyAlertsInv'
  BY SteadyAlertsStep, Zenon
<1>3. SteadyAlertsInv =>
        (steady /\ ResolveAlert =>
            LET s == <<writing.host, writing.config.metric>>
            IN  ~Breached(s) /\ writing.at - since[s] >= writing.config.trigger)
  <2> SUFFICES ASSUME SteadyAlertsInv, steady, ResolveAlert
               PROVE  /\ ~Breached(<<writing.host, writing.config.metric>>)
                      /\ writing.at - since[<<writing.host, writing.config.metric>>] >= writing.config.trigger
    BY Zenon
  <2>1. SteadyInv /\ writing # None /\ writing.does = "resolve"
    BY Zenon DEF SteadyAlertsInv, ResolveAlert
  <2>2. Source(WritingKey) = <<writing.host, writing.config.metric>>
    BY <2>1, KeyOfWriting, Zenon DEF SteadyInv
  <2>3. writing.does # "update"
    BY <2>1
  <2> QED BY <2>1, <2>2, <2>3, Zenon DEF SteadyInv, StatementOK
<1> QED BY <1>1, <1>2, <1>3, PTL DEF SteadySpec, ResolvesAfterCalm

-----------------------------------------------------------------------------
(* The least element of a set of naturals *)

\* A set of naturals that is not empty has a least element.
LEMMA LeastNatural ==
    ASSUME NEW T, T \subseteq Nat, T # {}
    PROVE  \E x \in T : \A y \in T : x <= y
<1>1. PICK x \in T : \A y \in T : ~(<<y, x>> \in OpToRel(<, Nat))
  BY NatLessThanWellFounded, WFMin, Zenon
<1>2. \A y \in T : ~(y < x)
  <2> SUFFICES ASSUME NEW y \in T, y < x PROVE FALSE
    OBVIOUS
  <2>1. <<y, x>> \in Nat \X Nat
    OBVIOUS
  <2>2. <<y, x>> \in OpToRel(<, Nat)
    BY <2>1 DEF OpToRel
  <2> QED BY <1>1, <2>2, Zenon
<1> QED BY <1>2

\* Min finds it.
LEMMA MinIsLeast ==
    ASSUME NEW T, T \subseteq Nat, T # {}
    PROVE  Min(T) \in T /\ \A y \in T : Min(T) <= y
BY LeastNatural, Zenon DEF Min

-----------------------------------------------------------------------------
(* Forecasts *)

ForecastOf(of, m) ==
    [device |-> DeviceOf[m], mount |-> m, samples |-> of[m].samples,
     days |-> forecastDays(of[m]).days, noForecast |-> forecastDays(of[m]).noForecast]

\* Two sets of naturals have the same least element when each has something no greater
\* than what the other has.
LEMMA SameMin ==
    ASSUME NEW S, NEW T, S \subseteq Nat, T \subseteq Nat, S # {}, T # {},
           \A x \in S : \E y \in T : y <= x, \A y \in T : \E x \in S : x <= y
    PROVE  Min(S) = Min(T)
<1>1. Min(S) \in S /\ \A x \in S : Min(S) <= x
  BY MinIsLeast, Zenon
<1>2. Min(T) \in T /\ \A y \in T : Min(T) <= y
  BY MinIsLeast, Zenon
<1>3. PICK y \in T : y <= Min(S)
  BY <1>1, Zenon
<1>4. PICK x \in S : x <= Min(T)
  BY <1>2, Zenon
<1>5. Min(S) <= x /\ Min(T) <= y /\ x \in Nat /\ y \in Nat /\ Min(S) \in Nat /\ Min(T) \in Nat
  BY <1>1, <1>2, <1>3, <1>4, Zenon
<1> QED BY <1>3, <1>4, <1>5

LEMMA MinOfTwo ==
    ASSUME NEW a \in Nat, NEW b \in Nat
    PROVE  Min({a, b}) = IF a <= b THEN a ELSE b
<1>1. Min({a, b}) \in {a, b} /\ \A y \in {a, b} : Min({a, b}) <= y
  BY MinIsLeast, Zenon
<1> QED BY <1>1

\* A forecast is a number of days up to the horizon, or says why there is none.
LEMMA DaysInHorizon ==
    ASSUME ForecastsAssumption, NEW fit \in Fits
    PROVE  LET f == forecastDays(fit)
           IN  /\ f.noForecast = "collecting" <=> fit.samples < MinSamples
               /\ f.noForecast = "" <=> f.days # NotFilling
               /\ f.days # NotFilling => f.days \in 0 .. Horizon
<1>1. /\ fit.samples \in Nat /\ fit.pct \in Int /\ fit.bytes \in Nat /\ fit.perDay \in Int
      /\ MinSamples \in Nat /\ Horizon \in Nat /\ NotFilling \notin Nat
  BY DEF ForecastsAssumption
<1> DEFINE whole == (fit.bytes * (100 - fit.pct)) \div fit.pct
           left == Max({whole, 0})
           days == left \div fit.perDay
<1>2. ASSUME ~(fit.perDay <= 0 \/ fit.pct <= 0) PROVE days \in Nat
  <2>1. fit.pct \in Nat \ {0} /\ fit.perDay \in Nat \ {0}
    BY <1>1, <1>2
  <2>2. fit.bytes * (100 - fit.pct) \in Int
    BY <1>1
  <2>3. whole \in Int
    BY <2>1, <2>2
  <2>4. \E x \in {whole, 0} : \A y \in {whole, 0} : x >= y
    <3> HIDE DEF whole
    <3> QED BY <2>3
  <2>5. left \in {whole, 0} /\ left >= 0
    BY <2>4, Zenon DEF Max
  <2>6. left \in Nat
    <3> HIDE DEF whole, left
    <3> QED BY <2>3, <2>5
  <2> HIDE DEF left
  <2> QED BY <2>1, <2>6
<1>3. forecastDays(fit) =
        IF fit.samples < MinSamples THEN NoForecast("collecting")
        ELSE IF fit.perDay <= 0 \/ fit.pct <= 0 THEN NoForecast("not_growing")
        ELSE IF ~fit.steady THEN NoForecast("not_steady")
        ELSE IF days > Horizon THEN NoForecast("over_a_year") ELSE [days |-> days, noForecast |-> ""]
  BY Zenon DEF forecastDays
<1> HIDE DEF days
<1>8. \A d, why : /\ [days |-> d, noForecast |-> why].days = d
                   /\ [days |-> d, noForecast |-> why].noForecast = why
  BY Zenon
<1>4. \A why : NoForecast(why).days = NotFilling /\ NoForecast(why).noForecast = why
  BY Zenon DEF NoForecast
<1>5. CASE fit.samples < MinSamples
  <2>1. forecastDays(fit).days = NotFilling /\ forecastDays(fit).noForecast = "collecting"
    BY <1>3, <1>4, <1>5, Zenon
  <2> QED BY <1>5, <2>1, Zenon
<1>6. CASE ~(fit.samples < MinSamples) /\ ~(fit.perDay <= 0 \/ fit.pct <= 0) /\ fit.steady /\ ~(days > Horizon)
  <2>1. forecastDays(fit) = [days |-> days, noForecast |-> ""]
    BY <1>3, <1>6, Zenon
  <2>2. days \in 0 .. Horizon
    BY <1>1, <1>2, <1>6
  <2>3. forecastDays(fit).days = days /\ forecastDays(fit).noForecast = ""
    BY <1>8, <2>1, Zenon
  <2>4. days # NotFilling
    BY <1>1, <2>2
  <2> QED BY <1>6, <2>2, <2>3, <2>4, Zenon
<1>7. CASE ~(fit.samples < MinSamples) /\ ~(~(fit.perDay <= 0 \/ fit.pct <= 0) /\ fit.steady /\ ~(days > Horizon))
  <2>1. /\ forecastDays(fit).days = NotFilling
        /\ forecastDays(fit).noForecast \in {"not_growing", "not_steady", "over_a_year"}
    BY <1>3, <1>4, <1>7, Zenon
  <2> QED BY <1>7, <2>1, Zenon
<1> QED BY <1>5, <1>6, <1>7, Zenon

\* A forecast's days, and the device and the samples of the mount it is of.
LEMMA ForecastOfMount ==
    ASSUME NEW of, NEW m
    PROVE  /\ ForecastOf(of, m).device = DeviceOf[m]
           /\ ForecastOf(of, m).samples = of[m].samples
           /\ ForecastOf(of, m).days = forecastDays(of[m]).days
           /\ ForecastOf(of, m).noForecast = forecastDays(of[m]).noForecast
BY Zenon DEF ForecastOf

LEMMA ForecastsAreOfMounts ==
    ASSUME NEW of, NEW devices
    PROVE  queryForecasts(of, devices) =
               {ForecastOf(of, m) : m \in {m \in Mounts : DeviceOf[m] \in devices}}
BY Zenon DEF queryForecasts, ForecastOf

\* The days of the mounts of some devices that fill up.
MountDays(of, devices) ==
    {forecastDays(of[m]).days :
        m \in {m \in Mounts : DeviceOf[m] \in devices /\ forecastDays(of[m]).days # NotFilling}}

\* The device has a mount with samples enough to tell.
Told(of, d) == \E m \in Mounts : DeviceOf[m] = d /\ ~(of[m].samples < MinSamples)

LEMMA MountsForecast ==
    ASSUME ForecastsAssumption, NEW of \in [Mounts -> Fits], NEW m \in Mounts
    PROVE  /\ forecastDays(of[m]).noForecast = "collecting" <=> of[m].samples < MinSamples
           /\ forecastDays(of[m]).noForecast = "" <=> forecastDays(of[m]).days # NotFilling
           /\ forecastDays(of[m]).days # NotFilling =>
                 forecastDays(of[m]).days \in 0 .. Horizon /\ ~(of[m].samples < MinSamples)
           /\ of[m].samples \in Nat
<1>1. of[m] \in Fits
  OBVIOUS
<1>2. of[m].samples \in Nat
  BY <1>1 DEF ForecastsAssumption
<1> QED BY <1>1, <1>2, DaysInHorizon, Zenon

LEMMA DaysAreNaturals ==
    ASSUME ForecastsAssumption, NEW of \in [Mounts -> Fits], NEW devices
    PROVE  MountDays(of, devices) \subseteq 0 .. Horizon
BY MountsForecast, Zenon DEF MountDays

\* The store's answer for some devices: the days of their mounts.
LEMMA FillingMounts ==
    ASSUME NEW of, NEW devices
    PROVE  Filling(queryForecasts(of, devices)) = MountDays(of, devices)
<1>1. ASSUME NEW x \in Filling(queryForecasts(of, devices)) PROVE x \in MountDays(of, devices)
  <2>1. PICK f \in queryForecasts(of, devices) : f.days # NotFilling /\ x = f.days
    BY <1>1, Zenon DEF Filling
  <2>2. PICK m \in Mounts : DeviceOf[m] \in devices /\ f = ForecastOf(of, m)
    BY <2>1, ForecastsAreOfMounts, Zenon
  <2>3. f.days = forecastDays(of[m]).days
    BY <2>2, ForecastOfMount, Zenon
  <2> QED BY <2>1, <2>2, <2>3, Zenon DEF MountDays
<1>2. ASSUME NEW x \in MountDays(of, devices) PROVE x \in Filling(queryForecasts(of, devices))
  <2>1. PICK m \in Mounts : /\ DeviceOf[m] \in devices
                            /\ forecastDays(of[m]).days # NotFilling /\ x = forecastDays(of[m]).days
    BY <1>2, Zenon DEF MountDays
  <2>2. ForecastOf(of, m) \in queryForecasts(of, devices)
    BY <2>1, ForecastsAreOfMounts, Zenon
  <2>3. PICK f : f = ForecastOf(of, m)
    BY Zenon
  <2>4. f.days = forecastDays(of[m]).days
    BY <2>3, ForecastOfMount, Zenon
  <2> QED BY <2>1, <2>2, <2>3, <2>4, Zenon DEF Filling
<1> QED BY <1>1, <1>2, Zenon

\* What an alert rule compares of a device: a mount that fills up has samples enough.
LEMMA DaysOfDevice ==
    ASSUME ForecastsAssumption, NEW of \in [Mounts -> Fits], NEW d
    PROVE  DaysUntilFull(of, d) =
               IF Told(of, d) THEN Min(MountDays(of, {d}) \cup {Horizon}) ELSE ErrNotFound
<1> DEFINE found == {f \in queryForecasts(of, {d}) : f.samples >= MinSamples}
<1>1. ASSUME NEW m \in Mounts
      PROVE  ForecastOf(of, m).samples >= MinSamples <=> ~(of[m].samples < MinSamples)
  <2>1. ForecastOf(of, m).samples = of[m].samples
    BY ForecastOfMount, Zenon
  <2>2. of[m].samples \in Nat
    BY MountsForecast, Zenon
  <2>3. MinSamples \in Nat
    BY DEF ForecastsAssumption
  <2> QED BY <2>1, <2>2, <2>3
<1>2. found = {} <=> ~Told(of, d)
  <2>1. ASSUME NEW f \in found PROVE Told(of, d)
    <3>1. PICK m \in Mounts : DeviceOf[m] = d /\ f = ForecastOf(of, m)
      BY <2>1, ForecastsAreOfMounts, Zenon
    <3> QED BY <1>1, <2>1, <3>1, Zenon DEF Told
  <2>2. ASSUME Told(of, d) PROVE found # {}
    <3>1. PICK m \in Mounts : DeviceOf[m] = d /\ ~(of[m].samples < MinSamples)
      BY <2>2, Zenon DEF Told
    <3>2. ForecastOf(of, m) \in queryForecasts(of, {d})
      BY <3>1, ForecastsAreOfMounts, Zenon
    <3> QED BY <1>1, <3>1, <3>2, Zenon
  <2> QED BY <2>1, <2>2, Zenon
<1>3. Filling(found) = Filling(queryForecasts(of, {d}))
  <2>1. ASSUME NEW f \in queryForecasts(of, {d}), f.days # NotFilling PROVE f \in found
    <3>1. PICK m \in Mounts : DeviceOf[m] = d /\ f = ForecastOf(of, m)
      BY <2>1, ForecastsAreOfMounts, Zenon
    <3>2. ~(of[m].samples < MinSamples)
      <4>1. f.days = forecastDays(of[m]).days
        BY <3>1, ForecastOfMount, Zenon
      <4> QED BY <2>1, <4>1, MountsForecast, Zenon
    <3> QED BY <1>1, <2>1, <3>1, <3>2, Zenon
  <2> QED BY <2>1, Zenon DEF Filling
<1>4. Filling(found) = MountDays(of, {d})
  BY <1>3, FillingMounts, Zenon
<1> QED BY <1>2, <1>4, Zenon DEF DaysUntilFull

\* The alert rules' soonest days are what the fleet's answer says.
LEMMA SoonestAgree ==
    ASSUME ForecastsAssumption, NEW of \in [Mounts -> Fits]
    PROVE  /\ RulesSoonest(of) =
                 IF SoonestDiskFull(of) = NotFilling THEN Horizon ELSE SoonestDiskFull(of)
           /\ RulesSoonest(of) \in Nat
<1> DEFINE D == MountDays(of, Devices)
           R == {DaysUntilFull(of, d) : d \in {d \in Devices : DaysUntilFull(of, d) # ErrNotFound}}
<1>1. Horizon \in Nat /\ NotFilling \notin Nat /\ ErrNotFound \notin Nat
  BY DEF ForecastsAssumption
<1>2. D \subseteq 0 .. Horizon
  BY DaysAreNaturals, Zenon
<1>3. D \subseteq Nat /\ \A x \in D : x <= Horizon
  BY <1>1, <1>2
<1>4. \A d : MountDays(of, {d}) \cup {Horizon} \subseteq Nat
  <2> SUFFICES ASSUME NEW d PROVE MountDays(of, {d}) \subseteq Nat
    BY <1>1, Zenon
  <2>1. MountDays(of, {d}) \subseteq 0 .. Horizon
    BY DaysAreNaturals, Zenon
  <2> QED BY <1>1, <2>1
<1>5. \A d : /\ Min(MountDays(of, {d}) \cup {Horizon}) \in MountDays(of, {d}) \cup {Horizon}
             /\ \A x \in MountDays(of, {d}) : Min(MountDays(of, {d}) \cup {Horizon}) <= x
  BY <1>4, MinIsLeast, Zenon
<1>6. ASSUME NEW r \in R PROVE r \in D \cup {Horizon}
  <2>1. PICK d \in Devices : r = DaysUntilFull(of, d) /\ r # ErrNotFound
    BY <1>6, Zenon
  <2>2. r = Min(MountDays(of, {d}) \cup {Horizon})
    BY <2>1, DaysOfDevice, Zenon
  <2>3. r \in MountDays(of, {d}) \cup {Horizon}
    BY <1>5, <2>2, Zenon
  <2>4. MountDays(of, {d}) \subseteq D
    <3> SUFFICES ASSUME NEW x \in MountDays(of, {d}) PROVE x \in MountDays(of, Devices)
      BY Zenon
    <3>1. PICK m \in Mounts : /\ DeviceOf[m] = d
                              /\ forecastDays(of[m]).days # NotFilling /\ x = forecastDays(of[m]).days
      BY Zenon DEF MountDays
    <3> QED BY <2>1, <3>1, Zenon DEF MountDays
  <2> QED BY <2>3, <2>4, Zenon
<1>7. ASSUME NEW x \in D PROVE \E r \in R : r <= x
  <2>1. PICK m \in Mounts : /\ forecastDays(of[m]).days # NotFilling /\ x = forecastDays(of[m]).days
    BY <1>7, Zenon DEF MountDays
  <2>9. DeviceOf[m] \in Devices
    BY <2>1, Zenon DEF Devices
  <2>2. PICK d : d = DeviceOf[m] /\ d \in Devices
    BY <2>9, Zenon
  <2>3. Told(of, d) /\ x \in MountDays(of, {d})
    BY <2>1, <2>2, MountsForecast, Zenon DEF Told, MountDays
  <2>4. DaysUntilFull(of, d) = Min(MountDays(of, {d}) \cup {Horizon})
    BY <2>3, DaysOfDevice, Zenon
  <2>5. DaysUntilFull(of, d) \in Nat /\ DaysUntilFull(of, d) <= x
    BY <1>4, <1>5, <2>3, <2>4, Zenon
  <2> QED BY <1>1, <2>2, <2>5, Zenon
<1> HIDE DEF R, D
<1>8. RulesSoonest(of) = Min({Horizon} \cup R)
  BY Zenon DEF RulesSoonest, R
<1>9. SoonestDiskFull(of) = IF D = {} THEN NotFilling ELSE Min(D)
  BY FillingMounts, Zenon DEF SoonestDiskFull, D
<1>10. {Horizon} \cup R \subseteq Nat /\ {Horizon} \cup D \subseteq Nat
  BY <1>1, <1>3, <1>6, Zenon
<1>11. /\ \A x \in {Horizon} \cup R : \E y \in {Horizon} \cup D : y <= x
       /\ \A x \in {Horizon} \cup D : \E y \in {Horizon} \cup R : y <= x
  <2>1. \A x \in Nat : x <= x
    OBVIOUS
  <2> QED BY <1>6, <1>7, <1>10, <2>1, Zenon
<1>12. Min({Horizon} \cup R) = Min({Horizon} \cup D)
  BY <1>10, <1>11, SameMin, Zenon
<1>13. Min({Horizon} \cup R) \in Nat
  BY <1>10, MinIsLeast, Zenon
<1>14. CASE D = {}
  <2>1. {Horizon} \cup D = {Horizon}
    BY <1>14, Zenon
  <2>2. Min({Horizon}) \in {Horizon}
    BY <1>1, MinIsLeast, Zenon
  <2> QED BY <1>8, <1>9, <1>12, <1>13, <1>14, <2>1, <2>2, Zenon
<1>15. CASE D # {}
  <2>1. /\ \A x \in D : \E y \in {Horizon} \cup D : y <= x
        /\ \A x \in {Horizon} \cup D : \E y \in D : y <= x
    <3>1. \A x \in Nat : x <= x
      OBVIOUS
    <3> QED BY <1>3, <1>15, <3>1, Zenon
  <2>2. Min(D) = Min({Horizon} \cup D)
    BY <1>3, <1>10, <1>15, <2>1, SameMin, Zenon
  <2>3. Min(D) # NotFilling
    BY <1>1, <1>12, <1>13, <2>2, Zenon
  <2> QED BY <1>8, <1>9, <1>12, <1>13, <1>15, <2>2, <2>3, Zenon
<1> QED BY <1>14, <1>15, Zenon

\* What the dashboard shows of a device is what its alert rules compare.
LEMMA ShownIsCompared ==
    ASSUME ForecastsAssumption, NEW of \in [Mounts -> Fits], NEW d \in Devices,
           NEW shown, shown = {f \in DiskForecasts(of) : f.device = d}
    PROVE  DaysUntilFull(of, d) =
               IF \A f \in shown : f.noForecast = "collecting" THEN ErrNotFound
               ELSE Min({IF f.noForecast = "" THEN f.days ELSE Horizon : f \in shown})
<1> DEFINE S == MountDays(of, {d}) \cup {Horizon}
           T == {IF f.noForecast = "" THEN f.days ELSE Horizon : f \in shown}
<1>1. Horizon \in Nat /\ ErrNotFound \notin Nat
  BY DEF ForecastsAssumption
<1>2. ASSUME NEW f \in shown
      PROVE  \E m \in Mounts : DeviceOf[m] = d /\ f = ForecastOf(of, m)
  <2>1. f \in queryForecasts(of, Devices) /\ f.device = d
    BY <1>2, Zenon DEF DiskForecasts
  <2>2. PICK m \in Mounts : f = ForecastOf(of, m)
    BY <2>1, ForecastsAreOfMounts, Zenon
  <2> QED BY <2>1, <2>2, ForecastOfMount, Zenon
<1>3. ASSUME NEW m \in Mounts, DeviceOf[m] = d PROVE ForecastOf(of, m) \in shown
  <2>1. ForecastOf(of, m) \in queryForecasts(of, Devices)
    BY <1>3, ForecastsAreOfMounts, Zenon
  <2> QED BY <1>3, <2>1, ForecastOfMount, Zenon DEF DiskForecasts
<1>4. Told(of, d) <=> ~(\A f \in shown : f.noForecast = "collecting")
  <2>1. ASSUME NEW m \in Mounts
        PROVE  ForecastOf(of, m).noForecast = "collecting" <=> of[m].samples < MinSamples
    <3>1. ForecastOf(of, m).noForecast = forecastDays(of[m]).noForecast
      BY ForecastOfMount, Zenon
    <3> QED BY <3>1, MountsForecast, Zenon
  <2> QED BY <1>2, <1>3, <2>1, Zenon DEF Told
<1>5. S \subseteq Nat /\ \A x \in S : x <= Horizon
  <2>1. MountDays(of, {d}) \subseteq 0 .. Horizon
    BY DaysAreNaturals, Zenon
  <2>2. \A x \in 0 .. Horizon : x \in Nat /\ x <= Horizon
    BY <1>1
  <2>3. Horizon <= Horizon
    BY <1>1
  <2> QED BY <1>1, <2>1, <2>2, <2>3, Zenon
<1>6. ASSUME NEW f \in shown
      PROVE  /\ f.noForecast = "" <=> f.days # NotFilling
             /\ f.days # NotFilling => f.days \in MountDays(of, {d})
  <2>1. PICK m \in Mounts : DeviceOf[m] = d /\ f = ForecastOf(of, m)
    BY <1>2, <1>6, Zenon
  <2>2. f.noForecast = forecastDays(of[m]).noForecast /\ f.days = forecastDays(of[m]).days
    BY <2>1, ForecastOfMount, Zenon
  <2>3. f.noForecast = "" <=> f.days # NotFilling
    BY <2>2, MountsForecast, Zenon
  <2> QED BY <2>1, <2>2, <2>3, Zenon DEF MountDays
<1>7. ASSUME NEW y \in T PROVE y \in S
  <2>1. PICK f \in shown : y = IF f.noForecast = "" THEN f.days ELSE Horizon
    BY <1>7, Zenon
  <2> QED BY <1>6, <2>1, Zenon
<1>8. ASSUME NEW x \in MountDays(of, {d}) PROVE x \in T
  <2>1. PICK m \in Mounts : /\ DeviceOf[m] = d
                            /\ forecastDays(of[m]).days # NotFilling /\ x = forecastDays(of[m]).days
    BY <1>8, Zenon DEF MountDays
  <2>2. PICK f : f = ForecastOf(of, m)
    BY Zenon
  <2>3. f.days = x
    BY <2>1, <2>2, ForecastOfMount, Zenon
  <2>4. f \in shown
    BY <1>3, <2>1, <2>2, Zenon
  <2>5. x = IF f.noForecast = "" THEN f.days ELSE Horizon
    BY <1>6, <2>1, <2>3, <2>4, Zenon
  <2> QED BY <2>4, <2>5, Zenon
<1>9. CASE Told(of, d)
  <2>1. PICK f \in shown : TRUE
    BY <1>4, <1>9, Zenon
  <2>2. PICK t \in T : TRUE
    BY <2>1, Zenon
  <2> HIDE DEF T
  <2>3. \A x \in Nat : x <= x
    OBVIOUS
  <2>4. T \subseteq Nat /\ t <= Horizon
    BY <1>5, <1>7, Zenon
  <2>5. /\ \A x \in S : \E y \in T : y <= x
        /\ \A y \in T : \E x \in S : x <= y
    BY <1>5, <1>7, <1>8, <2>2, <2>3, <2>4, Zenon
  <2>6. Min(S) = Min(T)
    BY <1>5, <2>2, <2>4, <2>5, SameMin, Zenon
  <2>7. DaysUntilFull(of, d) = Min(S)
    BY <1>9, DaysOfDevice, Zenon
  <2>8. DaysUntilFull(of, d) = Min(T)
    BY <2>6, <2>7, Zenon
  <2> QED BY <1>4, <1>9, <2>8, Zenon DEF T
<1>10. CASE ~Told(of, d)
  BY <1>4, <1>10, DaysOfDevice, Zenon
<1> QED BY <1>9, <1>10, Zenon

\* A value put before a sequence that is then cut to a length.
Shifted(s, x, n) == SubSeq(<<x>> \o s, 1, n)

IsShifted(t, s, x, n) ==
    t \in Seq(Nat) /\ Len(t) = n /\ t[1] = x /\ \A i \in 1 .. (n - 1) : t[i + 1] = s[i]

LEMMA PutBefore ==
    ASSUME NEW s \in Seq(Nat), NEW x \in Nat, NEW n \in 1 .. (Len(s) + 1)
    PROVE  IsShifted(Shifted(s, x, n), s, x, n)
<1> DEFINE t == Shifted(s, x, n)
<1>1. PICK u : u = <<x>> \o s
  BY Zenon
<1>2. u \in Seq(Nat) /\ Len(u) = Len(s) + 1 /\ u[1] = x /\ \A i \in 1 .. Len(s) : u[i + 1] = s[i]
  BY <1>1
<1>3. t \in Seq(Nat) /\ Len(t) = n /\ \A i \in 1 .. n : t[i] = u[i]
  BY <1>1, <1>2 DEF Shifted
<1> HIDE DEF t
<1>4. t \in Seq(Nat) /\ Len(t) = n /\ t[1] = x /\ \A i \in 1 .. (n - 1) : t[i + 1] = s[i]
  BY <1>2, <1>3
<1> QED BY <1>4, Zenon DEF t, IsShifted

\* What the collector remembers is what the alert rules' days said when it asked.
ForecastsInv ==
    /\ fits \in [Mounts -> Fits]
    /\ forecastAge \in 0 .. ForecastTTL
    /\ were \in Seq(Nat) /\ Len(were) \in 1 .. ForecastTTL
    /\ were[1] = RulesSoonest(fits)
    /\ forecastAge < ForecastTTL =>
          /\ forecastAge + 1 <= Len(were)
          /\ were[forecastAge + 1] = IF diskFull = NotFilling THEN Horizon ELSE diskFull

LEMMA ForecastsStep ==
    ASSUME ForecastsAssumption, ForecastsInv, ForecastsNext
    PROVE  ForecastsInv'
<1>1. ForecastTTL \in Nat \ {0}
  BY DEF ForecastsAssumption
<1>2. CASE \E m \in Mounts, fit \in Fits : HourPasses(m, fit)
  <2>1. PICK m \in Mounts, fit \in Fits : HourPasses(m, fit)
    BY <1>2, Zenon
  <2>2. fits' \in [Mounts -> Fits]
    BY <2>1, Zenon DEF HourPasses, ForecastsInv
  <2>3. PICK x : x = RulesSoonest(fits')
    BY Zenon
  <2>4. x \in Nat
    BY <2>2, <2>3, SoonestAgree, Zenon
  <2>5. PICK n : n = Min({Len(were) + 1, ForecastTTL})
    BY Zenon
  <2>6. /\ forecastAge \in 0 .. ForecastTTL /\ were \in Seq(Nat) /\ Len(were) \in 1 .. ForecastTTL
        /\ forecastAge < ForecastTTL => forecastAge + 1 <= Len(were)
    BY Zenon DEF ForecastsInv
  <2>7. n = IF Len(were) + 1 <= ForecastTTL THEN Len(were) + 1 ELSE ForecastTTL
    <3>1. Len(were) + 1 \in Nat
      BY <2>6
    <3> QED BY <1>1, <2>5, <3>1, MinOfTwo, Zenon
  <2>8. forecastAge' = IF forecastAge + 1 <= ForecastTTL THEN forecastAge + 1 ELSE ForecastTTL
    <3>1. forecastAge + 1 \in Nat
      BY <2>6
    <3>2. forecastAge' = Min({forecastAge + 1, ForecastTTL})
      BY <2>1, Zenon DEF HourPasses
    <3> QED BY <1>1, <3>1, <3>2, MinOfTwo, Zenon
  <2>9. were' = Shifted(were, x, n)
    BY <2>1, <2>3, <2>5, Zenon DEF HourPasses, Shifted
  <2>10. n \in 1 .. (Len(were) + 1) /\ n \in 1 .. ForecastTTL
    BY <1>1, <2>6, <2>7
  <2>11. /\ were' \in Seq(Nat) /\ Len(were') = n /\ were'[1] = x
         /\ \A i \in 1 .. (n - 1) : were'[i + 1] = were[i]
    <3>1. were \in Seq(Nat) /\ n \in 1 .. (Len(were) + 1)
      BY <2>6, <2>10, Zenon
    <3>2. IsShifted(Shifted(were, x, n), were, x, n)
      BY <2>4, <3>1, PutBefore
    <3> QED BY <2>9, <3>2, Zenon DEF IsShifted
  <2>12. ASSUME forecastAge' < ForecastTTL
         PROVE  /\ forecastAge' + 1 <= n
                /\ were'[forecastAge' + 1] = IF diskFull' = NotFilling THEN Horizon ELSE diskFull'
    <3>1. forecastAge' = forecastAge + 1 /\ forecastAge + 1 < ForecastTTL
      BY <1>1, <2>6, <2>8, <2>12
    <3>2. forecastAge + 1 \in 1 .. (n - 1) /\ forecastAge' + 1 <= n
      BY <1>1, <2>6, <2>7, <3>1
    <3>3. were'[forecastAge' + 1] = were[forecastAge + 1]
      BY <2>11, <3>1, <3>2, Zenon
    <3>4. diskFull' = diskFull
      BY <2>1, Zenon DEF HourPasses
    <3>5. forecastAge < ForecastTTL
      BY <1>1, <2>6, <3>1
    <3>6. were[forecastAge + 1] = IF diskFull = NotFilling THEN Horizon ELSE diskFull
      BY <3>5, Zenon DEF ForecastsInv
    <3> QED BY <3>2, <3>3, <3>4, <3>6, Zenon
  <2>13. forecastAge' \in 0 .. ForecastTTL
    BY <1>1, <2>6, <2>8
  <2> QED BY <2>2, <2>3, <2>10, <2>11, <2>12, <2>13, Zenon DEF ForecastsInv
<1>3. CASE \E fails \in BOOLEAN : soonestDiskFull(fails)
  <2>1. PICK fails \in BOOLEAN : soonestDiskFull(fails)
    BY <1>3, Zenon
  <2>2. fits' = fits /\ were' = were
    BY <2>1, Zenon DEF soonestDiskFull
  <2>3. CASE fails
    <3>1. diskFull' = diskFull /\ forecastAge' = forecastAge
      BY <2>1, <2>3, Zenon DEF soonestDiskFull
    <3> QED BY <2>2, <3>1, Zenon DEF ForecastsInv, RulesSoonest
  <2>4. CASE ~fails
    <3>1. diskFull' = SoonestDiskFull(fits) /\ forecastAge' = 0
      BY <2>1, <2>4, Zenon DEF soonestDiskFull
    <3>2. were[1] = IF diskFull' = NotFilling THEN Horizon ELSE diskFull'
      BY <3>1, SoonestAgree, Zenon DEF ForecastsInv
    <3>3. forecastAge' \in 0 .. ForecastTTL /\ forecastAge' + 1 = 1 /\ forecastAge' + 1 <= Len(were)
      <4>1. Len(were) \in 1 .. ForecastTTL
        BY DEF ForecastsInv
      <4> QED BY <1>1, <3>1, <4>1
    <3>4. RulesSoonest(fits') = RulesSoonest(fits)
      BY <2>2, Zenon
    <3> QED BY <2>2, <3>2, <3>3, <3>4, Zenon DEF ForecastsInv
  <2> QED BY <2>3, <2>4, Zenon
<1> QED BY <1>2, <1>3, Zenon DEF ForecastsNext

\* The days the fleet shows and the days alert rules compare are the same, for as long as
\* the collector keeps its answer (api.go's soonestDiskFull, store/forecast.go).
THEOREM ForecastsNeverDisagree == ForecastsSpec => []ForecastsAgree
<1> USE ForecastsAssumption
<1>1. ForecastsInit => ForecastsInv
  <2> SUFFICES ASSUME ForecastsInit PROVE ForecastsInv
    OBVIOUS
  <2>1. ForecastTTL \in Nat \ {0}
    BY DEF ForecastsAssumption
  <2>2. fits \in [Mounts -> Fits] /\ forecastAge = ForecastTTL /\ were = <<RulesSoonest(fits)>>
    BY Zenon DEF ForecastsInit
  <2>3. RulesSoonest(fits) \in Nat
    BY <2>2, SoonestAgree, Zenon
  <2>4. were \in Seq(Nat) /\ Len(were) = 1 /\ were[1] = RulesSoonest(fits)
    <3>1. PICK x : x = RulesSoonest(fits)
      BY Zenon
    <3> QED BY <2>2, <2>3, <3>1
  <2>5. 1 \in 1 .. ForecastTTL /\ ForecastTTL \in 0 .. ForecastTTL /\ ~(ForecastTTL < ForecastTTL)
    BY <2>1
  <2> QED BY <2>2, <2>4, <2>5, Zenon DEF ForecastsInv
<1>2. ForecastsInv /\ [ForecastsNext]_forecastVars => ForecastsInv'
  <2> SUFFICES ASSUME ForecastsInv, [ForecastsNext]_forecastVars PROVE ForecastsInv'
    OBVIOUS
  <2>1. CASE ForecastsNext
    BY <2>1, ForecastsStep, Zenon
  <2>2. CASE UNCHANGED forecastVars
    <3>1. fits' = fits /\ diskFull' = diskFull /\ forecastAge' = forecastAge /\ were' = were
      BY <2>2, Zenon DEF forecastVars
    <3>2. RulesSoonest(fits') = RulesSoonest(fits)
      BY <3>1, Zenon
    <3> QED BY <3>1, <3>2, Zenon DEF ForecastsInv
  <2> QED BY <2>1, <2>2, Zenon
<1>3. ForecastsInv => ForecastsAgree
  <2> SUFFICES ASSUME ForecastsInv PROVE ForecastsAgree
    OBVIOUS
  <2>1. ASSUME NEW device \in Devices, NEW shown, shown = {f \in DiskForecasts(fits) : f.device = device}
        PROVE  DaysUntilFull(fits, device) =
                 IF \A f \in shown : f.noForecast = "collecting" THEN ErrNotFound
                 ELSE Min({IF f.noForecast = "" THEN f.days ELSE Horizon : f \in shown})
    BY <2>1, ShownIsCompared, Zenon DEF ForecastsInv
  <2> QED BY <2>1, Zenon DEF ForecastsAgree, ForecastsInv
<1> QED BY <1>1, <1>2, <1>3, PTL DEF ForecastsSpec

=============================================================================
