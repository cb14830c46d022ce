------------------------------ MODULE Clusters ------------------------------
(***************************************************************************)
(* Kubernetes clusters.  The agent of one host reads a cluster's API and   *)
(* reports what it saw; the collector keeps the newest state and the       *)
(* restarts it saw between two states, and checks its rules against both.  *)
(* A read can fail, a report can be given up and arrive after newer ones,  *)
(* pods are replaced, a kubelet loses its counters, the reader's host or   *)
(* the cluster is removed, and another host takes over.                    *)
(*                                                                         *)
(*   agent/kube.go, internal/kube/client.go    the reader                  *)
(*   internal/store/kube.go, internal/api/kube.go   reports                *)
(*   internal/kube/restarts.go                 restarts between two states *)
(*   collector/kube.go, evaluator.go           a restart rule              *)
(*                                                                         *)
(* A pod has one container and belongs to no workload, so that it is a     *)
(* rule's target itself.  What its container restarted in truth is kept    *)
(* beside the counter its kubelet shows.                                   *)
(***************************************************************************)
EXTENDS Naturals, FiniteSets, FiniteSetsExt

CONSTANTS
    Hosts,          \* hosts, of which one at a time is set up to read the cluster
    Pods,           \* pods, by UID: never reused
    StaleAfter,
    Window,         \* a restart rule counts the restarts of this long
    Trigger,        \* TriggerIntveral
    MaxChanges,     \* bound: times an admin moves the reader or removes a host or the cluster
    MaxLate,        \* bound: reports that were given up and are still on their way
    MaxRestarts,    \* bound: restarts of a pod
    MaxTime,        \* bound: the last moment; the reader then goes on at that moment
    None

\* A pod: what the API shows of it, what its container restarted in truth, and
\* whether its counter ever started again.
PodStates ==
    [life : {"unborn", "there", "deleted"}, created : Nat, count : Nat, restarted : Nat, reset : BOOLEAN]

\* A state as the collector keeps it, and the cluster's row: its reader, None once
\* that host is removed, and its state.
SavedStates == [time : Nat, pods : [Pods -> PodStates \cup {None}]]
ClusterRows == [host : Hosts \cup {None}, state : SavedStates]

ASSUME ClustersAssumption ==
    /\ {StaleAfter, Window, Trigger, MaxChanges, MaxLate, MaxRestarts, MaxTime} \subseteq Nat
    /\ None \notin Hosts \cup Pods \cup PodStates \cup ClusterRows

VARIABLES
    \* the cluster
    pods,
    \* the agent that reads it, and reports on their way
    reader,
    reports,
    \* the store
    hosts,      \* hosts with a row
    row,        \* the cluster's row in kube_clusters, None without one: its
                \* reader and state (the error and time it shows are left out)
    restarts,   \* its rows in kube_restarts
    rule,       \* whether there is a kube_restarts rule
    open,       \* targets with an open alert
    \* the evaluator's memory: the newest state checked and a change that has to last
    checked,
    pending,
    \* the clock and a bound
    now,
    changes

clusterVars == <<pods>>
readerVars == <<reader, reports>>
storeVars == <<hosts, row, restarts>>
alertVars == <<rule, open, checked, pending>>
vars == <<clusterVars, readerVars, storeVars, alertVars, now, changes>>

NoState == [time |-> 0, pods |-> [p \in Pods |-> None]]
Unborn == [life |-> "unborn", created |-> 0, count |-> 0, restarted |-> 0, reset |-> FALSE]

Init ==
    /\ pods = [p \in Pods |-> Unborn]
    /\ reader \in [host : Hosts, phase : {"idle"}, time : {0}]
    /\ reports = {}
    /\ hosts = Hosts
    /\ row = None
    /\ restarts = {}
    /\ rule \in BOOLEAN
    /\ open = {}
    /\ checked = [p \in Pods |-> 0]
    /\ pending = [p \in Pods |-> None]
    /\ now \in 1 .. MaxTime
    /\ changes \in 0 .. MaxChanges

AdminActs == changes < MaxChanges /\ changes' = changes + 1

-----------------------------------------------------------------------------
(* The cluster *)

PodCreated(p) ==
    /\ now < MaxTime
    /\ pods[p].life = "unborn"
    /\ pods' = [pods EXCEPT ![p].life = "there", ![p].created = now]
    /\ UNCHANGED <<readerVars, storeVars, alertVars, now, changes>>

PodRestarts(p) ==
    /\ now < MaxTime
    /\ pods[p].life = "there"
    /\ pods[p].restarted < MaxRestarts
    /\ pods' = [pods EXCEPT ![p].count = @ + 1, ![p].restarted = @ + 1]
    /\ UNCHANGED <<readerVars, storeVars, alertVars, now, changes>>

\* "the kubelet lost its state"
CounterLost(p) ==
    /\ now < MaxTime
    /\ pods[p].life = "there"
    /\ pods[p].count > 0
    /\ pods' = [pods EXCEPT ![p].count = 0, ![p].reset = TRUE]
    /\ UNCHANGED <<readerVars, storeVars, alertVars, now, changes>>

PodDeleted(p) ==
    /\ now < MaxTime
    /\ pods[p].life = "there"
    /\ pods' = [pods EXCEPT ![p].life = "deleted"]
    /\ UNCHANGED <<readerVars, storeVars, alertVars, now, changes>>

-----------------------------------------------------------------------------
(* The reader *)

\* step: a state has the time its read began, and reads are an interval apart.
ReadBegins ==
    /\ reader.phase = "idle"
    /\ reader.time < now \/ now = MaxTime
    /\ reader' = [reader EXCEPT !.phase = "reading", !.time = now]
    /\ UNCHANGED <<clusterVars, reports, storeVars, alertVars, now, changes>>

Listed == [p \in Pods |-> IF pods[p].life = "there" THEN pods[p] ELSE None]

\* The pods are listed, or the API cannot be read, and the report is sent.
ReadEnds(ok) ==
    /\ reader.phase = "reading"
    /\ reader' = [reader EXCEPT !.phase = "reporting"]
    /\ reports' = reports \cup {[host |-> reader.host, late |-> FALSE, error |-> ~ok,
                                 state |-> [time |-> reader.time,
                                            pods |-> IF ok THEN Listed ELSE NoState.pods]]}
    /\ UNCHANGED <<clusterVars, storeVars, alertVars, now, changes>>

\* The call times out and its report arrives later.
ReportGivenUp(r) ==
    /\ ~r.late
    /\ Cardinality({q \in reports : q.late}) < MaxLate
    /\ reports' = (reports \ {r}) \cup {[r EXCEPT !.late = TRUE]}
    /\ reader' = [reader EXCEPT !.phase = "idle"]
    /\ UNCHANGED <<clusterVars, storeVars, alertVars, now, changes>>

\* "Moving the reader": the old host's agent is restarted without the settings, then
\* the new one's with them.
MoveReader(h) ==
    /\ AdminActs
    /\ h # reader.host
    /\ reader.phase # "reporting"
    /\ reader' = [reader EXCEPT !.host = h, !.phase = "idle"]
    /\ UNCHANGED <<clusterVars, reports, storeVars, alertVars, now>>

\* The report is handled, refused or lost: the reader waits for its next step.
Answered(r) ==
    /\ reports' = reports \ {r}
    /\ reader' = IF r.late THEN reader ELSE [reader EXCEPT !.phase = "idle"]

-----------------------------------------------------------------------------
(* The collector: reports *)

\* Restarts, for one pod: 0 when there is nothing to tell of it.
Counted(prev, next, p) ==
    IF prev.time = 0 \/ next.pods[p] = None THEN 0
    ELSE IF prev.pods[p] = None
    THEN IF next.pods[p].created <= prev.time THEN 0 ELSE next.pods[p].count
    ELSE IF prev.pods[p].count <= next.pods[p].count
    THEN next.pods[p].count - prev.pods[p].count
    ELSE next.pods[p].count

\* saveClusterMetrics
SaveRestarts(prev, next) ==
    restarts' = restarts \cup {[time |-> next.time, pod |-> p, count |-> Counted(prev, next, p)] :
                               p \in {q \in Pods : Counted(prev, next, q) > 0}}

\* The first report makes the cluster, without a state when the API could not be
\* read.  Of two that make it at once the later one is refused.
MakeCluster(r) ==
    /\ row = None
    /\ r.host \in hosts
    /\ row' = [host |-> r.host, state |-> IF r.error THEN NoState ELSE r.state]
    /\ Answered(r)
    /\ UNCHANGED <<clusterVars, hosts, restarts, alertVars, now, changes>>

Owns(r) == row.host \in {None, r.host}

\* Mutant: a read that failed empties the state.
SaveError_Empties(r) ==
    /\ row # None /\ r.host \in hosts /\ Owns(r)
    /\ r.error
    /\ row' = [row EXCEPT !.host = r.host, !.state = NoState]
    /\ Answered(r)
    /\ UNCHANGED <<clusterVars, hosts, restarts, alertVars, now, changes>>

\* "A report that could not read the API only records the error", however late.
SaveError(r) ==
    /\ row # None /\ r.host \in hosts /\ Owns(r)
    /\ r.error
    /\ row' = [row EXCEPT !.host = r.host]
    /\ Answered(r)
    /\ UNCHANGED <<clusterVars, hosts, restarts, alertVars, now, changes>>

\* Mutant: "an older report arriving late" is kept.
Newer_Any(r) == TRUE

Newer(r) == r.state.time > row.state.time

SaveState(r) ==
    /\ row # None /\ r.host \in hosts /\ Owns(r)
    /\ ~r.error
    /\ Newer(r)
    /\ row' = [host |-> r.host, state |-> r.state]
    /\ SaveRestarts(row.state, r.state)
    /\ Answered(r)
    /\ UNCHANGED <<clusterVars, hosts, alertVars, now, changes>>

\* The report is older than the state, the host is not known or not the one that
\* reports the cluster, or the call or the transaction fails.
ReportDropped(r) ==
    /\ Answered(r)
    /\ UNCHANGED <<clusterVars, storeVars, alertVars, now, changes>>

\* The restarts of a cluster that is made again belong to another id.
RemoveCluster ==
    /\ AdminActs
    /\ row # None
    /\ row' = None
    /\ restarts' = {}
    /\ UNCHANGED <<clusterVars, readerVars, hosts, alertVars, now>>

\* host_id ... ON DELETE SET NULL
RemoveHost(h) ==
    /\ AdminActs
    /\ h \in hosts
    /\ hosts' = hosts \ {h}
    /\ row' = IF row # None /\ row.host = h THEN [row EXCEPT !.host = None] ELSE row
    /\ UNCHANGED <<clusterVars, readerVars, restarts, alertVars, now>>

AddHost(h) ==
    /\ h \notin hosts
    /\ hosts' = hosts \cup {h}
    /\ UNCHANGED <<clusterVars, readerVars, row, restarts, alertVars, now, changes>>

-----------------------------------------------------------------------------
(* The collector: a kube_restarts rule *)

\* A state that is too old is no data, and neither is an empty one.  A round reads
\* the state once; what other rounds do to alerts is in Alerts.
Stale == now > row.state.time + StaleAfter

CountOf(rows) == MapThenSumSet(LAMBDA r : r.count, rows)

RestartsSince(p, at) == CountOf({r \in restarts : r.pod = p /\ r.time + Window >= at})

Targets == {p \in Pods : row.state.pods[p] # None}
Breached(p) == RestartsSince(p, row.state.time) > 0

\* check: each state counts once for a target, and a change has to last.
Fresh == {p \in Targets : row.state.time > checked[p]}
Lasted(p, status) == pending[p] # None /\ pending[p].status = status /\ row.state.time >= pending[p].since + Trigger

Opens == {p \in Fresh \ open : Breached(p) /\ Lasted(p, "breached")}
Resolves == {p \in Fresh \cap open : ~Breached(p) /\ Lasted(p, "fine")}

\* What check leaves pending of a target: a change that has not lasted.
StillPending(p) ==
    IF Breached(p) = (p \in open) \/ p \in Opens \cup Resolves THEN None
    ELSE LET status == IF Breached(p) THEN "breached" ELSE "fine"
         IN  IF pending[p] # None /\ pending[p].status = status THEN pending[p]
             ELSE [status |-> status, since |-> row.state.time]

\* Mutant: resolveGone is left out.
Gone_None == {}

\* resolveGone
Gone == open \ Targets

Evaluate ==
    /\ rule
    /\ row # None
    /\ ~Stale
    /\ open' = (open \cup Opens) \ (Resolves \cup Gone)
    /\ checked' = [p \in Pods |-> IF p \in Fresh THEN row.state.time ELSE IF p \in Targets THEN checked[p] ELSE 0]
    /\ pending' = [p \in Pods |-> IF p \in Fresh THEN StillPending(p) ELSE IF p \in Targets THEN pending[p] ELSE None]
    /\ UNCHANGED <<clusterVars, readerVars, storeVars, rule, now, changes>>

CollectorRestarts ==
    /\ checked' = [p \in Pods |-> 0]
    /\ pending' = [p \in Pods |-> None]
    /\ UNCHANGED <<clusterVars, readerVars, storeVars, rule, open, now, changes>>

Tick ==
    /\ now < MaxTime
    /\ now' = now + 1
    /\ UNCHANGED <<clusterVars, readerVars, storeVars, alertVars, changes>>

-----------------------------------------------------------------------------
ClusterNext == \E p \in Pods : PodCreated(p) \/ PodRestarts(p) \/ CounterLost(p) \/ PodDeleted(p)

ReaderNext ==
    \/ ReadBegins
    \/ \E ok \in BOOLEAN : ReadEnds(ok)
    \/ \E h \in Hosts : MoveReader(h)
    \/ \E r \in reports : ReportGivenUp(r)

Saves(r) == MakeCluster(r) \/ SaveError(r) \/ SaveState(r)

StoreNext ==
    \/ \E r \in reports : Saves(r) \/ ReportDropped(r)
    \/ RemoveCluster
    \/ \E h \in Hosts : RemoveHost(h) \/ AddHost(h)

Next == ClusterNext \/ ReaderNext \/ StoreNext \/ Evaluate \/ CollectorRestarts \/ Tick

Spec == Init /\ [][Next]_vars

\* Time passes, the reader and the evaluator are loops, the API can be read and a
\* report gets through now and then.
Fairness ==
    /\ WF_vars(Tick)
    /\ SF_vars(ReadBegins)
    /\ SF_vars(ReadEnds(TRUE))
    /\ WF_vars(\E r \in reports : ~r.late /\ (Saves(r) \/ ReportDropped(r)))
    /\ SF_vars(\E r \in reports : ~r.late /\ SaveState(r))
    /\ SF_vars(Evaluate)

FairSpec == Spec /\ Fairness

-----------------------------------------------------------------------------
(* Properties *)

RowsOf(p) == {r \in restarts : r.pod = p}
Recorded(p) == CountOf(RowsOf(p))

\* "keeps ... the restarts it saw": the restarts recorded of a pod are never more
\* than its container made, whatever reports are late, fail or change readers, and
\* whatever counters start again.
NeverOvercounted == \A p \in Pods : Recorded(p) <= pods[p].restarted

\* A newer state adds the restarts of p since the one before.
AllRecorded(p) ==
    row # None /\ row' # None /\ row.state.time > 0 /\ row'.state.pods[p] # None
        /\ ~row'.state.pods[p].reset =>
        LET was == row.state.pods[p]
            is == row'.state.pods[p]
        IN  \/ was = None /\ is.created <= row.state.time
            \/ Recorded(p)' - Recorded(p) =
                   is.restarted - (IF was = None THEN 0 ELSE was.restarted)

\* "so the last state stays and restarts are counted against it once the API
\* answers again": a newer state records every restart since the one before, of
\* each pod both have, and of each that was made since, unless its counter started
\* again.
NoneMissed == [][\A p \in Pods : AllRecorded(p)]_vars

\* "An alert resolves ... when its node or workload is deleted", unless the cluster
\* is removed or its reader is not one the collector takes reports from.
GoneResolves ==
    \A p \in Pods :
        p \in open /\ pods[p].life = "deleted" ~>
            p \notin open \/ row = None \/ row.host # reader.host

=============================================================================
