---------------------------- MODULE ClusterStates ---------------------------
(***************************************************************************)
(* What a cluster's state says.  The reader turns the objects of the API   *)
(* into nodes, workloads and pods; the collector counts them for the       *)
(* cluster page, and makes them the targets its rules check.               *)
(*                                                                         *)
(*   internal/kube/objects.go, types.go   the conversions, Counts          *)
(*   internal/api/kube.go                 clusterSummary                   *)
(*   collector/kube.go                    kubeTargets, podReason           *)
(*                                                                         *)
(* A name is a sequence of parts, since a ReplicaSet's is its deployment's *)
(* with the pod template hash; so is a reason, <<>> when there is none.    *)
(* Reports and the restarts they show are in Clusters.                     *)
(***************************************************************************)
EXTENDS Integers, FiniteSets, FiniteSetsExt, Sequences

CONSTANTS
    NodeNames,
    WorkloadIds,     \* [namespace, kind, name]
    PodIds,          \* [namespace, name]
    NodeForms,       \* what the API shows of a node: its conditions
    WorkloadForms,   \* ... of a workload: [replicas, available]
    PodForms,        \* ... of a pod: [owners, hash, phase, reason, conditions, inits, containers]
    NotSet,          \* a replica count that is left out
    NotThere         \* an object that is not in the cluster

AnyNamespace == ""

ASSUME StatesAssumption ==
    /\ NotThere \notin NodeForms \cup WorkloadForms \cup PodForms
    /\ NotSet \notin Int
    /\ \A w \in WorkloadIds : /\ w = [namespace |-> w.namespace, kind |-> w.kind, name |-> w.name]
                             /\ w.namespace # AnyNamespace
    /\ \A form \in WorkloadForms : form.replicas \in Int \cup {NotSet} /\ form.available \in Int

VARIABLE objects       \* the objects of the API

-----------------------------------------------------------------------------
(* The reader *)

\* The status and the reason of a condition, which may be missing.
findCondition(conditions, kind) ==
    IF kind \in DOMAIN conditions THEN conditions[kind] ELSE [status |-> "", reason |-> <<>>]

Pressures == {"MemoryPressure", "DiskPressure", "PIDPressure"}

node(n) ==
    LET conditions == objects.nodes[n]
    IN  [name |-> n,
         ready |-> findCondition(conditions, "Ready").status = "True",
         pressure |-> {c \in Pressures : findCondition(conditions, c).status = "True"}]

\* A deployment or a statefulset, for which no count "means 1", or a daemonset.
workload(w) ==
    LET form == objects.workloads[w]
    IN  [namespace |-> w.namespace, kind |-> w.kind, name |-> w.name,
         desired |-> IF form.replicas # NotSet THEN form.replicas ELSE IF w.kind = "daemonset" THEN 0 ELSE 1,
         available |-> form.available]

Key(w) == <<w.namespace, w.kind, w.name>>
Missing(w) == Max({w.desired - w.available, 0})

lower == [ReplicaSet |-> "replicaset", StatefulSet |-> "statefulset", DaemonSet |-> "daemonset", Job |-> "job"]

\* "A ReplicaSet's pods belong to its deployment ... Static pods, owned by their
\* node, are pods of their own."
podWorkload(name, form) ==
    LET controllers == SelectSeq(form.owners, LAMBDA o : o.controller)
        owner == Head(controllers)
        cut == Len(owner.name) - Len(form.hash)
    IN  IF controllers = <<>> \/ owner.kind = "Node" THEN <<"pod", name>>
        ELSE IF owner.kind = "ReplicaSet" /\ form.hash # <<>>
                /\ cut >= 0 /\ SubSeq(owner.name, cut + 1, Len(owner.name)) = form.hash
        THEN <<"deployment", SubSeq(owner.name, 1, cut)>>
        ELSE <<lower[owner.kind], owner.name>>

FirstOf(reasons) ==
    LET given == SelectSeq(reasons, LAMBDA r : r # <<>>)
    IN  IF given = <<>> THEN <<>> ELSE Head(given)

startingReasons == {<<"ContainerCreating">>, <<"PodInitializing">>}

Waiting(c) == IF c.state # "waiting" \/ c.reason \in startingReasons THEN <<>> ELSE c.reason
InitWaiting(c) == IF Waiting(c) = <<>> THEN <<>> ELSE <<"Init">> \o Waiting(c)
Terminated(c) == IF c.state # "terminated" \/ c.reason = <<"Completed">> THEN <<>> ELSE c.reason

Each(cs, Of(_)) == [i \in DOMAIN cs |-> Of(cs[i])]

\* "why a pod is not running well, the way kubectl's STATUS column does"
reason(form) ==
    LET scheduled == findCondition(form.conditions, "PodScheduled")
    IN  IF form.phase = "Succeeded" THEN <<>>
        ELSE FirstOf(<<IF form.phase = "Failed" THEN form.reason ELSE <<>>,
                       IF scheduled.status = "False" THEN scheduled.reason ELSE <<>> >>
                     \o Each(form.inits, InitWaiting)
                     \o Each(form.containers, Waiting)
                     \o Each(form.containers, Terminated))

\* Of the containers only why their run before this one ended is used any further.
pod(p) ==
    LET form == objects.pods[p]
    IN  [namespace |-> p.namespace, name |-> p.name, workload |-> podWorkload(p.name, form),
         phase |-> form.phase, ready |-> findCondition(form.conditions, "Ready").status = "True",
         reason |-> reason(form), lastReason |-> FirstOf(Each(form.containers, LAMBDA c : c.last))]

WorkloadKey(p) == <<p.namespace, p.workload[1], p.workload[2]>>

ClusterState ==
    [nodes |-> {node(n) : n \in {n \in NodeNames : objects.nodes[n] # NotThere}},
     workloads |-> {workload(w) : w \in {w \in WorkloadIds : objects.workloads[w] # NotThere}},
     pods |-> {pod(p) : p \in {p \in PodIds : objects.pods[p] # NotThere}}]

-----------------------------------------------------------------------------
(* The cluster page *)

InPhase(state, phase) == {p \in state.pods : p.phase = phase}

\* "leaves finished pods out of not ready, a completed job is fine"
Counts(state) ==
    [nodes |-> Cardinality(state.nodes),
     nodesReady |-> Cardinality({n \in state.nodes : n.ready}),
     pods |-> Cardinality(state.pods),
     podsRunning |-> Cardinality(InPhase(state, "Running")),
     podsNotReady |-> Cardinality({p \in InPhase(state, "Running") : ~p.ready}),
     podsPending |-> Cardinality(InPhase(state, "Pending")),
     podsFailed |-> Cardinality(InPhase(state, "Failed")),
     workloads |-> Cardinality(state.workloads),
     workloadsReady |-> Cardinality({w \in state.workloads : Missing(w) = 0})]

\* The page shows the counts of the saved state.
clusterSummary == Counts(ClusterState)

-----------------------------------------------------------------------------
(* The rules *)

inNamespace(ruleNamespace, namespace) == ruleNamespace \in {AnyNamespace, namespace}

\* What is wrong with one of the pods; the code takes the first in the API's order.
podReason(pods) ==
    LET given == {p.reason : p \in pods} \ {<<>>}
    IN  IF given = {} THEN {<<>>} ELSE given

\* Mutant: pods that belong to no workload are not looked at.
Keys_Workloads(metric, namespace, state) ==
    {Key(w) : w \in {w \in state.workloads : inNamespace(namespace, w.namespace)}}

\* "Pending and restart rules check every workload and the pods that belong to none."
Keys(metric, namespace, state) ==
    {Key(w) : w \in {w \in state.workloads : inNamespace(namespace, w.namespace)}}
    \cup (IF metric = "kube_workload" THEN {}
          ELSE {WorkloadKey(p) : p \in {p \in state.pods : inNamespace(namespace, p.namespace)}})

PodsOf(key, state) == {p \in state.pods : WorkloadKey(p) = key}

kubeTargets(metric, namespace, state) ==
    CASE metric = "kube_node" ->
            {[target |-> n.name, value |-> IF n.ready THEN 0 ELSE 1, reason |-> n.pressure] : n \in state.nodes}
      [] metric = "kube_workload" ->
            {[target |-> Key(w), value |-> Missing(w), reason |-> podReason(PodsOf(Key(w), state))] :
                w \in {w \in state.workloads : Key(w) \in Keys(metric, namespace, state)}}
      [] metric = "kube_pending" ->
            {LET pending == PodsOf(key, state) \cap InPhase(state, "Pending")
             IN  [target |-> key, value |-> Cardinality(pending), reason |-> podReason(pending)] :
                key \in Keys(metric, namespace, state)}

-----------------------------------------------------------------------------
(* The cluster *)

StatesInit ==
    objects = [nodes |-> [n \in NodeNames |-> NotThere], workloads |-> [w \in WorkloadIds |-> NotThere],
           pods |-> [p \in PodIds |-> NotThere]]

NodeChanges(n, form) == objects' = [objects EXCEPT !.nodes[n] = form]
WorkloadChanges(w, form) == objects' = [objects EXCEPT !.workloads[w] = form]
PodChanges(p, form) == objects' = [objects EXCEPT !.pods[p] = form]

StatesNext ==
    \/ \E n \in NodeNames, form \in NodeForms \cup {NotThere} : NodeChanges(n, form)
    \/ \E w \in WorkloadIds, form \in WorkloadForms \cup {NotThere} : WorkloadChanges(w, form)
    \/ \E p \in PodIds, form \in PodForms \cup {NotThere} : PodChanges(p, form)

StatesSpec == StatesInit /\ [][StatesNext]_objects

-----------------------------------------------------------------------------
(* Properties *)

Total(targets) == MapThenSumSet(LAMBDA t : t.value, targets)

\* Counts and kubeTargets: whatever the API shows, the cluster page and the rules of
\* the whole cluster agree: as many nodes are alerted about as are not ready, as
\* many workloads as are short of replicas, and every pending pod counts for one
\* target, also one that has no workload or whose ReplicaSet has no deployment.  A
\* rule of a namespace sees what that of the cluster sees there.
RulesSeePage ==
    LET state == ClusterState
        counts == clusterSummary
        Of(metric) == kubeTargets(metric, AnyNamespace, state)
    IN  /\ Total(Of("kube_node")) = counts.nodes - counts.nodesReady
        /\ Cardinality({t \in Of("kube_workload") : t.value > 0}) = counts.workloads - counts.workloadsReady
        /\ Total(Of("kube_pending")) = counts.podsPending
        /\ \A metric \in {"kube_workload", "kube_pending"}, w \in WorkloadIds :
              kubeTargets(metric, w.namespace, state) = {t \in Of(metric) : t.target[1] = w.namespace}

=============================================================================
