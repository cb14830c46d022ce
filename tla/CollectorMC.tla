----------------------------- MODULE CollectorMC ----------------------------
(***************************************************************************)
(* The parts of the collector that share no state with one another, each   *)
(* explored by itself: a behaviour is one of the start, of the endpoint    *)
(* checks, of the logins, of a host's readings (the rates, or the pages),  *)
(* of a chart, of the forecasts or of a cluster's objects.                 *)
(***************************************************************************)
EXTENDS Startup, Endpoints, Lockout, Snapshots, Charts, Forecasts, ClusterStates, TLC

CONSTANTS m1, m2, m3, d1, d2

VARIABLE part

vars == <<startupVars, endpointVars, lockoutVars, snapshotVars, chartVars, forecastVars, objects, part>>

-----------------------------------------------------------------------------
(* Constants *)

\* Readings of df: two disks, or one whose percent does not parse.
MCReadings == {{40, 90}, {Unread}}

\* A device mounted twice, and another.
MCDeviceOf == (m1 :> d1) @@ (m2 :> d1) @@ (m3 :> d2)

Fit(samples, pct, bytes, perDay, steady) ==
    [samples |-> samples, pct |-> pct, bytes |-> bytes, perDay |-> perDay, steady |-> steady]

\* Too few samples, no growth, unsteady growth; full in 2 days, full, full at the
\* horizon, full after it.
MCFits ==
    {Fit(1, 50, 4, 2, TRUE), Fit(2, 50, 4, 0, TRUE), Fit(2, 50, 4, 2, FALSE),
     Fit(2, 50, 4, 2, TRUE), Fit(2, 100, 4, 2, TRUE), Fit(2, 20, 2, 1, TRUE), Fit(2, 20, 4, 1, TRUE)}

MCNodeForms == {[c \in {"Ready"} |-> [status |-> s, reason |-> <<>>]] : s \in {"True", "Unknown"}} \cup {<<>>}

\* A deployment in one namespace and a daemonset in another.
MCWorkloadIds ==
    {[namespace |-> "media", kind |-> "deployment", name |-> <<"web">>],
     [namespace |-> "system", kind |-> "daemonset", name |-> <<"proxy">>]}

\* None of one, all of one, one too many, some missing.
MCWorkloadForms ==
    {[replicas |-> NotSet, available |-> 0], [replicas |-> NotSet, available |-> 1],
     [replicas |-> 0, available |-> 1], [replicas |-> 2, available |-> 1]}

MCPodIds == {[namespace |-> "media", name |-> <<"web", "7f", "x">>], [namespace |-> "system", name |-> <<"own">>]}

Owner(kind, name) == [kind |-> kind, name |-> name, controller |-> TRUE]
State(state, why) == [state |-> state, reason |-> why, last |-> <<>>]

PodForm(owners, hash, phase, conditions, cs) ==
    [owners |-> owners, hash |-> hash, phase |-> phase, reason |-> <<>>, conditions |-> conditions,
     inits |-> <<>>, containers |-> cs]

Unscheduled == [c \in {"PodScheduled"} |-> [status |-> "False", reason |-> <<"Unschedulable">>]]

\* A deployment's pod that pends, crashes, runs or ended, one of a ReplicaSet without a
\* deployment, a static one, and one of its own.
MCPodForms ==
    LET web == <<Owner("ReplicaSet", <<"web", "7f">>)>>
    IN  {PodForm(web, <<"7f">>, "Pending", Unscheduled, <<>>),
         PodForm(web, <<"7f">>, "Running", <<>>, <<State("waiting", <<"CrashLoopBackOff">>)>>),
         PodForm(web, <<"7f">>, "Succeeded", <<>>, <<State("terminated", <<"Completed">>)>>),
         PodForm(<<Owner("ReplicaSet", <<"web">>)>>, <<"7f">>, "Pending", <<>>, <<State("waiting", <<"ContainerCreating">>)>>),
         PodForm(<<Owner("Node", <<"n">>)>>, <<>>, "Pending", <<>>, <<>>),
         PodForm(<<Owner("DaemonSet", <<"proxy">>)>>, <<>>, "Failed", <<>>, <<State("terminated", <<"Error">>)>>),
         PodForm(<<>>, <<>>, "Pending", <<>>, <<>>)}

-----------------------------------------------------------------------------
(* The parts *)

\* A part that is not the behaviour's has one of its initial states.
MCInit ==
    /\ part \in {"startup", "endpoints", "lockout", "rates", "pages", "charts", "forecasts", "states"}
    /\ StartupInit
    /\ EndpointsInit
    /\ LockoutInit
    /\ SnapshotsInit
    /\ part # "rates" => reader = "networks" /\ counter = Absent
    /\ ChartsInit
    /\ part # "charts" => \A s \in DOMAIN retention : retention[s] = Max(Days)
    /\ ForecastsInit
    /\ part # "forecasts" => \A m \in Mounts : fits[m] = CHOOSE fit \in Fits : TRUE
    /\ StatesInit

StartupPart ==
    /\ part = "startup"
    /\ StartupNext
    /\ UNCHANGED <<endpointVars, lockoutVars, snapshotVars, chartVars, forecastVars, objects, part>>

EndpointsPart ==
    /\ part = "endpoints"
    /\ EndpointsNext
    /\ UNCHANGED <<startupVars, lockoutVars, snapshotVars, chartVars, forecastVars, objects, part>>

LockoutPart ==
    /\ part = "lockout"
    /\ LockoutNext
    /\ UNCHANGED <<startupVars, endpointVars, snapshotVars, chartVars, forecastVars, objects, part>>

\* The device and its readings: what df says does not matter.
RatesPart ==
    /\ part = "rates"
    /\ \/ DeviceNext
       \/ \E read \in {counter, Unread}, known, answers \in BOOLEAN : Collect(read, known, answers, {}, {})
       \/ \E v \in Versions : AgentRestarts(v)
       \/ \E snapshot \in sent : HandleMonitorData(snapshot)
    /\ UNCHANGED <<startupVars, endpointVars, lockoutVars, chartVars, forecastVars, objects, part>>

\* Snapshots on their way and the host's row, for a device that is away and a shorter time.
PagesPart ==
    /\ part = "pages"
    /\ \/ AgentNext
       \/ StoreNext
       \/ tick < MaxTicks - 1 /\ TickPasses
    /\ UNCHANGED <<startupVars, endpointVars, lockoutVars, chartVars, forecastVars, objects, part>>

ChartsPart ==
    /\ part = "charts"
    /\ ChartsNext
    /\ UNCHANGED <<startupVars, endpointVars, lockoutVars, snapshotVars, forecastVars, objects, part>>

ForecastsPart ==
    /\ part = "forecasts"
    /\ ForecastsNext
    /\ UNCHANGED <<startupVars, endpointVars, lockoutVars, snapshotVars, chartVars, objects, part>>

StatesPart ==
    /\ part = "states"
    /\ StatesNext
    /\ UNCHANGED <<startupVars, endpointVars, lockoutVars, snapshotVars, chartVars, forecastVars, part>>

MCNext ==
    \/ StartupPart \/ EndpointsPart \/ LockoutPart \/ RatesPart
    \/ PagesPart \/ ChartsPart \/ ForecastsPart \/ StatesPart

StartingPart(c) ==
    /\ part = "startup"
    /\ Starting(c)
    /\ UNCHANGED <<endpointVars, lockoutVars, snapshotVars, chartVars, forecastVars, objects, part>>

\* The collectors' steps are fair in the behaviours in which they start.
MCSpec ==
    /\ MCInit
    /\ [][MCNext]_vars
    /\ \A c \in Collectors : WF_vars(StartingPart(c))

\* AllServe, in the behaviours in which collectors start: collectors that start
\* together can make each other's steps fail, but in the end every one of them serves
\* and every table has its retention policy.
StartsServe == (part = "startup") => AllServe

=============================================================================
