------------------------------- MODULE Charts -------------------------------
(***************************************************************************)
(* The charts and the rollups they are read from.  A sample goes into the  *)
(* raw table; TimescaleDB's jobs build a bucket's 1 minute rollup from     *)
(* the raw rows and its 1 hour rollup from the 1 minute one, as long as    *)
(* the bucket is in the job's window, and drop what is older than its      *)
(* retention.  QuerySeries picks one of the three for a chart.  The checks *)
(* of an endpoint and the states of a cluster have a long table instead.   *)
(*                                                                         *)
(*   collector/main.go            openStore: the retention that is allowed *)
(*   internal/store/series.go     QuerySeries, pickSource                  *)
(*   internal/store/endpoints.go, kube.go   EndpointSeries, ClusterSeries  *)
(*   internal/api/api.go, kube.go; client/internal/server/server.go,       *)
(*   kube.go                      timeRange and the charts' handlers       *)
(*   internal/store/migrations/002, 003   the rollups and their windows    *)
(*                                                                         *)
(* One bucket of one series is followed, the one that begins at time 0,    *)
(* day by day.  TimescaleDB is external: a job runs at some time of a day, *)
(* and a bucket that changed is refreshed before it leaves the window.     *)
(***************************************************************************)
EXTENDS Integers, FiniteSets

CONSTANTS
    Samples,       \* the samples of the bucket
    Days,          \* retentions people set, in days
    Minute, Hour, Day,   \* in seconds
    MinuteWindow,  \* start_offset of the 1 minute rollups' policy, in days
    HourWindow,    \* start_offset of the 1 hour rollups' policy, in days
    MaxAge,        \* bound: the age of the bucket, in days
    MaxPoints,     \* bound: the points a chart asks for
    DefaultMaxPoints,
    ChartEnds,     \* how long after the bucket begins a chart ends
    NotGiven       \* a parameter that a request leaves out

\* The windows are no longer than migration 003 makes them.
ASSUME ChartsAssumption ==
    /\ Days \subseteq Nat \ {0}
    /\ {MinuteWindow, HourWindow, MaxAge, MaxPoints, Minute, Hour, Day} \subseteq Nat
    /\ MinuteWindow <= 1 /\ HourWindow <= 3
    /\ DefaultMaxPoints \in Nat \ {0}
    /\ 1 < Minute /\ Minute < Hour /\ Hour < Day
    /\ ChartEnds \subseteq Nat \ {0}

VARIABLES
    retention,   \* Retention, in days
    age,         \* of the bucket, in days
    arrived,     \* samples that arrived
    onTime,      \* history: the samples that arrived in the 1 minute rollups' window
    rows,        \* the bucket's samples in the raw table, in each rollup and in the long table
    made,        \* rollups the bucket was materialized in; before, a query reads what they are made from
    stale        \* rollups made from something that changed since

chartVars == <<retention, age, arrived, onTime, rows, made, stale>>

Rollups == {"1m", "1h"}
Sources == {"raw", "long"} \cup Rollups
Windows(rollup) == IF rollup = "1m" THEN MinuteWindow ELSE HourWindow

\* "the hourly rollups are built from the last 2 days of minute rollups"
openStore(r) == r["1m"] >= 3

ChartsInit ==
    /\ retention \in {r \in [{"raw"} \cup Rollups -> Days] : openStore(r)}
    /\ age = 0
    /\ arrived = {}
    /\ onTime = {}
    /\ rows = [s \in Sources |-> {}]
    /\ made = {}
    /\ stale = {}

-----------------------------------------------------------------------------
(* Samples and jobs *)

\* A sample is inserted, however late.
SampleArrives(s) ==
    /\ s \notin arrived
    /\ arrived' = arrived \cup {s}
    /\ onTime' = IF age <= MinuteWindow THEN onTime \cup {s} ELSE onTime
    /\ rows' = [rows EXCEPT !["raw"] = @ \cup {s}, !["long"] = @ \cup {s}]
    /\ stale' = stale \cup {"1m"}
    /\ UNCHANGED <<retention, age, made>>

MadeFrom(rollup) == IF rollup = "1m" THEN "raw" ELSE "1m"

\* What a query of a table or of a rollup sees: materialized_only is off.
Sees1m == IF "1m" \in made THEN rows["1m"] ELSE rows["raw"]
Sees(source) ==
    CASE source \in {"raw", "long"} -> rows[source]
      [] source = "1m" -> Sees1m
      [] source = "1h" -> IF "1h" \in made THEN rows["1h"] ELSE Sees1m

ToRefresh(rollup) == rollup \in stale \/ rollup \notin made

\* A refresh of the bucket, which makes the hours stale when it is one of the minutes.
Refresh(rollup) ==
    /\ age <= Windows(rollup)
    /\ ToRefresh(rollup)
    /\ rows' = [rows EXCEPT ![rollup] = Sees(MadeFrom(rollup))]
    /\ made' = made \cup {rollup}
    /\ stale' = (stale \ {rollup}) \cup (IF rollup = "1m" THEN {"1h"} ELSE {})
    /\ UNCHANGED <<retention, age, arrived, onTime>>

\* The long tables are kept "as long as the hourly rollups".
DaysKept(source) == IF source = "long" THEN retention["1h"] ELSE retention[source]

\* The retention policy of the table or the rollup.
Drop(source) ==
    /\ age > DaysKept(source)
    /\ rows[source] # {}
    /\ rows' = [rows EXCEPT ![source] = {}]
    /\ UNCHANGED <<retention, age, arrived, onTime, made, stale>>

\* What is to be refreshed is, on the last day it can be, and what is to be dropped is.
DayPasses ==
    /\ age < MaxAge
    /\ \A rollup \in Rollups : ToRefresh(rollup) => age # Windows(rollup)
    /\ \A source \in Sources : age > DaysKept(source) => rows[source] = {}
    /\ age' = age + 1
    /\ UNCHANGED <<retention, arrived, onTime, rows, made, stale>>

ChartsNext ==
    \/ \E s \in Samples : SampleArrives(s)
    \/ \E rollup \in Rollups : Refresh(rollup)
    \/ \E source \in Sources : Drop(source)
    \/ DayPasses

ChartsSpec == ChartsInit /\ [][ChartsNext]_chartVars

-----------------------------------------------------------------------------
(* Queries *)

roundUp(d, unit) == IF d <= unit THEN unit ELSE ((d + unit - 1) \div unit) * unit

\* The number of seconds a point stands for.
Step(q) == (q.to - q.from) \div q.max + 1

Kept(source) == retention[source] * Day

\* Mutant: the raw rows are taken as kept as long as the 1 minute rollups.
pickSource_Longer(rawOnly, q, now) ==
    CASE rawOnly \/ (Step(q) < Minute /\ q.from >= now - Kept("1m")) -> [source |-> "raw", step |-> Step(q)]
      [] ~rawOnly /\ Step(q) >= Minute /\ Step(q) < Hour /\ q.from >= now - Kept("1m") ->
            [source |-> "1m", step |-> roundUp(Step(q), Minute)]
      [] OTHER -> [source |-> "1h", step |-> roundUp(Step(q), Hour)]

\* "the finest data that is still kept for the whole range"
pickSource(rawOnly, q, now) ==
    IF rawOnly \/ (Step(q) < Minute /\ q.from >= now - Kept("raw"))
    THEN [source |-> "raw", step |-> Step(q)]
    ELSE IF Step(q) < Hour /\ q.from >= now - Kept("1m")
    THEN [source |-> "1m", step |-> roundUp(Step(q), Minute)]
    ELSE [source |-> "1h", step |-> roundUp(Step(q), Hour)]

\* seriesSQL and the others: the rows from q.from up to q.to, in steps counted from the epoch.
Points(q, step) == (q.to - 1) \div step - q.from \div step + 1

WithMaxPoints(q) == IF q.max > 0 THEN q ELSE [q EXCEPT !.max = DefaultMaxPoints]

\* Every metric but cpu_core has rollups.
QuerySeries(q, now) == pickSource(q.of = "cpu_core", WithMaxPoints(q), now)

EndpointSeries(q) == [source |-> "long", step |-> Step(WithMaxPoints(q))]
ClusterSeries(q) == [source |-> "long", step |-> Step(WithMaxPoints(q))]

\* "An empty to means now and an empty from means an hour before to."
timeRange(asked, now) ==
    LET to == IF asked.to = NotGiven THEN now ELSE asked.to
    IN  [asked EXCEPT !.to = to, !.from = IF @ = NotGiven THEN to - Hour ELSE @]

\* The dashboard's handlers; a range that is empty is refused.
getSeries(asked, now) == QuerySeries(timeRange(asked, now), now)
getEndpointSeries(asked, now) == EndpointSeries(timeRange(asked, now))
getClusterSeries(asked, now) == ClusterSeries(timeRange(asked, now))

Chart(asked, now) ==
    CASE asked.of = "endpoint" -> getEndpointSeries(asked, now)
      [] asked.of = "cluster" -> getClusterSeries(asked, now)
      [] OTHER -> getSeries(asked, now)

\* What browsers ask for.
Asked ==
    [of : {"host", "cpu_core", "endpoint", "cluster"}, from : {NotGiven} \cup {-n * Day : n \in 0 .. 2},
     to : {NotGiven} \cup ChartEnds, max : 0 .. MaxPoints]

-----------------------------------------------------------------------------
(* Properties *)

Current(source) ==
    CASE source \in {"raw", "long"} -> TRUE
      [] source = "1m" -> ~ToRefresh("1m")
      [] source = "1h" -> ~ToRefresh("1m") /\ ~ToRefresh("1h")

\* Whatever retention openStore allows and whenever the jobs run, a chart whose range
\* has the bucket shows every sample of it that arrived within the 1 minute rollups'
\* window: pickSource never picks rows that were dropped while they are kept elsewhere,
\* and no refresh replaces an hour by what is left of its minutes.  Only what is older
\* than the hours' retention, or than the raw rows' for a metric without rollups, is
\* gone.  It does so in "at most MaxPoints points", or one more, since steps begin at
\* the epoch and not where the chart does.
ChartShows ==
    \A s \in onTime, asked \in Asked :
        LET q == timeRange(asked, age * Day)
            picked == Chart(asked, age * Day)
        IN  q.from <= 0 /\ 0 < q.to =>
            /\ Points(q, picked.step) <= WithMaxPoints(q).max + 1
            /\ Current(picked.source) =>
                  \/ s \in Sees(picked.source)
                  \/ (q.of = "cpu_core" \/ picked.source \in {"1h", "long"}) /\ age > DaysKept(picked.source)

=============================================================================
