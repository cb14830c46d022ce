------------------------------ MODULE Snapshots -----------------------------
(***************************************************************************)
(* A host's readings, from the counters the agent reads to the pages that  *)
(* show them.  The agent turns cumulative counters into rates, sends a     *)
(* snapshot on every tick and gives up waiting for an answer after a       *)
(* while, so a call it gave up on can be handled after a later one.  The   *)
(* collector keeps every host's newest snapshot; the fleet, the host page  *)
(* and /metrics are computed from it.                                      *)
(*                                                                         *)
(*   internal/monitor/monitor.go        Collect, networks, diskIO, ...     *)
(*   agent/main.go                      the monitoring and ping loops      *)
(*   internal/store/ingest.go           SaveSnapshot                       *)
(*   internal/store/query.go, internal/api/api.go, client/internal/server  *)
(*                                      the fleet, a host and /metrics     *)
(*                                                                         *)
(* One device is followed: an interface, a disk or a container.  The       *)
(* readers differ in what they do when a reading fails.  A rate is the     *)
(* pair of the two numbers the code divides.                               *)
(***************************************************************************)
EXTENDS Integers, FiniteSets, FiniteSetsExt

CONSTANTS
    Readings,    \* sets of what df says of the disks: percents, or Unread
    Versions,    \* agent versions
    UpWindow,    \* how long after it was last heard from a host counts as up
    CustomWindow, \* customValueWindow
    MaxTicks,    \* bound: the time
    MaxMoved,    \* bound: what the device moves
    MaxSent,     \* bound: snapshots on their way
    Unread,      \* a percent that does not parse
    Absent

\* What a rate and a snapshot are.
Rates == [by : Int, over : Int] \cup {Absent}
SnapshotForms == [time : Nat, rate : Rates, version : Versions, disks : SUBSET (Nat \cup {Unread})]

ASSUME SnapshotsAssumption ==
    /\ {UpWindow, CustomWindow, MaxTicks, MaxMoved, MaxSent} \subseteq Nat
    /\ \A disks \in Readings : disks \subseteq Nat \cup {Unread} /\ IsFiniteSet(disks)
    /\ Absent \notin Nat /\ Unread \notin Nat /\ Absent # Unread
    /\ Absent \notin SnapshotForms

VARIABLES
    \* the host
    reader,      \* which of the collector's functions reads the device
    counter,     \* the kernel's counter, Absent while the device is away
    moved,       \* history: what the device really moved, by time
    \* the agent
    prev,        \* prevNetworks, prevDiskIO or prevContainers: the last counter, or Absent
    prevTime,    \* prevNetTime, ...
    version,
    collected,   \* when it collected last
    \* snapshots HandleMonitorData did not handle yet
    sent,
    \* the database
    host,        \* the hosts row: last_seen and agent_version, Absent without a row
    latest,      \* host_latest, Absent without a row
    custom,      \* custom_metrics: the times of one metric's values
    \* history
    newestSaved, \* the time of the newest snapshot saved for this row
    tick         \* the time

agentVars == <<prev, prevTime, version, collected>>
deviceVars == <<reader, counter, moved>>
hostVars == <<host, latest, custom, newestSaved>>
snapshotVars == <<agentVars, deviceVars, hostVars, sent, tick>>

SnapshotsInit ==
    /\ reader \in {"networks", "diskIO", "containers"}
    /\ counter \in {0, Absent}
    /\ moved = [t \in 0 .. MaxTicks |-> 0]
    /\ prev = Absent
    /\ prevTime = 0
    /\ version \in Versions
    /\ collected = 0
    /\ sent = {}
    /\ host = [seen |-> Absent, version |-> Absent]
    /\ latest = Absent
    /\ custom = {}
    /\ newestSaved = Absent
    /\ tick = 0

-----------------------------------------------------------------------------
(* The host *)

\* What is moved at a time is moved before the agent's reading at that time.
Moves ==
    /\ counter # Absent
    /\ collected < tick
    /\ moved[tick] < MaxMoved
    /\ counter' = counter + 1
    /\ moved' = [t \in 0 .. MaxTicks |-> IF t >= tick THEN moved[tick] + 1 ELSE moved[t]]
    /\ UNCHANGED <<reader, agentVars, hostVars, sent, tick>>

\* The interface is reset, the disk taken out, or the container started again, which
\* gives it another id.
DeviceGoes ==
    /\ counter # Absent
    /\ counter' = Absent
    /\ UNCHANGED <<reader, moved, agentVars, hostVars, sent, tick>>

\* Its counter begins at 0.  An interface can be reset without going away between two
\* readings; a container that comes back is another one, so it does so only after the
\* agent saw that it is gone.
DeviceComes ==
    /\ counter = Absent
    /\ reader = "containers" => prev = Absent
    /\ counter' = 0
    /\ UNCHANGED <<reader, moved, agentVars, hostVars, sent, tick>>

TickPasses ==
    /\ tick < MaxTicks
    /\ tick' = tick + 1
    /\ UNCHANGED <<deviceVars, agentVars, hostVars, sent>>

-----------------------------------------------------------------------------
(* The agent *)

Per(elapsed, from, to) == [by |-> to - from, over |-> elapsed]

\* Mutant: a counter that went backwards is subtracted all the same, and wraps around.
networkRates_Wraps(from, to, elapsed) ==
    IF elapsed <= 0 THEN Absent
    ELSE IF to < from THEN [by |-> MaxMoved + 1, over |-> elapsed] ELSE Per(elapsed, from, to)

networkRates(from, to, elapsed) ==
    IF elapsed <= 0 \/ to < from THEN Absent ELSE Per(elapsed, from, to)

\* systats' RatesSince: 0 for a counter that went backwards.
RatesSince(from, to, elapsed) ==
    Per(elapsed, from, IF to < from THEN from ELSE to)

\* Each reader: the rate it reports, and what it remembers.  A failed reading of the
\* interfaces is an empty one.
networks(read) ==
    [rate |-> IF read \in {Absent, Unread} \/ prev = Absent THEN Absent
              ELSE networkRates(prev, read, tick - prevTime),
     prev |-> IF read = Unread THEN Absent ELSE read,
     time |-> tick]

\* A failed reading leaves both.
diskIO(read) ==
    IF read = Unread THEN [rate |-> Absent, prev |-> prev, time |-> prevTime]
    ELSE [rate |-> IF read = Absent \/ prev = Absent THEN Absent ELSE RatesSince(prev, read, tick - prevTime),
          prev |-> read, time |-> tick]

\* A container that runs but that the CRI socket does not know yet is left out.
containers(read, unnamed) ==
    IF read = Unread THEN [rate |-> Absent, prev |-> prev, time |-> prevTime]
    ELSE [rate |-> IF read = Absent \/ unnamed \/ prev = Absent \/ tick <= prevTime THEN Absent
                   ELSE RatesSince(prev, read, tick - prevTime),
          prev |-> IF unnamed THEN Absent ELSE read, time |-> tick]

\* namePodContainer: without an answer from the CRI socket every container is kept.
Unnamed(known, answered) == answered /\ ~known

Reads(read, known, answered) ==
    CASE reader = "networks" -> networks(read)
      [] reader = "diskIO" -> diskIO(read)
      [] reader = "containers" -> containers(read, Unnamed(known, answered))

\* disks: a filesystem that is never a real disk, or that is to be ignored, is left out.
KeptDisks(disks, ignored) == disks \ ignored

\* A tick of the monitoring loop: Collect, and the call that carries the snapshot.
Collect(read, known, answered, disks, ignored) ==
    /\ collected < tick
    /\ Cardinality(sent) < MaxSent
    /\ read \in {counter, Unread}
    /\ LET reading == Reads(read, known, answered)
       IN  /\ prev' = reading.prev
           /\ prevTime' = reading.time
           /\ sent' = sent \cup {[time |-> tick, rate |-> reading.rate, version |-> version,
                                    disks |-> KeptDisks(disks, ignored)]}
    /\ collected' = tick
    /\ UNCHANGED <<deviceVars, version, hostVars, tick>>

\* Another build is installed, or the agent restarts: it knows no counters.
AgentRestarts(v) ==
    /\ version' = v
    /\ prev' = Absent
    /\ prevTime' = 0
    /\ UNCHANGED <<deviceVars, collected, hostVars, sent, tick>>

-----------------------------------------------------------------------------
(* The collector *)

\* Mutant: what arrives last is kept.
Upsert_Last(snapshot) == snapshot

\* "keep the newest snapshot even if an older one arrives late"
Upsert(snapshot) ==
    IF latest # Absent /\ latest.time > snapshot.time THEN latest ELSE snapshot

SaveSnapshot(snapshot) ==
    /\ latest' = Upsert(snapshot)
    /\ host' = [host EXCEPT !.seen = tick]
    /\ UNCHANGED custom
    /\ newestSaved' = IF newestSaved # Absent /\ newestSaved > snapshot.time THEN newestSaved ELSE snapshot.time

\* A snapshot of a host without a row is refused.
HandleMonitorData(snapshot) ==
    /\ snapshot \in sent
    /\ sent' = sent \ {snapshot}
    /\ IF host = Absent THEN UNCHANGED hostVars ELSE SaveSnapshot(snapshot)
    /\ UNCHANGED <<deviceVars, agentVars, tick>>

\* sendMonitorData logs the error; the snapshot is not sent again.
SnapshotLost(snapshot) ==
    /\ snapshot \in sent
    /\ sent' = sent \ {snapshot}
    /\ UNCHANGED <<deviceVars, agentVars, hostVars, tick>>

SaveCustomMetric(at) ==
    /\ custom' = custom \cup {at}
    /\ host' = [host EXCEPT !.seen = tick]

\* A value the command line sent now or a tick ago.  One that is no number, or of a
\* host without a row, is refused.
HandleCustomMonitorData(at) ==
    /\ host # Absent
    /\ SaveCustomMetric(at)
    /\ UNCHANGED <<deviceVars, agentVars, latest, newestSaved, sent, tick>>

HandlePing ==
    /\ host # Absent
    /\ host' = [seen |-> tick, version |-> version]
    /\ UNCHANGED <<deviceVars, agentVars, latest, custom, newestSaved, sent, tick>>

RemoveHost ==
    /\ host # Absent
    /\ host' = Absent
    /\ latest' = Absent
    /\ custom' = {}
    /\ newestSaved' = Absent
    /\ UNCHANGED <<deviceVars, agentVars, sent, tick>>

AddHost ==
    /\ host = Absent
    /\ host' = [seen |-> Absent, version |-> Absent]
    /\ UNCHANGED <<deviceVars, agentVars, latest, custom, newestSaved, sent, tick>>

-----------------------------------------------------------------------------
(* The pages *)

isUp(seen) == seen # Absent /\ tick - seen <= UpWindow

parsePercent(disks) == disks \ {Unread}

\* The fullest disk, and the rates of the interfaces that have any.
fillSummary(data) ==
    [disk |-> IF parsePercent(data.disks) = {} THEN 0 ELSE Max(parsePercent(data.disks)),
     rate |-> IF reader = "networks" THEN data.rate ELSE Absent,
     version |-> data.version]

\* A host that never sent a snapshot.
NoSummary == [disk |-> 0, rate |-> Absent, version |-> Absent]

\* A row of the fleet.  "a ping is newer than the snapshot right after an update"
FleetSummary ==
    LET filled == IF latest = Absent THEN NoSummary ELSE fillSummary(latest)
    IN  [seen |-> host.seen,
         time |-> IF latest = Absent THEN Absent ELSE latest.time,
         disk |-> filled.disk,
         rate |-> filled.rate,
         version |-> IF host.version # Absent THEN host.version ELSE filled.version]

Fleet ==
    LET summary == FleetSummary
    IN  [up |-> isUp(summary.seen), seen |-> summary.seen, time |-> summary.time,
         disk |-> summary.disk, rate |-> summary.rate, version |-> summary.version]

\* The fleet page shows the collector's answer.
getFleet == Fleet

LatestSnapshots == [seen |-> host.seen, snapshot |-> latest]

\* The newest value of a custom metric, while it is in the window.
LatestCustomValues ==
    LET recent == {t \in custom : t >= tick - CustomWindow}
    IN  IF recent = {} THEN Absent ELSE Max(recent)

Snapshots ==
    [up |-> isUp(LatestSnapshots.seen), snapshot |-> LatestSnapshots.snapshot, custom |-> LatestCustomValues]

\* No line for a percent that does not parse; the interfaces have counters, not rates.
addHostMetrics(data) ==
    [disks |-> parsePercent(data.disks), rate |-> IF reader = "networks" THEN Absent ELSE data.rate]

\* /metrics: "a host that stopped reporting only has old values"
getMetrics ==
    LET answer == Snapshots
    IN  [up |-> answer.up,
         values |-> IF answer.up /\ answer.snapshot # Absent THEN addHostMetrics(answer.snapshot) ELSE Absent,
         custom |-> IF answer.up THEN answer.custom ELSE Absent]

\* A host that never sent a snapshot is not found.
LatestSnapshot == IF latest = Absent THEN Absent ELSE [seen |-> host.seen, snapshot |-> latest]

Snapshot ==
    IF LatestSnapshot = Absent THEN Absent
    ELSE [up |-> isUp(LatestSnapshot.seen), time |-> LatestSnapshot.snapshot.time,
          snapshot |-> LatestSnapshot.snapshot]

\* The host page shows the collector's answer.
getHost == Snapshot

-----------------------------------------------------------------------------
AgentNext ==
    \/ \E read \in {counter, Unread}, known, answered \in BOOLEAN, disks, ignored \in Readings :
          Collect(read, known, answered, disks, ignored)
    \/ \E v \in Versions : AgentRestarts(v)

DeviceNext == Moves \/ DeviceGoes \/ DeviceComes \/ TickPasses

StoreNext ==
    \/ \E snapshot \in sent : HandleMonitorData(snapshot) \/ SnapshotLost(snapshot)
    \/ \E at \in {tick, tick - 1} \cap Nat : HandleCustomMonitorData(at)
    \/ HandlePing
    \/ RemoveHost
    \/ AddHost

SnapshotsNext == AgentNext \/ DeviceNext \/ StoreNext

SnapshotsSpec == SnapshotsInit /\ [][SnapshotsNext]_snapshotVars

-----------------------------------------------------------------------------
(* Properties *)

RateTrue(snapshot) ==
    snapshot.rate # Absent =>
        snapshot.rate.by <= moved[snapshot.time] - moved[snapshot.time - snapshot.rate.over]

\* networkRates, diskIO and containers: whatever readings fail, devices go and come
\* back and counters start over, a rate never says more than the device moved in
\* the time it is given for.
RatesTrue ==
    /\ \A snapshot \in sent : RateTrue(snapshot)
    /\ latest # Absent => RateTrue(latest)

\* SaveSnapshot and the pages: snapshots are handled in any order, also after the
\* agent gave up on them, and hosts are removed and added again; the fleet and the
\* host page show the newest snapshot there is, agree with /metrics whether the host
\* is up, and the fleet's disk is the fullest of those /metrics lists, and nothing of
\* a host that is down is in /metrics, a custom metric included.
PagesShowNewest ==
    host # Absent =>
        /\ getFleet.time = newestSaved
        /\ getFleet.up = getMetrics.up
        /\ getHost # Absent => getFleet.up = getHost.up /\ getHost.time = newestSaved
        /\ getMetrics.custom # Absent => getFleet.up /\ \A t \in custom : t <= getMetrics.custom
        /\ getMetrics.values # Absent =>
              /\ getFleet.up
              /\ \A pct \in getMetrics.values.disks : pct <= getFleet.disk
              /\ getFleet.disk \in getMetrics.values.disks \cup {0}

=============================================================================
