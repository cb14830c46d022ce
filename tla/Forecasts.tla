------------------------------ MODULE Forecasts -----------------------------
(***************************************************************************)
(* When a host's disks fill up.  The store fits a line to what each mount  *)
(* used over the last days; the fleet shows the disk that is full soonest  *)
(* and keeps the answer for a while, alert rules compare a device's days   *)
(* with their threshold.                                                   *)
(*                                                                         *)
(*   internal/store/forecast.go   forecastDays, SoonestDiskFull, ...       *)
(*   internal/api/api.go          soonestDiskFull, DiskForecasts           *)
(*                                                                         *)
(* The fit itself is the database's: a mount has one of the Fits, which    *)
(* are chosen so that the divisions leave no remainder.                    *)
(***************************************************************************)
EXTENDS Integers, FiniteSets, FiniteSetsExt, Sequences

CONSTANTS
    DeviceOf,     \* the device of every mount
    Fits,         \* [samples, pct, bytes, perDay, steady]
    MinSamples,   \* forecastMinSamples
    Horizon,      \* forecastHorizonDays
    ForecastTTL,  \* forecastCacheTTL
    NotFilling,   \* no days
    ErrNotFound

ASSUME ForecastsAssumption ==
    /\ {MinSamples, Horizon, ForecastTTL} \subseteq Nat \ {0}
    /\ Fits \subseteq [samples : Nat, pct : Int, bytes : Nat, perDay : Int, steady : BOOLEAN]
    /\ NotFilling \notin Nat /\ ErrNotFound \notin Nat

VARIABLES
    fits,         \* what the hourly rollups hold of every mount
    diskFull,     \* the days the collector remembers, and
    forecastAge,  \* how long ago it asked, at most ForecastTTL
    were          \* history: what the alert rules' days said, now and before

forecastVars == <<fits, diskFull, forecastAge, were>>

Mounts == DOMAIN DeviceOf
Devices == {DeviceOf[m] : m \in Mounts}

-----------------------------------------------------------------------------
(* The store *)

NoForecast(reason) == [days |-> NotFilling, noForecast |-> reason]

\* The days until the disk is full, or why there is no forecast.
forecastDays(fit) ==
    IF fit.samples < MinSamples THEN NoForecast("collecting")
    ELSE IF fit.perDay <= 0 \/ fit.pct <= 0 THEN NoForecast("not_growing")
    ELSE IF ~fit.steady THEN NoForecast("not_steady")
    ELSE LET left == Max({(fit.bytes * (100 - fit.pct)) \div fit.pct, 0})
             days == left \div fit.perDay
         IN  IF days > Horizon THEN NoForecast("over_a_year")
             ELSE [days |-> days, noForecast |-> ""]

\* queryForecasts, of the mounts of a device or of all of them.
queryForecasts(of, devices) ==
    {[device |-> DeviceOf[m], mount |-> m, samples |-> of[m].samples,
      days |-> forecastDays(of[m]).days, noForecast |-> forecastDays(of[m]).noForecast] :
        m \in {m \in Mounts : DeviceOf[m] \in devices}}

Filling(forecasts) == {f.days : f \in {f \in forecasts : f.days # NotFilling}}

SoonestDiskFull(of) ==
    LET days == Filling(queryForecasts(of, Devices))
    IN  IF days = {} THEN NotFilling ELSE Min(days)

\* The host's page: a forecast for each of its disks.
DiskForecasts(of) == queryForecasts(of, Devices)

\* What alert rules compare: "A disk that is not filling up reads as
\* forecastHorizonDays, so an open alert on it resolves."
DaysUntilFull(of, device) ==
    LET found == {f \in queryForecasts(of, {device}) : f.samples >= MinSamples}
    IN  IF found = {} THEN ErrNotFound ELSE Min(Filling(found) \cup {Horizon})

\* The soonest of the days the rules see, the horizon when they see none.
RulesSoonest(of) ==
    Min({Horizon} \cup ({DaysUntilFull(of, d) : d \in {d \in Devices : DaysUntilFull(of, d) # ErrNotFound}}))

-----------------------------------------------------------------------------
(* The collector *)

ForecastsInit ==
    /\ fits \in [Mounts -> Fits]
    /\ diskFull = NotFilling
    /\ forecastAge = ForecastTTL
    /\ were = <<RulesSoonest(fits)>>

\* Time passes, and another hour changes what a mount's line looks like.
HourPasses(m, fit) ==
    /\ fits' = [fits EXCEPT ![m] = fit]
    /\ forecastAge' = Min({forecastAge + 1, ForecastTTL})
    /\ were' = SubSeq(<<RulesSoonest(fits')>> \o were, 1, Min({Len(were) + 1, ForecastTTL}))
    /\ UNCHANGED diskFull

\* Mutant: a failed query counts as an answer too.
soonestDiskFull_Failed(fails) ==
    /\ forecastAge >= ForecastTTL
    /\ diskFull' = IF fails THEN diskFull ELSE SoonestDiskFull(fits)
    /\ forecastAge' = 0
    /\ UNCHANGED <<fits, were>>

\* A page of the fleet asks when what is remembered is too old.  "When the query
\* fails the fleet still loads, with the previous forecasts."
soonestDiskFull(fails) ==
    /\ forecastAge >= ForecastTTL
    /\ diskFull' = IF fails THEN diskFull ELSE SoonestDiskFull(fits)
    /\ forecastAge' = IF fails THEN forecastAge ELSE 0
    /\ UNCHANGED <<fits, were>>

ForecastsNext ==
    \/ \E m \in Mounts, fit \in Fits : HourPasses(m, fit)
    \/ \E fails \in BOOLEAN : soonestDiskFull(fails)

ForecastsSpec == ForecastsInit /\ [][ForecastsNext]_forecastVars

-----------------------------------------------------------------------------
(* Properties *)

\* soonestDiskFull, DaysUntilFull and DiskForecasts: as long as the fleet shows what
\* it remembers, that is what the alert rules saw when the collector asked, whatever
\* mounts a device has and whatever queries failed in between: the fleet and the alerts
\* do not disagree about the soonest disk for longer than the cache is kept.  The
\* host's page agrees with the rules at once: a rule has nothing to compare exactly
\* when the page says "collecting" of every mount of its disk.
ForecastsAgree ==
    /\ forecastAge < ForecastTTL =>
          were[forecastAge + 1] = IF diskFull = NotFilling THEN Horizon ELSE diskFull
    /\ \A device \in Devices :
          LET shown == {f \in DiskForecasts(fits) : f.device = device}
          IN  DaysUntilFull(fits, device) =
                  IF \A f \in shown : f.noForecast = "collecting" THEN ErrNotFound
                  ELSE Min({IF f.noForecast = "" THEN f.days ELSE Horizon : f \in shown})

=============================================================================
