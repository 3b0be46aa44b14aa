---------------------------- MODULE UsageTracker ----------------------------
(***************************************************************************)
(* metrics/usage-tracker.js: the tracker's own daily totals, which it also   *)
(* reports to the licence manager, and the alerts about a limit that comes   *)
(* near.  The metrics collector and the reports read from it are left out.   *)
(***************************************************************************)
EXTENDS LicenseManager, Sequences

CONSTANTS
    MaxAlerts,      \* the alerts that are kept: 100 in the code
    StorageSize,    \* the sizes of writes, in MB
    MaxStorage,     \* bound: no write is tracked beyond it
    MaxAPICalls     \* bound: no call is tracked beyond it

VARIABLES
    usage,          \* the tracker's Map: metric -> today's total
    alerts,
    dying,          \* a promise of the licence manager was rejected, unhandled
    writtenUnder    \* history: metric -> the tier when it was last tracked

trackerVars == <<usage, alerts, dying, writtenUnder>>

ASSUME TrackerAssumption ==
    /\ MaxAlerts \in Nat \ {0}
    /\ StorageSize \subseteq Nat /\ MaxStorage \in Nat /\ MaxAPICalls \in Nat

\* What checkLimits() is called for and finds a limit of.
LimitedMetric == {"apiCalls", "storage"}

NoTier == [m \in LimitedMetric |-> "free"]

updateDailyUsage(metric, value) == [usage EXCEPT ![metric] = @ + value]

\* trackExecution(), given the licence manager's totals so far.  The limit
\* 'maxExecutions' that it checks is defined by no tier.
trackExecution(licence) ==
    /\ usage' = updateDailyUsage("executions", 1)
    /\ licenseUsage' = trackUsage(licence, "executions", 1)
    /\ UNCHANGED <<alerts, dying, writtenUnder>>

-----------------------------------------------------------------------------
(* Limits and alerts                                                       *)

AlertLevel == {"info", "warning", "error"}

Alert == [metric : LimitedMetric, level : AlertLevel, current : Nat, limit : Nat,
          acknowledged : BOOLEAN]

Limit(metric) == tiers[currentTier].limits[metric]

Level(current, limit) ==
    IF current >= limit THEN "error"
    ELSE IF 10 * current >= 9 * limit THEN "warning" ELSE "info"

\* Mutant: the newest alert is the one dropped.
AlertsWithOldest(alert) ==
    IF Len(alerts) = MaxAlerts THEN alerts ELSE Append(alerts, alert)

\* createAlert() keeps the latest, whatever they are about.
createAlert(alert) ==
    LET all == Append(alerts, alert)
    IN  IF Len(all) > MaxAlerts THEN Tail(all) ELSE all

\* checkLimits() with a day's total.
checkLimits(metric, current) ==
    IF Limit(metric) = Infinity \/ 4 * current < 3 * Limit(metric) THEN alerts
    ELSE createAlert([metric |-> metric, level |-> Level(current, Limit(metric)),
                      current |-> current, limit |-> Limit(metric), acknowledged |-> FALSE])

\* A metric with a limit is counted here and by the licence manager, and then
\* checked against the limit.  updateDailyUsage() does not wait for the licence
\* manager's promise, so that its try block catches nothing: above the limit
\* the promise is rejected unhandled, which ends the process in a later turn.
Track(metric, value) ==
    /\ usage' = updateDailyUsage(metric, value)
    /\ licenseUsage' = trackUsage(licenseUsage, metric, value)
    /\ dying' = (dying \/ ExceedsLimit(metric, licenseUsage[metric] + value))
    /\ alerts' = checkLimits(metric, usage[metric] + value)
    /\ writtenUnder' = [writtenUnder EXCEPT ![metric] = currentTier]

trackStorage(size) ==
    usage["storage"] + size <= MaxStorage /\ Track("storage", size)

trackAPICall ==
    usage["apiCalls"] < MaxAPICalls /\ Track("apiCalls", 1)

\* acknowledgeAlert() of an alert somebody was shown.
acknowledgeAlert(i) ==
    /\ ~alerts[i].acknowledged
    /\ alerts' = [alerts EXCEPT ![i].acknowledged = TRUE]
    /\ UNCHANGED <<usage, dying, writtenUnder>>

-----------------------------------------------------------------------------

TrackerInit ==
    /\ usage = NoUsage
    /\ alerts = <<>>
    /\ dying = FALSE
    /\ writtenUnder = NoTier

TrackerTypeOK ==
    /\ usage \in [Metric -> Nat]
    /\ alerts \in Seq(Alert) /\ Len(alerts) <= MaxAlerts
    /\ dying \in BOOLEAN
    /\ writtenUnder \in [LimitedMetric -> Tier]

\* Whoever looks for the newest alert of a metric sees today's total: while the
\* tier is the one it was last tracked under, a total of three quarters of the
\* limit or more has an alert, the newest of that metric has that total, and its
\* level is right, also when the licence manager has just rejected the total.
\* Neither the alerts that are dropped nor other tiers in between change that;
\* only the other metric's alerts may fill the whole list, which they share.
\* (usage-tracker.js:171-203, 240-286, 360-380)
NewestAlertIsCurrent ==
    \A m \in LimitedMetric :
        LET About == {i \in DOMAIN alerts : alerts[i].metric = m}
            IsCurrent(alert) ==
                alert.current = usage[m] /\ alert.level = Level(usage[m], Limit(m))
        IN  /\ writtenUnder[m] = currentTier
            /\ Limit(m) # Infinity /\ 4 * usage[m] >= 3 * Limit(m)
            => \/ About = {} /\ Len(alerts) = MaxAlerts
               \/ \E i \in About : IsCurrent(alerts[i]) /\ \A j \in About : j <= i
=============================================================================
