SPECIFICATION Spec
CONSTANTS
    Service = {"calls", "licences", "metering", "teams", "sessions", "server", "adapters"}
    Infinity = Infinity
    NoLicense = NoLicense
    NoKey = NoKey
    environmentKey = NoKey
    apiCallLimit <- FewAPICalls
    MaxAlerts = 2
    StorageSize = {15, 75}
    MaxStorage = 120
    MaxAPICalls = 5
    User = {ann, bob}
    Team = {red, blue}
    Pipeline = {etl}
    NoTeam = NoTeam
    InvitedRole = {"admin", "developer"}
    MaxAssignments = 1
    Call = {c1, c2}
    System = System
    configMode = "auto"
    Execution = {e1, e2}
    Socket = {s1, s2}
    NoExecution = NoExecution
    MaxEvents = 1
    Run = {r1, r2}
    NoFile = NoFile
    Blank = Blank
    NoResult = NoResult
    MaxClock = 1
SYMMETRY Symmetry
INVARIANT PaidTierIsBacked
INVARIANT NewestAlertIsCurrent
INVARIANT TeamReadersWereMembers
 
INVARIANT TableHoldsTheUnanswered
INVARIANT OutcomesAreOwn
CHECK_DEADLOCK FALSE
