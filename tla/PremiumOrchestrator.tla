------------------------- MODULE PremiumOrchestrator -------------------------
(***************************************************************************)
(* premium-orchestrator.js: initialisation on the first call, the executor  *)
(* that the tier allows, and what a call of executePipeline() charges and   *)
(* returns.  What happens inside a distributed execution is the subject of  *)
(* DistributedPipeline, and inside a local one of PipelineExecutor; here an *)
(* execution is an await that ends well or not.                             *)
(*                                                                         *)
(* A call is suspended while the licence file is read ("licence"), while    *)
(* the adapters start ("adapters"), in the init() of the executor           *)
(* ("executor"), before it is metered ("ready"), and while its pipeline     *)
(* runs ("running").                                                        *)
(***************************************************************************)
EXTENDS UsageTracker, TeamManager

CONSTANTS
    Call,
    System,         \* the userId of a call that names none
    configMode      \* "auto", "local" or "distributed"

VARIABLES
    initialized,
    executors,      \* those created so far; this.executor is the last one
    mode,
    calls           \* call -> where it is, and what became of it

premiumVars == <<initialized, executors, mode, calls>>

Kind == {"local", "distributed"}

ASSUME PremiumAssumption ==
    configMode \in Kind \cup {"auto"} /\ System \notin User

\* `chosen' is the mode this call's init() decided on; `at', the executor its
\* pipeline was started on; `error', what the catch block caught.
NewCall == [pc |-> "idle", chosen |-> "none", at |-> 0, user |-> System, error |-> "none"]

current == Len(executors)

PremiumInit ==
    /\ initialized = FALSE
    /\ executors = <<>>
    /\ mode = "none"
    /\ calls = [c \in Call |-> NewCall]

-----------------------------------------------------------------------------
(* Initialisation                                                          *)

\* executePipeline() of an orchestrator that is not initialized: any number of
\* calls may start init() before the first is through.
BeginInit(c) ==
    /\ calls[c].pc = "idle" /\ ~initialized
    /\ calls' = [calls EXCEPT ![c].pc = "licence"]
    /\ UNCHANGED <<licenseVars, trackerVars, initialized, executors, mode>>

\* initLicense(), when the licence file has been read.
initLicense(c) ==
    /\ calls[c].pc = "licence"
    /\ initLicenseManager(licenseFile)
    /\ calls' = [calls EXCEPT ![c].pc = "adapters"]
    /\ UNCHANGED <<licenseUsage, licenseFile, trackerVars, initialized, executors, mode>>

\* The mode initExecutor() decides on.
ExecutionMode ==
    LET wanted == IF configMode = "auto" THEN "distributed" ELSE configMode
    IN  IF wanted = "distributed" /\ hasFeature("distributedExecution")
        THEN "distributed" ELSE "local"

\* initExecutor() up to its await: `executor' is replaced, `mode' not yet.
initExecutor(c) ==
    /\ calls[c].pc = "adapters"
    /\ executors' = Append(executors, [kind |-> ExecutionMode, listeners |-> 0, busy |-> FALSE])
    /\ calls' = [calls EXCEPT ![c].pc = "executor", ![c].chosen = ExecutionMode]
    /\ UNCHANGED <<licenseVars, trackerVars, initialized, mode>>

\* The rest of init(): setupEventForwarding() listens to whatever executor is
\* the current one by now.
EndInit(c) ==
    /\ calls[c].pc = "executor"
    /\ mode' = calls[c].chosen
    /\ executors' = [executors EXCEPT ![current].listeners = @ + 1]
    /\ initialized' = TRUE
    /\ calls' = [calls EXCEPT ![c].pc = "ready"]
    /\ UNCHANGED <<licenseVars, trackerVars>>

-----------------------------------------------------------------------------
(* Execution                                                               *)

\* A call reaches the checks after its own init(), or at once.
MayExecuteNow(c) == calls[c].pc = "ready" \/ (calls[c].pc = "idle" /\ initialized)

Permitted(user) ==
    hasFeature("teamCollaboration") /\ user # System => hasPermission(user, "execute")

\* The check of permissions throws outside the try block: nothing is charged.
Deny(c, user) ==
    /\ MayExecuteNow(c) /\ ~Permitted(user)
    /\ calls' = [calls EXCEPT ![c].pc = "rejected"]
    /\ UNCHANGED <<licenseVars, trackerVars, initialized, executors, mode>>

\* What the licence manager counts before the pipeline starts: the call, once
\* more than the tracker tells it, and one API call for each job submitted to the
\* distributed executor.  A pipeline has one node.
Charged(submitted) ==
    LET executed == trackUsage(licenseUsage, "executions", 1)
    IN  IF submitted THEN trackUsage(executed, "apiCalls", 1) ELSE executed

\* Whether submitJob() is refused by the tier's limit of API calls.
AtLimit == ExceedsLimit("apiCalls", licenseUsage["apiCalls"] + 1)

\* The current executor is one that `mode' knows how to use.
Matches == mode = executors[current].kind

\* The call is charged and its pipeline starts on the current executor.
Execute(c, user) ==
    /\ MayExecuteNow(c) /\ Permitted(user)
    /\ Matches /\ ~executors[current].busy
    /\ mode = "distributed" => ~AtLimit
    /\ trackExecution(Charged(mode = "distributed"))
    /\ calls' = [calls EXCEPT ![c] = [@ EXCEPT !.pc = "running", !.at = current, !.user = user]]
    /\ executors' = [executors EXCEPT ![current].busy = (mode = "local")]
    /\ UNCHANGED <<licenseReady, currentTier, license, licenseFile, initialized, mode>>

\* The call is charged and then refused: the executor has no such method, the
\* local one has a pipeline already, or the job is beyond the limit.  The catch
\* block reports it to the tracker, whose emit('error') throws in place of the
\* caught error, as nothing listens to it.
Reject(c, user, submitted, error) ==
    /\ trackExecution(Charged(submitted))
    /\ calls' = [calls EXCEPT ![c] = [@ EXCEPT !.pc = "rejected", !.user = user, !.error = error]]
    /\ UNCHANGED <<licenseReady, currentTier, license, licenseFile, initialized, executors, mode>>

Refuse(c, user) ==
    /\ MayExecuteNow(c) /\ Permitted(user)
    /\ \/ ~Matches /\ Reject(c, user, FALSE, "TypeError")
       \/ Matches /\ executors[current].busy /\ Reject(c, user, FALSE, "busy")
       \/ Matches /\ mode = "distributed" /\ AtLimit /\ Reject(c, user, TRUE, "limit")

\* Every poll of a distributed pipeline asks the executor of that moment for
\* its jobs, and one that does not know them ends the pipeline with a TypeError.
Replaced(c) == executors[calls[c].at].kind = "distributed" /\ calls[c].at # current

Freed(c) == [executors EXCEPT ![calls[c].at].busy = FALSE]

\* The pipeline fails: the distributed executor throws.  The local one throws
\* only if nobody listens to its errors; otherwise it returns a result that
\* says so, which counts as a success (see Succeed).
Fail(c) ==
    /\ calls[c].pc = "running"
    /\ executors[calls[c].at].kind = "local" => executors[calls[c].at].listeners = 0
    /\ calls' = [calls EXCEPT ![c].pc = "rejected",
                              ![c].error = IF Replaced(c) THEN "TypeError" ELSE "failed"]
    /\ executors' = Freed(c)
    /\ UNCHANGED <<licenseVars, trackerVars, initialized, mode>>

\* The pipeline returns: metered once more, and, with team features, recorded
\* with the team manager, if it has an id.  That may throw after all.
Succeed(c, pipeline) ==
    LET recorded == hasFeature("teamCollaboration") /\ pipeline # NoTeam
        thrown == recorded /\ ~MayExecute(pipeline, calls[c].user)
    IN  /\ calls[c].pc = "running" /\ ~Replaced(c)
        /\ trackExecution(licenseUsage)
        /\ calls' = [calls EXCEPT ![c] = [@ EXCEPT
               !.pc = IF thrown THEN "rejected" ELSE "returned",
               !.error = IF thrown THEN "unrecorded" ELSE "none"]]
        /\ executors' = Freed(c)
        /\ UNCHANGED <<licenseReady, currentTier, license, licenseFile, initialized, mode>>

-----------------------------------------------------------------------------
(* Licences and the life of the process                                    *)

\* upgradeLicense(): oldTier is read after the tier has been set, so that the
\* executor is never replaced.
upgradeLicense(tier) ==
    /\ validateLicenseKey(tier)
    /\ UNCHANGED <<licenseReady, licenseUsage, licenseFile, initialized, executors, mode, calls>>

\* generateLicense(), and the operator who installs the licence as the file.
generateLicense(tier) ==
    /\ currentTier = "enterprise"
    /\ licenseFile' = [tier |-> tier, signed |-> "licence", expired |-> FALSE]
    /\ UNCHANGED <<licenseReady, currentTier, license, licenseUsage>>

\* The process ends, and another one starts with nothing but the file.
Restart ==
    /\ licenseReady' = FALSE
    /\ currentTier' = "free" /\ license' = NoLicense /\ licenseUsage' = NoUsage
    /\ usage' = NoUsage /\ alerts' = <<>> /\ dying' = FALSE /\ writtenUnder' = NoTier
    /\ licensed' = FALSE
    /\ users' = NoEntries /\ teams' = NoEntries /\ pipelines' = NoEntries
    /\ sessions' = NoSessions
    /\ claimed' = {} /\ listed' = {} /\ edited' = {} /\ assignments' = 0
    /\ initialized' = FALSE /\ executors' = <<>> /\ mode' = "none"
    /\ calls' = [c \in Call |-> NewCall]
    /\ UNCHANGED licenseFile

CallStates == {"idle", "licence", "adapters", "executor", "ready", "running",
               "returned", "rejected"}

PremiumTypeOK ==
    /\ initialized \in BOOLEAN
    /\ executors \in Seq([kind : Kind, listeners : Nat, busy : BOOLEAN])
    /\ mode \in Kind \cup {"none"}
    /\ calls \in [Call -> [pc : CallStates, chosen : Kind \cup {"none"}, at : Nat,
                           user : User \cup {System},
                           error : {"none", "TypeError", "busy", "limit", "failed", "unrecorded"}]]

\* A call whose pipeline has been started waits for its jobs: `Wait for all jobs
\* to complete' (premium-orchestrator.js:224).  The poll asks this.executor,
\* which another call's init() may have replaced since the jobs were submitted.
\* (premium-orchestrator.js:83-112, 138-141, 224-239)
NoCallLosesItsJobs ==
    \A c \in Call : calls[c].error = "TypeError" => calls[c].at = 0
=============================================================================
