------------------------------ MODULE MCServices ------------------------------
(* The services around the engines.  A behaviour exercises one of them,     *)
(* chosen at the start among Service: calls of the orchestrator, the         *)
(* licences over restarts, the metering of storage and API calls, the teams  *)
(* under changing licences, sessions, the server, or the adapters.           *)
EXTENDS PremiumOrchestrator, OrchestratorServer, LanguageAdapters, TLC

CONSTANT Service

VARIABLE service

orchestratorVars == <<licenseVars, trackerVars, teamVars, premiumVars>>

vars == <<service, orchestratorVars, serverVars, adapterVars>>

\* A licence of the team tier that generateLicense() has made.
TeamLicense == [tier |-> "team", signed |-> "licence", expired |-> FALSE]

\* Limits of API calls as small as the calls of a run are few.
FewAPICalls ==
    [free |-> 1, team |-> 4, business |-> 8, enterprise |-> Infinity]

Init ==
    /\ service \in Service
    /\ LicenseInit
    /\ licenseFile \in IF service = "calls" THEN {NoLicense, TeamLicense} ELSE {NoLicense}
    /\ TrackerInit /\ TeamInit /\ PremiumInit
    /\ ServerInit
    /\ AdapterInit

Upgrade(Tiers) ==
    \E tier \in Tiers : upgradeLicense(tier) /\ UNCHANGED <<trackerVars, teamVars>>

\* Who may call: the system, or a user that the team manager knows or not.
CallStep ==
    \/ Upgrade({"free", "team"})
    \/ Expire /\ UNCHANGED <<trackerVars, teamVars, premiumVars>>
    \/ /\ \E c \in Call :
             \/ BeginInit(c) \/ initLicense(c) \/ initExecutor(c) \/ EndInit(c)
             \/ \E user \in User \cup {System} :
                   Deny(c, user) \/ Execute(c, user) \/ Refuse(c, user)
             \/ Fail(c)
             \/ \E p \in Pipeline \cup {NoTeam} : Succeed(c, p)
       /\ UNCHANGED teamVars
    \/ /\ users = NoEntries
       /\ \E u \in User : createUser(u, "developer", NoTeam)
       /\ UNCHANGED <<licenseVars, trackerVars, premiumVars>>
    \/ /\ \E p \in Pipeline, u \in User : createPipeline(p, u, "private")
       /\ UNCHANGED <<licenseVars, trackerVars, premiumVars>>

\* What a licence goes through, with the init() of a first call and that of the
\* team manager.
LicenceStep ==
    \/ Upgrade(Tier)
    \/ Restart
    \/ /\ SaveLicense \/ Expire \/ generateLicense("team")
       /\ UNCHANGED <<trackerVars, teamVars, premiumVars>>
    \/ /\ \E c \in Call : BeginInit(c) \/ initLicense(c)
       /\ UNCHANGED teamVars
    \/ initTeams /\ UNCHANGED <<trackerVars, premiumVars>>

\* A process that is dying goes on with its turn of the event loop, in which
\* more may be tracked.
MeteringStep ==
    \/ ~dying /\ Upgrade({"free", "team"})
    \/ dying /\ Restart
    \/ /\ \/ /\ \/ \E size \in StorageSize : trackStorage(size)
                \/ trackAPICall
             /\ UNCHANGED <<licenseReady, currentTier, license, licenseFile>>
          \/ ~dying /\ (\E i \in DOMAIN alerts : acknowledgeAlert(i)) /\ UNCHANGED licenseVars
       /\ UNCHANGED <<teamVars, premiumVars>>

\* What somebody sends to updateTeam() and updatePipeline(): another value of
\* one field.  The limit of members goes with the settings it is part of.
TeamAssigned(team) ==
    {[team EXCEPT !.id = t] : t \in Team}
        \cup {[team EXCEPT !.owner = u] : u \in DOMAIN users}
        \cup {[team EXCEPT !.members = all] : all \in SUBSET DOMAIN users}
        \cup {[team EXCEPT !.maxMembers = Infinity]}

PipelineAssigned(pipeline) ==
    {[pipeline EXCEPT !.owner = u] : u \in DOMAIN users}
        \cup {[pipeline EXCEPT !.team = t] : t \in Team \cup {NoTeam}}
        \cup {[pipeline EXCEPT !.visibility = v] : v \in {"private", "public"}}

\* A user comes with a role and, or not, with a teamId.
UserStep ==
    \E u \in User, role \in InvitedRole, claim \in Team \cup {NoTeam} :
        \/ createUser(u, role, claim)
        \/ \E t \in Team, inviter \in User : addTeamMember(t, u, role, claim, inviter)

TeamStep ==
    \/ Upgrade({"free", "team"})
    \/ initTeams /\ UNCHANGED <<trackerVars, premiumVars>>
    \/ /\ \/ UserStep
          \/ \E t \in Team, u \in User :
                \/ createTeam(t, u) \/ createTeamWithOwner(t, u)
                \/ /\ t \in DOMAIN teams
                   /\ \/ removeMember(t, u)
                      \/ \E role \in Role : updateMemberRole(t, u, role)
                      \/ \E assigned \in TeamAssigned(teams[t]) : updateTeam(t, u, assigned)
          \/ \E p \in Pipeline, u \in User :
                \/ createPipeline(p, u, "team")
                \/ /\ p \in DOMAIN pipelines
                   /\ \E assigned \in PipelineAssigned(pipelines[p]) :
                         updatePipeline(p, u, assigned)
       /\ UNCHANGED <<licenseVars, trackerVars, premiumVars>>

\* Sessions, and pipelines that are shared with one user at a time.
SessionStep ==
    /\ \E u \in User :
          \/ \E role \in InvitedRole : createUser(u, role, NoTeam)
          \/ authenticateUser(u) \/ SessionIdles(u) \/ validateSession(u)
          \/ \E p \in Pipeline, target \in User :
                createPipeline(p, u, "private") \/ sharePipeline(p, target, u)
    /\ UNCHANGED <<licenseVars, trackerVars, premiumVars>>

Next ==
    /\ UNCHANGED service
    /\ \/ service = "calls" /\ CallStep /\ UNCHANGED <<serverVars, adapterVars>>
       \/ service = "licences" /\ LicenceStep /\ UNCHANGED <<serverVars, adapterVars>>
       \/ service = "metering" /\ MeteringStep /\ UNCHANGED <<serverVars, adapterVars>>
       \/ service = "teams" /\ TeamStep /\ UNCHANGED <<serverVars, adapterVars>>
       \/ service = "sessions" /\ SessionStep /\ UNCHANGED <<serverVars, adapterVars>>
       \/ service = "server" /\ ServerNext /\ UNCHANGED <<orchestratorVars, adapterVars>>
       \/ service = "adapters" /\ AdapterNext /\ UNCHANGED <<orchestratorVars, serverVars>>

Spec == Init /\ [][Next]_vars

\* Calls, users and teams are interchangeable.
Symmetry == Permutations(Call) \cup Permutations(User) \cup Permutations(Team)

\* The state of the services has its type.
ServicesTypeOK ==
    LicenseTypeOK /\ TrackerTypeOK /\ TeamTypeOK /\ PremiumTypeOK
        /\ ServerTypeOK /\ AdapterTypeOK
=============================================================================
