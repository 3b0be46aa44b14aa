----------------------------- MODULE TeamManager -----------------------------
(***************************************************************************)
(* collaboration/team-manager.js: users with one role and one team each,    *)
(* teams with their rosters, pipelines and who may read them, sessions.     *)
(*                                                                         *)
(* A user's role and teamId are global, while a roster belongs to a team:   *)
(* the two are written by different operations.  Names, keys, preferences,  *)
(* secrets, versions, the audit log and the usage counters are left out,    *)
(* and so are ids that a caller chooses for a new user or pipeline.         *)
(***************************************************************************)
EXTENDS LicenseManager

CONSTANTS
    User, Team, Pipeline,   \* the identities that may be handed out
    NoTeam,
    InvitedRole,            \* the roles users are created with
    MaxAssignments          \* bound: how often fields are assigned

VARIABLES
    licensed,       \* what init() found
    users,          \* the Map: user -> its role and teamId
    teams,          \* the Map: team -> id, owner, members, settings.maxMembers
    pipelines,      \* the Map: pipeline -> owner, team, visibility, permissions
    sessions,       \* user -> "none", "open", or "idle" for 24 hours
    claimed,        \* history: the teamIds that new users came with
    listed,         \* history: who was on which team's roster, under which id
    edited,         \* history: teams whose owner or roster was assigned
    assignments     \* history: how often updateTeam() and updatePipeline() ran

history == <<claimed, listed, edited, assignments>>

teamVars == <<licensed, users, teams, pipelines, sessions, history>>

Role == {"owner", "admin", "developer", "viewer"}

ASSUME TeamAssumption ==
    InvitedRole \subseteq Role /\ NoTeam \notin Team /\ MaxAssignments \in Nat

\* What the permissions matrix allows to do with pipelines.
Permissions ==
    LET developer == {"create", "read", "update", "execute"}
        all == developer \cup {"delete", "share"}
    IN  [owner |-> all, admin |-> all, developer |-> developer, viewer |-> {"read"}]

hasPermission(u, action) == u \in DOMAIN users /\ action \in Permissions[users[u].role]

canManageUsers(u) == u \in DOMAIN users /\ users[u].role \in {"owner", "admin"}

\* Map.set(key, value).
Put(map, key, value) == [k \in DOMAIN map \cup {key} |-> IF k = key THEN value ELSE map[k]]

\* An empty Map, and no sessions.
NoEntries == [k \in {} |-> NoTeam]
NoSessions == [u \in User |-> "none"]

\* Who is on a roster, with the id that the team has.
Rosters(map) ==
    {entry \in Team \X User \X Team :
        /\ entry[1] \in DOMAIN map
        /\ entry[2] \in map[entry[1]].members /\ entry[3] = map[entry[1]].id}

SetTeams(map) == teams' = map /\ listed' = listed \cup Rosters(map)

\* init() starts a licence manager that is not initialized, without a file.
\* createTeam() and addTeamMember() of the orchestrator read the licence anew;
\* checkLicense() trusts what init() found.
initTeams ==
    /\ IF licenseReady THEN UNCHANGED licenseVars
       ELSE initLicenseManager(NoLicense) /\ UNCHANGED <<licenseUsage, licenseFile>>
    /\ licensed' = hasFeature("teamCollaboration")'
    /\ UNCHANGED <<users, teams, pipelines, sessions, history>>

-----------------------------------------------------------------------------
(* Users and teams                                                         *)

Claim(u, team) == claimed' = IF team = NoTeam THEN claimed ELSE claimed \cup {<<u, team>>}

\* createUser() takes the role and the teamId from the data it is given.
createUser(u, role, team) ==
    /\ u \notin DOMAIN users
    /\ users' = Put(users, u, [role |-> role, teamId |-> team])
    /\ Claim(u, team)
    /\ UNCHANGED <<licensed, teams, pipelines, sessions, listed, edited, assignments>>

HasRoom(t) ==
    teams[t].maxMembers = Infinity \/ Cardinality(teams[t].members) < teams[t].maxMembers

\* Mutant: the user has the team's id before the limit is looked at.
AddMemberBeforeCheck(t, u, role, team) ==
    /\ users' = Put(users, u, [role |-> role, teamId |-> teams[t].id])
    /\ SetTeams(IF HasRoom(t) THEN [teams EXCEPT ![t].members = @ \cup {u}] ELSE teams)

\* addMember() of a new user; at the limit it throws, and whatever the caller
\* did before stays: the user, with the teamId its data had.
addMember(t, u, role, team) ==
    /\ users' = Put(users, u, [role |-> role,
                               teamId |-> IF HasRoom(t) THEN teams[t].id ELSE team])
    /\ SetTeams(IF HasRoom(t) THEN [teams EXCEPT ![t].members = @ \cup {u}] ELSE teams)

\* addTeamMember() of the orchestrator: a new user, with the role and the teamId
\* of the data it is given, invited by a manager of any team.
addTeamMember(t, u, role, team, inviter) ==
    /\ hasFeature("teamCollaboration")
    /\ t \in DOMAIN teams /\ u \notin DOMAIN users
    /\ canManageUsers(inviter)
    /\ addMember(t, u, role, team)
    /\ Claim(u, team)
    /\ UNCHANGED <<licensed, pipelines, sessions, edited, assignments>>

\* new Team() of an owner: the limit is the one of the tier of this moment.
NewTeam(t, u) ==
    [id |-> t, owner |-> u, members |-> {u}, maxMembers |-> tiers[currentTier].limits.users]

\* createTeam(): an owner who is in another team stays on its roster.
createTeam(t, u) ==
    /\ licensed /\ t \notin DOMAIN teams /\ u \in DOMAIN users
    /\ SetTeams(Put(teams, t, NewTeam(t, u)))
    /\ users' = [users EXCEPT ![u] = [role |-> "owner", teamId |-> t]]
    /\ UNCHANGED <<licensed, pipelines, sessions, claimed, edited, assignments>>

\* createTeam() of the orchestrator creates the owner first, whether or not the
\* manager then refuses the team.
createTeamWithOwner(t, u) ==
    /\ hasFeature("teamCollaboration")
    /\ t \notin DOMAIN teams /\ u \notin DOMAIN users
    /\ IF licensed
       THEN /\ SetTeams(Put(teams, t, NewTeam(t, u)))
            /\ users' = Put(users, u, [role |-> "owner", teamId |-> t])
       ELSE /\ users' = Put(users, u, [role |-> "viewer", teamId |-> NoTeam])
            /\ UNCHANGED <<teams, listed>>
    /\ UNCHANGED <<licensed, pipelines, sessions, claimed, edited, assignments>>

\* The guard of removeMember().
Removable(t, u) == u \in teams[t].members /\ u # teams[t].owner

\* removeMember() takes the user off the roster; teamId keeps the team.
removeMember(t, u) ==
    /\ Removable(t, u)
    /\ SetTeams([teams EXCEPT ![t].members = @ \ {u}])
    /\ UNCHANGED <<licensed, users, pipelines, sessions, claimed, edited, assignments>>

\* Mutant: only a team's other members keep their owner's role safe.
MayGetAnyRole(t, u, role) == u \in teams[t].members

\* The guard of updateMemberRole(): a team protects the role of its own owner.
MayGetRole(t, u, role) ==
    u \in teams[t].members /\ (u = teams[t].owner => role = "owner")

updateMemberRole(t, u, role) ==
    /\ MayGetRole(t, u, role) /\ role # users[u].role
    /\ users' = [users EXCEPT ![u].role = role]
    /\ UNCHANGED <<licensed, teams, pipelines, sessions, history>>

\* updateTeam() assigns whatever a manager of any team sends: `assigned' is the
\* team with the fields that were sent, any of them, in place of its own.
updateTeam(t, u, assigned) ==
    /\ t \in DOMAIN teams /\ canManageUsers(u) /\ assignments < MaxAssignments
    /\ SetTeams([teams EXCEPT ![t] = assigned])
    /\ edited' = IF assigned.owner = teams[t].owner /\ assigned.members = teams[t].members
                 THEN edited ELSE edited \cup {t}
    /\ assignments' = assignments + 1
    /\ UNCHANGED <<licensed, users, pipelines, sessions, claimed>>

-----------------------------------------------------------------------------
(* Sessions                                                                *)

authenticateUser(u) ==
    /\ u \in DOMAIN users /\ sessions[u] = "none"
    /\ sessions' = [sessions EXCEPT ![u] = "open"]
    /\ UNCHANGED <<licensed, users, teams, pipelines, history>>

\* More than 24 hours pass since the last request.
SessionIdles(u) ==
    /\ sessions[u] = "open"
    /\ sessions' = [sessions EXCEPT ![u] = "idle"]
    /\ UNCHANGED <<licensed, users, teams, pipelines, history>>

\* validateSession() of an idle session deletes it; of an open one it only
\* moves lastActivity.
validateSession(u) ==
    /\ sessions[u] = "idle"
    /\ sessions' = [sessions EXCEPT ![u] = "none"]
    /\ UNCHANGED <<licensed, users, teams, pipelines, history>>

-----------------------------------------------------------------------------
(* Pipelines                                                               *)

\* createPipeline() binds a pipeline to the teamId its creator has now.
createPipeline(p, u, visibility) ==
    /\ p \notin DOMAIN pipelines /\ hasPermission(u, "create")
    /\ pipelines' = Put(pipelines, p,
           [owner |-> u, team |-> users[u].teamId, visibility |-> visibility,
            permissions |-> {}])
    /\ UNCHANGED <<licensed, users, teams, sessions, history>>

canEditPipeline(u, p) ==
    u \in DOMAIN users /\ (pipelines[p].owner = u \/ hasPermission(u, "update"))

\* updatePipeline() assigns whatever an editor sends, like updateTeam().
updatePipeline(p, u, assigned) ==
    /\ p \in DOMAIN pipelines /\ canEditPipeline(u, p) /\ assignments < MaxAssignments
    /\ pipelines' = [pipelines EXCEPT ![p] = assigned]
    /\ assignments' = assignments + 1
    /\ UNCHANGED <<licensed, users, teams, sessions, claimed, listed, edited>>

\* sharePipeline() needs the right to share, not a right to this pipeline.
sharePipeline(p, target, u) ==
    /\ p \in DOMAIN pipelines /\ hasPermission(u, "share")
    /\ target \notin pipelines[p].permissions
    /\ pipelines' = [pipelines EXCEPT ![p].permissions = @ \cup {target}]
    /\ UNCHANGED <<licensed, users, teams, sessions, history>>

\* Whether executePipeline() throws.
MayExecute(p, u) == p \in DOMAIN pipelines /\ hasPermission(u, "execute")

\* canAccess(), which searchPipelines() and getUserPipelines() filter with.
canAccess(u, p) ==
    \/ pipelines[p].owner = u
    \/ pipelines[p].visibility = "team" /\ users[u].teamId = pipelines[p].team
    \/ pipelines[p].visibility = "public"
    \/ u \in pipelines[p].permissions

-----------------------------------------------------------------------------

TeamInit ==
    /\ licensed = FALSE
    /\ users = NoEntries
    /\ teams = NoEntries
    /\ pipelines = NoEntries
    /\ sessions = NoSessions
    /\ claimed = {} /\ listed = {} /\ edited = {} /\ assignments = 0

TeamRecord ==
    [id : Team, owner : User, members : SUBSET User, maxMembers : Nat \cup {Infinity}]

PipelineRecord ==
    [owner : User, team : Team \cup {NoTeam}, visibility : {"private", "team", "public"},
     permissions : SUBSET User]

TeamTypeOK ==
    /\ licensed \in BOOLEAN
    /\ DOMAIN users \subseteq User
    /\ \A u \in DOMAIN users : users[u] \in [role : Role, teamId : Team \cup {NoTeam}]
    /\ DOMAIN teams \subseteq Team
    /\ \A t \in DOMAIN teams : teams[t] \in TeamRecord /\ teams[t].members \subseteq DOMAIN users
    /\ DOMAIN pipelines \subseteq Pipeline
    /\ \A p \in DOMAIN pipelines : pipelines[p] \in PipelineRecord
    /\ sessions \in [User -> {"none", "open", "idle"}]
    /\ claimed \subseteq User \X Team
    /\ listed \subseteq Team \X User \X Team
    /\ edited \subseteq Team
    /\ assignments \in Nat

\* Who reads a pipeline of a team because its teamId is the pipeline's either
\* came with that teamId when it was created, or is or was on the roster of a
\* team that had that id: an invitation refused at the limit, a second team, a
\* removal, a tier that changes in between, or fields assigned to the team or to
\* the pipeline give nobody a teamId.
\* (team-manager.js:118-140, 175-193, 284-335, 413-435;
\* premium-orchestrator.js:277-296)
TeamReadersWereMembers ==
    \A p \in DOMAIN pipelines, u \in DOMAIN users :
        LET i == pipelines[p].team
        IN  /\ canAccess(u, p) /\ pipelines[p].visibility = "team" /\ i # NoTeam
            /\ u # pipelines[p].owner /\ u \notin pipelines[p].permissions
            => <<u, i>> \in claimed \/ \E t \in Team : <<t, u, i>> \in listed

\* A role is one per user, not one per team, so a team can only protect the role
\* of the owner it was created with if no other team lists that user, or did;
\* updateTeam() may take owner and roster away from it.
\* (team-manager.js:118-151, 284-325)
OwnersKeepTheirRole ==
    \A t \in DOMAIN teams \ edited :
        LET owner == teams[t].owner
        IN  /\ owner \in teams[t].members
            /\ \/ users[owner].role = "owner"
               \/ \E other \in Team \ {t}, i \in Team : <<other, owner, i>> \in listed
=============================================================================
