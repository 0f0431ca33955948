----------------------------- MODULE Membership -----------------------------
(***************************************************************************)
(* Organizations, their members and their teams.  Each handler first asks  *)
(* whether the caller is an owner; what it then does is one or more        *)
(* statements, none of them in a transaction with that question.           *)
(***************************************************************************)
EXTENDS Requests

CONSTANTS
    TeamIds,
    TeamNames

VARIABLES
    role,      \* the org_members rows: "owner", "member" or None, by org and user
    team,      \* the org_teams rows: org and name, by id
    teamMember \* the org_team_members rows: <<team, user>>

memberVars == <<role, team, teamMember>>
-----------------------------------------------------------------------------
NoTeam == [org |-> None, name |-> None, was |-> FALSE]
GoneTeam == [NoTeam EXCEPT !.was = TRUE]

IsTeam(t) == team[t].org # None
TeamsNamed(o, n) == {t \in TeamIds : team[t].org = o /\ team[t].name = n}

OwnersOf(r, o) == {u \in Users : r[o][u] = "owner"}
Owners(o) == OwnersOf(role, o)

\* An organization that is there at the start has owners.
MembershipInit ==
    /\ team = [t \in TeamIds |-> NoTeam] /\ teamMember = {}
    /\ role \in [OrgIds -> [Users -> {None, "owner"}]]
    /\ \A o \in OrgIds :
        /\ OwnersOf(role, o) \subseteq Founders
        /\ IsOrg(o) <=> OwnersOf(role, o) # {}

\* The handlers' first question, by the organization's name.
IsOwner(n, u) == \E o \in OrgsNamed(n) : role[o][u] = "owner"
-----------------------------------------------------------------------------
\* No user has the name: rows that are not there yet cannot be locked.
CreateOrg(c) ==
    \E n \in Names, u \in {v \in Users : IsUser(v)} :
        /\ UsersNamed(n) = {}
        /\ Arrive("orgs", c, [op |-> "create org", name |-> n, u |-> u])
        /\ UNCHANGED <<user, org, memberVars>>

\* Both INSERTs and the commit.
InsertOrg(c) ==
    /\ Serving(c, "create org")
    /\ LET r == req[c] IN
        \/ /\ OrgsNamed(r.name) = {} /\ IsUser(r.u)
           /\ \E o \in OrgIds :
                /\ org[o] = None /\ org' = [org EXCEPT ![o] = r.name]
                /\ role' = [role EXCEPT ![o][r.u] = "owner"]
        \/ /\ OrgsNamed(r.name) # {} \/ ~IsUser(r.u)
           /\ UNCHANGED <<org, role>>
    /\ End(c)
    /\ UNCHANGED <<user, team, teamMember>>

\* The requests of an organization's owner.
AsOwner(k, c, r) ==
    \E u \in Users :
        /\ IsOwner(r.name, u)
        /\ Arrive(k, c, r)
        /\ UNCHANGED <<user, org, memberVars>>

DeleteOrg(c) ==
    \E n \in Names : AsOwner("orgs", c, [op |-> "delete org", name |-> n])

Teams(os) == {t \in TeamIds : team[t].org \in os}

\* DELETE by name: members and teams go with it.  No repository is an
\* organization's: the foreign key of repositories.owner_id names users.
DeleteOrgRow(c) ==
    /\ Serving(c, "delete org")
    /\ LET gone == OrgsNamed(req[c].name) IN
        /\ org' = [o \in OrgIds |-> IF o \in gone THEN None ELSE org[o]]
        /\ role' = [o \in OrgIds |-> IF o \in gone THEN [u \in Users |-> None] ELSE role[o]]
        /\ team' = [t \in TeamIds |-> IF t \in Teams(gone) THEN GoneTeam ELSE team[t]]
        /\ teamMember' = {m \in teamMember : m[1] \notin Teams(gone)}
    /\ End(c) /\ UNCHANGED user
-----------------------------------------------------------------------------
\* Adding a member, or changing a member's role.
AddMember(c) ==
    \E n \in Names, u \in Users, x \in {"owner", "member"} :
        AsOwner("orgs", c, [op |-> "upsert", name |-> n, u |-> u, role |-> x])

\* The two look-ups and the upsert.
UpsertMember(c) ==
    /\ Serving(c, "upsert")
    /\ LET r == req[c] IN
         role' = [o \in OrgIds |->
                    IF o \in OrgsNamed(r.name) /\ IsUser(r.u)
                    THEN [role[o] EXCEPT ![r.u] = r.role] ELSE role[o]]
    /\ End(c)
    /\ UNCHANGED <<user, org, team, teamMember>>

RemoveMember(c) ==
    \E n \in Names, u \in Users : AsOwner("orgs", c, [op |-> "remove", name |-> n, u |-> u])

\* The member's role and, for an owner, how many owners there are: what follows
\* does not look again.
LookAtMember(c) ==
    /\ Serving(c, "remove")
    /\ LET r == req[c]
           found == {o \in OrgsNamed(r.name) :
                        \/ role[o][r.u] = "member"
                        \/ role[o][r.u] = "owner" /\ Cardinality(Owners(o)) > 1} IN
        \/ \E o \in found :
            Become(c, [op |-> "delete member", o |-> o, u |-> r.u])
        \/ found = {} /\ End(c)
    /\ UNCHANGED <<user, org, memberVars>>

DeleteMember(c) ==
    /\ Serving(c, "delete member")
    /\ role' = [role EXCEPT ![req[c].o][req[c].u] = None]
    /\ End(c)
    /\ UNCHANGED <<user, org, team, teamMember>>
-----------------------------------------------------------------------------
\* requireOrgOwner goes on with the organization's id.
AsTeamOwner(c, r) ==
    \E o \in OrgIds, u \in Users :
        /\ role[o][u] = "owner"
        /\ Arrive("teams", c, [r EXCEPT !.o = o])
        /\ UNCHANGED <<user, org, memberVars>>

CreateTeam(c) ==
    \E n \in TeamNames : AsTeamOwner(c, [op |-> "create team", o |-> None, name |-> n])

InsertTeam(c) ==
    /\ Serving(c, "create team")
    /\ LET r == req[c] IN
        \/ \E t \in TeamIds :
             /\ IsOrg(r.o) /\ TeamsNamed(r.o, r.name) = {} /\ team[t] = NoTeam
             /\ team' = [team EXCEPT ![t] = [org |-> r.o, name |-> r.name, was |-> TRUE]]
        \/ /\ ~IsOrg(r.o) \/ TeamsNamed(r.o, r.name) # {}
           /\ UNCHANGED team
    /\ End(c)
    /\ UNCHANGED <<user, org, role, teamMember>>

\* The team's id, for the requests that go on with it; for a new member also
\* that the user is a member of the organization.
ChangeTeam(c) ==
    \E n, m \in TeamNames, u \in Users :
        \E x \in {<<"update team", m, None>>, <<"add to team", n, u>>, <<"drop from team", n, u>>} :
            AsTeamOwner(c, [op |-> "get team", o |-> None, name |-> n,
                            then |-> x[1], new |-> x[2], u |-> x[3]])

GetTeam(c) ==
    /\ Serving(c, "get team")
    /\ LET r == req[c] IN
        \/ \E t \in TeamsNamed(r.o, r.name) :
            /\ r.then = "add to team" => role[r.o][r.u] # None
            /\ r.then = "drop from team" => IsUser(r.u)
            /\ Become(c, [op |-> r.then, t |-> t, new |-> r.new, u |-> r.u])
        \/ /\ TeamsNamed(r.o, r.name) = {}
           /\ End(c)
        \/ /\ r.then = "add to team" /\ role[r.o][r.u] = None
           /\ End(c)
    /\ UNCHANGED <<user, org, memberVars>>

UpdateTeam(c) ==
    /\ Serving(c, "update team")
    /\ LET r == req[c]
           free == TeamsNamed(team[r.t].org, r.new) \subseteq {r.t} IN
         team' = IF IsTeam(r.t) /\ free THEN [team EXCEPT ![r.t].name = r.new] ELSE team
    /\ End(c)
    /\ UNCHANGED <<user, org, role, teamMember>>

AddTeamMember(c) ==
    /\ Serving(c, "add to team")
    /\ LET r == req[c] IN
         teamMember' = IF IsTeam(r.t) /\ IsUser(r.u)
                       THEN teamMember \cup {<<r.t, r.u>>} ELSE teamMember
    /\ End(c)
    /\ UNCHANGED <<user, org, role, team>>

RemoveTeamMember(c) ==
    /\ Serving(c, "drop from team")
    /\ teamMember' = teamMember \ {<<req[c].t, req[c].u>>}
    /\ End(c)
    /\ UNCHANGED <<user, org, role, team>>

DeleteTeam(c) ==
    \E n \in TeamNames : AsTeamOwner(c, [op |-> "delete team", o |-> None, name |-> n])

DeleteTeamRow(c) ==
    /\ Serving(c, "delete team")
    /\ LET gone == TeamsNamed(req[c].o, req[c].name) IN
        /\ team' = [t \in TeamIds |-> IF t \in gone THEN GoneTeam ELSE team[t]]
        /\ teamMember' = {m \in teamMember : m[1] \notin gone}
    /\ End(c)
    /\ UNCHANGED <<user, org, role>>
-----------------------------------------------------------------------------
\* The part of a user's deletion that is here.
LeaveAll(u) ==
    /\ role' = [o \in OrgIds |-> [role[o] EXCEPT ![u] = None]]
    /\ teamMember' = {m \in teamMember : m[2] # u}
    /\ UNCHANGED <<org, team>>

MembershipNext ==
    \E c \in Calls :
        \/ CreateOrg(c) \/ InsertOrg(c) \/ DeleteOrg(c) \/ DeleteOrgRow(c)
        \/ AddMember(c) \/ UpsertMember(c)
        \/ RemoveMember(c) \/ LookAtMember(c) \/ DeleteMember(c)
        \/ CreateTeam(c) \/ InsertTeam(c) \/ ChangeTeam(c) \/ GetTeam(c)
        \/ UpdateTeam(c) \/ AddTeamMember(c) \/ RemoveTeamMember(c)
        \/ DeleteTeam(c) \/ DeleteTeamRow(c)
=============================================================================
