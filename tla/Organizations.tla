----------------------------- MODULE Organizations -----------------------------
(***************************************************************************)
(* The organizations of one league, their members and their teams:          *)
(* OrganizationService, OrganizationMemberService, TeamService, and the     *)
(* requireOrganization switch of LeagueSettingsService, which gives every   *)
(* team an organization before it is stored.  A request reads and writes in *)
(* statements of their own; request[r] is where it stands and what it read. *)
(* The switch is read through a cache, which may answer what was stored     *)
(* before.                                                                  *)
(***************************************************************************)
EXTENDS Naturals, FiniteSets

CONSTANTS
  Players, Orgs, Teams,  \* rows there may ever be: ids are not used twice
  Requests,   \* the requests the services may have in hand at once
  MaxOrgs,    \* membership.maxOrganizations
  MaxTeams,   \* membership.maxTeamsPerOrganization
  MaxFaults   \* bound: the calls that fail

ASSUME OrganizationsAssumption ==
  /\ IsFiniteSet(Players) /\ IsFiniteSet(Orgs) /\ IsFiniteSet(Teams)
  /\ IsFiniteSet(Requests) /\ Requests # {}
  /\ Orgs \cap {"none", "unused", "gone"} = {} /\ Players \cap {"none", "system"} = {}
  /\ MaxOrgs \in Nat \ {0} /\ MaxTeams \in Nat \ {0} /\ MaxFaults \in Nat

VARIABLES
  org,       \* org[o]: "unused", "live" or "gone"
  member,    \* member[p]: the row of the player in the league, or NoRow
  team,      \* team[t]: its organization, "none", "unused" or "gone"
  required,  \* membership.requireOrganization, as stored
  answers,   \* what getSettings may answer of it: also what a cache, or a
             \* reader that is about to fill one, has had since before
  managed,   \* history: organizations that have had a manager since one last
             \* left by a write whose check did not hold, or was deleted
  slipped,   \* history: teams that lost or gave up theirs by such a write
  bare,      \* history: organizations made for teams that never had a team
             \* nor a manager
  faults,    \* the calls that failed
  request

history == <<managed, slipped, bare>>
vars == <<org, member, team, required, answers, history, faults, request>>

-------------------------------------------------------------------------------
OrganizationMemberRole == {"GENERAL_MANAGER", "MEMBER"}

(* INACTIVE is treated as SUSPENDED is. *)
OrganizationMemberStatus == {"ACTIVE", "SUSPENDED", "REMOVED"}

NoRow == [org |-> "none", role |-> "none", status |-> "none"]
Row == [org: Orgs, role: OrganizationMemberRole, status: OrganizationMemberStatus]

Step == {"idle", "capacity", "create", "join", "add", "count", "write",
         "authorize", "room", "place", "findTeams", "findOrgs", "assign", "move", "persist",
         "rollback", "countTeams", "delete"}

System == "system"
OrNone(S) == S \cup {"none"}

(* made: the request made its organization.  holds (history): what it asked *)
(* before its write, or had to ask, holds still: the managers or the teams  *)
(* it counted, that no organization is required, or that it has to find     *)
(* organizations before it stores value as the requirement.                 *)
Request ==
  [pc: Step, org: OrNone(Orgs), user: OrNone(Players) \cup {System},
   role: OrNone(OrganizationMemberRole), status: OrNone(OrganizationMemberStatus),
   team: OrNone(Teams), from: OrNone(Orgs), teams: SUBSET Teams,
   made: BOOLEAN, holds: BOOLEAN, value: BOOLEAN]

Idle == [pc |-> "idle", org |-> "none", user |-> "none", role |-> "none",
         status |-> "none", team |-> "none", from |-> "none", teams |-> {},
         made |-> FALSE, holds |-> FALSE, value |-> FALSE]

At(r, pc) == request[r].pc = pc

Live == {o \in Orgs : org[o] = "live"}
GeneralManagers(o) ==
  {p \in Players : member[p] = [org |-> o, role |-> "GENERAL_MANAGER", status |-> "ACTIVE"]}
TeamsOf(o) == {t \in Teams : team[t] = o}
WithoutOrganization == TeamsOf("none")

(* Every variable keeps its type; members and teams are of organizations    *)
(* that exist, no history is of one that is gone, and what is stored may be *)
(* answered.                                                                *)
TypeOK ==
  /\ org \in [Orgs -> {"unused", "live", "gone"}]
  /\ member \in [Players -> Row \cup {NoRow}]
  /\ team \in [Teams -> Orgs \cup {"none", "unused", "gone"}]
  /\ required \in answers /\ answers \subseteq BOOLEAN /\ faults \in 0..MaxFaults
  /\ request \in [Requests -> Request]
  /\ \A p \in Players : member[p] # NoRow => member[p].org \in Live
  /\ \A t \in Teams : team[t] \in Orgs => team[t] \in Live
  /\ managed \subseteq Live /\ bare \subseteq Live /\ slipped \subseteq Teams

Init ==
  /\ org = [o \in Orgs |-> "unused"] /\ member = [p \in Players |-> NoRow]
  /\ team = [t \in Teams |-> "unused"] /\ required = FALSE /\ answers = {FALSE}
  /\ managed = {} /\ slipped = {} /\ bare = {} /\ faults = 0
  /\ request = [r \in Requests |-> Idle]

-------------------------------------------------------------------------------
(* The checks, each on rows as they are when it is made.                    *)

(* Mutant: a full league takes one more. *)
LeagueHasRoom_OneMore == Cardinality(Live) <= MaxOrgs

(* validateLeagueOrganizationCapacity *)
LeagueHasRoom == Cardinality(Live) < MaxOrgs

(* validateMemberAdd, and the unique index on player and league: a REMOVED  *)
(* row does not count.                                                      *)
MayJoin(p, o) == o \in Live /\ p \in Players /\ member[p].status \in {"none", "REMOVED"}

(* validateCanRemoveGeneralManager; the row is read again and the managers  *)
(* counted in one step, since a row that changed in between could only make *)
(* it refuse more.                                                          *)
MayRemoveManager(p, o) ==
  member[p].role = "GENERAL_MANAGER" => Cardinality(GeneralManagers(o)) > 1

(* The checks of delete: a manager, or the system where there is none. *)
MayManage(u, o) ==
  /\ o \in Live
  /\ u \in GeneralManagers(o) \/ (u = System /\ GeneralManagers(o) = {})

(* Mutant: nothing is asked of the organization. *)
OrganizationHasRoom_Any(o) == o \in Live

(* validateOrganizationCapacity: it refuses above the limit, not at it. *)
OrganizationHasRoom(o) == o \in Live /\ Cardinality(TeamsOf(o)) <= MaxTeams

(* The check of assignTeamsToOrganization. *)
TakesAll(o, teams) ==
  o \in Live /\ Cardinality(TeamsOf(o)) + Cardinality(teams) <= MaxTeams

(* validateCanDeleteOrganization *)
HasNoTeams(o) == TeamsOf(o) = {}

(* What the next step of a request asks; a write asks for the rows it       *)
(* refers to, and a creation (a bound) for an id that is left.              *)
Passes(r) ==
  LET q == request[r] IN
    /\ At(r, "capacity") => LeagueHasRoom
    /\ At(r, "create") => \E o \in Orgs : org[o] = "unused"
    /\ At(r, "join") \/ At(r, "add") => MayJoin(q.user, q.org)
    /\ At(r, "count") => MayRemoveManager(q.user, q.org)
    /\ At(r, "authorize") => q.user \in GeneralManagers(q.from) \cup GeneralManagers(q.org)
    /\ At(r, "room") => q.from \in Live \cup {"none"} /\ OrganizationHasRoom(q.org)
    /\ At(r, "place") =>
         /\ q.org \in Live \cup {"none"}
         /\ IF q.team = "none" THEN TeamsOf("unused") # {} ELSE team[q.team] # "gone"
    /\ At(r, "assign") => TakesAll(q.org, q.teams)
    /\ At(r, "move") => q.org \in Live /\ \A t \in q.teams : team[t] # "gone"
    /\ At(r, "rollback") => MayManage(System, q.org)
    /\ At(r, "countTeams") => HasNoTeams(q.org)
    /\ At(r, "delete") => q.org \in Live

On(r, pc) == At(r, pc) /\ Passes(r)
Accept(r, q) == At(r, "idle") /\ request' = [request EXCEPT ![r] = q]
Goto(r, pc) == request' = [request EXCEPT ![r] = [@ EXCEPT !.pc = pc]]
End(r) == request' = [request EXCEPT ![r] = Idle]

(* The requests at step pc that ask about organization o, once what they    *)
(* asked has changed.                                                       *)
Outdated(pc, o) ==
  [r \in Requests |-> IF At(r, pc) /\ request[r].org = o
                        THEN [request[r] EXCEPT !.holds = FALSE] ELSE request[r]]

Rows == <<org, member, team, required, answers>>
Reads == UNCHANGED <<Rows, history, faults>>

-------------------------------------------------------------------------------
(* create, for a player *)
CreateOrganization(r, p) ==
  /\ Accept(r, [Idle EXCEPT !.pc = "capacity", !.user = p, !.role = "GENERAL_MANAGER"])
  /\ Reads

Capacity(r) == On(r, "capacity") /\ Goto(r, "create") /\ Reads

(* The row is made before its creator is added: if he is refused, as a      *)
(* member of another organization is, it stays.                             *)
Create(r) ==
  LET system == request[r].user = System  IN
    /\ On(r, "create")
    /\ \E o \in Orgs :
         /\ org[o] = "unused" /\ org' = [org EXCEPT ![o] = "live"]
         /\ request' = [request EXCEPT ![r] =
              [@ EXCEPT !.org = o, !.made = system, !.pc = IF system THEN "assign" ELSE "join"]]
         /\ bare' = IF system THEN bare \cup {o} ELSE bare
    /\ UNCHANGED <<member, team, required, answers, managed, slipped, faults>>

(* addMember *)
AddMember(r, p, o) ==
  /\ o \in Live
  /\ \E role \in OrganizationMemberRole :
       Accept(r, [Idle EXCEPT !.pc = "join", !.user = p, !.org = o, !.role = role])
  /\ Reads

MemberAdd(r) == On(r, "join") /\ Goto(r, "add") /\ Reads

(* The requests in hand that hold the id of a row that is deleted: what     *)
(* they have left to do fails.                                              *)
HoldsRow(r, players) == request[r].pc \in {"count", "write"} /\ request[r].user \in players

Forget(s, players) ==
  [r \in Requests |-> IF r = s \/ HoldsRow(r, players) THEN Idle ELSE request[r]]

(* The transaction of the repository's addMember: a REMOVED row goes, and a *)
(* new one comes.                                                           *)
Added(r) ==
  LET q == request[r]
      manager == IF q.role = "GENERAL_MANAGER" THEN {q.org} ELSE {}
  IN
    /\ On(r, "add")
    /\ member' = [member EXCEPT ![q.user] =
                    [org |-> q.org, role |-> q.role, status |-> "ACTIVE"]]
    /\ request' = Forget(r, {q.user})
    /\ managed' = managed \cup manager /\ bare' = bare \ manager
    /\ UNCHANGED <<org, team, required, answers, slipped, faults>>

(* Mutant: a removal is not counted. *)
Counts_RoleOnly(p, role, removal) ==
  member[p].role = "GENERAL_MANAGER" /\ role = "MEMBER"

(* The managers are counted for a manager who is demoted or removed, not    *)
(* for one whose status alone is edited.                                    *)
Counts(p, role, removal) ==
  member[p].role = "GENERAL_MANAGER" /\ (role = "MEMBER" \/ removal)

(* What is asked of a manager who leaves: that he is not the last. *)
TakesManager(p, role, removal) ==
  p \in GeneralManagers(member[p].org) /\ (role = "MEMBER" \/ removal)

(* updateMember and updateMemberRole write a role, a status or both;        *)
(* removeMember writes REMOVED.                                             *)
ChangeMember(r, p) ==
  /\ member[p] # NoRow
  /\ \E role \in OrNone(OrganizationMemberRole), status \in OrNone(OrganizationMemberStatus),
        removal \in BOOLEAN :
       /\ removal => role = "none" /\ status = "REMOVED"
       /\ role # "none" \/ status # "none"
       /\ Accept(r, [Idle EXCEPT !.pc = IF Counts(p, role, removal) THEN "count" ELSE "write",
                                 !.user = p, !.org = member[p].org, !.role = role, !.status = status,
                                 !.holds = TakesManager(p, role, removal)])
  /\ Reads

CountManagers(r) ==
  /\ On(r, "count")
  /\ request' = [request EXCEPT ![r] =
       [@ EXCEPT !.pc = "write", !.holds = member[request[r].user].role = "GENERAL_MANAGER"]]
  /\ Reads

(* The row is written by its id, whatever it holds by now; when a manager   *)
(* leaves so, what the others have counted holds no more.                   *)
Changed(r) ==
  LET q == request[r]
      p == q.user
      other(new, old) == IF new = "none" THEN old ELSE new
      row == [org |-> q.org, role |-> other(q.role, member[p].role),
              status |-> other(q.status, member[p].status)]
      manages == row.role = "GENERAL_MANAGER" /\ row.status = "ACTIVE"
      leaves == p \in GeneralManagers(q.org) /\ ~manages
  IN
    /\ On(r, "write")
    /\ member' = [member EXCEPT ![p] = row]
    /\ request' = [(IF leaves THEN Outdated("write", q.org) ELSE request) EXCEPT ![r] = Idle]
    /\ managed' = IF manages THEN managed \cup {q.org}
                  ELSE IF leaves /\ ~q.holds THEN managed \ {q.org} ELSE managed
    /\ bare' = IF manages THEN bare \ {q.org} ELSE bare
    /\ UNCHANGED <<org, team, required, answers, slipped, faults>>

(* delete *)
DeleteOrganization(r, u, o) ==
  /\ MayManage(u, o)
  /\ Accept(r, [Idle EXCEPT !.pc = "countTeams", !.user = u, !.org = o])
  /\ Reads

CountTeams(r) ==
  /\ On(r, "countTeams")
  /\ request' = [request EXCEPT ![r] = [@ EXCEPT !.pc = "delete", !.holds = TRUE]]
  /\ Reads

(* The members go with the row; teams that came meanwhile have none.        *)
Deleted(r) ==
  LET o == request[r].org
      members == {p \in Players : member[p].org = o}
  IN
    /\ On(r, "delete")
    /\ org' = [org EXCEPT ![o] = "gone"]
    /\ member' = [p \in Players |-> IF p \in members THEN NoRow ELSE member[p]]
    /\ team' = [t \in Teams |-> IF team[t] = o THEN "none" ELSE team[t]]
    /\ request' = Forget(r, members)
    /\ managed' = managed \ {o} /\ bare' = bare \ {o}
    /\ slipped' = IF request[r].holds THEN slipped ELSE slipped \cup TeamsOf(o)
    /\ UNCHANGED <<required, answers, faults>>

(* The players a sync of the guild, or the removal of a member or a user,   *)
(* takes along: their rows go, a creation or an addition in hand finds no   *)
(* player any more, and what others have counted of them holds no more.     *)
WithoutPlayers(players) ==
  [r \in Requests |->
     IF HoldsRow(r, players) THEN Idle
     ELSE IF request[r].pc \in {"create", "join", "add"} /\ request[r].user \in players
       THEN [request[r] EXCEPT !.user = "none"]
     ELSE IF At(r, "write") /\ GeneralManagers(request[r].org) \cap players # {}
       THEN [request[r] EXCEPT !.holds = FALSE]
     ELSE request[r]]

PlayersDeleted(players) ==
  /\ member' = [p \in Players |-> IF p \in players THEN NoRow ELSE member[p]]
  /\ managed' = {o \in managed : ~(GeneralManagers(o) \subseteq players)}
  /\ request' = WithoutPlayers(players)
  /\ UNCHANGED <<org, team, required, answers, slipped, bare, faults>>

-------------------------------------------------------------------------------
(* Mutant: a team may be left without organization whatever is required. *)
MayHave_Any(answer, o) == o \in OrNone(Live)

(* validateOrganizationRequirement and validateOrganizationExists: the      *)
(* requirement is what getSettings answers.                                 *)
MayHave(answer, o) == IF o = "none" THEN ~answer ELSE o \in Live

NeedsNone(o) == o = "none"

(* TeamService.create and update; "none" for a team that is yet to be.      *)
PlaceTeam(r, t, o) ==
  /\ t \in Teams => team[t] \in OrNone(Orgs)
  /\ \E answer \in answers :
       /\ MayHave(answer, o)
       /\ Accept(r, [Idle EXCEPT !.pc = IF o = "none" THEN "place" ELSE "room", !.team = t, !.org = o,
                                 !.holds = NeedsNone(o) /\ answer = required])
  /\ Reads

(* transferTeam, by a manager of either organization *)
TransferTeam(r, u, t, o) ==
  /\ team[t] \in Orgs
  /\ Accept(r, [Idle EXCEPT !.pc = "authorize", !.user = u, !.team = t, !.from = team[t], !.org = o])
  /\ Reads

Authorize(r) == On(r, "authorize") /\ Goto(r, "room") /\ Reads

Room(r) == On(r, "room") /\ Goto(r, "place") /\ Reads

(* The settings are being changed to require organizations, and the teams   *)
(* without one have been read.                                              *)
Requiring == \E r \in Requests :
  /\ request[r].user = System /\ request[r].value /\ request[r].holds
  /\ request[r].pc \in {"findOrgs", "capacity", "create", "assign", "move", "persist"}

Placed(r) ==
  LET o == request[r].org IN
    /\ On(r, "place")
    /\ \E t \in Teams :
         /\ IF request[r].team = "none" THEN team[t] = "unused" ELSE t = request[r].team
         /\ team' = [team EXCEPT ![t] = o]
         /\ slipped' = IF o = "none" /\ (Requiring \/ ~request[r].holds)
                         THEN slipped \cup {t} ELSE slipped \ {t}
    /\ bare' = bare \ {o}
    /\ request' = [Outdated("delete", o) EXCEPT ![r] = Idle]
    /\ UNCHANGED <<org, member, required, answers, managed, faults>>

DeleteTeam(t) ==
  /\ team[t] \in OrNone(Orgs)
  /\ team' = [team EXCEPT ![t] = "gone"]
  /\ slipped' = slipped \ {t}
  /\ UNCHANGED <<org, member, required, answers, managed, bare, faults, request>>

-------------------------------------------------------------------------------
(* updateSettings merges what it is given into what getSettings answers.    *)
(* When that changes requireOrganization to TRUE, teams need organizations  *)
(* first; else it is stored, given or merged, as a migration stores what it *)
(* has read.                                                                *)
UpdateSettings(r) ==
  /\ \E current \in answers, value \in BOOLEAN :
       LET turnsOn == value /\ ~current IN
         Accept(r, [Idle EXCEPT !.pc = IF turnsOn THEN "findTeams" ELSE "persist",
                                !.user = System, !.value = value, !.holds = turnsOn])
  /\ Reads

(* The teams without organization are read ...                              *)
FindTeams(r) ==
  /\ On(r, "findTeams")
  /\ request' = [request EXCEPT ![r] =
       [@ EXCEPT !.teams = WithoutOrganization,
                 !.pc = IF WithoutOrganization = {} THEN "persist" ELSE "findOrgs"]]
  /\ Reads

(* ... go to one the league has (the newest: any, here) or to one made for  *)
(* them ...                                                                 *)
FindOrganizations(r) ==
  /\ On(r, "findOrgs")
  /\ IF Live = {}
       THEN Goto(r, "capacity")
       ELSE \E o \in Live : request' = [request EXCEPT ![r] = [@ EXCEPT !.pc = "assign", !.org = o]]
  /\ Reads

(* ... in a transaction that counts and then writes ... *)
Assign(r) == On(r, "assign") /\ Goto(r, "move") /\ Reads

Moved(r) ==
  LET q == request[r] IN
    /\ On(r, "move")
    /\ team' = [t \in Teams |-> IF t \in q.teams THEN q.org ELSE team[t]]
    /\ slipped' = slipped \ q.teams /\ bare' = bare \ {q.org}
    /\ request' = [Outdated("delete", q.org) EXCEPT ![r] = [@ EXCEPT !.pc = "persist"]]
    /\ UNCHANGED <<org, member, required, answers, managed, faults>>

(* ... and the settings are stored.  An update that found the requirement   *)
(* on brings it back, if it was switched off since: to whatever teams there *)
(* are.                                                                     *)
Persist(r) ==
  LET q == request[r]
      unasked == IF q.value /\ ~q.holds /\ ~required THEN WithoutOrganization ELSE {}
  IN
    /\ On(r, "persist")
    /\ required' = q.value /\ answers' = answers \cup {q.value}
    /\ slipped' = slipped \cup unasked
    /\ request' = [(IF q.value THEN Outdated("place", "none") ELSE request) EXCEPT ![r] = Idle]
    /\ UNCHANGED <<org, member, team, managed, bare, faults>>

(* No cache, and no reader about to fill one, has what was stored before.   *)
Refresh ==
  /\ answers # {required} /\ answers' = {required}
  /\ UNCHANGED <<org, member, team, required, history, faults, request>>

(* Mutant: the organization made for the teams is left. *)
Abandon_Leaves(r) == End(r)

(* An assignment that fails takes back the organization made for it; any    *)
(* other request that fails just ends.                                      *)
Abandon(r) ==
  IF request[r].pc \in {"assign", "move"} /\ request[r].made THEN Goto(r, "rollback") ELSE End(r)

Rollback(r) == On(r, "rollback") /\ Goto(r, "countTeams") /\ Reads

Refuse(r) == ~At(r, "idle") /\ ~Passes(r) /\ Abandon(r) /\ Reads

Fail(r) ==
  /\ ~At(r, "idle") /\ faults < MaxFaults
  /\ Abandon(r) /\ faults' = faults + 1
  /\ UNCHANGED <<Rows, history>>

-------------------------------------------------------------------------------
Arrive(r) ==
  \/ \E p \in Players : CreateOrganization(r, p) \/ ChangeMember(r, p)
  \/ \E p \in Players, o \in Orgs : AddMember(r, p, o)
  \/ \E u \in Players \cup {System}, o \in Orgs : DeleteOrganization(r, u, o)
  \/ \E t \in OrNone(Teams), o \in OrNone(Orgs) : PlaceTeam(r, t, o)
  \/ \E u \in Players, t \in Teams, o \in Orgs : TransferTeam(r, u, t, o)
  \/ UpdateSettings(r)

Proceed(r) ==
  \/ Capacity(r) \/ Create(r) \/ MemberAdd(r) \/ Added(r)
  \/ CountManagers(r) \/ Changed(r) \/ CountTeams(r) \/ Deleted(r)
  \/ Authorize(r) \/ Room(r) \/ Placed(r)
  \/ FindTeams(r) \/ FindOrganizations(r) \/ Assign(r) \/ Moved(r) \/ Persist(r) \/ Rollback(r)

Next ==
  \/ \E r \in Requests : Arrive(r) \/ Proceed(r) \/ Refuse(r) \/ Fail(r)
  \/ \E t \in Teams : DeleteTeam(t)
  \/ \E players \in SUBSET Players \ {{}} : PlayersDeleted(players)
  \/ Refresh

Spec == Init /\ [][Next]_vars

-------------------------------------------------------------------------------
(* What CannotRemoveLastGeneralManager is for: an organization that has had *)
(* a manager has one, unless the last left by a write that had counted      *)
(* nobody (a status edited, or a row that was no manager's when it was      *)
(* read) or had counted before another left, or with his player.            *)
ManagerKept == \A o \in managed : GeneralManagers(o) # {}

(* maxOrganizations is exceeded only by creations that raced each other.    *)
OrganizationsByRaceOnly == Cardinality(Live) < MaxOrgs + Cardinality(Requests)

(* maxTeamsPerOrganization is exceeded by one team, and for each request    *)
(* that raced by one more or by the teams of one assignment, which are no   *)
(* more than the limit.                                                     *)
TeamsByRaceOnly ==
  \A o \in Live : Cardinality(TeamsOf(o)) <= MaxTeams * (1 + Cardinality(Requests))

(* Where organizations are required every team has one, unless it gave up   *)
(* its own while the requirement was being stored, was stored since the     *)
(* request looked, or on an answer that was not what is stored, came to an  *)
(* organization whose deletion had counted, or had none when an update that *)
(* had found the requirement on brought it back.                            *)
RequiredMeansAssigned == required => WithoutOrganization \subseteq slipped

(* An organization made for the teams that need one, and that never came to *)
(* have a team or a manager, is there only while the request that made it   *)
(* goes on, if no call fails: the clean-up cannot be refused.               *)
CleanedUp ==
  faults = 0 => \A o \in bare : \E r \in Requests : request[r].made /\ request[r].org = o
===============================================================================
