---------------------------- MODULE LeagueMembership ----------------------------
(***************************************************************************)
(* Joining and leaving leagues: LeagueMemberService with the checks of      *)
(* LeagueJoinValidationService.  A request reads the membership row, reads  *)
(* more, and writes the row by its id alone, each in a statement of its     *)
(* own; a transaction makes what it writes visible at once (READ            *)
(* COMMITTED) and hides nothing that others commit meanwhile.               *)
(***************************************************************************)
EXTENDS Naturals, FiniteSets

CONSTANTS
  Players, Leagues,
  Requests,       \* the requests the service may have in hand at once
  MaxPlayers,     \* MaxPlayers[l]: membership.maxPlayers, 0 for no limit
  NeedsApproval,  \* the leagues with membership.requiresApproval
  Exclusive,      \* those without membership.allowMultipleLeagues
  Cooldown        \* those with membership.cooldownAfterLeave > 0

MembershipAssumption ==
  /\ IsFiniteSet(Players) /\ IsFiniteSet(Leagues) /\ IsFiniteSet(Requests)
  /\ Requests # {}
  /\ MaxPlayers \in [Leagues -> Nat]
  /\ NeedsApproval \subseteq Leagues
  /\ Exclusive \subseteq Leagues
  /\ Cooldown \subseteq Leagues

VARIABLES
  member,   \* member[m]: status of the row of player m[1] in league m[2]
  cooling,  \* cooling[p]: lastLeftLeagueAt is less than a cooldown ago
  rated,    \* the memberships that have a rating row
  waived,   \* history: the active memberships activated without a capacity check
  request   \* request[r]: where it stands and what it has read

vars == <<member, cooling, rated, waived, request>>

-------------------------------------------------------------------------------
Memberships == Players \X Leagues

LeagueMemberStatus == {"ACTIVE", "INACTIVE", "SUSPENDED", "BANNED", "PENDING_APPROVAL"}
Terminal == {"SUSPENDED", "BANNED"}

(* What a request does next; "none" as a status stands for no row.          *)
Step == {"readPlayer", "capacity", "leagues", "reactivate", "create", "insert",
         "leave", "approve", "reject", "update"}

Status == LeagueMemberStatus \cup {"none"}

Idle == [pc |-> "idle"]
Request == [pc: Step, of: Memberships, status: Status, cooling: BOOLEAN]

(* Every variable keeps its type, and only a membership that exists is      *)
(* rated.                                                                   *)
TypeOK ==
  /\ member \in [Memberships -> Status]
  /\ cooling \in [Players -> BOOLEAN]
  /\ rated \subseteq Memberships /\ waived \subseteq Memberships
  /\ request \in [Requests -> {Idle} \cup Request]
  /\ \A m \in Memberships : member[m] = "none" => m \notin rated

Init ==
  /\ member = [m \in Memberships |-> "none"]
  /\ cooling = [p \in Players |-> FALSE]
  /\ rated = {} /\ waived = {}
  /\ request = [r \in Requests |-> Idle]

-------------------------------------------------------------------------------
At(r, pc) == request[r].pc = pc
Of(r) == request[r].of

Active(l) == {p \in Players : member[<<p, l>>] = "ACTIVE"}
ActiveIn(p) == {l \in Leagues : member[<<p, l>>] = "ACTIVE"}

Accept(r, pc, m, status) ==
  request' = [request EXCEPT ![r] = [pc |-> pc, of |-> m, status |-> status, cooling |-> FALSE]]
Goto(r, pc) ==
  request' = [request EXCEPT ![r] =
                [pc |-> pc, of |-> @.of, status |-> @.status, cooling |-> @.cooling]]
End(r) == request' = [request EXCEPT ![r] = Idle]

Reads == UNCHANGED <<member, cooling, rated, waived>>

(* The row is written whatever it holds by now. *)
WriteStatus(r, status) ==
  /\ member' = [member EXCEPT ![Of(r)] = status]
  /\ End(r)

-------------------------------------------------------------------------------
(* Mutant: a terminal status does not refuse the join. *)
Join_AnyStatus(r, m) ==
  /\ At(r, "idle")
  /\ member[m] # "ACTIVE"
  /\ Accept(r, "readPlayer", m, member[m])
  /\ Reads

(* joinLeague: the row is read; an ACTIVE or terminal one refuses the join. *)
Join(r, m) ==
  /\ At(r, "idle")
  /\ member[m] \notin {"ACTIVE"} \cup Terminal
  /\ Accept(r, "readPlayer", m, member[m])
  /\ Reads

(* validateJoin, in its order.  What it asks of the guild, the player, his  *)
(* trackers and the registration window is JoinRules; here it may refuse    *)
(* any join: see Refuse.                                                    *)
ReadPlayer(r) ==
  /\ At(r, "readPlayer")
  /\ request' = [request EXCEPT ![r] = [pc |-> "capacity", of |-> @.of, status |-> @.status,
                                        cooling |-> cooling[Of(r)[1]]]]
  /\ Reads

(* Mutant: a full league takes one more. *)
HasRoom_OneMore(l) == MaxPlayers[l] = 0 \/ Cardinality(Active(l)) <= MaxPlayers[l]

(* validateCapacity *)
HasRoom(l) == MaxPlayers[l] = 0 \/ Cardinality(Active(l)) < MaxPlayers[l]

CheckCapacity(r) ==
  /\ At(r, "capacity") /\ HasRoom(Of(r)[2])
  /\ Goto(r, "leagues")
  /\ Reads

(* Mutant: the memberships in other leagues are not asked for. *)
Admits_Others(r) == Of(r)[2] \in Cooldown => ~request[r].cooling

Admits(r) ==
  /\ Of(r)[2] \in Exclusive => ActiveIn(Of(r)[1]) = {}
  /\ Of(r)[2] \in Cooldown => ~request[r].cooling

(* A player who has a row is reactivated, whatever the row said but for the *)
(* statuses Join refuses; any other enters the transaction that creates it. *)
CheckLeagues(r) ==
  /\ At(r, "leagues") /\ Admits(r)
  /\ Goto(r, IF request[r].status = "none" THEN "create" ELSE "reactivate")
  /\ Reads

(* The end of handleExistingMember and of reactivateMemberInTransaction. *)
Reactivate(r) ==
  /\ At(r, "reactivate")
  /\ WriteStatus(r, "ACTIVE")
  /\ waived' = waived \ {Of(r)}
  /\ UNCHANGED <<cooling, rated>>

(* reactivateMemberInTransaction *)
MayReactivate(status) == status \notin {"ACTIVE"} \cup Terminal

(* The transaction of createNewMemberInTransaction looks again. *)
Create(r) ==
  /\ At(r, "create") /\ MayReactivate(member[Of(r)])
  /\ Goto(r, IF member[Of(r)] = "none" THEN "insert" ELSE "reactivate")
  /\ Reads

DetermineInitialStatus(l) == IF l \in NeedsApproval THEN "PENDING_APPROVAL" ELSE "ACTIVE"

(* initializeRatingForMember: of one who is active at once. *)
InitializeRating(m, status) == rated' = IF status = "ACTIVE" THEN rated \cup {m} ELSE rated

(* Mutant: a new member is active whatever the league asks. *)
Insert_Active(r) ==
  /\ At(r, "insert")
  /\ member[Of(r)] = "none"
  /\ WriteStatus(r, "ACTIVE") /\ rated' = rated \cup {Of(r)}
  /\ waived' = waived \ {Of(r)}
  /\ UNCHANGED cooling

(* The insert succeeds if there is still no row (a unique index), and the   *)
(* rating is created with it.                                               *)
Insert(r) ==
  LET status == DetermineInitialStatus(Of(r)[2])
  IN /\ At(r, "insert")
     /\ member[Of(r)] = "none"
     /\ WriteStatus(r, status) /\ InitializeRating(Of(r), status)
     /\ waived' = waived \ {Of(r)}
     /\ UNCHANGED cooling

(* Any check fails, or a call: the request ends and its transaction, if it  *)
(* had begun one, is rolled back.                                           *)
Refuse(r) == ~At(r, "idle") /\ End(r) /\ Reads

-------------------------------------------------------------------------------
(* leaveLeague: the row is read, then written in a transaction with the     *)
(* cooldown.                                                                *)
Leave(r, m) ==
  /\ At(r, "idle") /\ member[m] = "ACTIVE"
  /\ Accept(r, "leave", m, member[m])
  /\ Reads

UpdateCooldown(p, l) == cooling' = [cooling EXCEPT ![p] = @ \/ l \in Cooldown]

Left(r) ==
  /\ At(r, "leave")
  /\ WriteStatus(r, "INACTIVE") /\ UpdateCooldown(Of(r)[1], Of(r)[2])
  /\ waived' = waived \ {Of(r)}
  /\ UNCHANGED rated

CooldownEnds(p) ==
  /\ cooling[p] /\ cooling' = [cooling EXCEPT ![p] = FALSE]
  /\ UNCHANGED <<member, rated, waived, request>>

(* approveMember and rejectMember look for a PENDING_APPROVAL row ... *)
Answer(r, m) ==
  /\ At(r, "idle") /\ member[m] = "PENDING_APPROVAL"
  /\ \E pc \in {"approve", "reject"} : Accept(r, pc, m, member[m])
  /\ Reads

(* ... and write their answer; an approval sets the rating to its start. *)
Approved(r) ==
  /\ At(r, "approve")
  /\ WriteStatus(r, "ACTIVE")
  /\ rated' = rated \cup {Of(r)} /\ waived' = waived \cup {Of(r)}
  /\ UNCHANGED cooling

Rejected(r) ==
  /\ At(r, "reject")
  /\ WriteStatus(r, "INACTIVE")
  /\ waived' = waived \ {Of(r)}
  /\ UNCHANGED <<cooling, rated>>

(* update: any status is written to a row that exists. *)
Update(r, m) ==
  /\ At(r, "idle") /\ member[m] # "none"
  /\ \E status \in LeagueMemberStatus : Accept(r, "update", m, status)
  /\ Reads

Updated(r) ==
  /\ At(r, "update")
  /\ WriteStatus(r, request[r].status)
  /\ waived' = IF request[r].status = "ACTIVE" THEN waived \cup {Of(r)} ELSE waived \ {Of(r)}
  /\ UNCHANGED <<cooling, rated>>

-------------------------------------------------------------------------------
(* Memberships go with their player or their league, and with them what is  *)
(* rated and what a request could still write: whatever it is about to do   *)
(* finds no row, or no player or league to insert one for.                  *)
Gone(gone) ==
  /\ member' = [m \in Memberships |-> IF m \in gone THEN "none" ELSE member[m]]
  /\ rated' = rated \ gone /\ waived' = waived \ gone
  /\ request' = [r \in Requests |->
                   IF ~At(r, "idle") /\ Of(r) \in gone THEN Idle ELSE request[r]]

(* A sync of the guild, or a member or user who is deleted, takes players   *)
(* along.  Whoever comes back does so as a new player.                      *)
PlayersDeleted(players) ==
  /\ Gone(players \X Leagues)
  /\ cooling' = [p \in Players |-> p \notin players /\ cooling[p]]

LeagueDeleted(l) == Gone(Players \X {l}) /\ UNCHANGED cooling

Arrive(r) == \E m \in Memberships : Join(r, m) \/ Leave(r, m) \/ Answer(r, m) \/ Update(r, m)

Proceed(r) ==
  \/ ReadPlayer(r) \/ CheckCapacity(r) \/ CheckLeagues(r)
  \/ Reactivate(r) \/ Create(r) \/ Insert(r)
  \/ Left(r) \/ Approved(r) \/ Rejected(r) \/ Updated(r)

Next ==
  \/ \E r \in Requests : Arrive(r) \/ Proceed(r) \/ Refuse(r)
  \/ \E p \in Players : CooldownEnds(p)
  \/ \E players \in SUBSET Players : PlayersDeleted(players)
  \/ \E l \in Leagues : LeagueDeleted(l)

Spec == Init /\ [][Next]_vars

-------------------------------------------------------------------------------
Validated(l) == {p \in Active(l) : <<p, l>> \notin waived}

(* maxPlayers is exceeded only by joins that raced each other or by members *)
(* whom an approval or an update activated without a look at the limit:     *)
(* counting the others, a league is over its limit by less than the number  *)
(* of requests in hand at once.                                             *)
OverfullByRaceOnly ==
  \A l \in Leagues : MaxPlayers[l] > 0 =>
    Cardinality(Validated(l)) < MaxPlayers[l] + Cardinality(Requests)

(* Likewise a player is in more than one exclusive league only by joins     *)
(* that raced each other, or by an approval or an update.                   *)
LeaguesByRaceOnly ==
  \A p \in Players :
    Cardinality({l \in Exclusive : p \in Validated(l)}) <= Cardinality(Requests)

(* Joins exceed what the settings allow by racing only.                     *)
JoinsExceedByRaceOnly == OverfullByRaceOnly /\ LeaguesByRaceOnly

(* What handleExistingMember says: a suspended or banned membership is not  *)
(* brought back but by an update.  A request that was in hand with it when  *)
(* it was suspended or banned may still write over that; and it goes with   *)
(* the player, who then has no membership left, or with the league, which   *)
(* then has no member left.                                                 *)
KeepsTerminal ==
  \A m \in Memberships :
    member[m] \in Terminal /\ member'[m] # member[m] =>
      \/ \E r \in Requests :
           /\ ~At(r, "idle") /\ Of(r) = m /\ End(r)
           /\ \/ At(r, "update")
              \/ Cardinality(Requests) > 1 /\ request[r].status \notin Terminal
      \/ \A l \in Leagues : member'[<<m[1], l>>] = "none"
      \/ \A p \in Players : member'[<<p, m[2]>>] = "none"

(* What the settings say of requiresApproval: nobody becomes an active      *)
(* member of such a league but by an approval or an update, unless he had a *)
(* row already: whoever applies again is reactivated without an answer.     *)
AsksApproval ==
  \A m \in Memberships :
    m[2] \in NeedsApproval /\ member'[m] = "ACTIVE" /\ member[m] # "ACTIVE" =>
      \/ member[m] \in Status \ {"none"} /\ \E r \in Requests : At(r, "reactivate") /\ Of(r) = m
      \/ \E r \in Requests : request[r].pc \in {"approve", "update"} /\ Of(r) = m /\ End(r)

(* No step takes a ban back alone, or lets anyone in against these rules.   *)
StatusByRule == [][KeepsTerminal /\ AsksApproval]_vars
===============================================================================
