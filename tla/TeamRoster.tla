------------------------------- MODULE TeamRoster -------------------------------
(***************************************************************************)
(* The teams of one league and who plays in them: TeamMemberService, and    *)
(* the limit that TeamService keeps.  A member is added in four calls that  *)
(* nothing holds together, and no unique index stands behind them.  What    *)
(* organizations ask of a team is the matter of Organizations.              *)
(***************************************************************************)
EXTENDS Naturals, FiniteSets

CONSTANTS
  Teams, Players, Requests,
  Limits,   \* values of maxPlayers (2 to 20 in the DTO)
  MaxRows   \* bound of this model on rows of team_members

RosterAssumption ==
  /\ IsFiniteSet(Teams) /\ IsFiniteSet(Players)
  /\ Limits \subseteq Nat \ {0} /\ MaxRows \in Nat

VARIABLES
  max,      \* max[t]: maxPlayers of team t, or 0 if there is no such team
  active,   \* active[t][p]: the ACTIVE rows of player p in team t
  other,    \* other[t][p]: his rows that are INACTIVE or REMOVED
  request,  \* request[r]: where it stands and what it holds
  excused,  \* history: teams to which two were being added at once, with a lower
            \* limit or a member made active again, until they are in order
  twofold   \* history: players active in two teams, until they are in none twice

vars == <<max, active, other, request, excused, twofold>>

-------------------------------------------------------------------------------
Idle == [pc |-> "idle"]
At(r, pc) == request[r].pc = pc
Goto(r, pc) == request' = [request EXCEPT ![r] = [@ EXCEPT !.pc = pc]]
End(r) == request' = [request EXCEPT ![r] = Idle]

(* Requests of rows that go find nothing to write to any more.              *)
Adding == {"count", "lookup", "create"}
Orphaned(ts, ps) ==
  [r \in Requests |-> IF request[r].pc \in Adding /\ (request[r].team \in ts \/ request[r].player \in ps)
                      THEN Idle ELSE request[r]]

(* Rows are counted by numbering those of each player. *)
Places(t) == {s \in Players \X (1..MaxRows) : s[2] <= active[t][s[1]]}
Count(t) == Cardinality(Places(t))
Twice(t) == {p \in Players : active[t][p] > 1}
Rows == Cardinality({s \in Teams \X Players \X (1..MaxRows) :
                       s[3] <= active[s[1]][s[2]] + other[s[1]][s[2]]})
ActiveIn(p) == {t \in Teams : active[t][p] > 0}

(* Whoever is added to t, or is in it, more often than he may.              *)
Unsettled(t) == \/ Count(t) > max[t] \/ Twice(t) # {}
                \/ \E r \in Requests : request[r].pc \in Adding /\ request[r].team = t
Doubled(p) == \/ \E t \in Teams : p \in Twice(t)
              \/ \E r \in Requests : At(r, "create") /\ request[r].player = p

Excuse(ts) ==
  /\ excused' = {t \in excused \cup ts : Unsettled(t)'}
  /\ twofold' = {p \in Players : Cardinality(ActiveIn(p)') > 1}
               \cup {p \in twofold : Doubled(p)'}

None == [t \in Teams |-> [p \in Players |-> 0]]

Init ==
  /\ max = [t \in Teams |-> 0]
  /\ active = None /\ other = None
  /\ request = [r \in Requests |-> Idle]
  /\ excused = {} /\ twofold = {}

-------------------------------------------------------------------------------
CreateTeam(t, n) ==
  /\ max[t] = 0 /\ max' = [max EXCEPT ![t] = n]
  /\ UNCHANGED <<active, other, request, excused, twofold>>

(* The limit may be changed whoever is in the team.                         *)
UpdateTeam(t, n) ==
  /\ max[t] # 0 /\ max' = [max EXCEPT ![t] = n]
  /\ UNCHANGED <<active, other, request>>
  /\ Excuse(IF n < max[t] THEN {t} ELSE {})

(* delete, and the removal of the league, with all its teams: members go    *)
(* with their team (onDelete: Cascade).                                     *)
Drop(ts) ==
  /\ max' = [t \in Teams |-> IF t \in ts THEN 0 ELSE max[t]]
  /\ active' = [t \in Teams |-> IF t \in ts THEN None[t] ELSE active[t]]
  /\ other' = [t \in Teams |-> IF t \in ts THEN None[t] ELSE other[t]]
  /\ request' = Orphaned(ts, {})
  /\ Excuse({})

DeleteTeam(t) == max[t] # 0 /\ Drop({t})
RemoveLeague == Drop(Teams)

DeletePlayer(p) ==
  /\ active' = [t \in Teams |-> [active[t] EXCEPT ![p] = 0]]
  /\ other' = [t \in Teams |-> [other[t] EXCEPT ![p] = 0]]
  /\ request' = Orphaned({}, {p})
  /\ UNCHANGED max
  /\ Excuse({})

-------------------------------------------------------------------------------
(* addMember, ACTIVE or as the DTO has it: the team is read ...             *)
AddMember(r, t, p, becomes) ==
  /\ At(r, "idle") /\ max[t] # 0
  /\ request' = [request EXCEPT ![r] =
       [pc |-> "count", team |-> t, player |-> p, becomes |-> becomes, max |-> max[t]]]
  /\ UNCHANGED <<max, active, other, excused, twofold>>

(* Mutant: one too many fits in. *)
Full_OffByOne(n, limit) == n > limit

Full(n, limit) == n >= limit

(* ... its active members are counted, after which the limit is forgotten ... *)
CountActiveMembers(r) ==
  LET q == request[r]
      adds(s) == s # r /\ request[s].pc \in {"lookup", "create"} /\ request[s].team = q.team
  IN  /\ At(r, "count")
      /\ request' = [request EXCEPT ![r] = IF Full(Count(q.team), q.max) THEN Idle
                                           ELSE [@ EXCEPT !.pc = "lookup", !.max = 0]]
      /\ UNCHANGED <<max, active, other>>
      /\ Excuse(IF \E s \in Requests : adds(s) THEN {q.team} ELSE {})

(* ... some active row of the player in the league is looked up: if it is   *)
(* in this team he is refused, if there is another first, he is not ...     *)
FindByPlayerAndLeague(r) ==
  LET q == request[r]
  IN  /\ At(r, "lookup")
      /\ \/ ActiveIn(q.player) = {} /\ Goto(r, "create")
         \/ \E t \in ActiveIn(q.player) : IF t = q.team THEN End(r) ELSE Goto(r, "create")
      /\ UNCHANGED <<max, active, other>>
      /\ Excuse({})

(* ... and the row made.                                                    *)
Added(rows, t, p) == [rows EXCEPT ![t][p] = @ + 1]

CreateMember(r) ==
  LET q == request[r]
  IN  /\ At(r, "create") /\ End(r)
      /\ Rows < MaxRows
      /\ IF q.becomes = "ACTIVE"
         THEN active' = Added(active, q.team, q.player) /\ UNCHANGED other
         ELSE other' = Added(other, q.team, q.player) /\ UNCHANGED active
      /\ UNCHANGED max
      /\ Excuse({})

(* removeMember, and an update that ends the membership.                    *)
Deactivate(t, p) ==
  /\ active[t][p] > 0
  /\ active' = [active EXCEPT ![t][p] = @ - 1] /\ other' = Added(other, t, p)
  /\ UNCHANGED <<max, request>>
  /\ Excuse({})

(* update: any status, whatever the limit. *)
Reactivate(t, p) ==
  /\ other[t][p] > 0
  /\ other' = [other EXCEPT ![t][p] = @ - 1] /\ active' = Added(active, t, p)
  /\ UNCHANGED <<max, request>>
  /\ Excuse({t})

Fail(r) ==
  /\ ~At(r, "idle") /\ End(r)
  /\ UNCHANGED <<max, active, other>>
  /\ Excuse({})

Team(t) ==
  \/ DeleteTeam(t) \/ \E n \in Limits : CreateTeam(t, n) \/ UpdateTeam(t, n)
  \/ \E p \in Players :
       \/ Deactivate(t, p) \/ Reactivate(t, p)
       \/ \E r \in Requests, s \in {"ACTIVE", "INACTIVE"} : AddMember(r, t, p, s)

Next ==
  \/ RemoveLeague \/ \E t \in Teams : Team(t) \/ \E p \in Players : DeletePlayer(p)
  \/ \E r \in Requests :
       \/ CountActiveMembers(r) \/ FindByPlayerAndLeague(r) \/ CreateMember(r) \/ Fail(r)

Spec == Init /\ [][Next]_vars

-------------------------------------------------------------------------------
TypeOK ==
  /\ max \in [Teams -> Limits \cup {0}]
  /\ active \in [Teams -> [Players -> 0..MaxRows]] /\ other \in [Teams -> [Players -> 0..MaxRows]]
  /\ \A t \in Teams : max[t] = 0 => active[t] = None[t] /\ other[t] = None[t]
  /\ Rows <= MaxRows

(* A team holds more active members than it may, or one of them twice, only *)
(* if two were being added at once, its limit was lowered, a member made    *)
(* active again by an update, or, for the second, the player was active in  *)
(* another team too, whose row the lookup may find first.                   *)
RosterByRaceOrEdit ==
  \A t \in Teams \ excused :
    /\ Count(t) <= max[t]
    /\ Twice(t) \subseteq twofold
===============================================================================
