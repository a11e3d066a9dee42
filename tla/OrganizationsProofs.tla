-------------------------- MODULE OrganizationsProofs --------------------------
(***************************************************************************)
(* Types of the organizations, the bounds on how many there may be and on   *)
(* their teams, that a manager stays, that every team has an organization   *)
(* where one is required, and that none is left behind: for any number of   *)
(* players, organizations, teams and requests.                              *)
(***************************************************************************)
EXTENDS Organizations, FiniteSetTheorems, TLAPS

(* What a request carries at the steps that need it; a request about a      *)
(* member holds the id of a row that is there.                              *)
Carries(q) ==
  /\ q.pc \in {"findTeams", "findOrgs"} => q.user = System
  /\ q.pc \in {"capacity", "create"} =>
       q.user = System \/ (q.user \in OrNone(Players) /\ q.role \in OrganizationMemberRole)
  /\ q.pc \in {"join", "add"} => q.user \in OrNone(Players) /\ q.role \in OrganizationMemberRole
  /\ q.pc \in {"count", "write"} =>
       /\ q.user \in Players /\ q.org \in Orgs
       /\ member[q.user] # NoRow /\ member[q.user].org = q.org

Shaped == \A r \in Requests : Carries(request[r])

Inv == TypeOK /\ Shaped

-------------------------------------------------------------------------------
(* The request that is none is a request.                                   *)
LEMMA IdleType == Idle \in Request /\ Idle.pc = "idle"
BY DEF Idle, Request, OrNone, Step

(* What a step has checked. *)
LEMMA Checked ==
  ASSUME NEW r \in Requests
  PROVE  /\ On(r, "capacity") => LeagueHasRoom
         /\ On(r, "add") => MayJoin(request[r].user, request[r].org)
         /\ On(r, "place") => request[r].org \in Live \cup {"none"}
         /\ On(r, "move") => request[r].org \in Live
         /\ On(r, "delete") => request[r].org \in Live
BY DEF On, At, Passes, MayJoin

(* A step that changes no row, and one request to x. *)
LEMMA ReadStep ==
  ASSUME Inv, NEW r \in Requests, NEW x \in Request, Carries(x),
         request' = [request EXCEPT ![r] = x],
         UNCHANGED <<Rows, history>>, faults' \in 0..MaxFaults
  PROVE  Inv'
<1>1. TypeOK'
  BY DEF Inv, TypeOK, Rows, history, Live
<1>2. Shaped'
  <2>1. \A q \in Request : Carries(q) => Carries(q)'
    BY DEF Carries, Rows
  <2> QED
    BY <2>1 DEF Inv, TypeOK, Shaped
<1> QED
  BY <1>1, <1>2 DEF Inv

-------------------------------------------------------------------------------
(* The requests that only arrive ... *)
LEMMA ArriveStep ==
  ASSUME Inv, NEW r \in Requests, Arrive(r)
  PROVE  Inv'
<1> USE IdleType
<1>1. ASSUME NEW p \in Players, CreateOrganization(r, p)  PROVE Inv'
  <2> DEFINE x == [Idle EXCEPT !.pc = "capacity", !.user = p, !.role = "GENERAL_MANAGER"]
  <2>1. x \in Request /\ Carries(x)
    BY DEF Idle, Request, Carries, OrNone, Step, OrganizationMemberRole
  <2> QED
    BY <1>1, <2>1, ReadStep DEF CreateOrganization, Accept, Reads, Inv, TypeOK
<1>2. ASSUME NEW p \in Players, ChangeMember(r, p)  PROVE Inv'
  <2>1. PICK role \in OrNone(OrganizationMemberRole), status \in OrNone(OrganizationMemberStatus),
             removal \in BOOLEAN :
          Accept(r, [Idle EXCEPT !.pc = IF Counts(p, role, removal) THEN "count" ELSE "write",
                                 !.user = p, !.org = member[p].org, !.role = role, !.status = status,
                                 !.holds = TakesManager(p, role, removal)])
    BY <1>2 DEF ChangeMember
  <2> DEFINE b == TakesManager(p, role, removal)
             pc == IF Counts(p, role, removal) THEN "count" ELSE "write"
             o == member[p].org
             x == [Idle EXCEPT !.pc = pc, !.user = p, !.org = o,
                               !.role = role, !.status = status, !.holds = b]
  <2>2. b \in BOOLEAN /\ pc \in {"count", "write"}
    BY DEF TakesManager
  <2>3. member[p] # NoRow /\ o \in Orgs
    BY <1>2 DEF ChangeMember, Inv, TypeOK, Row
  <2>4. x \in Request /\ Carries(x)
    <3> HIDE IdleType DEF pc, b, o
    <3>1. x \in Request /\ x.pc = pc /\ x.user = p /\ x.org = o
      BY <2>2, <2>3 DEF Idle, Request, OrNone, Step
    <3> HIDE DEF x
    <3> USE DEF o
    <3> QED
      BY <2>2, <2>3, <3>1 DEF Carries
  <2> QED
    BY <1>2, <2>1, <2>4, ReadStep DEF ChangeMember, Accept, Reads, Inv, TypeOK
<1>3. ASSUME NEW p \in Players, NEW o \in Orgs, AddMember(r, p, o)  PROVE Inv'
  <2>1. PICK role \in OrganizationMemberRole :
          Accept(r, [Idle EXCEPT !.pc = "join", !.user = p, !.org = o, !.role = role])
    BY <1>3 DEF AddMember
  <2> DEFINE x == [Idle EXCEPT !.pc = "join", !.user = p, !.org = o, !.role = role]
  <2>2. x \in Request /\ Carries(x)
    BY ZenonT(40) DEF Idle, Request, Carries, OrNone, Step
  <2> QED
    BY <1>3, <2>1, <2>2, ReadStep DEF AddMember, Accept, Reads, Inv, TypeOK
<1>4. ASSUME NEW u \in Players \cup {System}, NEW o \in Orgs, DeleteOrganization(r, u, o)  PROVE Inv'
  <2> DEFINE x == [Idle EXCEPT !.pc = "countTeams", !.user = u, !.org = o]
  <2>1. x \in Request /\ Carries(x)
    BY ZenonT(40) DEF Idle, Request, Carries, OrNone, Step
  <2> QED
    BY <1>4, <2>1, ReadStep DEF DeleteOrganization, Accept, Reads, Inv, TypeOK
<1>5. ASSUME NEW t \in OrNone(Teams), NEW o \in OrNone(Orgs), PlaceTeam(r, t, o)  PROVE Inv'
  <2> DEFINE pc == IF o = "none" THEN "place" ELSE "room"
  <2>4. PICK b \in BOOLEAN :
           Accept(r, [Idle EXCEPT !.pc = pc, !.team = t, !.org = o, !.holds = b])
    BY <1>5 DEF PlaceTeam
  <2> DEFINE x == [Idle EXCEPT !.pc = pc, !.team = t, !.org = o, !.holds = b]
  <2>1. pc \in {"place", "room"}
    OBVIOUS
  <2>2. x \in Request /\ Carries(x)
    <3> HIDE DEF pc
    <3>1. x \in Request /\ x.pc = pc
      BY <2>1, ZenonT(40) DEF Idle, Request, OrNone, Step
    <3> HIDE DEF x
    <3> QED
      BY <2>1, <3>1 DEF Carries
  <2>3. Accept(r, x) /\ Reads
    BY <1>5, <2>4 DEF PlaceTeam
  <2> HIDE DEF x
  <2> QED
    BY <2>2, <2>3, ReadStep DEF Accept, Reads, Inv, TypeOK
<1>6. ASSUME NEW u \in Players, NEW t \in Teams, NEW o \in Orgs, TransferTeam(r, u, t, o)  PROVE Inv'
  <2> DEFINE x == [Idle EXCEPT !.pc = "authorize", !.user = u, !.team = t, !.from = team[t], !.org = o]
  <2>1. team[t] \in Orgs
    BY <1>6 DEF TransferTeam
  <2>2. x \in Request /\ Carries(x)
    <3>1. x \in Request /\ x.pc = "authorize"
      BY <2>1 DEF Idle, Request, OrNone, Step
    <3> HIDE DEF x
    <3> QED
      BY <3>1 DEF Carries
  <2> QED
    BY <1>6, <2>2, ReadStep DEF TransferTeam, Accept, Reads, Inv, TypeOK
<1>7. ASSUME UpdateSettings(r)  PROVE Inv'
  <2>1. PICK value \in BOOLEAN, b \in BOOLEAN :
          Accept(r, [Idle EXCEPT !.pc = IF b THEN "findTeams" ELSE "persist",
                                 !.user = System, !.value = value, !.holds = b])
    BY <1>7 DEF UpdateSettings
  <2> DEFINE pc == IF b THEN "findTeams" ELSE "persist"
             x == [Idle EXCEPT !.pc = pc, !.user = System, !.value = value, !.holds = b]
  <2>2. x \in Request /\ Carries(x)
    <3>1. pc \in {"persist", "findTeams"}
      OBVIOUS
    <3> HIDE DEF pc
    <3>2. x \in Request /\ x.pc = pc /\ x.user = System
      BY <3>1 DEF Idle, Request, OrNone, Step
    <3> HIDE DEF x
    <3> QED
      BY <3>1, <3>2 DEF Carries
  <2>3. Accept(r, x) /\ Reads
    BY <1>7, <2>1 DEF UpdateSettings
  <2> HIDE DEF x
  <2> QED
    BY <2>2, <2>3, ReadStep DEF Accept, Reads, Inv, TypeOK
<1> QED
  BY <1>1, <1>2, <1>3, <1>4, <1>5, <1>6, <1>7 DEF Arrive

(* ... those that go on to another step ... *)
LEMMA RequestType ==
  ASSUME Inv, NEW r \in Requests
  PROVE  request[r] \in Request /\ Carries(request[r])
BY DEF Inv, TypeOK, Shaped

(* A request that goes on, and nothing else, keeps the invariant.           *)
LEMMA GotoStep ==
  ASSUME Inv, NEW r \in Requests, NEW pc \in Step, Goto(r, pc),
         pc \in {"findTeams", "findOrgs", "join", "add", "count", "write", "capacity", "create"} =>
           Carries([request[r] EXCEPT !.pc = pc]),
         UNCHANGED <<Rows, history>>, faults' \in 0..MaxFaults
  PROVE  Inv'
<1> DEFINE x == [request[r] EXCEPT !.pc = pc]
<1>1. x \in Request /\ x.pc = pc
  <2>1. request[r] \in Request
    BY RequestType
  <2> QED
    BY <2>1 DEF Request
<1>2. Carries(x)
  <2>1. CASE pc \in {"findTeams", "findOrgs", "join", "add", "count", "write", "capacity", "create"}
    BY <2>1
  <2>2. CASE pc \notin {"findTeams", "findOrgs", "join", "add", "count", "write", "capacity", "create"}
    <3> HIDE DEF x
    <3> QED
      BY <1>1, <2>2 DEF Carries
  <2> QED
    BY <2>1, <2>2
<1>3. request' = [request EXCEPT ![r] = x]
  BY DEF Goto
<1> HIDE DEF x
<1> QED
  BY <1>1, <1>2, <1>3, ReadStep

(* So does one that ends ...                                                *)
LEMMA EndStep ==
  ASSUME Inv, NEW r \in Requests, End(r), UNCHANGED <<Rows, history>>, faults' \in 0..MaxFaults
  PROVE  Inv'
<1>1. Carries(Idle)
  BY IdleType DEF Carries
<1> QED
  BY <1>1, IdleType, ReadStep DEF End

(* ... or gives up.                                                         *)
LEMMA AbandonStep ==
  ASSUME Inv, NEW r \in Requests, Abandon(r), UNCHANGED <<Rows, history>>, faults' \in 0..MaxFaults
  PROVE  Inv'
<1>1. CASE Goto(r, "rollback")
  BY <1>1, GotoStep DEF Step
<1>2. CASE End(r)
  BY <1>2, EndStep
<1> QED
  BY <1>1, <1>2 DEF Abandon

(* A request that goes on carries what the next step needs.                 *)
LEMMA SameCarries ==
  ASSUME NEW q \in Request, Carries(q), NEW pc \in Step, NEW b \in BOOLEAN,
         \/ q.pc = "capacity" /\ pc = "create"
         \/ q.pc = "findOrgs" /\ pc = "capacity"
         \/ q.pc = "join" /\ pc = "add"
         \/ q.pc = "count" /\ pc = "write"
         \/ pc \notin {"findTeams", "findOrgs", "join", "add", "count", "write", "capacity", "create"}
  PROVE  /\ Carries([q EXCEPT !.pc = pc])
         /\ [q EXCEPT !.pc = pc, !.holds = b] \in Request
         /\ Carries([q EXCEPT !.pc = pc, !.holds = b])
BY DEF Request, Carries

Checks(r) == Capacity(r) \/ MemberAdd(r) \/ CountManagers(r) \/ CountTeams(r)
  \/ Authorize(r) \/ Room(r) \/ FindTeams(r) \/ FindOrganizations(r) \/ Assign(r) \/ Rollback(r)

(* The steps that only check keep the invariant.                            *)
LEMMA CheckStep ==
  ASSUME Inv, NEW r \in Requests, Checks(r)
  PROVE  Inv'
<1> DEFINE q == request[r]
<1>1. q \in Request /\ Carries(q)
  BY RequestType
<1>2. faults \in 0..MaxFaults
  BY DEF Inv, TypeOK
<1>3. CASE Capacity(r)
  <2>1. q.pc = "capacity" /\ Goto(r, "create") /\ UNCHANGED <<Rows, history, faults>>
    BY <1>3 DEF Capacity, On, At, Reads
  <2> HIDE DEF q
  <2>2. Carries([q EXCEPT !.pc = "create"])
    BY <1>1, <2>1, SameCarries DEF Step
  <2> USE DEF q
  <2> QED
    BY <1>2, <2>1, <2>2, GotoStep DEF Step
<1>4. CASE MemberAdd(r)
  <2>1. q.pc = "join" /\ Goto(r, "add") /\ UNCHANGED <<Rows, history, faults>>
    BY <1>4 DEF MemberAdd, On, At, Reads
  <2> HIDE DEF q
  <2>2. Carries([q EXCEPT !.pc = "add"])
    BY <1>1, <2>1, SameCarries DEF Step
  <2> USE DEF q
  <2> QED
    BY <1>2, <2>1, <2>2, GotoStep DEF Step
<1>5. CASE CountManagers(r)
  <2>1. PICK b \in BOOLEAN : request' = [request EXCEPT ![r] = [q EXCEPT !.pc = "write", !.holds = b]]
    BY <1>5 DEF CountManagers
  <2>2. q.pc = "count"
    BY <1>5 DEF CountManagers, On, At
  <2> DEFINE x == [q EXCEPT !.pc = "write", !.holds = b]
  <2>3. x \in Request /\ Carries(x)
    <3> HIDE DEF q
    <3> QED
      BY <1>1, <2>2, SameCarries DEF Step
  <2> QED
    BY <1>2, <1>5, <2>1, <2>3, ReadStep DEF CountManagers, Reads
<1>6. CASE CountTeams(r)
  <2> DEFINE x == [q EXCEPT !.pc = "delete", !.holds = TRUE]
  <2>1. x \in Request /\ Carries(x)
    <3> HIDE DEF q
    <3> QED
      BY <1>1, SameCarries DEF Step
  <2> QED
    BY <1>2, <1>6, <2>1, ReadStep DEF CountTeams, Reads
<1>7. CASE Authorize(r) \/ Room(r) \/ Assign(r) \/ Rollback(r)
  <2>1. PICK pc \in {"room", "place", "move", "countTeams"} : Goto(r, pc)
    BY <1>7 DEF Authorize, Room, Assign, Rollback
  <2>2. UNCHANGED <<Rows, history, faults>>
    BY <1>7 DEF Authorize, Room, Assign, Rollback, Reads
  <2> QED
    BY <1>2, <2>1, <2>2, GotoStep DEF Step
<1>8. CASE FindOrganizations(r)
  <2>1. q.pc = "findOrgs"
    BY <1>8 DEF FindOrganizations, On, At
  <2>2. CASE Live = {}
    <3>1. Goto(r, "capacity") /\ UNCHANGED <<Rows, history, faults>>
      BY <1>8, <2>2 DEF FindOrganizations, Reads
    <3> HIDE DEF q
    <3>2. Carries([q EXCEPT !.pc = "capacity"])
      BY <1>1, <2>1, SameCarries DEF Step
    <3> USE DEF q
    <3> QED
      BY <1>2, <3>1, <3>2, GotoStep DEF Step
  <2>3. CASE Live # {}
    <3>1. PICK o \in Live : request' = [request EXCEPT ![r] = [q EXCEPT !.pc = "assign", !.org = o]]
      BY <1>8, <2>3 DEF FindOrganizations
    <3> DEFINE x == [q EXCEPT !.pc = "assign", !.org = o]
    <3>2. x \in Request /\ Carries(x)
      <4>1. o \in Orgs
        BY DEF Live
      <4> HIDE DEF q
      <4>2. x \in Request /\ x.pc = "assign"
        BY <1>1, <4>1, ZenonT(40) DEF Request, OrNone, Step
      <4> HIDE DEF x
      <4> QED
        BY <4>2 DEF Carries
    <3> QED
      BY <1>2, <1>8, <3>1, <3>2, ReadStep DEF FindOrganizations, Reads
  <2> QED
    BY <2>2, <2>3
<1>9. CASE FindTeams(r)
  <2> DEFINE pc == IF WithoutOrganization = {} THEN "persist" ELSE "findOrgs"
             x == [q EXCEPT !.teams = WithoutOrganization, !.pc = pc]
  <2>1. q.pc = "findTeams" /\ request' = [request EXCEPT ![r] = x]
    BY <1>9 DEF FindTeams, On, At
  <2>2. x \in Request /\ Carries(x)
    <3>1. pc \in {"persist", "findOrgs"} /\ WithoutOrganization \subseteq Teams
      BY DEF WithoutOrganization, TeamsOf
    <3>2. q.user = System
      BY <1>1, <2>1 DEF Carries
    <3> HIDE DEF q, pc
    <3>3. x \in Request /\ x.pc = pc /\ x.user = System
      BY <1>1, <3>1, <3>2 DEF Request, Step
    <3> HIDE DEF x
    <3> QED
      BY <3>1, <3>3 DEF Carries
  <2> HIDE DEF x
  <2> QED
    BY <1>2, <1>9, <2>1, <2>2, ReadStep DEF FindTeams, Reads
<1> QED
  BY <1>3, <1>4, <1>5, <1>6, <1>7, <1>8, <1>9 DEF Checks

-------------------------------------------------------------------------------
(* ... and those that write. *)
KeepsRows == \A p \in Players :
  member[p] # NoRow => member'[p] # NoRow /\ member'[p].org = member[p].org

(* A write that lets every row stand keeps what the requests carry.         *)
LEMMA WriteStep ==
  ASSUME TypeOK', NEW f \in [Requests -> Request], request' = f, KeepsRows,
         \A s \in Requests : Carries(f[s])
  PROVE  Inv'
<1>1. \A q \in Request : Carries(q) => Carries(q)'
  BY DEF Carries, KeepsRows
<1> QED
  BY <1>1 DEF Inv, Shaped

(* Requests whose check is outdated still carry what they carried.          *)
LEMMA OutdatedType ==
  ASSUME Inv, NEW pc, NEW o
  PROVE  /\ Outdated(pc, o) \in [Requests -> Request]
         /\ \A s \in Requests : Carries(Outdated(pc, o)[s])
<1>1. ASSUME NEW s \in Requests
      PROVE  /\ [request[s] EXCEPT !.holds = FALSE] \in Request
             /\ Carries([request[s] EXCEPT !.holds = FALSE])
             /\ request[s] \in Request /\ Carries(request[s])
  <2> DEFINE q == request[s]
  <2>1. q \in Request /\ Carries(q)
    BY RequestType
  <2> HIDE DEF q
  <2>2. [q EXCEPT !.holds = FALSE] \in Request /\ Carries([q EXCEPT !.holds = FALSE])
    BY <2>1 DEF Request, Carries
  <2> QED
    BY <2>1, <2>2 DEF q
<1> QED
  BY <1>1 DEF Outdated

(* create writes a row that was not there.                                  *)
LEMMA CreateStep ==
  ASSUME Inv, NEW r \in Requests, Create(r)
  PROVE  Inv'
<1> DEFINE q == request[r]
           system == q.user = System
<1>1. PICK o \in Orgs :
         /\ org[o] = "unused" /\ org' = [org EXCEPT ![o] = "live"]
         /\ request' = [request EXCEPT ![r] =
              [q EXCEPT !.org = o, !.made = system, !.pc = IF system THEN "assign" ELSE "join"]]
         /\ bare' = IF system THEN bare \cup {o} ELSE bare
  BY DEF Create
<1>2. UNCHANGED <<member, team, required, answers, managed, slipped, faults>>
  BY DEF Create
<1>3. q.pc = "create" /\ q \in Request /\ Carries(q)
  BY RequestType DEF Create, On, At
<1>4. PICK x \in Request : Carries(x) /\ request' = [request EXCEPT ![r] = x]
  <2>1. CASE system
    <3> DEFINE x == [q EXCEPT !.org = o, !.made = TRUE, !.pc = "assign"]
    <3>1. request' = [request EXCEPT ![r] = x]
      BY <1>1, <2>1
    <3>2. x \in Request /\ Carries(x)
      <4> HIDE DEF q
      <4> QED
        BY <1>3, ZenonT(40) DEF Request, Carries, OrNone, Step
    <3> HIDE DEF x
    <3> QED
      BY <3>1, <3>2
  <2>2. CASE ~system
    <3> DEFINE x == [q EXCEPT !.org = o, !.made = FALSE, !.pc = "join"]
    <3>1. request' = [request EXCEPT ![r] = x]
      BY <1>1, <2>2
    <3>2. x \in Request /\ Carries(x)
      <4>1. q.user \in OrNone(Players) /\ q.role \in OrganizationMemberRole
        BY <1>3, <2>2 DEF Carries
      <4> HIDE DEF q
      <4> QED
        BY <1>3, <4>1 DEF Request, Carries, OrNone, Step
    <3> HIDE DEF x
    <3> QED
      BY <3>1, <3>2
  <2> QED
    BY <2>1, <2>2
<1>5. Live' = Live \cup {o}
  BY <1>1 DEF Live, Inv, TypeOK
<1>6. TypeOK'
  BY <1>1, <1>2, <1>4, <1>5 DEF Inv, TypeOK
<1>7. KeepsRows
  BY <1>2 DEF KeepsRows
<1> QED
  BY <1>4, <1>6, <1>7, WriteStep DEF Inv, TypeOK, Shaped

(* The settings are stored; no row of this league changes.                  *)
LEMMA PersistStep ==
  ASSUME Inv, NEW r \in Requests, Persist(r)
  PROVE  Inv'
<1> DEFINE g == IF request[r].value THEN Outdated("place", "none") ELSE request
           f == [g EXCEPT ![r] = Idle]
<1>1. f \in [Requests -> Request] /\ \A s \in Requests : Carries(f[s])
  <2>1. g \in [Requests -> Request] /\ \A s \in Requests : Carries(g[s])
    BY OutdatedType, RequestType DEF Inv, TypeOK
  <2> HIDE DEF g
  <2> QED
    BY <2>1, IdleType DEF Carries
<1>2. request' = f
  BY DEF Persist
<1> HIDE DEF f
<1>3. request[r].value \in BOOLEAN
  BY RequestType DEF Request
<1>4. /\ UNCHANGED <<org, member, team, managed, bare, faults>>
      /\ required' = request[r].value /\ answers' = answers \cup {request[r].value}
      /\ slipped' \subseteq slipped \cup Teams
  BY DEF Persist, WithoutOrganization, TeamsOf
<1>5. TypeOK'
  BY <1>1, <1>2, <1>3, <1>4 DEF Inv, TypeOK, Live
<1> QED
  BY <1>1, <1>2, <1>4, <1>5, WriteStep DEF KeepsRows

(* A team comes to an organization that is there, or to none.               *)
LEMMA PlacedStep ==
  ASSUME Inv, NEW r \in Requests, Placed(r)
  PROVE  Inv'
<1> DEFINE o == request[r].org
           f == [Outdated("delete", o) EXCEPT ![r] = Idle]
<1>1. f \in [Requests -> Request] /\ \A s \in Requests : Carries(f[s])
  BY OutdatedType, IdleType DEF Carries
<1>2. request' = f /\ UNCHANGED <<org, member, required, answers, managed, faults>> /\ bare' = bare \ {o}
  BY DEF Placed
<1>3. o \in Live \cup {"none"}
  BY Checked DEF Placed
<1>4. PICK t \in Teams : team' = [team EXCEPT ![t] = o] /\ slipped' \subseteq slipped \cup {t}
  BY DEF Placed
<1> HIDE DEF f, o
<1>5. TypeOK'
  BY <1>1, <1>2, <1>3, <1>4, OrganizationsAssumption DEF Inv, TypeOK, Live
<1> QED
  BY <1>1, <1>2, <1>5, WriteStep DEF KeepsRows

(* The teams of an assignment come to an organization that is there.        *)
LEMMA MovedStep ==
  ASSUME Inv, NEW r \in Requests, Moved(r)
  PROVE  Inv'
<1> DEFINE q == request[r]
           x == [Outdated("delete", q.org)[r] EXCEPT !.pc = "persist"]
           f == [Outdated("delete", q.org) EXCEPT ![r] = x]
<1>1. x \in Request /\ Carries(x)
  <2> DEFINE y == Outdated("delete", q.org)[r]
  <2>1. y \in Request
    BY OutdatedType
  <2> HIDE DEF y
  <2>2. [y EXCEPT !.pc = "persist"] \in Request /\ Carries([y EXCEPT !.pc = "persist"])
    BY <2>1 DEF Request, Carries, Step
  <2> QED
    BY <2>2 DEF y
<1> HIDE DEF x
<1>2. f \in [Requests -> Request] /\ \A s \in Requests : Carries(f[s])
  BY <1>1, OutdatedType
<1>3. request' = f
  BY OutdatedType DEF Moved, x
<1>4. /\ UNCHANGED <<org, member, required, answers, managed, faults>>
      /\ team' = [t \in Teams |-> IF t \in q.teams THEN q.org ELSE team[t]]
      /\ slipped' = slipped \ q.teams /\ bare' = bare \ {q.org}
  BY DEF Moved
<1>5. q.org \in Live
  BY Checked DEF Moved
<1> HIDE DEF f, q
<1>6. TypeOK'
  BY <1>2, <1>3, <1>4, <1>5 DEF Inv, TypeOK, Live
<1> QED
  BY <1>2, <1>3, <1>4, <1>6, WriteStep DEF KeepsRows

(* A team is deleted, or the caches answer what is stored.                  *)
LEMMA TeamStep ==
  ASSUME Inv, Refresh \/ \E t \in Teams : DeleteTeam(t)
  PROVE  Inv'
<1>1. /\ UNCHANGED <<org, member, managed, faults, request>> /\ bare' = bare
      /\ slipped' \subseteq slipped /\ required' \in answers' /\ answers' \subseteq BOOLEAN
      /\ team' \in [Teams -> Orgs \cup {"none", "unused", "gone"}]
      /\ \A t \in Teams : team'[t] = team[t] \/ team'[t] = "gone"
  BY DEF Refresh, DeleteTeam, history, Inv, TypeOK
<1>2. TypeOK'
  BY <1>1, OrganizationsAssumption DEF Inv, TypeOK, Live
<1> QED
  BY <1>1, <1>2, WriteStep DEF KeepsRows, Inv, TypeOK, Shaped

(* Rows of the players S change; the requests that hold one of them end. *)
LEMMA ForgetStep ==
  ASSUME Inv, TypeOK', NEW S, NEW f \in [Requests -> Request], request' = f,
         \A p \in Players \ S : member'[p] = member[p],
         \A s \in Requests : f[s] = Idle \/ (f[s] = request[s] /\ ~HoldsRow(s, S))
  PROVE  Inv'
<1>1. ASSUME NEW s \in Requests  PROVE Carries(f[s])'
  <2>1. CASE f[s] = Idle
    BY <2>1, IdleType DEF Carries
  <2>2. CASE f[s] = request[s] /\ ~HoldsRow(s, S)
    <3>1. Carries(request[s])
      BY RequestType
    <3> QED
      BY <2>2, <3>1 DEF Carries, HoldsRow
  <2> QED
    BY <2>1, <2>2
<1> QED
  BY <1>1 DEF Inv, Shaped

(* A member is added to an organization that is there.                      *)
LEMMA AddedStep ==
  ASSUME Inv, NEW r \in Requests, Added(r)
  PROVE  Inv'
<1> DEFINE q == request[r]
           p == q.user
           row == [org |-> q.org, role |-> q.role, status |-> "ACTIVE"]
           manager == IF q.role = "GENERAL_MANAGER" THEN {q.org} ELSE {}
<1>1. p \in Players /\ q.role \in OrganizationMemberRole
  BY RequestType, Checked DEF Added, On, At, Carries, MayJoin
<1>2. q.org \in Live
  BY Checked DEF Added, MayJoin
<1>3. /\ member' = [member EXCEPT ![p] = row]
      /\ request' = Forget(r, {p})
      /\ managed' = managed \cup manager /\ bare' = bare \ manager
      /\ UNCHANGED <<org, team, required, answers, slipped, faults>>
  BY DEF Added
<1>4. row \in Row /\ row.org = q.org /\ manager \subseteq {q.org}
  BY <1>1, <1>2 DEF Row, Live, OrganizationMemberStatus
<1> HIDE DEF row, manager, q
<1>5. PICK f \in [Requests -> Request] :
         /\ request' = f
         /\ \A s \in Requests : f[s] = Idle \/ (f[s] = request[s] /\ ~HoldsRow(s, {p}))
  <2>1. \A s \in Requests : request'[s] = Idle \/ (request'[s] = request[s] /\ ~HoldsRow(s, {p}))
    BY <1>3 DEF Forget
  <2>2. request' \in [Requests -> Request]
    BY <1>3, IdleType DEF Forget, Inv, TypeOK
  <2> QED
    BY <2>1, <2>2
<1>6. TypeOK'
  BY <1>1, <1>2, <1>3, <1>4, <1>5 DEF Inv, TypeOK, Live
<1>7. \A u \in Players \ {p} : member'[u] = member[u]
  BY <1>3 DEF Inv, TypeOK
<1> QED
  BY <1>5, <1>6, <1>7, ForgetStep

(* A row that is written keeps its organization.                            *)
LEMMA ChangedStep ==
  ASSUME Inv, NEW r \in Requests, Changed(r)
  PROVE  Inv'
<1> DEFINE q == request[r]
           p == q.user
           o == q.org
<1>1. p \in Players /\ member[p] # NoRow /\ member[p].org = o /\ o \in Live
  <2>1. q.pc = "write" /\ Carries(q)
    BY RequestType DEF Changed, On, At
  <2> QED
    BY <2>1 DEF Carries, Inv, TypeOK
<1>2. PICK row \in Row : member' = [member EXCEPT ![p] = row] /\ row.org = o
  <2> DEFINE role == IF q.role = "none" THEN member[p].role ELSE q.role
             status == IF q.status = "none" THEN member[p].status ELSE q.status
             row == [org |-> o, role |-> role, status |-> status]
  <2>1. member[p] \in Row /\ q \in Request
    BY <1>1, RequestType DEF Inv, TypeOK
  <2>2. role \in OrganizationMemberRole
    BY <2>1 DEF Row, Request, OrNone
  <2>3. status \in OrganizationMemberStatus
    BY <2>1 DEF Row, Request, OrNone
  <2>4. row \in Row /\ row.org = o
    BY <1>1, <2>2, <2>3 DEF Row, Live
  <2>5. member' = [member EXCEPT ![p] = row]
    BY DEF Changed
  <2> QED
    BY <2>4, <2>5
<1>3. /\ UNCHANGED <<org, team, required, answers, slipped, faults>>
      /\ managed' \subseteq managed \cup {o} /\ bare' \subseteq bare
  BY DEF Changed
<1>4. PICK f \in [Requests -> Request] : request' = f /\ \A s \in Requests : Carries(f[s])
  <2>1. PICK g \in [Requests -> Request] :
          /\ \A s \in Requests : Carries(g[s])
          /\ request' = [g EXCEPT ![r] = Idle]
    BY OutdatedType, RequestType DEF Changed, Inv, TypeOK
  <2> QED
    BY <2>1, IdleType DEF Carries
<1> HIDE DEF q
<1>5. row # NoRow
  BY <1>1, <1>2, OrganizationsAssumption DEF Row, NoRow, Live
<1>6. TypeOK'
  BY <1>1, <1>2, <1>3, <1>4 DEF Inv, TypeOK, Live
<1>7. KeepsRows
  BY <1>1, <1>2, <1>5 DEF KeepsRows, Inv, TypeOK
<1> QED
  BY <1>4, <1>6, <1>7, WriteStep

(* With an organization go its members and the requests about them.         *)
LEMMA DeletedStep ==
  ASSUME Inv, NEW r \in Requests, Deleted(r)
  PROVE  Inv'
<1> DEFINE o == request[r].org
           members == {p \in Players : member[p].org = o}
<1>1. o \in Live
  BY Checked DEF Deleted
<1>2. /\ org' = [org EXCEPT ![o] = "gone"]
      /\ member' = [p \in Players |-> IF p \in members THEN NoRow ELSE member[p]]
      /\ team' = [t \in Teams |-> IF team[t] = o THEN "none" ELSE team[t]]
      /\ request' = Forget(r, members)
      /\ managed' = managed \ {o} /\ bare' = bare \ {o}
      /\ slipped' \subseteq slipped \cup Teams
      /\ UNCHANGED <<required, answers, faults>>
  BY DEF Deleted, TeamsOf
<1>3. PICK f \in [Requests -> Request] :
         /\ request' = f
         /\ \A s \in Requests : f[s] = Idle \/ (f[s] = request[s] /\ ~HoldsRow(s, members))
  <2>1. \A s \in Requests : request'[s] = Idle \/ (request'[s] = request[s] /\ ~HoldsRow(s, members))
    BY <1>2 DEF Forget
  <2>2. request' \in [Requests -> Request]
    BY <1>2, IdleType DEF Forget, Inv, TypeOK
  <2> QED
    BY <2>1, <2>2
<1>4. \A p \in Players \ members : member'[p] = member[p]
  BY <1>2
<1> HIDE DEF o
<1>5. TypeOK'
  <2>1. Live' = Live \ {o}
    BY <1>1, <1>2 DEF Live, Inv, TypeOK
  <2>2. \A p \in Players : member'[p] # NoRow => member'[p].org \in Live'
    BY <1>2, <2>1 DEF Inv, TypeOK
  <2>3. \A t \in Teams : team'[t] \in Orgs => team'[t] \in Live'
    BY <1>2, <2>1, OrganizationsAssumption DEF Inv, TypeOK
  <2> QED
    BY <1>1, <1>2, <1>3, <2>1, <2>2, <2>3 DEF Inv, TypeOK, Live
<1> QED
  BY <1>3, <1>4, <1>5, ForgetStep

(* With players go their rows, and what is in hand of them.                 *)
LEMMA PlayersDeletedStep ==
  ASSUME Inv, NEW players \in SUBSET Players, PlayersDeleted(players)
  PROVE  Inv'
<1>1. /\ member' = [p \in Players |-> IF p \in players THEN NoRow ELSE member[p]]
      /\ managed' \subseteq managed /\ request' = WithoutPlayers(players)
      /\ UNCHANGED <<org, team, required, answers, slipped, bare, faults>>
  BY DEF PlayersDeleted
<1>2. PICK f : f = WithoutPlayers(players)
  OBVIOUS
<1>3. ASSUME NEW s \in Requests  PROVE f[s] \in Request /\ Carries(f[s])'
  <2>1. PICK q : q = request[s]
    OBVIOUS
  <2>2. q \in Request /\ Carries(q)
    BY <2>1, RequestType
  <2>3. CASE HoldsRow(s, players)
    <3>1. f[s] = Idle
      BY <1>2, <2>3 DEF WithoutPlayers
    <3> QED
      BY <3>1, IdleType DEF Carries
  <2>4. CASE ~HoldsRow(s, players) /\ q.pc \in {"create", "join", "add"} /\ q.user \in players
    <3>1. PICK x : x = [q EXCEPT !.user = "none"]
      OBVIOUS
    <3>2. f[s] = x
      BY <1>2, <2>1, <2>4, <3>1 DEF WithoutPlayers
    <3>3. q.user # System
      BY <2>4, OrganizationsAssumption DEF System
    <3>4. q.pc \in {"create", "join", "add"}
      BY <2>4
    <3>5. q.role \in OrganizationMemberRole
      BY <2>2, <3>3, <3>4 DEF Carries
    <3>6. x \in Request /\ x.pc = q.pc /\ x.user = "none" /\ x.role = q.role
      BY <2>2, <3>1 DEF Request, OrNone
    <3> QED
      BY <3>2, <3>4, <3>5, <3>6 DEF Carries, OrNone
  <2>5. CASE ~HoldsRow(s, players) /\ ~(q.pc \in {"create", "join", "add"} /\ q.user \in players)
    <3>1. PICK x : x = [q EXCEPT !.holds = FALSE]
      OBVIOUS
    <3>2. f[s] \in {x, q}
      BY <1>2, <2>1, <2>5, <3>1 DEF WithoutPlayers
    <3>3. q.pc \in {"count", "write"} => q.user \notin players
      BY <2>1, <2>5 DEF HoldsRow
    <3>4. x \in Request /\ x.pc = q.pc /\ x.user = q.user /\ x.role = q.role /\ x.org = q.org
      BY <2>2, <3>1 DEF Request
    <3>5. \A p \in Players \ players : member'[p] = member[p]
      BY <1>1
    <3>6. Carries(q)' /\ Carries(x)'
      BY <2>2, <3>3, <3>4, <3>5 DEF Carries
    <3> QED
      BY <2>2, <3>2, <3>4, <3>6
  <2> QED
    BY <2>3, <2>4, <2>5
<1>4. request' = f /\ f \in [Requests -> Request]
  BY <1>1, <1>2, <1>3 DEF WithoutPlayers
<1>5. TypeOK'
  BY <1>1, <1>4 DEF Inv, TypeOK, Live
<1> QED
  BY <1>3, <1>4, <1>5 DEF Inv, Shaped

-------------------------------------------------------------------------------
(* Every step keeps the invariant.                                          *)
LEMMA StepInv ==
  ASSUME Inv, Next
  PROVE  Inv'
<1>1. ASSUME NEW r \in Requests, Proceed(r)  PROVE Inv'
  <2>1. \/ Checks(r) \/ Create(r) \/ Added(r) \/ Changed(r) \/ Deleted(r)
        \/ Placed(r) \/ Moved(r) \/ Persist(r)
    BY <1>1 DEF Proceed, Checks
  <2> QED
    BY <2>1, CheckStep, CreateStep, AddedStep, ChangedStep, DeletedStep, PlacedStep, MovedStep, PersistStep
<1>2. ASSUME NEW r \in Requests, Refuse(r) \/ Fail(r)  PROVE Inv'
  <2>1. Abandon(r) /\ UNCHANGED <<Rows, history>>
    BY <1>2 DEF Refuse, Fail, Reads
  <2>2. faults' \in 0..MaxFaults
    BY <1>2, OrganizationsAssumption DEF Refuse, Fail, Reads, Inv, TypeOK
  <2> QED
    BY <2>1, <2>2, AbandonStep
<1> QED
  BY <1>1, <1>2, ArriveStep, TeamStep, PlayersDeletedStep DEF Next

(* It holds at first ...                                                    *)
LEMMA Init_Inv == Init => Inv
<1> SUFFICES ASSUME Init  PROVE Inv
  OBVIOUS
<1>1. /\ org \in [Orgs -> {"unused", "live", "gone"}]
      /\ member \in [Players -> Row \cup {NoRow}]
      /\ team \in [Teams -> Orgs \cup {"none", "unused", "gone"}]
      /\ required \in answers /\ answers \subseteq BOOLEAN /\ faults \in 0..MaxFaults
      /\ request \in [Requests -> Request]
  <2>1. required \in answers /\ answers \subseteq BOOLEAN
    BY DEF Init
  <2>2. faults \in 0..MaxFaults
    <3>1. faults = 0
      BY DEF Init
    <3> QED
      BY <3>1, OrganizationsAssumption
  <2>3. request \in [Requests -> Request]
    BY IdleType DEF Init
  <2> QED
    BY <2>1, <2>2, <2>3 DEF Init
<1>2. \A p \in Players : member[p] = NoRow
  BY DEF Init
<1>3. \A t \in Teams : team[t] \notin Orgs
  BY OrganizationsAssumption DEF Init
<1>4. managed \subseteq Live /\ bare \subseteq Live /\ slipped \subseteq Teams
  BY DEF Init
<1>5. Shaped
  BY IdleType DEF Init, Shaped, Carries
<1> QED
  BY <1>1, <1>2, <1>3, <1>4, <1>5 DEF Inv, TypeOK

(* ... where nothing happens ...                                            *)
LEMMA Stutter == Inv /\ UNCHANGED vars => Inv'
BY DEF Inv, TypeOK, Shaped, Carries, Live, vars, history

(* ... and so always.                                                       *)
LEMMA Invariance == Spec => []Inv
<1>1. Inv /\ [Next]_vars => Inv'
  BY StepInv, Stutter
<1> QED
  BY Init_Inv, <1>1, PTL DEF Spec

(* Every row and every request keeps its type; no member, team or history   *)
(* is of an organization that is gone.                                      *)
THEOREM TypeCorrect == Spec => []TypeOK
<1>1. Inv => TypeOK
  BY DEF Inv
<1> QED
  BY <1>1, Invariance, PTL

-------------------------------------------------------------------------------
(* What a write leaves of a request: all but, at step pc for o, holds, and  *)
(* the player where he is gone.                                             *)
Remains(q, x) ==
  /\ x.pc = q.pc /\ x.org = q.org /\ x.teams = q.teams /\ x.made = q.made /\ x.value = q.value
  /\ x.user = System <=> q.user = System
  /\ x.holds => q.holds

(* What is left when players are deleted.                                   *)
LEMMA PlayersDeletedShape ==
  ASSUME Inv, NEW players \in SUBSET Players, PlayersDeleted(players)
  PROVE  /\ UNCHANGED <<org, team, required, answers, slipped, bare, faults>>
         /\ \A o : GeneralManagers(o)' = GeneralManagers(o) \ players
         /\ managed' = {o \in managed : ~(GeneralManagers(o) \subseteq players)}
         /\ \A s \in Requests :
              \/ request'[s] = Idle /\ request[s].pc \in {"add", "count", "write"}
              \/ /\ Remains(request[s], request'[s])
                 /\ At(s, "write") /\ request'[s].holds =>
                      /\ request'[s] = request[s]
                      /\ GeneralManagers(request[s].org) \cap players = {}
<1>1. /\ UNCHANGED <<org, team, required, answers, slipped, bare, faults>>
      /\ member' = [p \in Players |-> IF p \in players THEN NoRow ELSE member[p]]
      /\ managed' = {o \in managed : ~(GeneralManagers(o) \subseteq players)}
      /\ request' = WithoutPlayers(players)
  BY DEF PlayersDeleted
<1>2. \A o : GeneralManagers(o)' = GeneralManagers(o) \ players
  BY <1>1 DEF GeneralManagers, NoRow
<1>3. ASSUME NEW s \in Requests
      PROVE  \/ request'[s] = Idle /\ request[s].pc \in {"add", "count", "write"}
             \/ /\ Remains(request[s], request'[s])
                /\ At(s, "write") /\ request'[s].holds =>
                     /\ request'[s] = request[s]
                     /\ GeneralManagers(request[s].org) \cap players = {}
  <2> DEFINE q == request[s]
  <2>1. q \in Request
    BY RequestType
  <2>2. CASE HoldsRow(s, players)
    BY <1>1, <2>2 DEF WithoutPlayers, HoldsRow
  <2>3. CASE ~HoldsRow(s, players) /\ q.pc \in {"create", "join", "add"} /\ q.user \in players
    <3>1. request'[s] = [q EXCEPT !.user = "none"] /\ q.pc # "write"
      BY <1>1, <2>3 DEF WithoutPlayers
    <3> QED
      BY <2>1, <2>3, <3>1, OrganizationsAssumption DEF Remains, At, System, Request
  <2>4. CASE ~HoldsRow(s, players) /\ ~(q.pc \in {"create", "join", "add"} /\ q.user \in players)
    <3>1. \/ request'[s] = [q EXCEPT !.holds = FALSE]
          \/ request'[s] = q /\ ~(At(s, "write") /\ GeneralManagers(q.org) \cap players # {})
      BY <1>1, <2>4 DEF WithoutPlayers
    <3> QED
      BY <2>1, <3>1 DEF Remains, At, Request
  <2> QED
    BY <2>2, <2>3, <2>4
<1> QED
  BY <1>1, <1>2, <1>3

-------------------------------------------------------------------------------
(* A request that has found room and not made its organization yet takes a  *)
(* place; with those places, the league is never full by more than the      *)
(* requests there are.                                                      *)
Creating == {r \in Requests : At(r, "create")}
Bounded == Cardinality(Live) + Cardinality(Creating) < MaxOrgs + Cardinality(Requests)

(* The cardinalities that are compared are numbers.                         *)
LEMMA Finite ==
  ASSUME NEW L \in SUBSET Orgs, NEW C \in SUBSET Requests
  PROVE  /\ IsFiniteSet(L) /\ Cardinality(L) \in Nat
         /\ IsFiniteSet(C) /\ Cardinality(C) \in Nat /\ Cardinality(C) <= Cardinality(Requests)
         /\ Cardinality(Requests) \in Nat
<1>1. IsFiniteSet(L) /\ IsFiniteSet(C) /\ Cardinality(C) <= Cardinality(Requests)
  BY OrganizationsAssumption, FS_Subset
<1> QED
  BY <1>1, OrganizationsAssumption, FS_CardinalityType

(* Most steps make no organization and let no request find room. *)
LEMMA NoMore ==
  ASSUME Bounded, Live' \subseteq Live, Creating' \subseteq Creating
  PROVE  Bounded'
<1>1. Live \in SUBSET Orgs /\ Creating \in SUBSET Requests
  BY DEF Live, Creating
<1>2. /\ Cardinality(Live') <= Cardinality(Live) /\ Cardinality(Live') \in Nat
      /\ Cardinality(Creating') <= Cardinality(Creating) /\ Cardinality(Creating') \in Nat
  BY <1>1, Finite, FS_Subset
<1>3. Cardinality(Live) \in Nat /\ Cardinality(Creating) \in Nat /\ Cardinality(Requests) \in Nat
  BY <1>1, Finite
<1>4. MaxOrgs \in Nat
  BY OrganizationsAssumption
<1> QED
  BY <1>2, <1>3, <1>4 DEF Bounded

(* A request that finds room takes a place that is left.                    *)
LEMMA CapacityBounded ==
  ASSUME NEW r \in Requests, Capacity(r)
  PROVE  Bounded'
<1>1. Live' = Live /\ Creating' \in SUBSET Requests /\ Live \in SUBSET Orgs
  BY DEF Capacity, Reads, Rows, Live, Creating
<1>2. Cardinality(Live) < MaxOrgs
  BY Checked DEF Capacity, LeagueHasRoom
<1>3. /\ Cardinality(Live) \in Nat /\ Cardinality(Requests) \in Nat
      /\ Cardinality(Creating') \in Nat /\ Cardinality(Creating') <= Cardinality(Requests)
  BY <1>1, Finite
<1>4. MaxOrgs \in Nat /\ Cardinality(Live') = Cardinality(Live)
  BY <1>1, OrganizationsAssumption
<1> QED
  BY <1>2, <1>3, <1>4 DEF Bounded

(* The place it took becomes the organization it makes.                     *)
LEMMA CreateBounded ==
  ASSUME Inv, Bounded, NEW r \in Requests, Create(r)
  PROVE  Bounded'
<1>1. PICK o \in Orgs : org[o] = "unused" /\ org' = [org EXCEPT ![o] = "live"]
  BY DEF Create
<1>2. Live' = Live \cup {o} /\ o \notin Live
  BY <1>1 DEF Live, Inv, TypeOK
<1>3. r \in Creating /\ Creating' \subseteq Creating \ {r}
  <2>1. r \in Creating
    BY DEF Create, On, Creating
  <2>2. request[r] \in Request /\ request \in [Requests -> Request]
    BY RequestType DEF Inv, TypeOK
  <2>3. \A s \in Requests \ {r} : request'[s] = request[s]
    BY <2>2 DEF Create
  <2>4. request'[r].pc # "create"
    BY <2>2 DEF Create, Request
  <2> QED
    BY <2>1, <2>3, <2>4 DEF Creating, At
<1>4. Live \in SUBSET Orgs /\ Creating \in SUBSET Requests /\ Creating' \in SUBSET Requests
  BY DEF Live, Creating
<1>5. Cardinality(Live') = Cardinality(Live) + 1
  BY <1>2, <1>4, Finite, FS_AddElement
<1>6. Cardinality(Creating') <= Cardinality(Creating) - 1
  <2>1. Cardinality(Creating \ {r}) = Cardinality(Creating) - 1 /\ IsFiniteSet(Creating \ {r})
    BY <1>3, <1>4, Finite, FS_RemoveElement
  <2> QED
    BY <1>3, <2>1, FS_Subset
<1>7. /\ Cardinality(Live) \in Nat /\ Cardinality(Creating) \in Nat
      /\ Cardinality(Creating') \in Nat /\ Cardinality(Requests) \in Nat
  BY <1>4, Finite
<1>8. MaxOrgs \in Nat
  BY OrganizationsAssumption
<1> QED
  BY <1>5, <1>6, <1>7, <1>8 DEF Bounded

(* What is asked of a step that is neither of these. *)
Quiet ==
  /\ Live' \subseteq Live
  /\ \A s \in Requests : request'[s].pc = "create" => request[s].pc = "create"

(* A step that is quiet keeps the bound ...                                 *)
LEMMA QuietBounded == ASSUME Bounded, Quiet  PROVE Bounded'
<1>1. Creating' \subseteq Creating
  BY DEF Quiet, Creating, At
<1> QED
  BY <1>1, NoMore DEF Quiet

(* ... as is one of a request that does not come to create ...              *)
LEMMA OneQuiet ==
  ASSUME Inv, NEW r \in Requests, NEW x, x.pc # "create",
         request' = [request EXCEPT ![r] = x], Live' \subseteq Live
  PROVE  Quiet
BY DEF Quiet, Inv, TypeOK

(* ... an arrival ...                                                       *)
LEMMA ArriveQuiet ==
  ASSUME Inv, NEW r \in Requests, Arrive(r)
  PROVE  Quiet
<1>1. ASSUME NEW p \in Players, ChangeMember(r, p)
      PROVE  \E x : x.pc # "create" /\ Accept(r, x)
  BY <1>1 DEF ChangeMember, Idle
<1>2. ASSUME NEW t \in OrNone(Teams), NEW o \in OrNone(Orgs), PlaceTeam(r, t, o)
      PROVE  \E x : x.pc # "create" /\ Accept(r, x)
  BY <1>2 DEF PlaceTeam, Idle
<1>3. ASSUME UpdateSettings(r)
      PROVE  \E x : x.pc # "create" /\ Accept(r, x)
  BY <1>3 DEF UpdateSettings, Idle
<1>4. ASSUME NEW p \in Players, CreateOrganization(r, p)
      PROVE  \E x : x.pc # "create" /\ Accept(r, x)
  BY <1>4 DEF CreateOrganization, Idle
<1>5. ASSUME NEW p \in Players, NEW o \in Orgs, AddMember(r, p, o)
      PROVE  \E x : x.pc # "create" /\ Accept(r, x)
  BY <1>5 DEF AddMember, Idle
<1>6. ASSUME NEW u \in Players \cup {System}, NEW o \in Orgs, DeleteOrganization(r, u, o)
      PROVE  \E x : x.pc # "create" /\ Accept(r, x)
  BY <1>6 DEF DeleteOrganization, Idle
<1>7. ASSUME NEW u \in Players, NEW t \in Teams, NEW o \in Orgs, TransferTeam(r, u, t, o)
      PROVE  \E x : x.pc # "create" /\ Accept(r, x)
  BY <1>7 DEF TransferTeam, Idle
<1>8. PICK x : x.pc # "create" /\ Accept(r, x)
  BY <1>1, <1>2, <1>3, <1>4, <1>5, <1>6, <1>7 DEF Arrive
<1>9. Live' = Live
  BY DEF Arrive, CreateOrganization, ChangeMember, AddMember, DeleteOrganization,
         PlaceTeam, TransferTeam, UpdateSettings, Reads, Rows, Live
<1> QED
  BY <1>8, <1>9, OneQuiet DEF Accept

(* ... an end or a failure ...                                              *)
LEMMA AbandonQuiet ==
  ASSUME Inv, NEW r \in Requests, Refuse(r) \/ Fail(r)
  PROVE  Quiet
<1>1. Live' = Live
  BY DEF Refuse, Fail, Reads, Rows, Live
<1>2. request[r] \in Request
  BY RequestType
<1>3. PICK x : x.pc # "create" /\ request' = [request EXCEPT ![r] = x]
  BY <1>2, IdleType DEF Refuse, Fail, Abandon, Goto, End, Request
<1> QED
  BY <1>1, <1>3, OneQuiet

(* ... a request that has read the teams ...                                *)
LEMMA FoundTeams ==
  ASSUME NEW r \in Requests, request[r] \in Request, FindTeams(r)
  PROVE  \E x : /\ request' = [request EXCEPT ![r] = x]
                /\ x.pc = IF WithoutOrganization = {} THEN "persist" ELSE "findOrgs"
                /\ x.teams = WithoutOrganization
                /\ x.org = request[r].org /\ x.user = request[r].user /\ x.made = request[r].made
                /\ x.value = request[r].value /\ x.holds = request[r].holds
<1> DEFINE q == request[r]
           pc == IF WithoutOrganization = {} THEN "persist" ELSE "findOrgs"
           x == [q EXCEPT !.teams = WithoutOrganization, !.pc = pc]
<1>1. request' = [request EXCEPT ![r] = x]
  BY DEF FindTeams
<1> HIDE DEF q, pc
<1>2. /\ x.pc = pc /\ x.teams = WithoutOrganization
      /\ x.org = q.org /\ x.user = q.user /\ x.made = q.made /\ x.value = q.value /\ x.holds = q.holds
  BY DEF Request, q
<1> HIDE DEF x
<1> USE DEF q, pc
<1> QED
  BY <1>1, <1>2

(* ... every other check ...                                                *)
LEMMA CheckQuiet ==
  ASSUME Inv, NEW r \in Requests, Checks(r), ~Capacity(r)
  PROVE  Quiet
<1>1. Live' = Live
  BY DEF Checks, MemberAdd, CountManagers, CountTeams, Authorize, Room,
         FindTeams, FindOrganizations, Assign, Rollback, Reads, Rows, Live
<1>2. request[r] \in Request
  BY RequestType
<1>3. CASE CountManagers(r)
  <2>1. PICK b \in BOOLEAN : request' = [request EXCEPT ![r] = [request[r] EXCEPT !.pc = "write", !.holds = b]]
    BY <1>3 DEF CountManagers
  <2> QED
    BY <1>1, <1>2, <2>1, OneQuiet DEF Request
<1>4. CASE CountTeams(r)
  BY <1>1, <1>2, <1>4, OneQuiet DEF CountTeams, Request
<1>5. CASE FindOrganizations(r)
  <2>1. PICK x : x.pc # "create" /\ request' = [request EXCEPT ![r] = x]
    BY <1>2, <1>5 DEF FindOrganizations, Goto, Request
  <2> QED
    BY <1>1, <2>1, OneQuiet
<1>6. CASE MemberAdd(r) \/ Authorize(r) \/ Room(r) \/ Assign(r) \/ Rollback(r)
  <2>1. PICK pc \in {"add", "room", "place", "move", "countTeams"} : Goto(r, pc)
    BY <1>6 DEF MemberAdd, Authorize, Room, Assign, Rollback
  <2> QED
    BY <1>1, <1>2, <2>1, OneQuiet DEF Goto, Request
<1>7. CASE FindTeams(r)
  <2>1. PICK x : x.pc # "create" /\ request' = [request EXCEPT ![r] = x]
    BY <1>2, <1>7, FoundTeams
  <2> QED
    BY <1>1, <2>1, OneQuiet
<1> QED
  BY <1>3, <1>4, <1>5, <1>6, <1>7 DEF Checks

(* ... and every other write.                                               *)
LEMMA WriteQuiet ==
  ASSUME Inv, NEW r \in Requests,
         Added(r) \/ Changed(r) \/ Deleted(r) \/ Placed(r) \/ Moved(r) \/ Persist(r)
  PROVE  Quiet
<1>1. Live' \subseteq Live
  BY DEF Added, Changed, Deleted, Placed, Moved, Persist, history, Live, Inv, TypeOK
<1>2. ASSUME NEW pc, NEW o
      PROVE  \A s \in Requests : Outdated(pc, o)[s] \in Request /\ Outdated(pc, o)[s].pc = request[s].pc
  BY RequestType DEF Outdated, Request
<1>3. CASE Added(r) \/ Deleted(r)
  BY <1>1, <1>3, IdleType DEF Added, Deleted, Forget, Quiet
<1>4. CASE Changed(r)
  <2> DEFINE g == Outdated("write", request[r].org)
  <2>1. g \in [Requests -> Request] /\ \A s \in Requests : g[s].pc = request[s].pc
    BY <1>2, OutdatedType
  <2>2. request' = [g EXCEPT ![r] = Idle] \/ request' = [request EXCEPT ![r] = Idle]
    BY <1>4 DEF Changed
  <2> HIDE DEF g
  <2> QED
    BY <1>1, <2>1, <2>2, IdleType DEF Quiet, Inv, TypeOK
<1>5. CASE Placed(r) \/ Persist(r)
  <2>1. PICK g : /\ request' = [g EXCEPT ![r] = Idle]
                 /\ g = request \/ \E pc, o : g = Outdated(pc, o)
    BY <1>5 DEF Placed, Persist
  <2>2. g \in [Requests -> Request] /\ \A s \in Requests : g[s].pc = request[s].pc
    BY <1>2, <2>1, OutdatedType DEF Inv, TypeOK
  <2>3. request' = [g EXCEPT ![r] = Idle]
    BY <2>1
  <2> QED
    BY <1>1, <2>2, <2>3, IdleType DEF Quiet
<1>6. CASE Moved(r)
  <2> DEFINE g == Outdated("delete", request[r].org)
             x == [g[r] EXCEPT !.pc = "persist"]
  <2>1. g \in [Requests -> Request] /\ request' = [g EXCEPT ![r] = x]
    BY <1>6, OutdatedType DEF Moved
  <2>2. \A s \in Requests : g[s].pc = request[s].pc
    BY <1>2
  <2> HIDE DEF g
  <2>3. x.pc = "persist"
    BY <2>1 DEF Request
  <2> QED
    BY <1>1, <2>1, <2>2, <2>3 DEF Quiet
<1> QED
  BY <1>3, <1>4, <1>5, <1>6

(* Every step keeps the bound.                                              *)
LEMMA StepBounded ==
  ASSUME Inv, Bounded, [Next]_vars
  PROVE  Bounded'
<1>1. CASE UNCHANGED vars
  BY <1>1 DEF vars, Bounded, Live, Creating, At
<1>2. ASSUME NEW r \in Requests, Proceed(r)  PROVE Bounded'
  <2>1. \/ Capacity(r) \/ Create(r) \/ (Checks(r) /\ ~Capacity(r))
        \/ Added(r) \/ Changed(r) \/ Deleted(r) \/ Placed(r) \/ Moved(r) \/ Persist(r)
    BY <1>2 DEF Proceed, Checks
  <2> QED
    BY <2>1, CapacityBounded, CreateBounded, CheckQuiet, WriteQuiet, QuietBounded
<1>3. ASSUME NEW r \in Requests, Arrive(r) \/ Refuse(r) \/ Fail(r)  PROVE Bounded'
  BY <1>3, ArriveQuiet, AbandonQuiet, QuietBounded
<1>4. ASSUME Refresh \/ \E t \in Teams : DeleteTeam(t)  PROVE Bounded'
  BY <1>4, QuietBounded DEF Refresh, DeleteTeam, Quiet, Live
<1>5. ASSUME NEW players \in SUBSET Players, PlayersDeleted(players)  PROVE Bounded'
  BY <1>5, PlayersDeletedShape, IdleType, QuietBounded DEF Quiet, Live, Remains
<1> QED
  BY <1>1, <1>2, <1>3, <1>4, <1>5 DEF Next

(* maxOrganizations is exceeded by fewer organizations than there are       *)
(* requests in hand at once, whatever the league's limit.                   *)
THEOREM RaceBound == Spec => []OrganizationsByRaceOnly
<1>1. Init => Bounded
  <2> SUFFICES ASSUME Init  PROVE Bounded
    OBVIOUS
  <2>1. Live = {} /\ Creating = {}
    BY IdleType DEF Init, Live, Creating, At
  <2>2. Cardinality(Requests) \in Nat /\ Cardinality({}) = 0
    BY OrganizationsAssumption, FS_CardinalityType, FS_EmptySet
  <2> QED
    BY <2>1, <2>2, OrganizationsAssumption DEF Bounded
<1>2. Inv /\ Bounded /\ [Next]_vars => Bounded'
  BY StepBounded
<1>3. Bounded => OrganizationsByRaceOnly
  <2>1. /\ Cardinality(Live) \in Nat /\ Cardinality(Creating) \in Nat
        /\ Cardinality(Requests) \in Nat
    BY Finite DEF Live, Creating
  <2> QED
    BY <2>1, OrganizationsAssumption DEF Bounded, OrganizationsByRaceOnly
<1> QED
  BY <1>1, <1>2, <1>3, Invariance, PTL DEF Spec

-------------------------------------------------------------------------------
(* A request that is to write what it has counted leaves a manager to the   *)
(* organization: whoever leaves before it makes its count hold no more.     *)
Covers(q) == q.pc = "write" /\ q.holds => GeneralManagers(q.org) \ {q.user} # {}

Covered == \A s \in Requests : Covers(request[s])

Kept == ManagerKept /\ Covered

(* Steps that change no member, and let no request go on to write one. *)
LEMMA SameMembers ==
  ASSUME Kept, member' = member, managed' \subseteq managed,
         \A s \in Requests : \/ request'[s] = request[s]
                            \/ ~(request'[s].pc = "write" /\ request'[s].holds)
  PROVE  Kept'
<1>1. \A o : GeneralManagers(o)' = GeneralManagers(o)
  BY DEF GeneralManagers
<1>2. ManagerKept'
  BY <1>1 DEF Kept, ManagerKept
<1>3. Covered'
  BY <1>1 DEF Kept, Covered, Covers
<1> QED
  BY <1>2, <1>3 DEF Kept

(* One request changes and no other, and no row.                            *)
LEMMA OneSame ==
  ASSUME Inv, Kept, NEW r \in Requests, NEW x, ~(x.pc = "write" /\ x.holds),
         request' = [request EXCEPT ![r] = x], member' = member, managed' = managed
  PROVE  Kept'
BY SameMembers DEF Inv, TypeOK

(* An arrival has asked nothing yet that could be outdated.                 *)
LEMMA ArriveKept ==
  ASSUME Inv, Kept, NEW r \in Requests, Arrive(r)
  PROVE  Kept'
<1>1. ASSUME NEW p \in Players, ChangeMember(r, p)
      PROVE  \E x : ~(x.pc = "write" /\ x.holds) /\ Accept(r, x)
  <2>1. PICK role \in OrNone(OrganizationMemberRole), status \in OrNone(OrganizationMemberStatus),
             removal \in BOOLEAN :
          Accept(r, [Idle EXCEPT !.pc = IF Counts(p, role, removal) THEN "count" ELSE "write",
                                 !.user = p, !.org = member[p].org, !.role = role, !.status = status,
                                 !.holds = TakesManager(p, role, removal)])
    BY <1>1 DEF ChangeMember
  <2> DEFINE b == TakesManager(p, role, removal)
             pc == IF Counts(p, role, removal) THEN "count" ELSE "write"
  <2>2. ~(pc = "write" /\ b)
    BY DEF Counts, TakesManager, GeneralManagers
  <2> HIDE DEF pc, b
  <2> DEFINE x == [Idle EXCEPT !.pc = pc, !.user = p, !.org = member[p].org,
                               !.role = role, !.status = status, !.holds = b]
  <2>3. x.pc = pc /\ x.holds = b
    BY DEF Idle
  <2>4. Accept(r, x)
    BY <2>1 DEF pc, b
  <2> HIDE DEF x
  <2> QED
    BY <2>2, <2>3, <2>4
<1>2. ASSUME NEW t \in OrNone(Teams), NEW o \in OrNone(Orgs), PlaceTeam(r, t, o)
      PROVE  \E x : x.pc # "write" /\ Accept(r, x)
  BY <1>2 DEF PlaceTeam, Idle
<1>3. ASSUME UpdateSettings(r)
      PROVE  \E x : x.pc # "write" /\ Accept(r, x)
  BY <1>3 DEF UpdateSettings, Idle
<1>4. ASSUME NEW p \in Players, CreateOrganization(r, p)
      PROVE  \E x : x.pc # "write" /\ Accept(r, x)
  BY <1>4 DEF CreateOrganization, Idle
<1>5. ASSUME NEW p \in Players, NEW o \in Orgs, AddMember(r, p, o)
      PROVE  \E x : x.pc # "write" /\ Accept(r, x)
  BY <1>5 DEF AddMember, Idle
<1>6. ASSUME NEW u \in Players \cup {System}, NEW o \in Orgs, DeleteOrganization(r, u, o)
      PROVE  \E x : x.pc # "write" /\ Accept(r, x)
  BY <1>6 DEF DeleteOrganization, Idle
<1>7. ASSUME NEW u \in Players, NEW t \in Teams, NEW o \in Orgs, TransferTeam(r, u, t, o)
      PROVE  \E x : x.pc # "write" /\ Accept(r, x)
  BY <1>7 DEF TransferTeam, Idle
<1>8. PICK x : ~(x.pc = "write" /\ x.holds) /\ Accept(r, x)
  BY <1>1, <1>2, <1>3, <1>4, <1>5, <1>6, <1>7 DEF Arrive
<1>9. member' = member /\ managed' = managed
  BY DEF Arrive, CreateOrganization, ChangeMember, AddMember, DeleteOrganization,
         PlaceTeam, TransferTeam, UpdateSettings, Reads, Rows, history
<1> QED
  BY <1>8, <1>9, OneSame DEF Accept

(* A count that finds another manager lets one leave.                       *)
LEMMA CheckKept ==
  ASSUME Inv, Kept, NEW r \in Requests, Checks(r)
  PROVE  Kept'
<1>1. member' = member /\ managed' = managed
  BY DEF Checks, Capacity, MemberAdd, CountManagers, CountTeams, Authorize, Room,
         FindTeams, FindOrganizations, Assign, Rollback, Reads, Rows, history
<1> DEFINE q == request[r]
<1>2. q \in Request /\ Carries(q)
  BY RequestType
<1>3. CASE CountManagers(r)
  <2> DEFINE p == q.user
             o == q.org
             manager == member[p].role = "GENERAL_MANAGER"
  <2>1. q.pc = "count"
    BY <1>3 DEF CountManagers, On, At
  <2>2. manager => Cardinality(GeneralManagers(o)) > 1
    BY <1>3, <2>1 DEF CountManagers, On, At, Passes, MayRemoveManager
  <2>3. manager => GeneralManagers(o) \ {p} # {}
    <3> SUFFICES ASSUME manager, GeneralManagers(o) \subseteq {p}  PROVE FALSE
      OBVIOUS
    <3>1. IsFiniteSet({p}) /\ Cardinality({p}) = 1
      BY FS_Singleton
    <3>2. Cardinality(GeneralManagers(o)) <= 1
      BY <3>1, FS_Subset
    <3>3. Cardinality(GeneralManagers(o)) \in Nat
      BY <3>1, FS_Subset, FS_CardinalityType
    <3> QED
      BY <2>2, <3>2, <3>3
  <2>4. PICK b \in BOOLEAN : /\ request' = [request EXCEPT ![r] = [q EXCEPT !.pc = "write", !.holds = b]]
                             /\ b => manager
    BY <1>3 DEF CountManagers
  <2> DEFINE x == [q EXCEPT !.pc = "write", !.holds = b]
  <2>5. x.user = p /\ x.org = o /\ x.holds = b
    BY <1>2 DEF Request
  <2> HIDE DEF x
  <2>6. \A s \in Requests : request'[s] = IF s = r THEN x ELSE request[s]
    BY <2>4 DEF x, Inv, TypeOK
  <2>7. \A a : GeneralManagers(a)' = GeneralManagers(a)
    BY <1>1 DEF GeneralManagers
  <2>8. Covered'
    BY <2>3, <2>4, <2>5, <2>6, <2>7 DEF Kept, Covered, Covers
  <2> QED
    BY <1>1, <2>7, <2>8 DEF Kept, ManagerKept
<1>4. CASE CountTeams(r)
  BY <1>1, <1>2, <1>4, OneSame DEF CountTeams, Request
<1>5. CASE FindOrganizations(r)
  <2>1. PICK x : x.pc # "write" /\ request' = [request EXCEPT ![r] = x]
    BY <1>2, <1>5 DEF FindOrganizations, Goto, Request
  <2> QED
    BY <1>1, <2>1, OneSame
<1>6. CASE Capacity(r) \/ MemberAdd(r) \/ Authorize(r) \/ Room(r) \/ Assign(r) \/ Rollback(r)
  <2>1. PICK pc \in {"create", "add", "room", "place", "move", "countTeams"} : Goto(r, pc)
    BY <1>6 DEF Capacity, MemberAdd, Authorize, Room, Assign, Rollback
  <2> QED
    BY <1>1, <1>2, <2>1, OneSame DEF Goto, Request
<1>7. CASE FindTeams(r)
  <2>1. PICK x : x.pc # "write" /\ request' = [request EXCEPT ![r] = x]
    BY <1>2, <1>7, FoundTeams
  <2> QED
    BY <1>1, <2>1, OneSame
<1> QED
  BY <1>3, <1>4, <1>5, <1>6, <1>7 DEF Checks

(* The writes about teams and settings leave the managers alone.            *)
LEMMA OtherKept ==
  ASSUME Inv, Kept, NEW r \in Requests,
         Create(r) \/ Placed(r) \/ Moved(r) \/ Persist(r) \/ Refuse(r) \/ Fail(r)
  PROVE  Kept'
<1>1. member' = member /\ managed' = managed
  BY DEF Create, Placed, Moved, Persist, Refuse, Fail, Reads, Rows, history
<1>2. request[r] \in Request
  BY RequestType
<1>3. ASSUME NEW pc, NEW o, pc # "write", NEW s \in Requests
      PROVE  /\ Outdated(pc, o)[s] = request[s] \/ Outdated(pc, o)[s].pc # "write"
             /\ Outdated(pc, o)[s] \in Request
  <2>1. request[s] \in Request
    BY RequestType
  <2>2. [request[s] EXCEPT !.holds = FALSE] \in Request /\ [request[s] EXCEPT !.holds = FALSE].pc = request[s].pc
    BY <2>1 DEF Request
  <2> QED
    BY <1>3, <2>1, <2>2 DEF Outdated, At
<1>4. CASE Create(r)
  <2>1. \A s \in Requests \ {r} : request'[s] = request[s]
    BY <1>4 DEF Create, Inv, TypeOK
  <2>2. request \in [Requests -> Request]
    BY DEF Inv, TypeOK
  <2>3. request'[r].pc # "write"
    <3>1. request[r] \in Request /\ request \in [Requests -> Request] /\ Create(r)
      BY <1>2, <1>4, <2>2
    <3>2. request'[r].pc = IF request[r].user = System THEN "assign" ELSE "join"
      BY ONLY <3>1, SMTT(30) DEF Create, Request
    <3> QED
      BY <3>2
  <2> QED
    BY <1>1, <2>1, <2>3, SameMembers
<1>5. CASE Refuse(r) \/ Fail(r)
  <2>1. PICK x : x.pc # "write" /\ request' = [request EXCEPT ![r] = x]
    BY <1>2, <1>5, IdleType DEF Refuse, Fail, Abandon, Goto, End, Request
  <2> QED
    BY <1>1, <2>1, OneSame
<1>6. CASE Placed(r) \/ Persist(r)
  <2>1. PICK g : /\ request' = [g EXCEPT ![r] = Idle]
                 /\ g = request \/ \E pc, o : pc # "write" /\ g = Outdated(pc, o)
    BY <1>6 DEF Placed, Persist
  <2>2. \A s \in Requests : request'[s] = request[s] \/ request'[s].pc # "write"
    BY <1>3, <2>1, IdleType, OutdatedType DEF Inv, TypeOK
  <2> QED
    BY <1>1, <2>2, SameMembers
<1>7. CASE Moved(r)
  <2> DEFINE g == Outdated("delete", request[r].org)
             x == [g[r] EXCEPT !.pc = "persist"]
  <2>1. g \in [Requests -> Request] /\ request' = [g EXCEPT ![r] = x]
    BY <1>7, OutdatedType DEF Moved
  <2>2. \A s \in Requests : g[s] = request[s] \/ g[s].pc # "write"
    BY <1>3
  <2> HIDE DEF g
  <2>3. x.pc = "persist"
    BY <2>1 DEF Request
  <2>4. \A s \in Requests : request'[s] = request[s] \/ request'[s].pc # "write"
    BY <2>1, <2>2, <2>3
  <2> QED
    BY <1>1, <2>4, SameMembers
<1> QED
  BY <1>4, <1>5, <1>6, <1>7

(* A player who is added managed nothing. *)
LEMMA AddedKept ==
  ASSUME Inv, Kept, NEW r \in Requests, Added(r)
  PROVE  Kept'
<1>1. PICK q : q = request[r]
  OBVIOUS
<1> DEFINE p == q.user
           row == [org |-> q.org, role |-> q.role, status |-> "ACTIVE"]
<1>2. p \in Players /\ q.org \in Orgs /\ member[p].status \in {"none", "REMOVED"}
  BY <1>1, RequestType, Checked DEF Added, On, At, Carries, MayJoin, Live
<1>3. /\ member' = [member EXCEPT ![p] = row]
      /\ \A s \in Requests : request'[s] = request[s] \/ request'[s] = Idle
      /\ \A o \in managed' : o \in managed \/ (o = q.org /\ q.role = "GENERAL_MANAGER")
  BY <1>1 DEF Added, Forget
<1>4. \A o : GeneralManagers(o) \subseteq GeneralManagers(o)'
  <2> SUFFICES ASSUME NEW o, NEW u \in GeneralManagers(o)  PROVE u \in GeneralManagers(o)'
    OBVIOUS
  <2>1. u # p
    BY <1>2 DEF GeneralManagers
  <2> QED
    BY <1>2, <1>3, <2>1 DEF GeneralManagers, Inv, TypeOK
<1>5. q.role = "GENERAL_MANAGER" => p \in GeneralManagers(q.org)'
  BY <1>2, <1>3 DEF GeneralManagers, Inv, TypeOK
<1> HIDE DEF row
<1>6. ManagerKept'
  <2> SUFFICES ASSUME NEW o \in managed'  PROVE GeneralManagers(o)' # {}
    BY DEF ManagerKept
  <2> QED
    BY <1>3, <1>4, <1>5 DEF Kept, ManagerKept
<1>7. Covered'
  <2> SUFFICES ASSUME NEW s \in Requests  PROVE Covers(request[s])'
    BY DEF Covered
  <2> QED
    BY <1>3, <1>4, IdleType DEF Kept, Covered, Covers
<1> QED
  BY <1>6, <1>7 DEF Kept

(* The members of an organization go, and so do the requests about them. *)
LEMMA DeletedKept ==
  ASSUME Inv, Kept, NEW r \in Requests, Deleted(r)
  PROVE  Kept'
<1> DEFINE a == request[r].org
           members == {p \in Players : member[p].org = a}
<1>1. /\ member' = [p \in Players |-> IF p \in members THEN NoRow ELSE member[p]]
      /\ \A s \in Requests : request'[s] = Idle \/ (request'[s] = request[s] /\ ~HoldsRow(s, members))
      /\ managed' = managed \ {a}
  BY DEF Deleted, Forget
<1> HIDE DEF a
<1>2. \A o : o # a => GeneralManagers(o) \subseteq GeneralManagers(o)'
  <2> SUFFICES ASSUME NEW o, o # a, NEW p \in GeneralManagers(o)  PROVE p \in GeneralManagers(o)'
    OBVIOUS
  <2>1. p \in Players /\ p \notin members
    BY DEF GeneralManagers
  <2> QED
    BY <1>1, <2>1 DEF GeneralManagers
<1>3. ManagerKept'
  BY <1>1, <1>2 DEF Kept, ManagerKept
<1>4. Covered'
  <2> SUFFICES ASSUME NEW s \in Requests, request'[s].pc = "write", request'[s].holds
               PROVE  (GeneralManagers(request[s].org) \ {request[s].user})' # {}
    BY DEF Covered, Covers
  <2>1. request'[s] = request[s] /\ ~HoldsRow(s, members)
    BY <1>1, IdleType
  <2>2. request[s].user \in Players /\ member[request[s].user].org = request[s].org
    BY <2>1, RequestType DEF Carries
  <2>3. request[s].org # a
    BY <2>1, <2>2 DEF HoldsRow
  <2>4. GeneralManagers(request[s].org) \ {request[s].user} # {}
    BY <2>1 DEF Kept, Covered, Covers
  <2> QED
    BY <1>2, <2>1, <2>3, <2>4
<1> QED
  BY <1>3, <1>4 DEF Kept

(* A manager who leaves by a write whose count holds is not the last.       *)
LEMMA ChangedKept ==
  ASSUME Inv, Kept, NEW r \in Requests, Changed(r)
  PROVE  Kept'
<1>0. PICK q : q = request[r]
  OBVIOUS
<1> DEFINE p == q.user
           a == q.org
           role == IF q.role = "none" THEN member[p].role ELSE q.role
           status == IF q.status = "none" THEN member[p].status ELSE q.status
           manages == role = "GENERAL_MANAGER" /\ status = "ACTIVE"
           leaves == p \in GeneralManagers(a) /\ ~manages
<1>1. p \in Players /\ a \in Orgs /\ member[p].org = a /\ q.pc = "write"
  BY <1>0, RequestType DEF Changed, On, At, Carries
<1>2. /\ member' = [member EXCEPT ![p] = [org |-> a, role |-> role, status |-> status]]
      /\ manages => managed' \subseteq managed \cup {a}
      /\ ~manages => managed' \subseteq managed
      /\ leaves /\ ~q.holds => a \notin managed'
  BY <1>0 DEF Changed
<1>3. \A s \in Requests :
        \/ request'[s] = Idle
        \/ request'[s] = request[s] /\ ~(leaves /\ request[s].pc = "write" /\ request[s].org = a)
        \/ request'[s] = [request[s] EXCEPT !.holds = FALSE]
  BY <1>0 DEF Changed, Outdated, At, Inv, TypeOK
<1>4. \A u \in Players \ {p} : member'[u] = member[u]
  BY <1>2 DEF Inv, TypeOK
<1>5. member'[p] = [org |-> a, role |-> role, status |-> status]
  BY <1>1, <1>2 DEF Inv, TypeOK
<1>6. manages => p \in GeneralManagers(a)'
  BY <1>1, <1>5 DEF GeneralManagers
<1>7. ~leaves => \A o : GeneralManagers(o) \subseteq GeneralManagers(o)'
  <2> SUFFICES ASSUME ~leaves, NEW o, NEW u \in GeneralManagers(o)  PROVE u \in GeneralManagers(o)'
    OBVIOUS
  <2>1. CASE u = p
    BY <1>1, <1>6, <2>1 DEF GeneralManagers
  <2>2. CASE u # p
    BY <1>4, <2>2 DEF GeneralManagers
  <2> QED
    BY <2>1, <2>2
<1>8. \A o : GeneralManagers(o) \ {p} \subseteq GeneralManagers(o)'
  BY <1>4 DEF GeneralManagers
<1>9. \A o : o # a => p \notin GeneralManagers(o)
  BY <1>1 DEF GeneralManagers
<1>10. q.holds => GeneralManagers(a) \ {p} # {}
  BY <1>0, <1>1 DEF Kept, Covered, Covers
<1> HIDE DEF role, status
<1>11. ManagerKept'
  <2> SUFFICES ASSUME NEW o \in managed'  PROVE GeneralManagers(o)' # {}
    BY DEF ManagerKept
  <2>1. CASE o # a
    BY <1>2, <1>8, <1>9, <2>1 DEF Kept, ManagerKept
  <2>2. CASE o = a /\ manages
    BY <1>6, <2>2
  <2>3. CASE o = a /\ leaves
    BY <1>2, <1>8, <1>10, <2>3
  <2>4. CASE o = a /\ ~manages /\ ~leaves
    BY <1>2, <1>7, <2>4 DEF Kept, ManagerKept
  <2> QED
    BY <2>1, <2>2, <2>3, <2>4
<1>12. Covered'
  <2> SUFFICES ASSUME NEW s \in Requests, request'[s].pc = "write", request'[s].holds
               PROVE  (GeneralManagers(request[s].org) \ {request[s].user})' # {}
    BY DEF Covered, Covers
  <2>1. request'[s] = request[s] /\ ~(leaves /\ request[s].org = a)
    <3>1. request[s] \in Request
      BY RequestType
    <3>2. ~[request[s] EXCEPT !.holds = FALSE].holds
      BY <3>1 DEF Request
    <3> QED
      BY <1>3, <3>2, IdleType
  <2>2. GeneralManagers(request[s].org) \ {request[s].user} # {}
    BY <2>1 DEF Kept, Covered, Covers
  <2>3. GeneralManagers(request[s].org) \subseteq GeneralManagers(request[s].org)'
    BY <1>7, <1>8, <1>9, <2>1
  <2> QED
    BY <2>1, <2>2, <2>3
<1> QED
  BY <1>11, <1>12 DEF Kept

(* The managers who go with their players outdate what others have counted. *)
LEMMA PlayersDeletedKept ==
  ASSUME Inv, Kept, NEW players \in SUBSET Players, PlayersDeleted(players)
  PROVE  Kept'
<1>1. ManagerKept'
  BY PlayersDeletedShape DEF ManagerKept
<1>2. Covered'
  <2> SUFFICES ASSUME NEW s \in Requests, request'[s].pc = "write", request'[s].holds
               PROVE  (GeneralManagers(request[s].org) \ {request[s].user})' # {}
    BY DEF Covered, Covers
  <2>1. request'[s] = request[s] /\ GeneralManagers(request[s].org) \cap players = {}
    BY PlayersDeletedShape, IdleType DEF Remains, At
  <2>2. GeneralManagers(request[s].org) \ {request[s].user} # {}
    BY <2>1 DEF Kept, Covered, Covers
  <2>3. GeneralManagers(request[s].org)' = GeneralManagers(request[s].org)
    <3>1. PICK o : o = request[s].org /\ o = request'[s].org
      BY <2>1
    <3>2. GeneralManagers(o)' = GeneralManagers(o) \ players
      BY PlayersDeletedShape
    <3>3. GeneralManagers(request[s].org)' = GeneralManagers(o)'
      BY <3>1 DEF GeneralManagers
    <3> QED
      BY <2>1, <3>1, <3>2, <3>3
  <2> QED
    BY <2>1, <2>2, <2>3
<1> QED
  BY <1>1, <1>2 DEF Kept

(* An organization that has had a manager has one, unless the last left by  *)
(* a write that had counted nobody or had counted before another left, or   *)
(* with his player.                                                         *)
THEOREM LastManagerStays == Spec => []ManagerKept
<1>1. Init => Kept
  BY DEF Init, Kept, ManagerKept, Covered, Covers, Idle
<1>2. ASSUME Inv, Kept, [Next]_vars  PROVE Kept'
  <2>1. CASE UNCHANGED vars
    BY <1>2, <2>1, SameMembers DEF vars, history
  <2>2. ASSUME NEW r \in Requests, Arrive(r) \/ Refuse(r) \/ Fail(r)  PROVE Kept'
    BY <1>2, <2>2, ArriveKept, OtherKept
  <2>3. ASSUME NEW r \in Requests, Proceed(r)  PROVE Kept'
    <3>1. \/ Checks(r) \/ Create(r) \/ Added(r) \/ Changed(r) \/ Deleted(r)
          \/ Placed(r) \/ Moved(r) \/ Persist(r)
      BY <2>3 DEF Proceed, Checks
    <3> QED
      BY <1>2, <3>1, CheckKept, AddedKept, ChangedKept, DeletedKept, OtherKept
  <2>4. ASSUME Refresh \/ \E t \in Teams : DeleteTeam(t)  PROVE Kept'
    BY <1>2, <2>4, SameMembers DEF Refresh, DeleteTeam, history
  <2> QED
    BY <1>2, <2>1, <2>2, <2>3, <2>4, PlayersDeletedKept DEF Next
<1>3. Kept => ManagerKept
  BY DEF Kept
<1> QED
  BY <1>1, <1>2, <1>3, Invariance, PTL DEF Spec

-------------------------------------------------------------------------------
(* What a request is when it arrives.                                       *)
Arrived(x) ==
  /\ ~x.made /\ x.pc \notin {"create", "findOrgs", "assign", "move", "rollback", "delete"}
  /\ x.pc = "capacity" => x.user \in Players
  /\ x.pc \in {"findTeams", "persist"} => x.user = System
  /\ x.pc = "persist" => ~x.holds
  /\ x.pc = "place" => x.org = "none" /\ (x.holds => ~required)

(* Only request r changes, to x.                                            *)
Alone(r, x) ==
  request'[r] = x /\ \A s \in Requests \ {r} : request'[s] = request[s]

(* A request that arrives, whatever it is.                                  *)
LEMMA ArriveShape ==
  ASSUME Inv, NEW r \in Requests, Arrive(r)
  PROVE  /\ UNCHANGED <<Rows, history, faults>> /\ At(r, "idle")
         /\ \E x : Arrived(x) /\ Alone(r, x)
<1>1. ASSUME NEW p \in Players, CreateOrganization(r, p)
      PROVE  \E x : Arrived(x) /\ Accept(r, x)
  BY <1>1 DEF CreateOrganization, Arrived, Idle
<1>2. ASSUME NEW p \in Players, ChangeMember(r, p)
      PROVE  \E x : Arrived(x) /\ Accept(r, x)
  <2>1. PICK role \in OrNone(OrganizationMemberRole), status \in OrNone(OrganizationMemberStatus),
             removal \in BOOLEAN :
          Accept(r, [Idle EXCEPT !.pc = IF Counts(p, role, removal) THEN "count" ELSE "write",
                                 !.user = p, !.org = member[p].org, !.role = role, !.status = status,
                                 !.holds = TakesManager(p, role, removal)])
    BY <1>2 DEF ChangeMember
  <2> DEFINE pc == IF Counts(p, role, removal) THEN "count" ELSE "write"
             x == [Idle EXCEPT !.pc = pc, !.user = p, !.org = member[p].org, !.role = role,
                               !.status = status, !.holds = TakesManager(p, role, removal)]
  <2>2. pc \in {"count", "write"}
    OBVIOUS
  <2>3. Arrived(x)
    <3> HIDE DEF pc
    <3> QED
      BY <2>2 DEF Arrived, Idle
  <2> HIDE DEF x
  <2> QED
    BY <2>1, <2>3 DEF x
<1>3. ASSUME NEW p \in Players, NEW o \in Orgs, AddMember(r, p, o)
      PROVE  \E x : Arrived(x) /\ Accept(r, x)
  BY <1>3 DEF AddMember, Arrived, Idle
<1>4. ASSUME NEW u \in Players \cup {System}, NEW o \in Orgs, DeleteOrganization(r, u, o)
      PROVE  \E x : Arrived(x) /\ Accept(r, x)
  BY <1>4 DEF DeleteOrganization, Arrived, Idle
<1>5. ASSUME NEW t \in OrNone(Teams), NEW o \in OrNone(Orgs), PlaceTeam(r, t, o)
      PROVE  \E x : Arrived(x) /\ Accept(r, x)
  <2>1. CASE o = "none"
    <3>1. PICK b \in BOOLEAN :
            /\ b => ~required
            /\ Accept(r, [Idle EXCEPT !.pc = "place", !.team = t, !.org = "none", !.holds = b])
      BY <1>5, <2>1 DEF PlaceTeam, MayHave
    <3> QED
      BY <3>1 DEF Arrived, Idle
  <2>2. CASE o # "none"
    BY <1>5, <2>2 DEF PlaceTeam, Arrived, Idle
  <2> QED
    BY <2>1, <2>2
<1>6. ASSUME NEW u \in Players, NEW t \in Teams, NEW o \in Orgs, TransferTeam(r, u, t, o)
      PROVE  \E x : Arrived(x) /\ Accept(r, x)
  BY <1>6 DEF TransferTeam, Arrived, Idle
<1>7. ASSUME UpdateSettings(r)
      PROVE  \E x : Arrived(x) /\ Accept(r, x)
  <2>1. PICK value \in BOOLEAN, b \in BOOLEAN :
          Accept(r, [Idle EXCEPT !.pc = IF b THEN "findTeams" ELSE "persist",
                                 !.user = System, !.value = value, !.holds = b])
    BY <1>7 DEF UpdateSettings
  <2> QED
    BY <2>1 DEF Arrived, Idle
<1>8. PICK x : Arrived(x) /\ Accept(r, x)
  BY <1>1, <1>2, <1>3, <1>4, <1>5, <1>6, <1>7 DEF Arrive
<1>9. UNCHANGED <<Rows, history, faults>>
  BY DEF Arrive, CreateOrganization, ChangeMember, AddMember, DeleteOrganization,
         PlaceTeam, TransferTeam, UpdateSettings, Reads
<1>10. Alone(r, x)
  BY <1>8 DEF Alone, Accept, Inv, TypeOK
<1> QED
  BY <1>8, <1>9, <1>10 DEF Accept

(* How a request that has checked something goes on as x, and what it found.*)
Follows(q, x) ==
  /\ x.user = q.user /\ x.made = q.made /\ x.value = q.value
  /\ x.holds = q.holds \/ q.pc \in {"count", "countTeams"}
  /\ x.teams = IF q.pc = "findTeams" THEN WithoutOrganization ELSE q.teams
  /\ x.org = q.org \/ (q.pc = "findOrgs" /\ x.pc = "assign")
  /\ <<q.pc, x.pc>> \in
       {<<"capacity", "create">>, <<"join", "add">>, <<"count", "write">>,
        <<"countTeams", "delete">>, <<"authorize", "room">>, <<"room", "place">>,
        <<"findTeams", "persist">>, <<"findTeams", "findOrgs">>,
        <<"findOrgs", "capacity">>, <<"findOrgs", "assign">>, <<"assign", "move">>,
        <<"rollback", "countTeams">>}
  /\ x.pc = "persist" => WithoutOrganization = {}
  /\ x.pc = "delete" => HasNoTeams(q.org)
  /\ x.pc = "place" => OrganizationHasRoom(q.org)
  /\ x.pc = "move" => TakesAll(q.org, q.teams)

(* Every step that only checks goes on like this.                           *)
LEMMA CheckShape ==
  ASSUME Inv, NEW r \in Requests, Checks(r)
  PROVE  /\ UNCHANGED <<Rows, history, faults>>
         /\ \E x : Follows(request[r], x) /\ Alone(r, x)
<1> DEFINE q == request[r]
<1>1. q \in Request
  BY RequestType
<1>2. UNCHANGED <<Rows, history, faults>>
  BY DEF Checks, Capacity, MemberAdd, CountManagers, CountTeams, Authorize, Room,
         FindTeams, FindOrganizations, Assign, Rollback, Reads
<1>3. ASSUME NEW pc, NEW b, NEW o
      PROVE  /\ [q EXCEPT !.pc = pc].pc = pc /\ [q EXCEPT !.pc = pc].user = q.user
             /\ [q EXCEPT !.pc = pc].teams = q.teams /\ [q EXCEPT !.pc = pc].made = q.made
             /\ [q EXCEPT !.pc = pc].value = q.value /\ [q EXCEPT !.pc = pc].holds = q.holds
             /\ [q EXCEPT !.pc = pc].org = q.org
             /\ [q EXCEPT !.pc = pc, !.holds = b].pc = pc /\ [q EXCEPT !.pc = pc, !.holds = b].user = q.user
             /\ [q EXCEPT !.pc = pc, !.holds = b].teams = q.teams
             /\ [q EXCEPT !.pc = pc, !.holds = b].made = q.made
             /\ [q EXCEPT !.pc = pc, !.holds = b].value = q.value
             /\ [q EXCEPT !.pc = pc, !.holds = b].org = q.org
             /\ [q EXCEPT !.pc = pc, !.org = o].pc = pc /\ [q EXCEPT !.pc = pc, !.org = o].user = q.user
             /\ [q EXCEPT !.pc = pc, !.org = o].teams = q.teams
             /\ [q EXCEPT !.pc = pc, !.org = o].made = q.made
             /\ [q EXCEPT !.pc = pc, !.org = o].value = q.value
             /\ [q EXCEPT !.pc = pc, !.org = o].holds = q.holds
  <2> HIDE DEF q
  <2> QED
    BY <1>1 DEF Request
<1>4. ASSUME NEW x, request' = [request EXCEPT ![r] = x]  PROVE Alone(r, x)
  BY <1>4 DEF Alone, Inv, TypeOK
<1>5. CASE CountManagers(r)
  <2>1. PICK b : request' = [request EXCEPT ![r] = [q EXCEPT !.pc = "write", !.holds = b]]
    BY <1>5 DEF CountManagers
  <2>2. q.pc = "count"
    BY <1>5 DEF CountManagers, On, At
  <2> HIDE DEF q
  <2>3. Follows(q, [q EXCEPT !.pc = "write", !.holds = b])
    BY <1>3, <2>2 DEF Follows
  <2> QED
    BY <1>2, <1>4, <2>1, <2>3 DEF q
<1>6. CASE CountTeams(r)
  <2>1. request' = [request EXCEPT ![r] = [q EXCEPT !.pc = "delete", !.holds = TRUE]]
    BY <1>6 DEF CountTeams
  <2>2. q.pc = "countTeams" /\ HasNoTeams(q.org)
    BY <1>6 DEF CountTeams, On, At, Passes
  <2> HIDE DEF q
  <2>3. Follows(q, [q EXCEPT !.pc = "delete", !.holds = TRUE])
    BY <1>3, <2>2 DEF Follows
  <2> QED
    BY <1>2, <1>4, <2>1, <2>3 DEF q
<1>7. CASE FindOrganizations(r)
  <2>1. q.pc = "findOrgs"
    BY <1>7 DEF FindOrganizations, On, At
  <2>2. \/ request' = [request EXCEPT ![r] = [q EXCEPT !.pc = "capacity"]]
        \/ \E o : request' = [request EXCEPT ![r] = [q EXCEPT !.pc = "assign", !.org = o]]
    BY <1>7 DEF FindOrganizations, Goto
  <2> HIDE DEF q
  <2>3. Follows(q, [q EXCEPT !.pc = "capacity"])
    BY <1>3, <2>1 DEF Follows
  <2>4. \A o : Follows(q, [q EXCEPT !.pc = "assign", !.org = o])
    BY <1>3, <2>1 DEF Follows
  <2> QED
    BY <1>2, <1>4, <2>2, <2>3, <2>4 DEF q
<1>8. CASE Capacity(r) \/ MemberAdd(r) \/ Authorize(r) \/ Room(r) \/ Assign(r) \/ Rollback(r)
  <2>1. PICK pc :
          /\ <<q.pc, pc>> \in {<<"capacity", "create">>, <<"join", "add">>, <<"authorize", "room">>,
                               <<"room", "place">>, <<"assign", "move">>, <<"rollback", "countTeams">>}
          /\ Goto(r, pc) /\ Passes(r)
    BY <1>8 DEF Capacity, MemberAdd, Authorize, Room, Assign, Rollback, On, At
  <2>2. /\ q.pc = "room" => OrganizationHasRoom(q.org)
        /\ q.pc = "assign" => TakesAll(q.org, q.teams)
    BY <2>1 DEF Passes, At
  <2>3. request' = [request EXCEPT ![r] = [q EXCEPT !.pc = pc]]
    BY <2>1 DEF Goto
  <2> HIDE DEF q
  <2>4. Follows(q, [q EXCEPT !.pc = pc])
    BY <1>3, <2>1, <2>2 DEF Follows
  <2> QED
    BY <1>2, <1>4, <2>3, <2>4 DEF q
<1>9. CASE FindTeams(r)
  <2>1. PICK x : /\ request' = [request EXCEPT ![r] = x]
                 /\ x.pc = IF WithoutOrganization = {} THEN "persist" ELSE "findOrgs"
                 /\ x.teams = WithoutOrganization
                 /\ x.org = q.org /\ x.user = q.user /\ x.made = q.made
                 /\ x.value = q.value /\ x.holds = q.holds
    BY <1>1, <1>9, FoundTeams
  <2>2. q.pc = "findTeams"
    BY <1>9 DEF FindTeams, On, At
  <2> HIDE DEF q
  <2>3. Follows(q, x)
    BY <2>1, <2>2 DEF Follows
  <2> QED
    BY <1>2, <1>4, <2>1, <2>3 DEF q
<1> QED
  BY <1>5, <1>6, <1>7, <1>8, <1>9 DEF Checks

(* A request that is refused or fails ends, or takes back what it made.     *)
LEMMA AbandonShape ==
  ASSUME Inv, NEW r \in Requests, Refuse(r) \/ Fail(r)
  PROVE  /\ UNCHANGED <<Rows, history>> /\ ~At(r, "idle")
         /\ (Refuse(r) /\ faults' = faults /\ ~Passes(r)) \/ faults' = faults + 1
         /\ \E x : /\ Alone(r, x)
                   /\ IF request[r].pc \in {"assign", "move"} /\ request[r].made
                        THEN /\ x.pc = "rollback" /\ x.made /\ x.org = request[r].org
                        ELSE x.pc = "idle" /\ ~x.made
<1>1. /\ UNCHANGED <<Rows, history>> /\ Abandon(r) /\ ~At(r, "idle")
      /\ (Refuse(r) /\ faults' = faults /\ ~Passes(r)) \/ faults' = faults + 1
  BY DEF Refuse, Fail, Reads
<1>2. CASE request[r].pc \in {"assign", "move"} /\ request[r].made
  <2> DEFINE x == [request[r] EXCEPT !.pc = "rollback"]
  <2>1. Alone(r, x)
    BY <1>1, <1>2 DEF Abandon, Goto, Alone, Inv, TypeOK
  <2>2. x.pc = "rollback" /\ x.made /\ x.org = request[r].org
    BY <1>2, RequestType DEF Request
  <2> HIDE DEF x
  <2> QED
    BY <1>1, <1>2, <2>1, <2>2
<1>3. CASE ~(request[r].pc \in {"assign", "move"} /\ request[r].made)
  <2>1. Alone(r, Idle)
    BY <1>1, <1>3 DEF Abandon, End, Alone, Inv, TypeOK
  <2>2. Idle.pc = "idle" /\ ~Idle.made
    BY DEF Idle
  <2> QED
    BY <1>1, <1>3, <2>1, <2>2
<1> QED
  BY <1>2, <1>3

Others(r, pc, o) == \A s \in Requests \ {r} :
  /\ Remains(request[s], request'[s])
  /\ At(s, pc) /\ request[s].org = o => ~request'[s].holds

(* What the other requests keep when one writes.                            *)
LEMMA OthersRemain ==
  ASSUME Inv, NEW r \in Requests, NEW pc, NEW o, NEW x, request' = [Outdated(pc, o) EXCEPT ![r] = x]
  PROVE  Others(r, pc, o) /\ request'[r] = x
<1>1. Outdated(pc, o) \in [Requests -> Request]
  BY OutdatedType
<1>2. ASSUME NEW s \in Requests \ {r}
      PROVE  /\ Remains(request[s], request'[s])
             /\ At(s, pc) /\ request[s].org = o => ~request'[s].holds
  <2>1. request[s] \in Request /\ request'[s] = Outdated(pc, o)[s]
    BY <1>1, RequestType
  <2> QED
    BY <2>1 DEF Outdated, Remains, At, Request
<1> QED
  BY <1>1, <1>2 DEF Others

(* The requests as the writes leave them.                                   *)
LEMMA CreateShape ==
  ASSUME Inv, NEW r \in Requests, Create(r)
  PROVE  /\ UNCHANGED <<member, team, required, managed, slipped, faults>> /\ At(r, "create")
         /\ \E o \in Orgs : \E x :
              /\ org[o] = "unused" /\ org' = [org EXCEPT ![o] = "live"] /\ Alone(r, x)
              /\ x.org = o /\ x.user = request[r].user /\ x.teams = request[r].teams
              /\ x.value = request[r].value /\ x.holds = request[r].holds
              /\ IF x.user = System THEN x.made /\ x.pc = "assign" /\ bare' = bare \cup {o}
                                    ELSE ~x.made /\ x.pc = "join" /\ bare' = bare
<1> DEFINE q == request[r]
           system == q.user = System
<1>1. q \in Request
  BY RequestType
<1>2. PICK o \in Orgs :
         /\ org[o] = "unused" /\ org' = [org EXCEPT ![o] = "live"]
         /\ request' = [request EXCEPT ![r] =
              [q EXCEPT !.org = o, !.made = system, !.pc = IF system THEN "assign" ELSE "join"]]
         /\ bare' = IF system THEN bare \cup {o} ELSE bare
  BY DEF Create
<1>3. \A x : request' = [request EXCEPT ![r] = x] => Alone(r, x)
  BY DEF Alone, Inv, TypeOK
<1>4. CASE system
  <2> DEFINE x == [q EXCEPT !.org = o, !.made = TRUE, !.pc = "assign"]
  <2>1. Alone(r, x) /\ bare' = bare \cup {o}
    BY <1>2, <1>3, <1>4
  <2>2. x.org = o /\ x.user = q.user /\ x.teams = q.teams /\ x.value = q.value /\ x.holds = q.holds
        /\ x.made /\ x.pc = "assign"
    <3> HIDE DEF q
    <3> QED
      BY <1>1 DEF Request
  <2> HIDE DEF x
  <2> QED
    BY <1>2, <1>4, <2>1, <2>2 DEF Create, On
<1>5. CASE ~system
  <2> DEFINE x == [q EXCEPT !.org = o, !.made = FALSE, !.pc = "join"]
  <2>1. Alone(r, x) /\ bare' = bare
    BY <1>2, <1>3, <1>5
  <2>2. x.org = o /\ x.user = q.user /\ x.teams = q.teams /\ x.value = q.value /\ x.holds = q.holds
        /\ ~x.made /\ x.pc = "join"
    <3> HIDE DEF q
    <3> QED
      BY <1>1 DEF Request
  <2> HIDE DEF x
  <2> QED
    BY <1>2, <1>5, <2>1, <2>2 DEF Create, On
<1> QED
  BY <1>4, <1>5

(* A member is added or changed.                                            *)
LEMMA MembersShape ==
  ASSUME Inv, NEW r \in Requests, Added(r) \/ Changed(r)
  PROVE  /\ UNCHANGED <<org, team, required, slipped, faults>> /\ bare' \subseteq bare
         /\ \A s \in Requests :
              \/ request'[s] = Idle /\ request[s].pc \in {"add", "count", "write"}
              \/ s # r /\ Remains(request[s], request'[s])
<1>1. \A s \in Requests : Remains(request[s], request[s])
  BY DEF Remains
<1>2. CASE Added(r)
  <2>1. \A s \in Requests :
          \/ request'[s] = Idle /\ request[s].pc \in {"add", "count", "write"}
          \/ s # r /\ request'[s] = request[s]
    BY <1>2 DEF Added, Forget, HoldsRow, On, At
  <2>2. UNCHANGED <<org, team, required, slipped, faults>> /\ bare' \subseteq bare
    BY <1>2 DEF Added
  <2> QED
    BY <1>1, <2>1, <2>2
<1>3. CASE Changed(r)
  <2> DEFINE f == Outdated("write", request[r].org)
  <2>0. request[r].pc = "write"
    BY <1>3 DEF Changed, On, At
  <2>1. UNCHANGED <<org, team, required, slipped, faults>> /\ bare' \subseteq bare
    BY <1>3 DEF Changed
  <2>2. \/ request' = [f EXCEPT ![r] = Idle]
        \/ request' = [request EXCEPT ![r] = Idle]
    BY <1>3 DEF Changed
  <2>3. CASE request' = [f EXCEPT ![r] = Idle]
    <3>1. Others(r, "write", request[r].org) /\ request'[r] = Idle
      BY <2>3, OthersRemain
    <3> QED
      BY <2>0, <2>1, <3>1 DEF Others
  <2>4. CASE request' = [request EXCEPT ![r] = Idle]
    BY <1>1, <2>0, <2>1, <2>4 DEF Inv, TypeOK
  <2> QED
    BY <2>2, <2>3, <2>4
<1> QED
  BY <1>2, <1>3

(* The teams of an assignment are moved.                                    *)
LEMMA MovedShape ==
  ASSUME Inv, NEW r \in Requests, Moved(r)
  PROVE  LET q == request[r] IN
         /\ At(r, "move") /\ q.org \in Live /\ Others(r, "delete", q.org)
         /\ UNCHANGED <<org, member, required, managed, faults>>
         /\ team' = [t \in Teams |-> IF t \in q.teams THEN q.org ELSE team[t]]
         /\ slipped' = slipped \ q.teams /\ bare' = bare \ {q.org}
         /\ request'[r].pc = "persist" /\ request'[r].user = q.user /\ request'[r].org = q.org
         /\ request'[r].value = q.value /\ (request'[r].holds => q.holds)
<1> DEFINE q == request[r]
           y == Outdated("delete", q.org)[r]
           x == [y EXCEPT !.pc = "persist"]
<1>1. At(r, "move") /\ q.org \in Live
  BY Checked DEF Moved, On
<1>2. request' = [Outdated("delete", q.org) EXCEPT ![r] = x]
  BY OutdatedType DEF Moved
<1>3. y \in Request /\ y.user = q.user /\ y.org = q.org /\ y.value = q.value /\ (y.holds => q.holds)
  <2>1. q \in Request /\ y \in Request
    BY OutdatedType, RequestType
  <2>2. y = q \/ y = [q EXCEPT !.holds = FALSE]
    BY DEF Outdated
  <2> HIDE DEF y, q
  <2> QED
    BY <2>1, <2>2 DEF Request
<1>4. x.pc = "persist" /\ x.user = q.user /\ x.org = q.org /\ x.value = q.value /\ (x.holds => q.holds)
  <2> HIDE DEF y, q
  <2> QED
    BY <1>3 DEF Request
<1> HIDE DEF x, y
<1>5. Others(r, "delete", q.org) /\ request'[r] = x
  BY <1>2, OthersRemain
<1> QED
  BY <1>1, <1>4, <1>5 DEF Moved

(* A team is placed.                                                        *)
LEMMA PlacedShape ==
  ASSUME Inv, NEW r \in Requests, Placed(r)
  PROVE  LET q == request[r] IN
         /\ At(r, "place") /\ q.org \in Live \cup {"none"} /\ Others(r, "delete", q.org)
         /\ UNCHANGED <<org, member, required, managed, faults>>
         /\ bare' = bare \ {q.org} /\ request'[r] = Idle
         /\ \E t \in Teams :
              /\ team' = [team EXCEPT ![t] = q.org]
              /\ slipped' = IF q.org = "none" /\ (Requiring \/ ~q.holds)
                              THEN slipped \cup {t} ELSE slipped \ {t}
<1>1. At(r, "place") /\ request[r].org \in Live \cup {"none"}
  BY Checked DEF Placed, On
<1>2. Others(r, "delete", request[r].org) /\ request'[r] = Idle
  BY OthersRemain DEF Placed
<1> QED
  BY <1>1, <1>2 DEF Placed

(* The settings are stored; requests that were told otherwise hold no more. *)
LEMMA PersistShape ==
  ASSUME Inv, NEW r \in Requests, Persist(r)
  PROVE  LET q == request[r] IN
         /\ At(r, "persist") /\ q.value \in BOOLEAN /\ required' = q.value
         /\ UNCHANGED <<org, member, team, managed, bare, faults>>
         /\ slipped' = slipped \cup
              (IF q.value /\ ~q.holds /\ ~required THEN WithoutOrganization ELSE {})
         /\ request'[r] = Idle /\ \A s \in Requests \ {r} : Remains(request[s], request'[s])
         /\ q.value => Others(r, "place", "none")
<1> DEFINE q == request[r]
<1>1. At(r, "persist") /\ q.value \in BOOLEAN
  BY RequestType DEF Persist, On, Request
<1>2. \A s \in Requests : Remains(request[s], request[s])
  BY DEF Remains
<1>3. CASE q.value
  <2>1. Others(r, "place", "none") /\ request'[r] = Idle
    BY <1>3, OthersRemain DEF Persist
  <2> QED
    BY <1>1, <1>3, <2>1 DEF Persist, Others
<1>4. CASE ~q.value
  <2>1. request' = [request EXCEPT ![r] = Idle]
    BY <1>4 DEF Persist
  <2> QED
    BY <1>1, <1>2, <1>4, <2>1 DEF Persist, Inv, TypeOK
<1> QED
  BY <1>3, <1>4

(* An organization is deleted.                                              *)
LEMMA DeletedShape ==
  ASSUME Inv, NEW r \in Requests, Deleted(r)
  PROVE  LET q == request[r] IN
         /\ At(r, "delete") /\ q.org \in Live
         /\ UNCHANGED <<required, faults>> /\ bare' = bare \ {q.org}
         /\ org' = [org EXCEPT ![q.org] = "gone"]
         /\ member' = [p \in Players |-> IF member[p].org = q.org THEN NoRow ELSE member[p]]
         /\ team' = [t \in Teams |-> IF team[t] = q.org THEN "none" ELSE team[t]]
         /\ slipped' = IF q.holds THEN slipped ELSE slipped \cup TeamsOf(q.org)
         /\ \A s \in Requests :
              \/ request'[s] = Idle /\ (s = r \/ request[s].pc \in {"count", "write"})
              \/ s # r /\ request'[s] = request[s]
<1>1. At(r, "delete") /\ request[r].org \in Live
  BY Checked DEF Deleted, On
<1> QED
  BY <1>1 DEF Deleted, Forget, HoldsRow

-------------------------------------------------------------------------------
(* What a request at a step owes: the teams without organization are those  *)
(* it was told of, or have slipped; no team goes without by a write whose   *)
(* check holds.                                                             *)
Assigns(q) == q.user = System /\ q.value /\ q.holds

Duty(q) ==
  /\ q.pc \in {"findTeams", "findOrgs", "assign", "move", "persist"} => q.user = System
  /\ Assigns(q) /\ q.pc \in {"findOrgs", "capacity", "create", "assign", "move"} =>
       WithoutOrganization \subseteq q.teams \cup slipped
  /\ Assigns(q) /\ q.pc = "persist" => WithoutOrganization \subseteq slipped
  /\ q.pc = "place" /\ q.org = "none" /\ q.holds => ~required
  /\ q.pc = "delete" /\ q.org \in Orgs /\ q.holds => TeamsOf(q.org) = {}

Owed == RequiredMeansAssigned /\ \A r \in Requests : Duty(request[r])

(* Nobody owes anything who asks for nothing ...                            *)
LEMMA IdleDuty == Duty(Idle)
BY DEF Duty, Idle

(* ... nor more than before when what he counted is outdated ...            *)
LEMMA RemainsDuty ==
  ASSUME NEW q, NEW x, Duty(q), Remains(q, x)
  PROVE  Duty(x)
BY DEF Duty, Remains, Assigns

(* ... or while no team and no setting changes.                             *)
LEMMA SameDuty ==
  ASSUME NEW q, Duty(q), UNCHANGED <<team, slipped, required>>
  PROVE  Duty(q)'
BY DEF Duty, WithoutOrganization, TeamsOf

(* A step that writes no team and no settings.                              *)
LEMMA OwedRequests ==
  ASSUME Owed, UNCHANGED <<team, slipped, required>>,
         \A s \in Requests : Duty(request'[s])
  PROVE  Owed'
<1>1. \A s \in Requests : Duty(request[s])'
  BY SameDuty DEF Duty, WithoutOrganization, TeamsOf
<1>2. RequiredMeansAssigned'
  BY DEF Owed, RequiredMeansAssigned, WithoutOrganization, TeamsOf
<1> QED
  BY <1>1, <1>2 DEF Owed

(* One request changes, to one that does its duty.                          *)
LEMMA OwedAlone ==
  ASSUME Owed, UNCHANGED <<team, slipped, required>>,
         NEW r \in Requests, NEW x, Alone(r, x), Duty(x)
  PROVE  Owed'
<1>1. \A s \in Requests : Duty(request'[s])
  BY DEF Alone, Owed
<1> QED
  BY <1>1, OwedRequests

(* A request to require organizations has just read the teams.              *)
LEMMA ArriveOwed ==
  ASSUME Inv, Owed, NEW r \in Requests, Arrive(r)
  PROVE  Owed'
<1>1. PICK x : Arrived(x) /\ Alone(r, x)
  BY ArriveShape
<1>2. Duty(x)
  BY <1>1, OrganizationsAssumption DEF Arrived, Duty, System, Assigns
<1>3. UNCHANGED <<team, slipped, required>>
  BY ArriveShape DEF Rows, history
<1> QED
  BY <1>1, <1>2, <1>3, OwedAlone

(* A check passes the duty on; a deletion has found no team.                *)
LEMMA CheckOwed ==
  ASSUME Inv, Owed, NEW r \in Requests, Checks(r)
  PROVE  Owed'
<1>1. PICK x : Follows(request[r], x) /\ Alone(r, x)
  BY CheckShape
<1>2. Duty(request[r])
  BY DEF Owed
<1>3. Duty(x)
  <2>1. x.pc = "place" => x.org # "none"
    BY <1>1, OrganizationsAssumption DEF Follows, OrganizationHasRoom, Live
  <2>2. x.pc = "delete" => TeamsOf(x.org) = {}
    BY <1>1 DEF Follows, HasNoTeams
  <2> QED
    BY <1>1, <1>2, <2>1, <2>2 DEF Follows, Duty, Assigns
<1>4. UNCHANGED <<team, slipped, required>>
  BY CheckShape DEF Rows, history
<1> QED
  BY <1>1, <1>3, <1>4, OwedAlone

(* Who gives up owes nothing.                                               *)
LEMMA AbandonOwed ==
  ASSUME Inv, Owed, NEW r \in Requests, Refuse(r) \/ Fail(r)
  PROVE  Owed'
<1>1. PICK x : Alone(r, x) /\ x.pc \in {"rollback", "idle"}
  BY AbandonShape
<1>2. Duty(x)
  BY <1>1 DEF Duty
<1>3. UNCHANGED <<team, slipped, required>>
  BY AbandonShape DEF Rows, history
<1> QED
  BY <1>1, <1>2, <1>3, OwedAlone

(* The organization made for the teams does not change them.                *)
LEMMA CreateOwed ==
  ASSUME Inv, Owed, NEW r \in Requests, Create(r)
  PROVE  Owed'
<1>1. PICK x : /\ Alone(r, x) /\ x.user = request[r].user /\ x.teams = request[r].teams
               /\ x.value = request[r].value /\ x.holds = request[r].holds
               /\ x.pc = IF x.user = System THEN "assign" ELSE "join"
  BY CreateShape
<1>2. Duty(request[r]) /\ request[r].pc = "create" /\ UNCHANGED <<team, slipped, required>>
  BY CreateShape DEF Owed, At
<1>3. Duty(x)
  BY <1>1, <1>2 DEF Duty, Assigns
<1> QED
  BY <1>1, <1>2, <1>3, OwedAlone

(* Nor do members.                                                          *)
LEMMA MembersOwed ==
  ASSUME Inv, Owed, NEW r \in Requests, Added(r) \/ Changed(r)
  PROVE  Owed'
<1>1. \A s \in Requests : Duty(request'[s])
  BY MembersShape, IdleDuty, RemainsDuty DEF Owed
<1> QED
  BY <1>1, MembersShape, OwedRequests

(* What players leave behind owes no more than before.                      *)
LEMMA PlayersDeletedOwed ==
  ASSUME Inv, Owed, NEW players \in SUBSET Players, PlayersDeleted(players)
  PROVE  Owed'
<1>1. \A s \in Requests : Duty(request'[s])
  BY PlayersDeletedShape, IdleDuty, RemainsDuty DEF Owed
<1> QED
  BY <1>1, PlayersDeletedShape, OwedRequests

(* What is stored is what the request owed, or slips.                       *)
LEMMA PersistOwed ==
  ASSUME Inv, Owed, NEW r \in Requests, Persist(r)
  PROVE  Owed'
<1> DEFINE q == request[r]
<1>1. /\ q.pc = "persist" /\ q.value \in BOOLEAN /\ required' = q.value /\ team' = team
      /\ slipped' = slipped \cup
           (IF q.value /\ ~q.holds /\ ~required THEN WithoutOrganization ELSE {})
      /\ request'[r] = Idle /\ \A s \in Requests \ {r} : Remains(request[s], request'[s])
      /\ q.value => Others(r, "place", "none")
  BY PersistShape DEF At
<1>2. q.holds /\ q.value => WithoutOrganization \subseteq slipped
  <2>1. Duty(q)
    BY DEF Owed
  <2> HIDE DEF q
  <2> QED
    BY <1>1, <2>1 DEF Duty, Assigns
<1> HIDE DEF q
<1>3. WithoutOrganization' = WithoutOrganization /\ \A o : TeamsOf(o)' = TeamsOf(o)
  BY <1>1 DEF WithoutOrganization, TeamsOf
<1>4. RequiredMeansAssigned'
  BY <1>1, <1>2, <1>3 DEF RequiredMeansAssigned, Owed
<1>5. ASSUME NEW s \in Requests  PROVE Duty(request[s])'
  <2>1. CASE s = r
    BY <1>1, <2>1 DEF Duty, Assigns, Idle
  <2>2. CASE s # r
    <3>1. PICK y, x : y = request[s] /\ x = request'[s]
      OBVIOUS
    <3>2. /\ Duty(y) /\ Remains(y, x)
          /\ q.value /\ y.pc = "place" /\ y.org = "none" => ~x.holds
      BY <1>1, <2>2, <3>1 DEF Others, Owed, At
    <3>3. Duty(x)'
      BY <1>1, <1>3, <3>2 DEF Duty, Assigns, Remains
    <3> QED
      BY <3>1, <3>3 DEF Duty, Assigns
  <2> QED
    BY <2>1, <2>2
<1> QED
  BY <1>4, <1>5 DEF Owed

(* A team that is deleted needs no organization.                            *)
LEMMA TeamOwed ==
  ASSUME Inv, Owed, Refresh \/ \E t \in Teams : DeleteTeam(t)
  PROVE  Owed'
<1>1. CASE Refresh
  BY <1>1 DEF Refresh, history, Owed, RequiredMeansAssigned, Duty, Assigns, WithoutOrganization, TeamsOf
<1>2. ASSUME NEW t \in Teams, DeleteTeam(t)  PROVE Owed'
  <2>1. /\ team' = [team EXCEPT ![t] = "gone"] /\ slipped' = slipped \ {t}
        /\ UNCHANGED <<required, request>>
    BY <1>2 DEF DeleteTeam
  <2>2. /\ WithoutOrganization' \subseteq WithoutOrganization \ {t}
        /\ \A o \in Orgs : TeamsOf(o)' \subseteq TeamsOf(o)
    BY <2>1, OrganizationsAssumption DEF WithoutOrganization, TeamsOf, Inv, TypeOK
  <2>3. RequiredMeansAssigned'
    BY <2>1, <2>2 DEF RequiredMeansAssigned, Owed
  <2>4. ASSUME NEW s \in Requests  PROVE Duty(request[s])'
    <3>1. Duty(request[s])
      BY DEF Owed
    <3> QED
      BY <2>1, <2>2, <3>1 DEF Duty, Assigns
  <2> QED
    BY <2>3, <2>4 DEF Owed
<1> QED
  BY <1>1, <1>2

(* The teams that lose their organization so were not counted: they slip.   *)
LEMMA DeletedOwed ==
  ASSUME Inv, Owed, NEW r \in Requests, Deleted(r)
  PROVE  Owed'
<1> DEFINE q == request[r]
           o == q.org
<1>1. /\ q.pc = "delete" /\ o \in Orgs /\ required' = required
      /\ team' = [t \in Teams |-> IF team[t] = o THEN "none" ELSE team[t]]
      /\ slipped' = IF q.holds THEN slipped ELSE slipped \cup TeamsOf(o)
      /\ \A s \in Requests : request'[s] = Idle \/ request'[s] = request[s]
  BY DeletedShape DEF At, Live
<1>2. q.holds => TeamsOf(o) = {}
  BY <1>1 DEF Owed, Duty
<1> HIDE DEF q, o
<1>3. /\ WithoutOrganization' \subseteq WithoutOrganization \cup TeamsOf(o)
      /\ TeamsOf(o) \subseteq slipped' /\ slipped \subseteq slipped'
      /\ \A u \in Orgs : TeamsOf(u)' \subseteq TeamsOf(u)
  BY <1>1, <1>2, OrganizationsAssumption DEF WithoutOrganization, TeamsOf
<1>4. RequiredMeansAssigned'
  BY <1>1, <1>3 DEF RequiredMeansAssigned, Owed
<1>5. ASSUME NEW x, Duty(x)  PROVE Duty(x)'
  BY <1>1, <1>3, <1>5 DEF Duty, Assigns
<1>6. \A s \in Requests : Duty(request[s])'
  <2>1. \A x : Duty(x)' => \A s \in Requests : request'[s] = x => Duty(request[s])'
    BY DEF Duty, Assigns
  <2> QED
    BY <1>1, <1>5, <2>1, IdleDuty DEF Owed
<1> QED
  BY <1>4, <1>6 DEF Owed

(* With its teams moved, a request owes what has slipped only.              *)
LEMMA MovedOwed ==
  ASSUME Inv, Owed, NEW r \in Requests, Moved(r)
  PROVE  Owed'
<1> DEFINE q == request[r]
           o == q.org
<1>1. /\ q.pc = "move" /\ o \in Orgs /\ required' = required
      /\ team' = [t \in Teams |-> IF t \in q.teams THEN o ELSE team[t]]
      /\ slipped' = slipped \ q.teams
      /\ Others(r, "delete", o)
      /\ request'[r].pc = "persist" /\ request'[r].user = q.user
      /\ (Assigns(request'[r]) => Assigns(q))
  BY MovedShape DEF At, Live, Assigns
<1>2. q.user = System /\ (Assigns(q) => WithoutOrganization \subseteq q.teams \cup slipped)
  BY <1>1 DEF Owed, Duty
<1> HIDE DEF q, o
<1>3. /\ WithoutOrganization' \subseteq WithoutOrganization \ q.teams
      /\ \A u \in Orgs \ {o} : TeamsOf(u)' \subseteq TeamsOf(u)
  BY <1>1, OrganizationsAssumption DEF WithoutOrganization, TeamsOf
<1>4. RequiredMeansAssigned'
  BY <1>1, <1>3 DEF RequiredMeansAssigned, Owed
<1>5. Duty(request[r])'
  <2>1. PICK x : x = request'[r]
    OBVIOUS
  <2>2. Duty(x)'
    BY <1>1, <1>2, <1>3, <2>1 DEF Duty, Assigns
  <2> QED
    BY <2>1, <2>2 DEF Duty, Assigns
<1>6. ASSUME NEW s \in Requests \ {r}  PROVE Duty(request[s])'
  <2>1. PICK y, x : y = request[s] /\ x = request'[s]
    OBVIOUS
  <2>2. /\ Duty(y) /\ Remains(y, x) /\ (y.pc = "delete" /\ y.org = o => ~x.holds)
    BY <1>1, <2>1 DEF Others, Owed, At
  <2>3. Duty(x)'
    BY <1>1, <1>3, <2>2 DEF Duty, Remains, Assigns
  <2> QED
    BY <2>1, <2>3 DEF Duty, Assigns
<1> QED
  BY <1>4, <1>5, <1>6 DEF Owed

(* A team gives up its organization unseen only while nobody requires one.  *)
LEMMA PlacedOwed ==
  ASSUME Inv, Owed, NEW r \in Requests, Placed(r)
  PROVE  Owed'
<1> DEFINE q == request[r]
           o == q.org
<1>1. /\ q.pc = "place" /\ o \in Live \cup {"none"} /\ required' = required
      /\ Others(r, "delete", o) /\ request'[r] = Idle
  BY PlacedShape DEF At
<1>2. PICK t \in Teams :
         /\ team' = [team EXCEPT ![t] = o]
         /\ slipped' = IF o = "none" /\ (Requiring \/ ~q.holds)
                         THEN slipped \cup {t} ELSE slipped \ {t}
  BY PlacedShape
<1>3. Duty(q)
  BY DEF Owed
<1> HIDE DEF q, o
<1>4. /\ WithoutOrganization' \subseteq WithoutOrganization \cup {t}
      /\ o # "none" => WithoutOrganization' \subseteq WithoutOrganization \ {t}
      /\ \A u \in Orgs \ {o} : TeamsOf(u)' \subseteq TeamsOf(u)
  BY <1>2, OrganizationsAssumption DEF WithoutOrganization, TeamsOf, Inv, TypeOK
<1>5. (o = "none" => t \in slipped') =>
         (WithoutOrganization \subseteq slipped => WithoutOrganization' \subseteq slipped')
  BY <1>2, <1>4
<1>6. RequiredMeansAssigned'
  <2>1. required /\ o = "none" => t \in slipped'
    BY <1>1, <1>2, <1>3 DEF Duty, o
  <2> QED
    BY <1>1, <1>5, <2>1 DEF RequiredMeansAssigned, Owed
<1>7. ASSUME NEW s \in Requests \ {r}  PROVE Duty(request[s])'
  <2>1. PICK y, x : y = request[s] /\ x = request'[s]
    OBVIOUS
  <2>2. /\ Duty(y) /\ Remains(y, x) /\ (y.pc = "delete" /\ y.org = o => ~x.holds)
    BY <1>1, <2>1 DEF Others, Owed, At
  <2>3. Assigns(y) /\ y.pc \in {"findOrgs", "capacity", "create", "assign", "move", "persist"} /\ o = "none" =>
           t \in slipped'
    BY <1>2, <2>1 DEF Requiring, Assigns
  <2>4. ASSUME o = "none" => t \in slipped', WithoutOrganization \subseteq y.teams \cup slipped
        PROVE  WithoutOrganization' \subseteq y.teams \cup slipped'
    BY <1>2, <1>4, <2>4
  <2>5. Duty(x)'
    BY <1>1, <1>4, <1>5, <2>2, <2>3, <2>4 DEF Duty, Remains, Assigns
  <2> QED
    BY <2>1, <2>5 DEF Duty, Assigns
<1>8. Duty(request[r])'
  BY <1>1 DEF Duty, Assigns, Idle
<1> QED
  BY <1>6, <1>7, <1>8 DEF Owed

(* Where organizations are required every team has one but those that       *)
(* slipped: the request that switches the requirement on has moved every    *)
(* team it was told of, and no team goes without in between, or when the    *)
(* requirement is brought back, unnoticed.                                  *)
THEOREM RequirementHolds == Spec => []RequiredMeansAssigned
<1>1. Init => Owed
  BY DEF Init, Owed, RequiredMeansAssigned, Duty, Idle
<1>2. Inv /\ Owed /\ [Next]_vars => Owed'
  <2> SUFFICES ASSUME Inv, Owed, [Next]_vars  PROVE Owed'
    OBVIOUS
  <2>1. ASSUME NEW r \in Requests, Proceed(r)  PROVE Owed'
    <3>1. \/ Checks(r) \/ Create(r) \/ Added(r) \/ Changed(r) \/ Deleted(r)
          \/ Placed(r) \/ Moved(r) \/ Persist(r)
      BY <2>1 DEF Proceed, Checks
    <3> QED
      BY <3>1, CheckOwed, CreateOwed, MembersOwed, DeletedOwed, PlacedOwed, MovedOwed, PersistOwed
  <2>2. CASE UNCHANGED vars
    BY <2>2 DEF vars, history, Owed, RequiredMeansAssigned, Duty, Assigns, WithoutOrganization, TeamsOf
  <2> QED
    BY <2>1, <2>2, ArriveOwed, AbandonOwed, TeamOwed, PlayersDeletedOwed DEF Next
<1>3. Owed => RequiredMeansAssigned
  BY DEF Owed
<1> QED
  BY <1>1, <1>2, <1>3, Invariance, PTL DEF Spec

-------------------------------------------------------------------------------
(* A request that made its organization is about to move teams to it or to  *)
(* take it back, until one is moved; as it stays bare, nothing it still has *)
(* to ask can be refused.                                                   *)
Made(q) == q.made =>
  /\ q.pc \in {"assign", "move", "persist", "rollback", "countTeams", "delete"}
  /\ q.org \in Orgs /\ org[q.org] # "unused"
  /\ q.org \in bare => q.pc # "persist"

Bare ==
  /\ \A o \in bare : TeamsOf(o) = {} /\ GeneralManagers(o) = {}
  /\ \A r \in Requests : Made(request[r])
  /\ CleanedUp

(* Request s stays one that made its organization, or was not one.          *)
Stays(s) == \E x :
  /\ request'[s] = x /\ Made(x)'
  /\ request[s].made /\ request[s].org \in bare' /\ faults' = 0 =>
       x.made /\ x.org = request[s].org

(* The invariant from what becomes of the organizations and the requests.   *)
LEMMA BareStep ==
  ASSUME Bare, faults' = 0 => faults = 0, bare' \subseteq bare,
         \A o \in bare' : TeamsOf(o)' = {} /\ GeneralManagers(o)' = {},
         \A s \in Requests : Stays(s)
  PROVE  Bare'
<1>1. \A s \in Requests : Made(request[s])'
  BY DEF Stays, Made
<1>2. CleanedUp'
  BY DEF Bare, CleanedUp, Stays
<1> QED
  BY <1>1, <1>2 DEF Bare

(* What no step undoes: an organization is made once.                       *)
LEMMA OnceMade ==
  ASSUME Inv, Next
  PROVE  \A o \in Orgs : org[o] # "unused" => org'[o] # "unused"
<1>1. ASSUME NEW r \in Requests, Proceed(r)
      PROVE  \A o \in Orgs : org[o] # "unused" => org'[o] # "unused"
  <2>1. CASE Create(r)
    BY <2>1 DEF Create, Inv, TypeOK
  <2>2. CASE Deleted(r)
    BY <2>2, DeletedShape DEF Inv, TypeOK
  <2>3. CASE ~Create(r) /\ ~Deleted(r)
    BY <1>1, <2>3 DEF Proceed, Capacity, MemberAdd, Added, CountManagers, Changed, CountTeams,
       Authorize, Room, Placed, FindTeams, FindOrganizations, Assign, Moved, Persist, Rollback, Reads, Rows
  <2> QED
    BY <2>1, <2>2, <2>3
<1>2. ASSUME NEW r \in Requests, Arrive(r)  PROVE org' = org
  BY <1>2, ArriveShape DEF Rows
<1>3. ASSUME NEW r \in Requests, Refuse(r) \/ Fail(r)  PROVE org' = org
  BY <1>3 DEF Refuse, Fail, Reads, Rows
<1>4. ASSUME \/ Refresh \/ \E t \in Teams : DeleteTeam(t)
             \/ \E players \in SUBSET Players : PlayersDeleted(players)
      PROVE  org' = org
  BY <1>4 DEF Refresh, DeleteTeam, PlayersDeleted
<1> QED
  BY <1>1, <1>2, <1>3, <1>4 DEF Next

(* A request that goes on unchanged stays.                                  *)
LEMMA RemainsStays ==
  ASSUME Bare, NEW s \in Requests, bare' \subseteq bare,
         \A o \in Orgs : org[o] # "unused" => org'[o] # "unused",
         request'[s].pc = request[s].pc /\ request'[s].org = request[s].org
           /\ request'[s].made = request[s].made
  PROVE  Stays(s)
<1>1. PICK q, x : q = request[s] /\ x = request'[s]
  OBVIOUS
<1>2. Made(q) /\ x.pc = q.pc /\ x.org = q.org /\ x.made = q.made
  BY <1>1 DEF Bare
<1>3. Made(x)'
  BY <1>2 DEF Made
<1> QED
  BY <1>1, <1>2, <1>3 DEF Stays

(* One may end that did not make an organization, or whose own is not bare. *)
LEMMA IdleStays ==
  ASSUME Bare, NEW s \in Requests, request'[s] = Idle,
         \/ request[s].pc \in {"idle", "create", "add", "count", "write", "place", "persist"}
         \/ request[s].org \notin bare'
         \/ faults' # 0,
         bare' \subseteq bare
  PROVE  Stays(s)
<1>1. Made(Idle)'
  BY DEF Made, Idle
<1>2. ~(request[s].made /\ request[s].org \in bare' /\ faults' = 0)
  BY DEF Bare, Made
<1> QED
  BY <1>1, <1>2 DEF Stays

(* While no row changes bare organizations stay so.                         *)
LEMMA SameBare ==
  ASSUME Bare, UNCHANGED <<Rows, history>>
  PROVE  /\ bare' = bare
         /\ \A o \in bare' : TeamsOf(o)' = {} /\ GeneralManagers(o)' = {}
         /\ \A o \in Orgs : org[o] # "unused" => org'[o] # "unused"
BY DEF Bare, Rows, history, TeamsOf, GeneralManagers

(* Who arrives has made nothing.                                            *)
LEMMA ArriveBare ==
  ASSUME Inv, Bare, NEW r \in Requests, Arrive(r)
  PROVE  Bare'
<1>1. PICK x : Arrived(x) /\ Alone(r, x)
  BY ArriveShape
<1>2. UNCHANGED <<Rows, history, faults>> /\ request[r].pc = "idle"
  BY ArriveShape DEF At
<1>3. ASSUME NEW s \in Requests \ {r}  PROVE Stays(s)
  BY <1>1, <1>2, SameBare, RemainsStays DEF Alone
<1>4. Stays(r)
  <2>1. Made(x)'
    BY <1>1 DEF Arrived, Made
  <2>2. ~request[r].made
    BY <1>2 DEF Bare, Made
  <2> QED
    BY <1>1, <2>1, <2>2 DEF Alone, Stays
<1> QED
  BY <1>2, <1>3, <1>4, SameBare, BareStep

(* A check passes on what was made.                                         *)
LEMMA CheckBare ==
  ASSUME Inv, Bare, NEW r \in Requests, Checks(r)
  PROVE  Bare'
<1>1. PICK x : Follows(request[r], x) /\ Alone(r, x)
  BY CheckShape
<1>2. UNCHANGED <<Rows, history, faults>>
  BY CheckShape
<1>3. ASSUME NEW s \in Requests \ {r}  PROVE Stays(s)
  BY <1>1, <1>2, SameBare, RemainsStays DEF Alone
<1>4. Stays(r)
  <2>1. Made(request[r])
    BY DEF Bare
  <2>2. x.made => x.org = request[r].org /\ x.pc \in {"move", "countTeams", "delete"}
    BY <1>1, <2>1 DEF Follows, Made
  <2>3. Made(x)'
    BY <1>1, <1>2, <2>1, <2>2 DEF Made, Follows, Rows
  <2> QED
    BY <1>1, <2>2, <2>3 DEF Alone, Stays, Follows
<1> QED
  BY <1>2, <1>3, <1>4, SameBare, BareStep

(* A request that goes on to clean up is not refused: the organization is   *)
(* there, has no manager and no team.                                       *)
LEMMA AbandonBare ==
  ASSUME Inv, Bare, NEW r \in Requests, Refuse(r) \/ Fail(r)
  PROVE  Bare'
<1> DEFINE q == request[r]
<1>1. PICK x : /\ Alone(r, x)
               /\ IF q.pc \in {"assign", "move"} /\ q.made
                    THEN x.pc = "rollback" /\ x.made /\ x.org = q.org
                    ELSE x.pc = "idle" /\ ~x.made
  BY AbandonShape
<1>2. UNCHANGED <<Rows, history>> /\ ((faults' = faults /\ ~Passes(r)) \/ faults' = faults + 1)
  BY AbandonShape
<1>3. ASSUME NEW s \in Requests \ {r}  PROVE Stays(s)
  BY <1>1, <1>2, SameBare, RemainsStays DEF Alone
<1>4. Made(q) /\ faults \in Nat
  BY OrganizationsAssumption DEF Bare, Inv, TypeOK
<1>5. ASSUME q.made, q.org \in bare, faults' = 0  PROVE q.pc \in {"assign", "move"}
  <2>1. ~Passes(r)
    BY <1>2, <1>4, <1>5
  <2>2. q.org \in Live /\ TeamsOf(q.org) = {} /\ GeneralManagers(q.org) = {}
    BY <1>5 DEF Bare, Inv, TypeOK
  <2>3. q.pc \in {"assign", "move", "rollback", "countTeams", "delete"}
    BY <1>4, <1>5 DEF Made
  <2> QED
    BY <2>1, <2>2, <2>3 DEF Passes, At, MayManage, HasNoTeams
<1>6. Made(x)'
  BY <1>1, <1>2, <1>4 DEF Made, Rows
<1>7. Stays(r)
  BY <1>1, <1>2, <1>5, <1>6, SameBare DEF Alone, Stays
<1>8. faults' = 0 => faults = 0
  BY <1>2, <1>4
<1> QED
  BY <1>2, <1>3, <1>7, <1>8, SameBare, BareStep

(* What is made for teams has no team, no manager and one request.          *)
LEMMA CreateBare ==
  ASSUME Inv, Bare, NEW r \in Requests, Create(r)
  PROVE  Bare'
<1>0. PICK o \in Orgs : \E x :
         /\ org[o] = "unused" /\ org' = [org EXCEPT ![o] = "live"] /\ Alone(r, x) /\ x.org = o
         /\ \/ x.made /\ x.pc = "assign" /\ bare' = bare \cup {o}
            \/ ~x.made /\ x.pc = "join" /\ bare' = bare
  BY CreateShape
<1>1. PICK x :
         /\ org[o] = "unused" /\ org' = [org EXCEPT ![o] = "live"] /\ Alone(r, x) /\ x.org = o
         /\ \/ x.made /\ x.pc = "assign" /\ bare' = bare \cup {o}
            \/ ~x.made /\ x.pc = "join" /\ bare' = bare
  BY <1>0
<1>2. UNCHANGED <<member, team, required, managed, slipped, faults>> /\ request[r].pc = "create"
  BY CreateShape DEF At
<1>3. o \notin Live /\ TeamsOf(o) = {} /\ GeneralManagers(o) = {}
  <2>1. o \notin Live /\ o # "none"
    BY <1>1, OrganizationsAssumption DEF Live
  <2> QED
    BY <2>1 DEF TeamsOf, GeneralManagers, Inv, TypeOK, NoRow
<1>4. \A u \in bare' : TeamsOf(u)' = {} /\ GeneralManagers(u)' = {}
  BY <1>1, <1>2, <1>3 DEF Bare, TeamsOf, GeneralManagers
<1>5. ASSUME NEW s \in Requests \ {r}
      PROVE  request'[s] = request[s] /\ Made(request[s])'
  <2>1. PICK q : q = request[s]
    OBVIOUS
  <2>2. request'[s] = q /\ Made(q)
    BY <1>1, <2>1 DEF Alone, Bare
  <2>3. Made(q)'
    BY <1>1, <1>2, <2>2 DEF Made, Inv, TypeOK
  <2> QED
    BY <2>1, <2>2, <2>3 DEF Made
<1>6. Made(x)' /\ request'[r] = x
  BY <1>1 DEF Made, Alone, Inv, TypeOK
<1>7. \A s \in Requests : Made(request[s])'
  BY <1>5, <1>6 DEF Made
<1>8. CleanedUp'
  <2>1. ~request[r].made
    BY <1>2 DEF Bare, Made
  <2> QED
    BY <1>1, <1>2, <1>5, <1>6, <2>1 DEF Bare, CleanedUp
<1> QED
  BY <1>4, <1>7, <1>8 DEF Bare

(* An organization that comes to have a manager is bare no more.            *)
LEMMA MembersBare ==
  ASSUME Inv, Bare, Next, NEW r \in Requests, Added(r) \/ Changed(r)
  PROVE  Bare'
<1>1. UNCHANGED <<org, team, faults>> /\ bare' \subseteq bare
  BY MembersShape
<1>2. \A s \in Requests : Stays(s)
  BY <1>1, MembersShape, RemainsStays, IdleStays, OnceMade DEF Remains
<1>3. \A o \in bare' : GeneralManagers(o)' \subseteq GeneralManagers(o)
  <2>1. CASE Added(r)
    <3> DEFINE q == request[r]
               manager == IF q.role = "GENERAL_MANAGER" THEN {q.org} ELSE {}
    <3>1. /\ member' = [member EXCEPT ![q.user] = [org |-> q.org, role |-> q.role, status |-> "ACTIVE"]]
          /\ bare' = bare \ manager
      BY <2>1 DEF Added
    <3>2. q.role = "GENERAL_MANAGER" => q.org \notin bare'
      BY <3>1
    <3> HIDE DEF q, manager
    <3> QED
      BY <3>1, <3>2 DEF GeneralManagers, Inv, TypeOK
  <2>2. CASE Changed(r)
    <3> DEFINE q == request[r]
               p == q.user
               role == IF q.role = "none" THEN member[p].role ELSE q.role
               status == IF q.status = "none" THEN member[p].status ELSE q.status
               row == [org |-> q.org, role |-> role, status |-> status]
    <3>1. /\ member' = [member EXCEPT ![p] = row]
          /\ row.role = "GENERAL_MANAGER" /\ row.status = "ACTIVE" => q.org \notin bare'
      BY <2>2 DEF Changed
    <3> HIDE DEF q, p, role, status
    <3> QED
      BY <3>1 DEF GeneralManagers, Inv, TypeOK
  <2> QED
    BY <2>1, <2>2
<1>4. \A o \in bare' : TeamsOf(o)' = {} /\ GeneralManagers(o)' = {}
  BY <1>1, <1>3 DEF Bare, TeamsOf
<1> QED
  BY <1>1, <1>2, <1>4, BareStep

(* The request that made it has moved teams to it.                          *)
LEMMA PersistBare ==
  ASSUME Inv, Bare, Next, NEW r \in Requests, Persist(r)
  PROVE  Bare'
<1>1. /\ request[r].pc = "persist" /\ UNCHANGED <<org, member, team, faults>>
      /\ \A s \in Requests \ {r} : Remains(request[s], request'[s])
      /\ request'[r] = Idle
  BY PersistShape DEF At
<1>2. bare' = bare
  BY PersistShape
<1>3. \A s \in Requests : Stays(s)
  BY <1>1, <1>2, RemainsStays, IdleStays, OnceMade DEF Remains, Others
<1>4. \A o \in bare' : TeamsOf(o)' = {} /\ GeneralManagers(o)' = {}
  BY <1>1, <1>2 DEF Bare, TeamsOf, GeneralManagers
<1> QED
  BY <1>1, <1>2, <1>3, <1>4, BareStep

(* An organization that comes to have a team is bare no more ...            *)
LEMMA PlacedBare ==
  ASSUME Inv, Bare, Next, NEW r \in Requests, Placed(r)
  PROVE  Bare'
<1>1. /\ request[r].pc = "place" /\ UNCHANGED <<org, member, faults>>
      /\ Others(r, "delete", request[r].org) /\ request'[r] = Idle
      /\ bare' = bare \ {request[r].org}
  BY PlacedShape DEF At
<1>2. PICK t \in Teams : team' = [team EXCEPT ![t] = request[r].org]
  BY PlacedShape
<1>3. \A s \in Requests : Stays(s)
  BY <1>1, RemainsStays, IdleStays, OnceMade DEF Remains, Others
<1>4. \A o \in bare' : TeamsOf(o)' \subseteq TeamsOf(o) /\ GeneralManagers(o)' = GeneralManagers(o)
  BY <1>1, <1>2 DEF TeamsOf, GeneralManagers, Inv, TypeOK
<1> QED
  BY <1>1, <1>3, <1>4, BareStep DEF Bare

(* ... also by an assignment.                                               *)
LEMMA MovedBare ==
  ASSUME Inv, Bare, Next, NEW r \in Requests, Moved(r)
  PROVE  Bare'
<1> DEFINE q == request[r]
<1>1. /\ q.pc = "move" /\ q.org \in Live /\ UNCHANGED <<org, member, faults>>
      /\ Others(r, "delete", q.org)
      /\ request'[r].pc = "persist" /\ request'[r].org = q.org
      /\ bare' = bare \ {q.org}
      /\ team' = [t \in Teams |-> IF t \in q.teams THEN q.org ELSE team[t]]
  BY MovedShape DEF At
<1>2. ASSUME NEW s \in Requests \ {r}  PROVE Stays(s)
  BY <1>1, <1>2, RemainsStays, OnceMade DEF Remains, Others
<1>3. Stays(r)
  <2>1. PICK x : x = request'[r]
    OBVIOUS
  <2>2. Made(x)'
    BY <1>1, <2>1 DEF Made, Live
  <2> QED
    BY <1>1, <2>1, <2>2 DEF Stays
<1>4. \A o \in bare' : TeamsOf(o)' \subseteq TeamsOf(o) /\ GeneralManagers(o)' = GeneralManagers(o)
  BY <1>1 DEF TeamsOf, GeneralManagers
<1> QED
  BY <1>1, <1>2, <1>3, <1>4, BareStep DEF Bare

(* An organization that is deleted needs no request.                        *)
LEMMA DeletedBare ==
  ASSUME Inv, Bare, Next, NEW r \in Requests, Deleted(r)
  PROVE  Bare'
<1> DEFINE o == request[r].org
<1>1. /\ o \in Live /\ UNCHANGED faults /\ bare' = bare \ {o}
      /\ member' = [p \in Players |-> IF member[p].org = o THEN NoRow ELSE member[p]]
      /\ team' = [t \in Teams |-> IF team[t] = o THEN "none" ELSE team[t]]
      /\ \A s \in Requests : \/ request'[s] = Idle /\ (s = r \/ request[s].pc \in {"count", "write"})
                             \/ request'[s] = request[s]
  BY DeletedShape
<1>2. \A s \in Requests : Stays(s)
  BY <1>1, RemainsStays, IdleStays, OnceMade
<1> HIDE DEF o
<1>3. \A u \in bare' : TeamsOf(u)' \subseteq TeamsOf(u) /\ GeneralManagers(u)' \subseteq GeneralManagers(u)
  BY <1>1, OrganizationsAssumption DEF TeamsOf, GeneralManagers, Inv, TypeOK, Live, NoRow
<1> QED
  BY <1>1, <1>2, <1>3, BareStep DEF Bare

(* Players who go take no team along and bring no manager.                  *)
LEMMA PlayersDeletedBare ==
  ASSUME Inv, Bare, Next, NEW players \in SUBSET Players, PlayersDeleted(players)
  PROVE  Bare'
<1>1. UNCHANGED <<org, team, faults>> /\ bare' = bare
  BY PlayersDeletedShape
<1>2. \A s \in Requests : Stays(s)
  BY <1>1, PlayersDeletedShape, RemainsStays, IdleStays, OnceMade DEF Remains
<1>3. \A o \in bare' : TeamsOf(o)' = {} /\ GeneralManagers(o)' = {}
  BY <1>1, PlayersDeletedShape DEF Bare, TeamsOf
<1> QED
  BY <1>1, <1>2, <1>3, BareStep

(* No team comes to anyone.                                                 *)
LEMMA TeamBare ==
  ASSUME Inv, Bare, Next, Refresh \/ \E t \in Teams : DeleteTeam(t)
  PROVE  Bare'
<1>1. /\ UNCHANGED <<org, member, faults, request>> /\ bare' = bare
      /\ \A t \in Teams : team'[t] = team[t] \/ team'[t] = "gone"
  BY DEF Refresh, DeleteTeam, history, Inv, TypeOK
<1>2. \A s \in Requests : Stays(s)
  BY <1>1, RemainsStays, OnceMade
<1>3. \A u \in bare' : TeamsOf(u)' \subseteq TeamsOf(u) /\ GeneralManagers(u)' = GeneralManagers(u)
  BY <1>1, OrganizationsAssumption DEF TeamsOf, GeneralManagers, Inv, TypeOK, Live
<1> QED
  BY <1>1, <1>2, <1>3, BareStep DEF Bare

(* If no call fails, an organization made for teams and never given a team  *)
(* or a manager has a request that will use it or take it back: no check on *)
(* the way of the clean-up refuses it, whatever the other requests do.      *)
THEOREM NoOrphans == Spec => []CleanedUp
<1>1. Init => Bare
  BY DEF Init, Bare, CleanedUp, Made, Idle
<1>2. Inv /\ Bare /\ [Next]_vars => Bare'
  <2> SUFFICES ASSUME Inv, Bare, [Next]_vars  PROVE Bare'
    OBVIOUS
  <2>1. ASSUME Next, NEW r \in Requests, Proceed(r)  PROVE Bare'
    <3>1. \/ Checks(r) \/ Create(r) \/ Added(r) \/ Changed(r) \/ Deleted(r)
          \/ Placed(r) \/ Moved(r) \/ Persist(r)
      BY <2>1 DEF Proceed, Checks
    <3> QED
      BY <2>1, <3>1, CheckBare, CreateBare, MembersBare, DeletedBare, PlacedBare, MovedBare, PersistBare
  <2>2. CASE UNCHANGED vars
    BY <2>2 DEF vars, history, Bare, CleanedUp, Made, TeamsOf, GeneralManagers
  <2> QED
    BY <2>1, <2>2, ArriveBare, AbandonBare, TeamBare, PlayersDeletedBare DEF Next
<1>3. Bare => CleanedUp
  BY DEF Bare
<1> QED
  BY <1>1, <1>2, <1>3, Invariance, PTL DEF Spec

-------------------------------------------------------------------------------
(* A request that has found room in an organization takes as much as the    *)
(* limit: one team, or those of an assignment, which are no more.           *)
Taking(o) == {r \in Requests : request[r].pc \in {"place", "move"} /\ request[r].org = o}
Fits(o) == Cardinality(TeamsOf(o)) + MaxTeams * Cardinality(Taking(o)) <= MaxTeams * (1 + Cardinality(Requests))
Sized == \A r \in Requests : At(r, "move") => Cardinality(request[r].teams) <= MaxTeams
Roomy == Sized /\ \A o \in Orgs : Fits(o)

(* What is needed of products, which the solver does not know.              *)
LEMMA Product ==
  ASSUME NEW m \in Nat, NEW k \in Nat, NEW n \in Nat, k <= n
  PROVE  m * k \in Nat /\ m * n \in Nat /\ m * k <= m * n /\ m * (1 + k) = m + m * k
<1>1. PICK d \in Nat : n = k + d
  <2>1. n - k \in Nat /\ n = k + (n - k)
    OBVIOUS
  <2> QED
    BY <2>1
<1>2. m * d \in Nat /\ m * k \in Nat
  OBVIOUS
<1>3. m * (k + d) = m * k + m * d
  OBVIOUS
<1>4. m * (1 + k) = m + m * k
  OBVIOUS
<1> QED
  BY <1>1, <1>2, <1>3, <1>4

(* The cardinalities that are compared are numbers.                         *)
LEMMA Sizes ==
  ASSUME NEW S \in SUBSET Teams, NEW C \in SUBSET Requests
  PROVE  /\ IsFiniteSet(S) /\ Cardinality(S) \in Nat
         /\ IsFiniteSet(C) /\ Cardinality(C) \in Nat /\ Cardinality(C) <= Cardinality(Requests)
         /\ Cardinality(Requests) \in Nat /\ MaxTeams \in Nat \ {0}
<1>1. IsFiniteSet(S) /\ IsFiniteSet(C) /\ Cardinality(C) <= Cardinality(Requests)
  BY OrganizationsAssumption, FS_Subset
<1> QED
  BY <1>1, OrganizationsAssumption, FS_CardinalityType

(* What they are the cardinalities of.                                      *)
LEMMA Parts ==
  ASSUME NEW o
  PROVE  TeamsOf(o) \in SUBSET Teams /\ Taking(o) \in SUBSET Requests
         /\ TeamsOf(o)' \in SUBSET Teams /\ Taking(o)' \in SUBSET Requests
BY DEF TeamsOf, Taking

(* Nobody finds room, and no team comes.                                    *)
LEMMA FitsLess ==
  ASSUME NEW o, Fits(o), TeamsOf(o)' \subseteq TeamsOf(o), Taking(o)' \subseteq Taking(o)
  PROVE  Fits(o)'
<1>1. /\ Cardinality(TeamsOf(o)') <= Cardinality(TeamsOf(o))
      /\ Cardinality(Taking(o)') <= Cardinality(Taking(o))
  BY Parts, Sizes, FS_Subset
<1>2. MaxTeams * Cardinality(Taking(o)') <= MaxTeams * Cardinality(Taking(o))
  BY <1>1, Parts, Sizes, Product
<1>3. /\ MaxTeams * Cardinality(Taking(o)') \in Nat /\ MaxTeams * Cardinality(Taking(o)) \in Nat
      /\ MaxTeams * (1 + Cardinality(Requests)) \in Nat
      /\ Cardinality(TeamsOf(o)') \in Nat /\ Cardinality(TeamsOf(o)) \in Nat
  <2>1. 1 + Cardinality(Requests) \in Nat
    BY Sizes
  <2> QED
    BY <2>1, Parts, Sizes, Product
<1> QED
  BY <1>1, <1>2, <1>3 DEF Fits

(* A request finds room: there are no more teams than the limit.            *)
LEMMA FitsRoom ==
  ASSUME NEW o, Cardinality(TeamsOf(o)) <= MaxTeams, TeamsOf(o)' = TeamsOf(o)
  PROVE  Fits(o)'
<1>1. /\ Cardinality(Taking(o)') \in Nat /\ Cardinality(Taking(o)') <= Cardinality(Requests)
      /\ Cardinality(Requests) \in Nat /\ MaxTeams \in Nat /\ Cardinality(TeamsOf(o)) \in Nat
  BY Parts, Sizes
<1>2. /\ MaxTeams * Cardinality(Taking(o)') <= MaxTeams * Cardinality(Requests)
      /\ MaxTeams * Cardinality(Taking(o)') \in Nat /\ MaxTeams * Cardinality(Requests) \in Nat
      /\ MaxTeams * (1 + Cardinality(Requests)) = MaxTeams + MaxTeams * Cardinality(Requests)
  BY <1>1, Product
<1> QED
  BY <1>1, <1>2 DEF Fits

(* A request that has found room brings its teams.                          *)
LEMMA FitsBrought ==
  ASSUME NEW o, Fits(o), NEW r \in Taking(o), Taking(o)' \subseteq Taking(o) \ {r},
         NEW S \in SUBSET Teams, Cardinality(S) <= MaxTeams, TeamsOf(o)' \subseteq TeamsOf(o) \cup S
  PROVE  Fits(o)'
<1>1. /\ TeamsOf(o) \in SUBSET Teams /\ TeamsOf(o) \cup S \in SUBSET Teams
      /\ Taking(o) \ {r} \in SUBSET Requests
  BY Parts
<1>2. /\ Cardinality(TeamsOf(o)') <= Cardinality(TeamsOf(o) \cup S)
      /\ Cardinality(Taking(o)') <= Cardinality(Taking(o) \ {r})
  BY <1>1, Sizes, FS_Subset
<1>3. Cardinality(TeamsOf(o) \cup S) <= Cardinality(TeamsOf(o)) + Cardinality(S)
  <2>1. Cardinality(TeamsOf(o) \cup S) =
          Cardinality(TeamsOf(o)) + Cardinality(S) - Cardinality(TeamsOf(o) \cap S)
    BY <1>1, Sizes, FS_Union
  <2>2. TeamsOf(o) \cap S \in SUBSET Teams
    BY <1>1
  <2> QED
    BY <1>1, <2>1, <2>2, Sizes
<1>4. Cardinality(Taking(o) \ {r}) = Cardinality(Taking(o)) - 1
  BY Parts, Sizes, FS_RemoveElement
<1>5. /\ Cardinality(Taking(o) \ {r}) \in Nat /\ Cardinality(Taking(o)) \in Nat
      /\ Cardinality(Taking(o)') \in Nat /\ MaxTeams \in Nat
      /\ Cardinality(TeamsOf(o)) \in Nat /\ Cardinality(S) \in Nat /\ Cardinality(Requests) \in Nat
      /\ Cardinality(TeamsOf(o) \cup S) \in Nat /\ Cardinality(TeamsOf(o)') \in Nat
  BY <1>1, Parts, Sizes
<1>6. Cardinality(TeamsOf(o)') <= Cardinality(TeamsOf(o)) + MaxTeams
  BY <1>2, <1>3, <1>5
<1>7. /\ 1 + Cardinality(Taking(o)') \in Nat /\ 1 + Cardinality(Taking(o)') <= Cardinality(Taking(o))
      /\ 1 + Cardinality(Requests) \in Nat
  BY <1>2, <1>4, <1>5
<1>8. /\ MaxTeams * (1 + Cardinality(Taking(o)')) <= MaxTeams * Cardinality(Taking(o))
      /\ MaxTeams * (1 + Cardinality(Taking(o)')) = MaxTeams + MaxTeams * Cardinality(Taking(o)')
      /\ MaxTeams * Cardinality(Taking(o)') \in Nat /\ MaxTeams * Cardinality(Taking(o)) \in Nat
      /\ MaxTeams * (1 + Cardinality(Requests)) \in Nat
  BY <1>5, <1>7, Product, SMTT(20)
<1> QED
  BY <1>5, <1>6, <1>8 DEF Fits

(* Request s finds no room by this step.                                    *)
Waits(s) ==
  /\ request'[s].pc = "move" => request[s].pc = "move" /\ request'[s].teams = request[s].teams
  /\ request'[s].pc \in {"place", "move"} /\ request'[s].org \in Orgs =>
       request[s].pc \in {"place", "move"} /\ request'[s].org = request[s].org

(* A request that another writes past finds no room by it.                  *)
LEMMA RemainsWaits ==
  ASSUME NEW s, Remains(request[s], request'[s]) \/ request'[s] = request[s]
                  \/ request'[s].pc \notin {"place", "move"}
  PROVE  Waits(s)
BY DEF Remains, Waits

(* A step that brings no team and finds no room keeps the bound.            *)
LEMMA RoomyQuiet ==
  ASSUME Roomy, \A o \in Orgs : TeamsOf(o)' \subseteq TeamsOf(o), \A s \in Requests : Waits(s)
  PROVE  Roomy'
<1>1. Sized'
  BY DEF Roomy, Sized, Waits, At
<1>2. ASSUME NEW o \in Orgs  PROVE Fits(o)'
  <2>1. Taking(o)' \subseteq Taking(o)
    BY DEF Taking, Waits
  <2> QED
    BY <2>1, FitsLess DEF Roomy
<1> QED
  BY <1>1, <1>2 DEF Roomy

(* Without a write every team stays.                                        *)
LEMMA SameTeams ==
  ASSUME team' = team
  PROVE  \A o : TeamsOf(o)' = TeamsOf(o)
BY DEF TeamsOf

(* Who arrives to place a team at once places it nowhere.                   *)
LEMMA ArriveRoomy ==
  ASSUME Inv, Roomy, NEW r \in Requests, Arrive(r)
  PROVE  Roomy'
<1>1. PICK x : Arrived(x) /\ Alone(r, x)
  BY ArriveShape
<1>2. team' = team
  BY ArriveShape DEF Rows
<1>3. Waits(r)
  BY <1>1, OrganizationsAssumption DEF Alone, Arrived, Waits
<1>4. \A s \in Requests : Waits(s)
  BY <1>1, <1>3, RemainsWaits DEF Alone
<1> QED
  BY <1>2, <1>4, SameTeams, RoomyQuiet

(* Who finds room has found no more teams than the limit.                   *)
LEMMA CheckRoomy ==
  ASSUME Inv, Roomy, NEW r \in Requests, Checks(r)
  PROVE  Roomy'
<1> DEFINE q == request[r]
<1>1. PICK x : Follows(q, x) /\ Alone(r, x)
  BY CheckShape
<1>2. \A o : TeamsOf(o)' = TeamsOf(o)
  BY CheckShape, SameTeams DEF Rows
<1>3. CASE x.pc \notin {"place", "move"}
  <2>1. \A s \in Requests : Waits(s)
    BY <1>1, <1>3, RemainsWaits DEF Alone
  <2> QED
    BY <1>2, <2>1, RoomyQuiet
<1>4. CASE x.pc \in {"place", "move"}
  <2>1. x.org = q.org /\ x.teams = q.teams
    BY <1>1, <1>4 DEF Follows
  <2>2. /\ Cardinality(TeamsOf(q.org)) <= MaxTeams
        /\ x.pc = "move" => Cardinality(x.teams) <= MaxTeams
    <3>1. CASE x.pc = "place"
      BY <1>1, <3>1 DEF Follows, OrganizationHasRoom
    <3>2. CASE x.pc = "move"
      <4>1. Cardinality(TeamsOf(q.org)) + Cardinality(q.teams) <= MaxTeams
        BY <1>1, <3>2 DEF Follows, TakesAll
      <4>2. q.teams \in SUBSET Teams
        BY RequestType DEF Request
      <4> QED
        BY <2>1, <4>1, <4>2, Parts, Sizes
    <3> QED
      BY <1>4, <3>1, <3>2
  <2>3. Sized'
    BY <1>1, <2>2 DEF Sized, Roomy, Alone, At
  <2>4. ASSUME NEW o \in Orgs  PROVE Fits(o)'
    <3>1. CASE o = q.org
      BY <1>2, <2>2, <3>1, FitsRoom
    <3>2. CASE o # q.org
      <4>1. Taking(o)' \subseteq Taking(o)
        BY <1>1, <2>1, <3>2 DEF Taking, Alone
      <4> QED
        BY <1>2, <4>1, FitsLess DEF Roomy
    <3> QED
      BY <3>1, <3>2
  <2> QED
    BY <2>3, <2>4 DEF Roomy
<1> QED
  BY <1>3, <1>4

(* Who gives up brings nothing.                                             *)
LEMMA AbandonRoomy ==
  ASSUME Inv, Roomy, NEW r \in Requests, Refuse(r) \/ Fail(r)
  PROVE  Roomy'
<1>1. PICK x : Alone(r, x) /\ x.pc \in {"rollback", "idle"}
  BY AbandonShape
<1>2. team' = team
  BY AbandonShape DEF Rows
<1>3. \A s \in Requests : Waits(s)
  BY <1>1, RemainsWaits DEF Alone
<1> QED
  BY <1>2, <1>3, SameTeams, RoomyQuiet

(* The writes about organizations, members and settings bring no team.      *)
LEMMA WritesRoomy ==
  ASSUME Inv, Roomy, NEW r \in Requests, Create(r) \/ Added(r) \/ Changed(r) \/ Persist(r)
  PROVE  Roomy'
<1>1. Idle.pc \notin {"place", "move"}
  BY DEF Idle
<1>2. CASE Create(r)
  <2>1. PICK x : Alone(r, x) /\ x.pc \notin {"place", "move"}
    BY <1>2, CreateShape
  <2>2. \A s \in Requests : Waits(s)
    BY <2>1, RemainsWaits DEF Alone
  <2> QED
    BY <1>2, <2>2, CreateShape, SameTeams, RoomyQuiet
<1>3. CASE Added(r) \/ Changed(r)
  <2>1. team' = team /\ \A s \in Requests : Waits(s)
    BY <1>1, <1>3, MembersShape, RemainsWaits
  <2> QED
    BY <2>1, SameTeams, RoomyQuiet
<1>4. CASE Persist(r)
  <2>1. team' = team /\ request'[r] = Idle /\ \A s \in Requests \ {r} : Remains(request[s], request'[s])
    BY <1>4, PersistShape
  <2>2. \A s \in Requests : Waits(s)
    BY <1>1, <2>1, RemainsWaits
  <2> QED
    BY <2>1, <2>2, SameTeams, RoomyQuiet
<1> QED
  BY <1>2, <1>3, <1>4

(* A deletion brings no team to another organization.                       *)
LEMMA DeletedRoomy ==
  ASSUME Inv, Roomy, NEW r \in Requests, Deleted(r)
  PROVE  Roomy'
<1>1. Idle.pc \notin {"place", "move"}
  BY DEF Idle
<1>2. \A s \in Requests : Waits(s)
  BY <1>1, DeletedShape, RemainsWaits
<1>3. \A o \in Orgs : TeamsOf(o)' \subseteq TeamsOf(o)
  BY DeletedShape, OrganizationsAssumption DEF TeamsOf
<1> QED
  BY <1>2, <1>3, RoomyQuiet

(* Nor does that of players ...                                             *)
LEMMA PlayersDeletedRoomy ==
  ASSUME Inv, Roomy, NEW players \in SUBSET Players, PlayersDeleted(players)
  PROVE  Roomy'
<1>1. Idle.pc \notin {"place", "move"}
  BY DEF Idle
<1>2. team' = team /\ \A s \in Requests : Waits(s)
  BY <1>1, PlayersDeletedShape, RemainsWaits
<1> QED
  BY <1>2, SameTeams, RoomyQuiet

(* ... or the deletion of a team.                                           *)
LEMMA TeamRoomy ==
  ASSUME Inv, Roomy, Refresh \/ \E t \in Teams : DeleteTeam(t)
  PROVE  Roomy'
<1>1. request' = request /\ \A t \in Teams : team'[t] = team[t] \/ team'[t] = "gone"
  BY DEF Refresh, DeleteTeam, Inv, TypeOK
<1>2. \A o \in Orgs : TeamsOf(o)' \subseteq TeamsOf(o)
  BY <1>1, OrganizationsAssumption DEF TeamsOf
<1> QED
  BY <1>1, <1>2, RemainsWaits, RoomyQuiet

(* A placement brings one team, and one request less will.                  *)
LEMMA PlacedRoomy ==
  ASSUME Inv, Roomy, NEW r \in Requests, Placed(r)
  PROVE  Roomy'
<1> DEFINE u == request[r].org
<1>1. At(r, "place") /\ Others(r, "delete", u) /\ request'[r] = Idle
  BY PlacedShape
<1>2. PICK t \in Teams : team' = [team EXCEPT ![t] = u]
  BY PlacedShape
<1>3. ASSUME NEW o \in Orgs  PROVE Taking(o)' \subseteq Taking(o) \ {r}
  BY <1>1 DEF Taking, Others, Remains, Idle
<1>4. Sized'
  BY <1>1 DEF Sized, Roomy, Others, Remains, At, Idle
<1>5. ASSUME NEW o \in Orgs  PROVE Fits(o)'
  <2>1. TeamsOf(o)' \subseteq TeamsOf(o) \cup {t} /\ (o # u => TeamsOf(o)' \subseteq TeamsOf(o))
    BY <1>2 DEF TeamsOf, Inv, TypeOK
  <2>2. CASE o = u
    <3>1. r \in Taking(o) /\ Fits(o)
      BY <1>1, <2>2 DEF Taking, At, Roomy
    <3>2. {t} \in SUBSET Teams /\ Cardinality({t}) <= MaxTeams
      BY FS_Singleton, OrganizationsAssumption, SMTT(20)
    <3> QED
      BY <1>3, <2>1, <3>1, <3>2, FitsBrought
  <2>3. CASE o # u
    BY <1>3, <2>1, <2>3, FitsLess DEF Roomy
  <2> QED
    BY <2>2, <2>3
<1> QED
  BY <1>4, <1>5 DEF Roomy

(* An assignment brings its teams, which are no more than the limit.        *)
LEMMA MovedRoomy ==
  ASSUME Inv, Roomy, NEW r \in Requests, Moved(r)
  PROVE  Roomy'
<1> DEFINE u == request[r].org
           S == request[r].teams
<1>1. /\ At(r, "move") /\ Others(r, "delete", u) /\ request'[r].pc = "persist"
      /\ team' = [t \in Teams |-> IF t \in S THEN u ELSE team[t]]
  BY MovedShape
<1>2. S \in SUBSET Teams /\ Cardinality(S) <= MaxTeams
  BY <1>1, RequestType DEF Request, Roomy, Sized
<1> HIDE DEF S
<1>3. ASSUME NEW o \in Orgs  PROVE Taking(o)' \subseteq Taking(o) \ {r}
  BY <1>1 DEF Taking, Others, Remains
<1>4. Sized'
  BY <1>1 DEF Sized, Roomy, Others, Remains, At
<1>5. ASSUME NEW o \in Orgs  PROVE Fits(o)'
  <2>1. TeamsOf(o)' \subseteq TeamsOf(o) \cup S /\ (o # u => TeamsOf(o)' \subseteq TeamsOf(o))
    BY <1>1 DEF TeamsOf
  <2>2. CASE o = u
    <3>1. r \in Taking(o) /\ Fits(o)
      BY <1>1, <2>2 DEF Taking, At, Roomy
    <3> QED
      BY <1>2, <1>3, <2>1, <3>1, FitsBrought
  <2>3. CASE o # u
    BY <1>3, <2>1, <2>3, FitsLess DEF Roomy
  <2> QED
    BY <2>2, <2>3
<1> QED
  BY <1>4, <1>5 DEF Roomy

(* The limit on teams is exceeded, for each request in hand, by no more     *)
(* than one assignment brings; the requests that ask do not see each other. *)
THEOREM TeamBound == Spec => []TeamsByRaceOnly
<1>1. Init => Roomy
  <2> SUFFICES ASSUME Init  PROVE Roomy
    OBVIOUS
  <2>1. Sized
    BY IdleType DEF Init, Sized, At
  <2>2. ASSUME NEW o \in Orgs  PROVE Fits(o)
    <3>1. TeamsOf(o) = {} /\ Taking(o) = {}
      BY OrganizationsAssumption, IdleType DEF Init, TeamsOf, Taking
    <3>2. Cardinality(TeamsOf(o)) = 0 /\ Cardinality(Taking(o)) = 0
      BY <3>1, FS_EmptySet
    <3>3. Cardinality(Requests) \in Nat /\ MaxTeams \in Nat
      BY Parts, Sizes
    <3>4. MaxTeams * 0 = 0 /\ MaxTeams * (1 + Cardinality(Requests)) \in Nat
      <4>1. 1 + Cardinality(Requests) \in Nat
        BY <3>3
      <4> QED
        BY <3>3, <4>1, Product
    <3> QED
      BY <3>2, <3>4 DEF Fits
  <2> QED
    BY <2>1, <2>2 DEF Roomy
<1>2. Inv /\ Roomy /\ [Next]_vars => Roomy'
  <2> SUFFICES ASSUME Inv, Roomy, [Next]_vars  PROVE Roomy'
    OBVIOUS
  <2>1. ASSUME NEW r \in Requests, Proceed(r)  PROVE Roomy'
    <3>1. \/ Checks(r) \/ Create(r) \/ Added(r) \/ Changed(r) \/ Deleted(r)
          \/ Placed(r) \/ Moved(r) \/ Persist(r)
      BY <2>1 DEF Proceed, Checks
    <3> QED
      BY <3>1, CheckRoomy, WritesRoomy, DeletedRoomy, PlacedRoomy, MovedRoomy
  <2>2. CASE UNCHANGED vars
    <3>1. team' = team /\ request' = request
      BY <2>2 DEF vars
    <3> QED
      BY <3>1, SameTeams, RemainsWaits, RoomyQuiet
  <2> QED
    BY <2>1, <2>2, ArriveRoomy, AbandonRoomy, TeamRoomy, PlayersDeletedRoomy DEF Next
<1>3. Roomy => TeamsByRaceOnly
  <2> SUFFICES ASSUME Roomy, NEW o \in Live  PROVE Cardinality(TeamsOf(o)) <= MaxTeams * (1 + Cardinality(Requests))
    BY DEF TeamsByRaceOnly
  <2>1. Fits(o)
    BY DEF Roomy, Live
  <2>2. /\ Cardinality(TeamsOf(o)) \in Nat /\ Cardinality(Taking(o)) \in Nat
        /\ Cardinality(Requests) \in Nat /\ MaxTeams \in Nat
    BY Parts, Sizes
  <2>3. MaxTeams * Cardinality(Taking(o)) \in Nat /\ MaxTeams * (1 + Cardinality(Requests)) \in Nat
    <3>1. 1 + Cardinality(Requests) \in Nat
      BY <2>2
    <3> QED
      BY <2>2, <3>1, Product
  <2> QED
    BY <2>1, <2>2, <2>3 DEF Fits
<1> QED
  BY <1>1, <1>2, <1>3, Invariance, PTL DEF Spec
===============================================================================
