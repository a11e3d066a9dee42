---------------------------- MODULE MCOrganizations ----------------------------
(* Organizations for TLC. *)
EXTENDS Organizations, TLC

(* Rows of one kind and requests are interchangeable. *)
Symmetry ==
  Permutations(Players) \cup Permutations(Orgs) \cup Permutations(Teams) \cup Permutations(Requests)

(* Bound: one row is deleted at a time, and gone on with only as long as a  *)
(* request in hand refers to it or a team has slipped through with it;      *)
(* after that it is but an id that was used.                                *)
InHand(x) ==
  \E r \in Requests :
    x \in {request[r].org, request[r].from, request[r].team} \cup request[r].teams

FewDeleted ==
  LET deleted == {o \in Orgs : org[o] = "gone"} \cup TeamsOf("gone")
  IN  Cardinality(deleted) <= 1 /\ \A x \in deleted : InHand(x) \/ slipped # {}

(* Bound: once the requirement was stored, or a reader of the settings may  *)
(* still think so, or a call has failed, two of the teams are yet to come:  *)
(* it takes four to overfill an organization, which needs none of that.     *)
FewTeams == answers # {FALSE} \/ faults > 0 => Cardinality(TeamsOf("unused")) >= 2

(* Bound of the run about members: there is a team only while they stay as  *)
(* they are, which is what a transfer by one of them needs.                 *)
MembersStay ==
  TeamsOf("unused") # Teams =>
    /\ Cardinality(Live) <= 2 /\ \A o \in Orgs : org[o] # "gone"
    /\ \A p \in Players : member[p].status \in {"none", "ACTIVE"}
    /\ \A r \in Requests :
         request[r].pc \notin {"capacity", "create", "join", "add", "count", "write"}

(* Bound of that run: nobody touches the settings, which no member is asked *)
(* about.                                                                   *)
SettingsStay ==
  ~required /\ \A r \in Requests : request[r].pc \notin {"findTeams", "persist"}
===============================================================================
