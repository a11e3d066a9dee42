-------------------------------- MODULE Leagues --------------------------------
(***************************************************************************)
(* The status of one league (LeaguesService): two ways to change it, one    *)
(* that validates the transition and one that does not.                     *)
(***************************************************************************)
CONSTANT Requests

VARIABLES
  status,   \* of the league, or "none"
  request   \* request[r]: where it stands, the status it has read and is to write

vars == <<status, request>>

-------------------------------------------------------------------------------
LeagueStatus == {"ACTIVE", "PAUSED", "ARCHIVED", "CANCELLED"}
Closed == {"ARCHIVED", "CANCELLED"}

Idle == [pc |-> "idle"]
At(r, pc) == request[r].pc = pc
End(r) == request' = [request EXCEPT ![r] = Idle]

Init ==
  /\ status = "none"
  /\ request = [r \in Requests |-> Idle]

-------------------------------------------------------------------------------
(* create, with the status it is given.                                     *)
Create(s) ==
  /\ status = "none" /\ status' = s
  /\ UNCHANGED request

(* update looks whether the league is there, and writes what the DTO has: a *)
(* status among the rest, which nothing validates.                          *)
Update(r, s) ==
  /\ At(r, "idle") /\ status # "none"
  /\ request' = [request EXCEPT ![r] = [pc |-> "edit", read |-> s, status |-> s]]
  /\ UNCHANGED status

(* Mutant: whoever is paused or closed may be opened. *)
Allowed_Reopen(from, to) == from = to \/ from # "ACTIVE" \/ to # "ACTIVE"

(* validateStatusTransition *)
Allowed(from, to) ==
  from = to \/ to \in CASE from = "ACTIVE" -> {"PAUSED"} \cup Closed
                        [] from = "PAUSED" -> {"ACTIVE"} \cup Closed
                        [] OTHER -> {}

(* updateStatus: the transition from the status that was read is validated. *)
UpdateStatus(r, s) ==
  /\ At(r, "idle") /\ status # "none" /\ Allowed(status, s)
  /\ request' = [request EXCEPT ![r] = [pc |-> "status", read |-> status, status |-> s]]
  /\ UNCHANGED status

(* Either is written over whatever the status is by now; a league that is   *)
(* gone refuses it.                                                         *)
Write(r) ==
  /\ request[r].pc \in {"edit", "status"} /\ End(r)
  /\ status' = request[r].status

(* remove; a league that is made later is another one, and what waits for   *)
(* this one fails.                                                          *)
Remove ==
  /\ status # "none" /\ status' = "none"
  /\ request' = [r \in Requests |-> Idle]

Fail(r) ==
  /\ ~At(r, "idle") /\ End(r)
  /\ UNCHANGED status

Next ==
  \/ Remove \/ \E s \in LeagueStatus : Create(s)
  \/ \E r \in Requests :
       \/ Write(r) \/ Fail(r)
       \/ \E s \in LeagueStatus : Update(r, s) \/ UpdateStatus(r, s)

Spec == Init /\ [][Next]_vars

-------------------------------------------------------------------------------
TypeOK ==
  /\ status \in LeagueStatus \cup {"none"}
  /\ \A r \in Requests : request[r].pc \in {"idle", "edit", "status"}

(* "Archived leagues cannot transition", nor can cancelled ones; but an     *)
(* update writes any status, and a change that was allowed while the league *)
(* was open is written when it no longer is.                                *)
ReopensDuly ==
  status \in Closed /\ status' \in LeagueStatus \ Closed =>
    \E r \in Requests : \/ At(r, "edit")
                        \/ At(r, "status") /\ request[r].read \notin Closed

ReopenedByEditOrRace == [][ReopensDuly]_vars
===============================================================================
