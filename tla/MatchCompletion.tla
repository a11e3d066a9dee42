---------------------------- MODULE MatchCompletion ----------------------------
(***************************************************************************)
(* Completing matches of one league: MatchService, with the rows of         *)
(* PlayerLeagueStats and PlayerLeagueRating it writes.  A completion reads  *)
(* the match and its participants, then counts them in one transaction:     *)
(* it locks the match row, and for each participant the row of the stats,   *)
(* which it increments, and reads the rating, which it writes back.  A      *)
(* row lock is held until the transaction ends (READ COMMITTED).  A player  *)
(* who joins the league or is approved gets a rating that has counted no    *)
(* match, whatever he has played before.                                    *)
(***************************************************************************)
EXTENDS Naturals, FiniteSets

CONSTANTS
  Matches, Players,
  Requests,      \* the completions the service may have in hand at once
  EditsStatus,   \* whether updateStatus may leave and enter COMPLETED
  MaxCounts      \* bound of this model on the completions of one match

ASSUME CompletionAssumption ==
  EditsStatus \in BOOLEAN /\ MaxCounts \in Nat /\ IsFiniteSet(Requests)

VARIABLES
  status,        \* status[m]: the column of the match
  participants,  \* participants[m]: whom it was played by, and who won
  stats,         \* stats[p], rating[p]: what the two rows of p count
  rating,
  counted,       \* history: how often each match was counted
  forgotten,     \* history: the players whose rating had counted when it was reset
  request        \* request[r]: where a completion stands, what it has read

vars == <<status, participants, stats, rating, counted, forgotten, request>>

-------------------------------------------------------------------------------
MatchStatus == {"SCHEDULED", "IN_PROGRESS", "COMPLETED", "CANCELLED", "FORFEIT"}

Tally == [played: Nat, wins: Nat, losses: Nat]
NoMatches == [played |-> 0, wins |-> 0, losses |-> 0]

(* A participant is a player and whether he won. *)
Participants == Players \X BOOLEAN

(* The transaction has come to the players in done, and read their ratings. *)
Request == [pc: {"read", "begin", "count"}, of: Matches, who: SUBSET Participants,
            done: SUBSET Players, seen: [Players -> Tally]]
Idle == [pc |-> "idle"]

Nobody == [p \in Players |-> NoMatches]

Names(who) == {w[1] : w \in who}

(* Every variable keeps its type, and a completion is done only with its    *)
(* participants, and only in its transaction.                               *)
TypeOK ==
  /\ status \in [Matches -> MatchStatus]
  /\ participants \in [Matches -> SUBSET Participants]
  /\ stats \in [Players -> Tally] /\ rating \in [Players -> Tally]
  /\ counted \in [Matches -> 0..MaxCounts] /\ forgotten \in SUBSET Players
  /\ request \in [Requests -> {Idle} \cup Request]
  /\ \A r \in Requests : request[r] # Idle =>
       /\ request[r].done \subseteq Names(request[r].who)
       /\ request[r].pc # "count" => request[r].done = {}

Init ==
  /\ status = [m \in Matches |-> "SCHEDULED"]
  /\ participants = [m \in Matches |-> {}]
  /\ stats = [p \in Players |-> NoMatches] /\ rating = [p \in Players |-> NoMatches]
  /\ counted = [m \in Matches |-> 0] /\ forgotten = {}
  /\ request = [r \in Requests |-> Idle]

-------------------------------------------------------------------------------
At(r, pc) == request[r].pc = pc
Of(r) == request[r].of

Become(r, state) == request' = [request EXCEPT ![r] = state]

Counted(t, won) ==
  [played |-> t.played + 1,
   wins   |-> IF won THEN t.wins + 1 ELSE t.wins,
   losses |-> IF won THEN t.losses ELSE t.losses + 1]

(* Mutant: incrementStats is called without the transaction, and its row is *)
(* free again at once.                                                      *)
Holds_NoTx(r, p) == FALSE

(* The stats row of p is locked by the transaction of r. *)
Holds(r, p) == At(r, "count") /\ p \in request[r].done

Locks(r, m) == At(r, "count") /\ Of(r) = m

(* completeMatch: a match that is completed is left alone. *)
Complete(r, m) ==
  /\ At(r, "idle") /\ status[m] # "COMPLETED" /\ counted[m] < MaxCounts
  /\ Become(r, [pc |-> "read", of |-> m, who |-> {}, done |-> {}, seen |-> Nobody])
  /\ UNCHANGED <<status, participants, stats, rating, counted, forgotten>>

ReadParticipants(r) ==
  /\ At(r, "read")
  /\ Become(r, [request[r] EXCEPT !.pc = "begin", !.who = participants[Of(r)]])
  /\ UNCHANGED <<status, participants, stats, rating, counted, forgotten>>

(* Mutant: the match is written before the transaction begins. *)
Begin_OutsideTx(r) ==
  /\ At(r, "begin") /\ \A q \in Requests : ~Locks(q, Of(r))
  /\ Become(r, [request[r] EXCEPT !.pc = "count"])
  /\ status' = [status EXCEPT ![Of(r)] = "COMPLETED"]
  /\ UNCHANGED <<participants, stats, rating, counted, forgotten>>

(* The transaction updates the match row, by its id alone. *)
Begin(r) ==
  /\ At(r, "begin") /\ \A q \in Requests : ~Locks(q, Of(r))
  /\ Become(r, [request[r] EXCEPT !.pc = "count"])
  /\ UNCHANGED <<status, participants, stats, rating, counted, forgotten>>

(* Of the next participant the stats are incremented, which waits for the   *)
(* row, and the rating is read after it.  They are written at the commit.   *)
Count(r, w) ==
  /\ At(r, "count") /\ w \in request[r].who
  /\ w[1] \notin request[r].done
  /\ \A q \in Requests : ~Holds(q, w[1])
  /\ Become(r, [request[r] EXCEPT !.done = @ \cup {w[1]}, !.seen[w[1]] = rating[w[1]]])
  /\ UNCHANGED <<status, participants, stats, rating, counted, forgotten>>

Done(r) == request[r].done = Names(request[r].who)

Won(r, p) == <<p, TRUE>> \in request[r].who

(* The rating is what was read and one match more. *)
NewRating(r, p) == Counted(request[r].seen[p], Won(r, p))

Commit(r) ==
  LET Seen == request[r].done IN
    /\ At(r, "count") /\ Done(r) /\ counted[Of(r)] < MaxCounts
    /\ status' = [status EXCEPT ![Of(r)] = "COMPLETED"]
    /\ stats' = [p \in Players |-> IF p \in Seen THEN Counted(stats[p], Won(r, p)) ELSE stats[p]]
    /\ rating' = [p \in Players |-> IF p \in Seen THEN NewRating(r, p) ELSE rating[p]]
    /\ counted' = [counted EXCEPT ![Of(r)] = @ + 1]
    /\ Become(r, Idle)
    /\ UNCHANGED <<participants, forgotten>>

(* A call fails, or the database ends a deadlock of two transactions that   *)
(* come to their participants in different orders: nothing is written.      *)
Fail(r) ==
  /\ ~At(r, "idle") /\ Become(r, Idle)
  /\ UNCHANGED <<status, participants, stats, rating, counted, forgotten>>

(* addParticipant, whatever the status of the match.                        *)
AddParticipant(m, w) ==
  /\ \A v \in participants[m] : v[1] # w[1]
  /\ participants' = [participants EXCEPT ![m] = @ \cup {w}]
  /\ UNCHANGED <<status, stats, rating, counted, forgotten, request>>

(* updateStatus: any status over any other. *)
UpdateStatus(m, to) ==
  /\ status[m] # to
  /\ EditsStatus \/ "COMPLETED" \notin {to, status[m]}
  /\ \A q \in Requests : ~Locks(q, m)
  /\ status' = [status EXCEPT ![m] = to]
  /\ UNCHANGED <<participants, stats, rating, counted, forgotten, request>>

(* initializeRatingForMember and approveMember write a rating that has      *)
(* counted nothing, without a look at the stats or their lock: also of a    *)
(* player who has come back, or who played before he was approved.          *)
Rate(p) ==
  /\ rating' = [rating EXCEPT ![p] = NoMatches]
  /\ forgotten' = IF rating[p] = NoMatches THEN forgotten ELSE forgotten \cup {p}
  /\ UNCHANGED <<status, participants, stats, counted, request>>

Progress(r) ==
  \/ ReadParticipants(r) \/ Begin(r) \/ Commit(r)
  \/ \E w \in Participants : Count(r, w)

Next ==
  \/ \E r \in Requests : (\E m \in Matches : Complete(r, m)) \/ Progress(r) \/ Fail(r)
  \/ \E m \in Matches : \/ \E w \in Participants : AddParticipant(m, w)
                        \/ \E to \in {"SCHEDULED", "CANCELLED", "COMPLETED"} : UpdateStatus(m, to)
  \/ \E p \in Players : Rate(p)

Spec == Init /\ [][Next]_vars

-------------------------------------------------------------------------------
AtMost(t, u) == t.played <= u.played /\ t.wins <= u.wins /\ t.losses <= u.losses

(* The two rows of a player never disagree, though the rating is read and   *)
(* written back: the lock on the stats row that was taken before serializes *)
(* the completions that count the same player.  Only a rating that was      *)
(* reset counts less, and never more, also when it is reset while a         *)
(* completion has it in hand.                                               *)
RowsAgree ==
  \A p \in Players :
    /\ p \notin forgotten => stats[p] = rating[p]
    /\ AtMost(rating[p], stats[p])

(* As long as no status is edited, a match is COMPLETED exactly when it has *)
(* been counted, and counted twice only by completions that raced.          *)
CompletedIsCounted ==
  ~EditsStatus => \A m \in Matches :
    /\ status[m] = "COMPLETED" <=> counted[m] > 0
    /\ counted[m] <= Cardinality(Requests)
===============================================================================
