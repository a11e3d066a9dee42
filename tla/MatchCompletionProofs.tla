------------------------- MODULE MatchCompletionProofs -------------------------
(***************************************************************************)
(* Why the two rows of a player never disagree, for any number of matches,  *)
(* players and completions.  The rating a transaction has read is still the *)
(* rating when it writes it back, unless it was reset in between (Fresh),   *)
(* because but for resets only a transaction that holds the player's stats  *)
(* row writes it, and one at a time does (Exclusive).  Whatever is reset,   *)
(* what was read is no more than what the stats count.                      *)
(*                                                                         *)
(* Last, the worlds of MCLeagueMembership: what LeagueMembershipProofs      *)
(* shows of any leagues, said of the leagues of the two worlds.             *)
(***************************************************************************)
EXTENDS MCLeagueMembership, FiniteSetTheorems, TLAPS

Exclusive ==
  \A q, r \in Requests : \A p \in Players : Holds(q, p) /\ Holds(r, p) => q = r

Fresh ==
  \A r \in Requests : \A p \in Players : Holds(r, p) =>
    /\ p \notin forgotten => request[r].seen[p] = rating[p]
    /\ AtMost(request[r].seen[p], stats[p])

Inv == TypeOK /\ Exclusive /\ Fresh /\ RowsAgree

-------------------------------------------------------------------------------
(* A tally with one match more is a tally. *)
LEMMA CountedType ==
  ASSUME NEW t \in Tally, NEW won \in BOOLEAN
  PROVE  Counted(t, won) \in Tally
BY DEF Counted, Tally

(* What counts no more still counts no more when both count one match more.  *)
LEMMA CountedAtMost ==
  ASSUME NEW t \in Tally, NEW u \in Tally, NEW won \in BOOLEAN, AtMost(t, u)
  PROVE  AtMost(Counted(t, won), Counted(u, won))
BY DEF AtMost, Counted, Tally

(* A request that is at work is a record of Request, and no such record is   *)
(* the idle one.                                                            *)
LEMMA AtWork ==
  ASSUME TypeOK, NEW r \in Requests, NEW pc \in {"read", "begin", "count"}
  PROVE  /\ ~At(r, "idle") => request[r] \in Request
         /\ At(r, pc) => request[r] \in Request
         /\ \A x \in Request : x # Idle /\ x.pc # "idle"
BY DEF TypeOK, At, Idle, Request

(* The record a completion becomes when it counts p. *)
LEMMA CountingType ==
  ASSUME TypeOK, NEW x \in Request, NEW p \in Players
  PROVE  [x EXCEPT !.done = @ \cup {p}, !.seen[p] = rating[p]] \in Request
<1>1. rating[p] \in Tally
  BY DEF TypeOK
<1>2. [x.seen EXCEPT ![p] = rating[p]] \in [Players -> Tally]
  BY <1>1 DEF Request
<1> QED
  BY <1>2 DEF Request

-------------------------------------------------------------------------------
(* A completion that becomes x, which is idle or a request: the types of all  *)
(* the others are as they were.                                             *)
LEMMA BecomeType ==
  ASSUME TypeOK, NEW r \in Requests, NEW x \in {Idle} \cup Request, Become(r, x),
         x # Idle => /\ x.done \subseteq Names(x.who)
                     /\ x.pc # "count" => x.done = {}
  PROVE  /\ request' \in [Requests -> {Idle} \cup Request]
         /\ request'[r] = x /\ \A q \in Requests \ {r} : request'[q] = request[q]
         /\ \A q \in Requests : request'[q] # Idle =>
              /\ request'[q].done \subseteq Names(request'[q].who)
              /\ request'[q].pc # "count" => request'[q].done = {}
<1>1. /\ request' \in [Requests -> {Idle} \cup Request]
      /\ request'[r] = x /\ \A q \in Requests \ {r} : request'[q] = request[q]
  BY DEF Become, TypeOK
<1> QED
  BY <1>1 DEF TypeOK

(* A completion that becomes x, which holds no player, while the rows stay. *)
LEMMA ReleaseInv ==
  ASSUME Inv, NEW r \in Requests, NEW x \in {Idle} \cup Request, Become(r, x),
         x # Idle => x.done = {},
         UNCHANGED <<participants, stats, rating, counted, forgotten>>,
         status' \in [Matches -> MatchStatus]
  PROVE  Inv'
<1>1. x # Idle => x.done \subseteq Names(x.who) /\ (x.pc # "count" => x.done = {})
  OBVIOUS
<1>2. /\ request' \in [Requests -> {Idle} \cup Request]
      /\ request'[r] = x /\ \A q \in Requests \ {r} : request'[q] = request[q]
      /\ \A q \in Requests : request'[q] # Idle =>
           /\ request'[q].done \subseteq Names(request'[q].who)
           /\ request'[q].pc # "count" => request'[q].done = {}
  BY <1>1, BecomeType DEF Inv
<1>3. TypeOK'
  BY <1>2 DEF Inv, TypeOK
<1>4. \A p \in Players : ~Holds(r, p)'
  BY <1>2 DEF Holds, At, Idle
<1>5. \A q \in Requests, p \in Players : Holds(q, p)' => q # r /\ Holds(q, p)
  BY <1>2, <1>4 DEF Holds, At
<1>6. Exclusive'
  BY <1>5 DEF Exclusive, Inv
<1>7. Fresh'
  BY <1>2, <1>5 DEF Fresh, Inv
<1>8. RowsAgree'
  BY DEF RowsAgree, Inv
<1> QED
  BY <1>3, <1>6, <1>7, <1>8 DEF Inv

(* Counting a participant: nobody else holds him, and his rating was read    *)
(* in this very step.                                                       *)
LEMMA CountInv ==
  ASSUME Inv, NEW r \in Requests, NEW w \in Participants, Count(r, w)
  PROVE  Inv'
<1> DEFINE p == w[1]
           x == [request[r] EXCEPT !.done = @ \cup {p}, !.seen[p] = rating[p]]
<1>1. p \in Players /\ p \in Names(request[r].who)
  BY DEF Participants, Names, Count
<1>2. request[r] \in Request /\ request[r] # Idle
  BY AtWork DEF Inv, Count
<1>3. x \in Request
  <2>1. TypeOK
    BY DEF Inv
  <2> QED
    BY <1>1, <1>2, <2>1, CountingType
<1>4. /\ x.pc = "count" /\ x.who = request[r].who
      /\ x.done = request[r].done \cup {p} /\ x.seen = [request[r].seen EXCEPT ![p] = rating[p]]
  BY <1>2 DEF Request, Count, At
<1>5. Become(r, x) /\ x # Idle
  BY <1>2, <1>3, AtWork DEF Inv, Count
<1>6. x.done \subseteq Names(x.who)
  BY <1>1, <1>2, <1>4 DEF Inv, TypeOK
<1> HIDE DEF x
<1>7. /\ request' \in [Requests -> {Idle} \cup Request]
      /\ request'[r] = x /\ \A q \in Requests \ {r} : request'[q] = request[q]
      /\ \A q \in Requests : request'[q] # Idle =>
           /\ request'[q].done \subseteq Names(request'[q].who)
           /\ request'[q].pc # "count" => request'[q].done = {}
  BY <1>3, <1>4, <1>5, <1>6, BecomeType DEF Inv
<1>8. TypeOK'
  BY <1>7 DEF Inv, TypeOK, Count
<1>9. /\ \A q \in Requests, v \in Players : Holds(q, v)' <=> Holds(q, v) \/ (q = r /\ v = p)
      /\ \A q \in Requests : ~Holds(q, p)
  BY <1>4, <1>7 DEF Holds, At, Count
<1>10. Exclusive'
  BY <1>9 DEF Exclusive, Inv
<1>11. Fresh'
  <2> SUFFICES ASSUME NEW q \in Requests, NEW v \in Players, Holds(q, v)'
               PROVE  /\ v \notin forgotten => request'[q].seen[v] = rating[v]
                      /\ AtMost(request'[q].seen[v], stats[v])
    BY DEF Fresh, Count
  <2>1. request[r].seen \in [Players -> Tally]
    BY <1>2 DEF Request
  <2>2. CASE q = r /\ v = p
    <3>1. request'[r].seen[p] = rating[p]
      BY <1>1, <1>4, <1>7, <2>1
    <3> QED
      BY <1>1, <2>2, <3>1 DEF RowsAgree, Inv
  <2>3. CASE q = r /\ v # p
    <3>1. request'[r].seen[v] = request[r].seen[v]
      BY <1>4, <1>7, <2>1, <2>3
    <3> QED
      BY <1>9, <2>3, <3>1 DEF Fresh, Inv
  <2>4. CASE q # r
    BY <1>7, <1>9, <2>4 DEF Fresh, Inv
  <2> QED
    BY <2>2, <2>3, <2>4
<1>12. RowsAgree'
  BY DEF RowsAgree, Inv, Count
<1> QED
  BY <1>8, <1>10, <1>11, <1>12 DEF Inv

(* The commit: the rating that was read is the one in the row, which is the  *)
(* stats row's tally, so both become the same tally with one match more;    *)
(* and nobody else holds a player whose rating it writes.                   *)
LEMMA CommitInv ==
  ASSUME Inv, NEW r \in Requests, Commit(r)
  PROVE  Inv'
<1>1. request[r] \in Request
  BY AtWork DEF Inv, Commit
<1>2. /\ request[r].seen \in [Players -> Tally] /\ request[r].done \in SUBSET Players
      /\ Of(r) \in Matches /\ \A p \in Players : Won(r, p) \in BOOLEAN
  BY <1>1 DEF Request, Of, Won
<1>3. \A p \in request[r].done : /\ Holds(r, p) /\ AtMost(request[r].seen[p], stats[p])
                                 /\ p \notin forgotten => request[r].seen[p] = rating[p]
  BY <1>2 DEF Holds, Commit, Fresh, Inv
<1>4. /\ request' \in [Requests -> {Idle} \cup Request]
      /\ request'[r] = Idle /\ \A q \in Requests \ {r} : request'[q] = request[q]
      /\ \A q \in Requests : request'[q] # Idle =>
           /\ request'[q].done \subseteq Names(request'[q].who)
           /\ request'[q].pc # "count" => request'[q].done = {}
  BY BecomeType DEF Inv, Commit
<1>5. stats' \in [Players -> Tally] /\ rating' \in [Players -> Tally]
  <2>1. \A p \in Players : Counted(stats[p], Won(r, p)) \in Tally
    BY <1>2, CountedType DEF Inv, TypeOK
  <2>2. \A p \in Players : NewRating(r, p) \in Tally
    BY <1>2, CountedType DEF NewRating
  <2>3. stats' \in [Players -> Tally]
    BY <2>1 DEF Commit, Inv, TypeOK
  <2>4. rating' \in [Players -> Tally]
    BY <2>2 DEF Commit, Inv, TypeOK
  <2> QED
    BY <2>3, <2>4
<1>6. counted' \in [Matches -> 0..MaxCounts]
  <2>1. counted[Of(r)] + 1 \in 0..MaxCounts
    BY <1>2, CompletionAssumption DEF Commit, Inv, TypeOK
  <2> QED
    BY <2>1 DEF Commit, Inv, TypeOK
<1>7. status' \in [Matches -> MatchStatus] /\ participants' \in [Matches -> SUBSET Participants]
  BY DEF Commit, Inv, TypeOK, MatchStatus
<1>8. TypeOK' /\ forgotten' = forgotten
  BY <1>4, <1>5, <1>6, <1>7 DEF TypeOK, Commit, Inv
<1>9. \A q \in Requests, p \in Players : Holds(q, p)' => q # r /\ Holds(q, p)
  BY <1>4 DEF Holds, At, Idle
<1>10. Exclusive'
  BY <1>9 DEF Exclusive, Inv
<1>11. Fresh'
  <2> SUFFICES ASSUME NEW q \in Requests, NEW p \in Players, Holds(q, p)'
               PROVE  /\ p \notin forgotten => request'[q].seen[p] = rating'[p]
                      /\ AtMost(request'[q].seen[p], stats'[p])
    BY <1>8 DEF Fresh
  <2>1. q # r /\ Holds(q, p)
    BY <1>9
  <2>2. p \notin request[r].done
    BY <1>3, <2>1 DEF Exclusive, Inv
  <2>3. rating'[p] = rating[p] /\ stats'[p] = stats[p]
    BY <2>2 DEF Commit
  <2> QED
    BY <1>4, <2>1, <2>3 DEF Fresh, Inv
<1>12. RowsAgree'
  <2> SUFFICES ASSUME NEW p \in Players
               PROVE  /\ p \notin forgotten => stats'[p] = rating'[p]
                      /\ AtMost(rating'[p], stats'[p])
    BY <1>8 DEF RowsAgree
  <2>1. CASE p \in request[r].done
    <3>1. stats'[p] = Counted(stats[p], Won(r, p)) /\ rating'[p] = NewRating(r, p)
      BY <2>1 DEF Commit
    <3>2. p \notin forgotten => request[r].seen[p] = stats[p]
      BY <1>3, <2>1 DEF RowsAgree, Inv
    <3>3. AtMost(Counted(request[r].seen[p], Won(r, p)), Counted(stats[p], Won(r, p)))
      <4>1. request[r].seen[p] \in Tally /\ stats[p] \in Tally
        BY <1>2 DEF Inv, TypeOK
      <4> QED
        BY <1>2, <1>3, <2>1, <4>1, CountedAtMost
    <3> QED
      BY <3>1, <3>2, <3>3 DEF NewRating
  <2>2. CASE p \notin request[r].done
    BY <2>2 DEF Commit, RowsAgree, Inv
  <2> QED
    BY <2>1, <2>2
<1> QED
  BY <1>8, <1>10, <1>11, <1>12 DEF Inv

(* A rating that is reset: who is not forgotten had counted nothing, so it   *)
(* is the rating it was; and nothing is no more than anything.              *)
LEMMA RateInv ==
  ASSUME Inv, NEW p \in Players, Rate(p)
  PROVE  Inv'
<1>1. NoMatches \in Tally /\ \A t \in Tally : AtMost(NoMatches, t)
  BY DEF NoMatches, Tally, AtMost
<1>2. TypeOK'
  BY <1>1 DEF Rate, Inv, TypeOK
<1>3. \A q \in Requests, v \in Players : Holds(q, v)' <=> Holds(q, v)
  BY DEF Holds, At, Rate
<1>4. Exclusive'
  BY <1>3 DEF Exclusive, Inv
<1>5. \A v \in Players : v \notin forgotten' => v \notin forgotten /\ rating'[v] = rating[v]
  BY DEF Rate, Inv, TypeOK
<1>6. \A v \in Players : rating'[v] = rating[v] \/ rating'[v] = NoMatches
  BY DEF Rate, Inv, TypeOK
<1>7. Fresh'
  BY <1>3, <1>5 DEF Fresh, Inv, Rate
<1>8. RowsAgree'
  <2>1. \A v \in Players : AtMost(rating'[v], stats[v])
    BY <1>1, <1>6 DEF RowsAgree, Inv, TypeOK
  <2> QED
    BY <1>5, <2>1 DEF RowsAgree, Inv, Rate
<1> QED
  BY <1>2, <1>4, <1>7, <1>8 DEF Inv

(* What touches neither the rows nor a completion. *)
LEMMA EditInv ==
  ASSUME Inv, UNCHANGED <<stats, rating, counted, forgotten, request>>,
         status' \in [Matches -> MatchStatus],
         participants' \in [Matches -> SUBSET Participants]
  PROVE  Inv'
<1>1. TypeOK'
  BY DEF Inv, TypeOK
<1>2. \A q \in Requests, p \in Players : Holds(q, p)' <=> Holds(q, p)
  BY DEF Holds, At
<1>3. Exclusive' /\ Fresh' /\ RowsAgree'
  BY <1>2 DEF Inv, Exclusive, Fresh, RowsAgree
<1> QED
  BY <1>1, <1>3 DEF Inv

(* No step of the next-state relation, nor a stutter, breaks the invariant.  *)
LEMMA StepInv ==
  ASSUME Inv, [Next]_vars
  PROVE  Inv'
<1>1. ASSUME NEW r \in Requests, NEW m \in Matches, Complete(r, m)
      PROVE  Inv'
  <2> DEFINE x == [pc |-> "read", of |-> m, who |-> {}, done |-> {}, seen |-> Nobody]
  <2>1. x \in Request
    <3>1. Nobody \in [Players -> Tally]
      BY DEF Nobody, NoMatches, Tally
    <3> QED
      BY <3>1 DEF Request
  <2>2. Become(r, x) /\ x.done = {}
    BY <1>1 DEF Complete
  <2>3. /\ UNCHANGED <<participants, stats, rating, counted, forgotten>>
        /\ status' \in [Matches -> MatchStatus]
    BY <1>1 DEF Complete, Inv, TypeOK
  <2> HIDE DEF x
  <2> QED
    BY <2>1, <2>2, <2>3, ReleaseInv
<1>2. ASSUME NEW r \in Requests, ReadParticipants(r)
      PROVE  Inv'
  <2> DEFINE x == [request[r] EXCEPT !.pc = "begin", !.who = participants[Of(r)]]
  <2>1. request[r] \in Request
    BY <1>2, AtWork DEF Inv, ReadParticipants
  <2>2. participants[Of(r)] \in SUBSET Participants
    BY <2>1 DEF Inv, TypeOK, Request, Of
  <2>3. x \in Request /\ x.done = request[r].done
    BY <2>1, <2>2 DEF Request
  <2>4. request[r].done = {}
    BY <1>2, <2>1, AtWork DEF Inv, TypeOK, ReadParticipants, At
  <2>5. Become(r, x)
    BY <1>2 DEF ReadParticipants
  <2>6. /\ UNCHANGED <<participants, stats, rating, counted, forgotten>>
        /\ status' \in [Matches -> MatchStatus]
    BY <1>2 DEF ReadParticipants, Inv, TypeOK
  <2> HIDE DEF x
  <2> QED
    BY <2>3, <2>4, <2>5, <2>6, ReleaseInv
<1>3. ASSUME NEW r \in Requests, Begin(r)
      PROVE  Inv'
  <2> DEFINE x == [request[r] EXCEPT !.pc = "count"]
  <2>1. request[r] \in Request
    BY <1>3, AtWork DEF Inv, Begin
  <2>2. x \in Request /\ x.done = request[r].done
    BY <2>1 DEF Request
  <2>3. request[r].done = {}
    BY <1>3, <2>1, AtWork DEF Inv, TypeOK, Begin, At
  <2>4. Become(r, x)
    BY <1>3 DEF Begin
  <2>5. /\ UNCHANGED <<participants, stats, rating, counted, forgotten>>
        /\ status' \in [Matches -> MatchStatus]
    BY <1>3 DEF Begin, Inv, TypeOK
  <2> HIDE DEF x
  <2> QED
    BY <2>2, <2>3, <2>4, <2>5, ReleaseInv
<1>4. ASSUME NEW r \in Requests, Fail(r)
      PROVE  Inv'
  <2>1. /\ Become(r, Idle) /\ UNCHANGED <<participants, stats, rating, counted, forgotten>>
        /\ status' \in [Matches -> MatchStatus]
    BY <1>4 DEF Fail, Inv, TypeOK
  <2> QED
    BY <2>1, ReleaseInv
<1>5. ASSUME NEW m \in Matches, NEW w \in Participants, AddParticipant(m, w)
      PROVE  Inv'
  <2>1. participants' \in [Matches -> SUBSET Participants] /\ status' \in [Matches -> MatchStatus]
    BY <1>5 DEF AddParticipant, Inv, TypeOK
  <2> QED
    BY <1>5, <2>1, EditInv DEF AddParticipant
<1>6. ASSUME NEW m \in Matches, NEW to \in {"SCHEDULED", "CANCELLED", "COMPLETED"},
             UpdateStatus(m, to)
      PROVE  Inv'
  <2>1. participants' \in [Matches -> SUBSET Participants] /\ status' \in [Matches -> MatchStatus]
    BY <1>6 DEF UpdateStatus, Inv, TypeOK, MatchStatus
  <2> QED
    BY <1>6, <2>1, EditInv DEF UpdateStatus
<1>7. ASSUME NEW p \in Players, Rate(p)
      PROVE  Inv'
  BY <1>7, RateInv
<1>8. CASE UNCHANGED vars
  BY <1>8, EditInv DEF vars, Inv, TypeOK
<1> QED
  BY <1>1, <1>2, <1>3, <1>4, <1>5, <1>6, <1>7, <1>8, CountInv, CommitInv DEF Next, Progress

(* Nothing is counted and nobody at work at the start. *)
LEMMA InitInv ==
  ASSUME Init
  PROVE  Inv
<1>1. NoMatches \in Tally
  BY DEF NoMatches, Tally
<1>2. TypeOK
  BY <1>1, CompletionAssumption DEF Init, TypeOK, MatchStatus
<1>3. \A r \in Requests, p \in Players : ~Holds(r, p)
  BY DEF Init, Holds, At, Idle
<1>4. AtMost(NoMatches, NoMatches)
  BY DEF AtMost, NoMatches
<1>5. Exclusive /\ Fresh /\ RowsAgree
  BY <1>3, <1>4 DEF Exclusive, Fresh, RowsAgree, Init
<1> QED
  BY <1>2, <1>5 DEF Inv

(* The invariant of every behaviour. *)
LEMMA Invariance == Spec => []Inv
<1>1. Init => Inv
  BY InitInv
<1>2. Inv /\ [Next]_vars => Inv'
  BY StepInv
<1> QED
  BY <1>1, <1>2, PTL DEF Spec

(* Every behaviour of the specification keeps to its types. *)
THEOREM TypeCorrect == Spec => []TypeOK
<1>1. Inv => TypeOK
  BY DEF Inv
<1> QED
  BY <1>1, Invariance, PTL

(* A player's stats and his rating count the same matches, wins and losses   *)
(* after every commit, however many completions race, fail or repeat: what  *)
(* MatchService.completeMatch calls keeping the data consistent.  A rating  *)
(* that a join or an approval reset counts less, never more.                *)
THEOREM RowsNeverDisagree == Spec => []RowsAgree
<1>1. Inv => RowsAgree
  BY DEF Inv
<1> QED
  BY <1>1, Invariance, PTL

-------------------------------------------------------------------------------
(* The completions a match has in hand: each of them may still count it.     *)
InHand(m) == {r \in Requests : ~At(r, "idle") /\ Of(r) = m}

(* A completion begins only for a match that has not been counted, so that   *)
(* what counts it is at work by then: with those still at work it is counted *)
(* no more often than there may be completions.                              *)
Standing(m) ==
  /\ status[m] = "COMPLETED" <=> counted[m] > 0
  /\ counted[m] + Cardinality(InHand(m)) <= Cardinality(Requests)

Settled == \A m \in Matches : Standing(m)

(* A set of requests is finite and has no more elements than Requests.       *)
LEMMA FewRequests ==
  ASSUME NEW S \in SUBSET Requests, NEW T \in SUBSET S
  PROVE  /\ IsFiniteSet(S) /\ Cardinality(S) \in Nat /\ Cardinality(T) \in Nat
         /\ Cardinality(Requests) \in Nat /\ Cardinality(S) <= Cardinality(Requests)
         /\ Cardinality(T) <= Cardinality(S)
<1>1. IsFiniteSet(Requests)
  BY CompletionAssumption
<1>2. IsFiniteSet(S) /\ Cardinality(S) <= Cardinality(Requests)
  BY <1>1, FS_Subset
<1>3. IsFiniteSet(T) /\ Cardinality(T) <= Cardinality(S)
  BY <1>2, FS_Subset
<1> QED
  BY <1>1, <1>2, <1>3, FS_CardinalityType

(* A match that has neither been completed, edited nor counted, and no new   *)
(* completion in hand.                                                       *)
LEMMA StandingKept ==
  ASSUME Inv, NEW m \in Matches, Standing(m), InHand(m)' \subseteq InHand(m),
         counted'[m] = counted[m],
         status'[m] = "COMPLETED" <=> status[m] = "COMPLETED"
  PROVE  Standing(m)'
<1>1. /\ Cardinality(InHand(m)') <= Cardinality(InHand(m))
      /\ Cardinality(InHand(m)') \in Nat /\ Cardinality(InHand(m)) \in Nat
      /\ Cardinality(Requests) \in Nat
  BY FewRequests DEF InHand
<1>2. counted[m] \in Nat
  BY DEF Inv, TypeOK
<1> QED
  BY <1>1, <1>2 DEF Standing

(* A step that begins no completion and counts no match.                     *)
LEMMA SettledKept ==
  ASSUME Inv, Settled, counted' = counted,
         \A m \in Matches : status'[m] = "COMPLETED" <=> status[m] = "COMPLETED",
         \A r \in Requests : request'[r].pc # "idle" =>
                               request[r].pc # "idle" /\ request'[r].of = request[r].of
  PROVE  Settled'
<1>1. \A m \in Matches : InHand(m)' \subseteq InHand(m)
  BY DEF InHand, At, Of
<1> QED
  BY <1>1, StandingKept DEF Settled

(* A completion is taken in hand only for a match that was never counted.    *)
LEMMA CompleteSettled ==
  ASSUME Inv, Settled, NEW r \in Requests, NEW m \in Matches, Complete(r, m)
  PROVE  Settled'
<1>1. /\ request'[r].of = m /\ \A q \in Requests \ {r} : request'[q] = request[q]
      /\ UNCHANGED <<status, counted>>
  BY DEF Complete, Become, Inv, TypeOK
<1>2. \A n \in Matches \ {m} : InHand(n)' \subseteq InHand(n)
  BY <1>1 DEF InHand, At, Of
<1>3. \A n \in Matches \ {m} : Standing(n)'
  BY <1>1, <1>2, StandingKept DEF Settled
<1>4. Standing(m)'
  <2>1. counted[m] = 0
    BY DEF Complete, Settled, Standing, Inv, TypeOK
  <2>2. Cardinality(InHand(m)') \in Nat /\ Cardinality(InHand(m)') <= Cardinality(Requests)
    BY FewRequests DEF InHand
  <2> QED
    BY <1>1, <2>1, <2>2 DEF Standing, Complete
<1> QED
  BY <1>3, <1>4 DEF Settled

(* A match that is counted is COMPLETED from then on, and the completion     *)
(* that counted it is no longer in hand.                                     *)
LEMMA CommitSettled ==
  ASSUME Inv, Settled, NEW r \in Requests, Commit(r)
  PROVE  Settled'
<1>0. request[r] \in Request /\ Of(r) \in Matches
  BY AtWork DEF Inv, Commit, Request, Of
<1>1. PICK m \in Matches : m = Of(r)
  BY <1>0
<1>2. /\ request'[r] = Idle /\ \A q \in Requests \ {r} : request'[q] = request[q]
      /\ status'[m] = "COMPLETED" /\ counted'[m] = counted[m] + 1
      /\ \A n \in Matches \ {m} : status'[n] = status[n] /\ counted'[n] = counted[n]
  BY <1>1 DEF Commit, Become, Inv, TypeOK
<1>3. \A n \in Matches \ {m} : InHand(n)' \subseteq InHand(n)
  BY <1>2 DEF InHand, At, Of, Idle
<1>4. \A n \in Matches \ {m} : Standing(n)'
  BY <1>2, <1>3, StandingKept DEF Settled
<1>5. Standing(m)'
  <2>1. r \in InHand(m) /\ InHand(m)' \subseteq InHand(m) \ {r}
    BY <1>1, <1>2 DEF InHand, At, Of, Idle, Commit
  <2>2. IsFiniteSet(InHand(m)) /\ Cardinality(InHand(m)) \in Nat /\ Cardinality(Requests) \in Nat
    BY FewRequests DEF InHand
  <2>3. Cardinality(InHand(m) \ {r}) = Cardinality(InHand(m)) - 1
    BY <2>1, <2>2, FS_RemoveElement
  <2>4. /\ Cardinality(InHand(m)') \in Nat
        /\ Cardinality(InHand(m)') <= Cardinality(InHand(m) \ {r})
    BY <2>1, FewRequests DEF InHand
  <2>5. counted[m] \in Nat /\ counted[m] + Cardinality(InHand(m)) <= Cardinality(Requests)
    BY <1>1 DEF Inv, TypeOK, Settled, Standing
  <2> QED
    BY <1>2, <2>2, <2>3, <2>4, <2>5 DEF Standing
<1> QED
  BY <1>4, <1>5 DEF Settled

(* As long as no status is edited, no step unsettles a match.                *)
LEMMA StepSettled ==
  ASSUME ~EditsStatus, Inv, Settled, [Next]_vars
  PROVE  Settled'
<1>1. ASSUME NEW r \in Requests,
             \/ ReadParticipants(r) \/ Begin(r) \/ Fail(r)
             \/ \E w \in Participants : Count(r, w)
      PROVE  Settled'
  <2>1. PICK x : Become(r, x) /\ (x.pc # "idle" => x.of = request[r].of)
    <3>1. ~At(r, "idle") /\ request[r] \in Request
      BY <1>1, AtWork DEF Inv, ReadParticipants, Begin, Count, Fail, At
    <3>2. CASE ReadParticipants(r)
      <4>1. \A u : [request[r] EXCEPT !.pc = "begin", !.who = u].of = request[r].of
        BY <3>1 DEF Request
      <4>2. Become(r, [request[r] EXCEPT !.pc = "begin", !.who = participants[Of(r)]])
        BY <3>2 DEF ReadParticipants
      <4> QED
        BY <4>1, <4>2
    <3>3. CASE Begin(r)
      BY <3>1, <3>3 DEF Begin, Request
    <3>4. CASE Fail(r)
      BY <3>4 DEF Fail, Idle
    <3>5. ASSUME NEW w \in Participants, Count(r, w)
          PROVE  Become(r, [request[r] EXCEPT !.done = @ \cup {w[1]}, !.seen[w[1]] = rating[w[1]]])
      BY <3>5 DEF Count
    <3>6. \A p : [request[r] EXCEPT !.done = @ \cup {p}, !.seen[p] = rating[p]].of = request[r].of
      BY <3>1 DEF Request
    <3> QED
      BY <1>1, <3>2, <3>3, <3>4, <3>5, <3>6
  <2>2. ~At(r, "idle")
    BY <1>1 DEF ReadParticipants, Begin, Count, Fail, At
  <2>3. UNCHANGED <<status, counted>>
    BY <1>1 DEF ReadParticipants, Begin, Count, Fail
  <2>4. \A q \in Requests : request'[q].pc # "idle" =>
                              request[q].pc # "idle" /\ request'[q].of = request[q].of
    BY <2>1, <2>2 DEF Become, At, Inv, TypeOK
  <2> QED
    BY <2>3, <2>4, SettledKept
<1>2. ASSUME NEW m \in Matches, NEW to \in {"SCHEDULED", "CANCELLED", "COMPLETED"},
             UpdateStatus(m, to)
      PROVE  Settled'
  <2>1. \A n \in Matches : status'[n] = "COMPLETED" <=> status[n] = "COMPLETED"
    BY <1>2 DEF UpdateStatus, Inv, TypeOK
  <2> QED
    BY <1>2, <2>1, SettledKept DEF UpdateStatus
<1>3. ASSUME \/ UNCHANGED vars \/ \E p \in Players : Rate(p)
             \/ \E m \in Matches, w \in Participants : AddParticipant(m, w)
      PROVE  Settled'
  BY <1>3, SettledKept DEF vars, Rate, AddParticipant
<1> QED
  BY <1>1, <1>2, <1>3, CompleteSettled, CommitSettled DEF Next, Progress

(* Nothing is counted at the start, and nothing in hand.                     *)
LEMMA InitSettled == ASSUME Init PROVE Settled
<1>1. \A m \in Matches : InHand(m) = {}
  BY DEF Init, InHand, At, Idle
<1>2. Cardinality({}) = 0 /\ Cardinality(Requests) \in Nat
  BY FewRequests, FS_EmptySet
<1> QED
  BY <1>1, <1>2 DEF Settled, Standing, Init

(* As long as no status is edited, a match is COMPLETED exactly when it has  *)
(* been counted, and counted once for each completion that was in hand       *)
(* before the first commit at most: completeMatch looks at the status before *)
(* its transaction, which updates the match by its id alone.                 *)
THEOREM CompletedMeansCounted == Spec => []CompletedIsCounted
<1>1. Init => (~EditsStatus => Settled)
  BY InitSettled
<1>2. Inv /\ (~EditsStatus => Settled) /\ [Next]_vars => (~EditsStatus => Settled)'
  BY StepSettled
<1>3. Inv /\ (~EditsStatus => Settled) => CompletedIsCounted
  <2> SUFFICES ASSUME Inv, Settled, NEW m \in Matches
               PROVE  counted[m] <= Cardinality(Requests)
    BY DEF CompletedIsCounted, Settled, Standing
  <2>1. Cardinality(InHand(m)) \in Nat /\ Cardinality(Requests) \in Nat
    BY FewRequests DEF InHand
  <2>2. counted[m] \in Nat
    BY DEF Inv, TypeOK
  <2> QED
    BY <2>1, <2>2 DEF Settled, Standing
<1> QED
  BY <1>1, <1>2, <1>3, Invariance, PTL DEF Spec

-------------------------------------------------------------------------------
(* The members of leagues, in the worlds of MCLeagueMembership.             *)
SingleProofs == INSTANCE LeagueMembershipProofs WITH
  Leagues <- {open, closed}, Requests <- {r1},
  MaxPlayers <- OneEach({open, closed}), NeedsApproval <- {closed},
  Exclusive <- {open, closed}, Cooldown <- {open}

RaceProofs == INSTANCE LeagueMembershipProofs WITH
  Players <- Players \cup {p3}, Leagues <- {open}, MaxPlayers <- OneEach({open}),
  NeedsApproval <- {}, Exclusive <- {}, Cooldown <- {}

(* In the world a behaviour is about, the invariant of its leagues holds.    *)
WorldsInv ==
  /\ world = "single" => SingleProofs!IInv
  /\ world = "race" => RaceProofs!IInv

(* The leagues of the first world, and those that LeagueMembershipProofs is about.   *)
LEMMA SingleSame ==
  /\ Single!MembershipAssumption = SingleProofs!MembershipAssumption
  /\ Single!Init = SingleProofs!Init
  /\ Single!vars = SingleProofs!vars
  /\ Single!Next = SingleProofs!Next
  /\ Single!JoinsExceedByRaceOnly = SingleProofs!JoinsExceedByRaceOnly
  /\ Single!KeepsTerminal = SingleProofs!KeepsTerminal
  /\ Single!AsksApproval = SingleProofs!AsksApproval
<1>1. Single!MembershipAssumption = SingleProofs!MembershipAssumption
  BY DEF Single!MembershipAssumption, Single!IsFiniteSet, SingleProofs!MembershipAssumption,
         SingleProofs!IsFiniteSet
<1>2. Single!Init = SingleProofs!Init
  BY DEF Single!Init, Single!Memberships, Single!Idle, SingleProofs!Init, SingleProofs!Memberships,
         SingleProofs!Idle
<1>3. Single!vars = SingleProofs!vars
  BY DEF Single!vars, SingleProofs!vars
<1>4. Single!Next = SingleProofs!Next
  BY DEF Single!Gone, Single!PlayersDeleted, Single!LeagueDeleted, SingleProofs!Gone,
         SingleProofs!PlayersDeleted, SingleProofs!LeagueDeleted,
         Single!Next, Single!Arrive, Single!Join, Single!Leave, Single!Answer, Single!Update,
         Single!Proceed, Single!ReadPlayer, Single!CheckCapacity, Single!HasRoom, Single!Active,
         Single!CheckLeagues, Single!Admits, Single!ActiveIn, Single!Reactivate, Single!Create,
         Single!MayReactivate, Single!Insert, Single!DetermineInitialStatus, Single!InitializeRating,
         Single!Left, Single!UpdateCooldown, Single!Approved, Single!Rejected, Single!Updated, Single!Refuse,
         Single!CooldownEnds, Single!Reads, Single!WriteStatus, Single!Accept, Single!Goto, Single!End,
         Single!At, Single!Of, Single!Idle, Single!Memberships, Single!LeagueMemberStatus, Single!Terminal,
         Single!Cardinality, SingleProofs!Next, SingleProofs!Arrive, SingleProofs!Join, SingleProofs!Leave,
         SingleProofs!Answer, SingleProofs!Update, SingleProofs!Proceed, SingleProofs!ReadPlayer,
         SingleProofs!CheckCapacity, SingleProofs!HasRoom, SingleProofs!Active, SingleProofs!CheckLeagues,
         SingleProofs!Admits, SingleProofs!ActiveIn, SingleProofs!Reactivate, SingleProofs!Create,
         SingleProofs!MayReactivate, SingleProofs!Insert, SingleProofs!DetermineInitialStatus,
         SingleProofs!InitializeRating, SingleProofs!Left, SingleProofs!UpdateCooldown,
         SingleProofs!Approved, SingleProofs!Rejected, SingleProofs!Updated, SingleProofs!Refuse,
         SingleProofs!CooldownEnds, SingleProofs!Reads, SingleProofs!WriteStatus, SingleProofs!Accept,
         SingleProofs!Goto, SingleProofs!End, SingleProofs!At, SingleProofs!Of, SingleProofs!Idle,
         SingleProofs!Memberships, SingleProofs!LeagueMemberStatus, SingleProofs!Terminal,
         SingleProofs!Cardinality
<1>5. Single!JoinsExceedByRaceOnly = SingleProofs!JoinsExceedByRaceOnly
  BY DEF Single!JoinsExceedByRaceOnly, Single!OverfullByRaceOnly, Single!LeaguesByRaceOnly,
         Single!Validated, Single!Active, Single!Cardinality, SingleProofs!JoinsExceedByRaceOnly,
         SingleProofs!OverfullByRaceOnly, SingleProofs!LeaguesByRaceOnly, SingleProofs!Validated,
         SingleProofs!Active, SingleProofs!Cardinality
<1>6. Single!KeepsTerminal = SingleProofs!KeepsTerminal
  BY DEF Single!KeepsTerminal, Single!Memberships, Single!Terminal, Single!At, Single!Of, Single!End,
         Single!Idle, Single!Cardinality, SingleProofs!KeepsTerminal, SingleProofs!Memberships,
         SingleProofs!Terminal, SingleProofs!At, SingleProofs!Of, SingleProofs!End, SingleProofs!Idle,
         SingleProofs!Cardinality
<1>7. Single!AsksApproval = SingleProofs!AsksApproval
  BY DEF Single!AsksApproval, Single!Memberships, Single!Status, Single!LeagueMemberStatus, Single!At,
         Single!Of, Single!End, Single!Idle, SingleProofs!AsksApproval, SingleProofs!Memberships,
         SingleProofs!Status, SingleProofs!LeagueMemberStatus, SingleProofs!At, SingleProofs!Of,
         SingleProofs!End, SingleProofs!Idle
<1> QED BY <1>1, <1>2, <1>3, <1>4, <1>5, <1>6, <1>7

(* The leagues of the second, and those that LeagueMembershipProofs is about.   *)
LEMMA RaceSame ==
  /\ Race!MembershipAssumption = RaceProofs!MembershipAssumption
  /\ Race!Init = RaceProofs!Init
  /\ Race!vars = RaceProofs!vars
  /\ Race!Next = RaceProofs!Next
  /\ Race!JoinsExceedByRaceOnly = RaceProofs!JoinsExceedByRaceOnly
  /\ Race!KeepsTerminal = RaceProofs!KeepsTerminal
<1>1. Race!MembershipAssumption = RaceProofs!MembershipAssumption
  BY DEF Race!MembershipAssumption, Race!IsFiniteSet, RaceProofs!MembershipAssumption,
         RaceProofs!IsFiniteSet
<1>2. Race!Init = RaceProofs!Init
  BY DEF Race!Init, Race!Memberships, Race!Idle, RaceProofs!Init, RaceProofs!Memberships,
         RaceProofs!Idle
<1>3. Race!vars = RaceProofs!vars
  BY DEF Race!vars, RaceProofs!vars
<1>4. Race!Next = RaceProofs!Next
  BY DEF Race!Gone, Race!PlayersDeleted, Race!LeagueDeleted, RaceProofs!Gone,
         RaceProofs!PlayersDeleted, RaceProofs!LeagueDeleted,
         Race!Next, Race!Arrive, Race!Join, Race!Leave, Race!Answer, Race!Update, Race!Proceed,
         Race!ReadPlayer, Race!CheckCapacity, Race!HasRoom, Race!Active, Race!CheckLeagues, Race!Admits,
         Race!ActiveIn, Race!Reactivate, Race!Create, Race!MayReactivate, Race!Insert,
         Race!DetermineInitialStatus, Race!InitializeRating, Race!Left, Race!UpdateCooldown, Race!Approved,
         Race!Rejected, Race!Updated, Race!Refuse, Race!CooldownEnds, Race!Reads, Race!WriteStatus,
         Race!Accept, Race!Goto, Race!End, Race!At, Race!Of, Race!Idle, Race!Memberships,
         Race!LeagueMemberStatus, Race!Terminal, Race!Cardinality, RaceProofs!Next, RaceProofs!Arrive,
         RaceProofs!Join, RaceProofs!Leave, RaceProofs!Answer, RaceProofs!Update, RaceProofs!Proceed,
         RaceProofs!ReadPlayer, RaceProofs!CheckCapacity, RaceProofs!HasRoom, RaceProofs!Active,
         RaceProofs!CheckLeagues, RaceProofs!Admits, RaceProofs!ActiveIn, RaceProofs!Reactivate,
         RaceProofs!Create, RaceProofs!MayReactivate, RaceProofs!Insert, RaceProofs!DetermineInitialStatus,
         RaceProofs!InitializeRating, RaceProofs!Left, RaceProofs!UpdateCooldown, RaceProofs!Approved,
         RaceProofs!Rejected, RaceProofs!Updated, RaceProofs!Refuse, RaceProofs!CooldownEnds,
         RaceProofs!Reads, RaceProofs!WriteStatus, RaceProofs!Accept, RaceProofs!Goto, RaceProofs!End,
         RaceProofs!At, RaceProofs!Of, RaceProofs!Idle, RaceProofs!Memberships,
         RaceProofs!LeagueMemberStatus, RaceProofs!Terminal, RaceProofs!Cardinality
<1>5. Race!JoinsExceedByRaceOnly = RaceProofs!JoinsExceedByRaceOnly
  BY DEF Race!JoinsExceedByRaceOnly, Race!OverfullByRaceOnly, Race!LeaguesByRaceOnly, Race!Validated,
         Race!Active, Race!Cardinality, RaceProofs!JoinsExceedByRaceOnly, RaceProofs!OverfullByRaceOnly,
         RaceProofs!LeaguesByRaceOnly, RaceProofs!Validated, RaceProofs!Active, RaceProofs!Cardinality
<1>6. Race!KeepsTerminal = RaceProofs!KeepsTerminal
  BY DEF Race!KeepsTerminal, Race!Memberships, Race!Terminal, Race!At, Race!Of, Race!End, Race!Idle,
         Race!Cardinality, RaceProofs!KeepsTerminal, RaceProofs!Memberships, RaceProofs!Terminal,
         RaceProofs!At, RaceProofs!Of, RaceProofs!End, RaceProofs!Idle, RaceProofs!Cardinality
<1> QED BY <1>1, <1>2, <1>3, <1>4, <1>5, <1>6

(* The worlds start as their leagues do.                                    *)
LEMMA WorldsStart == ASSUME WorldsInit PROVE WorldsInv
<1>1. CASE world = "single" /\ Single!Init
  BY <1>1, WorldsAssumption, SingleSame, SingleProofs!InitOK DEF WorldsInv
<1>2. CASE world = "race" /\ Race!Init
  BY <1>2, WorldsAssumption, RaceSame, RaceProofs!InitOK DEF WorldsInv
<1>3. CASE world = "matches"
  BY <1>3 DEF WorldsInv
<1> QED BY <1>1, <1>2, <1>3 DEF WorldsInit

(* A step of a world is one of its leagues, or leaves them as they are.     *)
LEMMA WorldsMove ==
  ASSUME [WorldsNext]_worlds
  PROVE  /\ world' = world
         /\ world = "single" => [SingleProofs!Next]_(SingleProofs!vars)
         /\ world = "race" => [RaceProofs!Next]_(RaceProofs!vars)
<1>1. world' = world
  BY DEF WorldsNext, worlds
<1>2. CASE UNCHANGED worlds
  <2>1. UNCHANGED SingleProofs!vars /\ UNCHANGED RaceProofs!vars
    BY <1>2 DEF worlds, members, SingleProofs!vars, RaceProofs!vars
  <2> QED BY <1>1, <2>1
<1>3. CASE WorldsNext
  <2>1. (world = "single" => Single!Next) /\ (world = "race" => Race!Next)
    BY <1>3 DEF WorldsNext
  <2> QED BY <1>1, <2>1, SingleSame, RaceSame
<1> QED BY <1>2, <1>3

(* No step of a world breaks the invariant of its leagues.                  *)
LEMMA WorldsStep == ASSUME WorldsInv, [WorldsNext]_worlds PROVE WorldsInv'
<1>1. ASSUME world = "single"
      PROVE  SingleProofs!IInv'
  BY <1>1, WorldsMove, WorldsAssumption, SingleSame, SingleProofs!StepOK DEF WorldsInv
<1>2. ASSUME world = "race"
      PROVE  RaceProofs!IInv'
  BY <1>2, WorldsMove, WorldsAssumption, RaceSame, RaceProofs!StepOK DEF WorldsInv
<1> QED BY <1>1, <1>2, WorldsMove DEF WorldsInv

(* The invariant holds in every world.                                      *)
LEMMA WorldsInvariant == WorldsSpec => []WorldsInv
<1>1. WorldsInit => WorldsInv
  BY WorldsStart
<1>2. WorldsInv /\ [WorldsNext]_worlds => WorldsInv'
  BY WorldsStep
<1> QED BY <1>1, <1>2, PTL DEF WorldsSpec

(* In the worlds too, joins overfill a league, or take a player into two    *)
(* exclusive ones, only by racing, by fewer than are in hand.               *)
THEOREM WorldsExceedByRaceOnly == WorldsSpec => []JoinsExceedByRaceOnly
<1>1. WorldsInv => JoinsExceedByRaceOnly
  <2>1. ASSUME WorldsInv, world = "single"
        PROVE  Single!JoinsExceedByRaceOnly
    BY <2>1, WorldsAssumption, SingleSame, SingleProofs!ExceedOK DEF WorldsInv
  <2>2. ASSUME WorldsInv, world = "race"
        PROVE  Race!JoinsExceedByRaceOnly
    BY <2>2, WorldsAssumption, RaceSame, RaceProofs!ExceedOK DEF WorldsInv
  <2> QED BY <2>1, <2>2 DEF JoinsExceedByRaceOnly
<1> QED BY <1>1, WorldsInvariant, PTL

(* In the worlds too, a ban goes by an update, by a request that was in     *)
(* hand before it, or with its player or league, and nobody becomes active  *)
(* where approval is asked but by an approval, an update, or coming back.   *)
THEOREM WorldsKeepStatus == WorldsSpec => StatusByRule
<1>1. ASSUME WorldsInv, [WorldsNext]_worlds, world = "single"
      PROVE  Single!KeepsTerminal /\ Single!AsksApproval
  BY <1>1, WorldsMove, WorldsAssumption, SingleSame,
     SingleProofs!TerminalOK, SingleProofs!ApprovalOK DEF WorldsInv
<1>2. ASSUME WorldsInv, [WorldsNext]_worlds, world = "race"
      PROVE  Race!KeepsTerminal
  BY <1>2, WorldsMove, WorldsAssumption, RaceSame, RaceProofs!TerminalOK DEF WorldsInv
<1>3. WorldsInv /\ [WorldsNext]_worlds =>
        [/\ world = "single" => Single!KeepsTerminal /\ Single!AsksApproval
         /\ world = "race" => Race!KeepsTerminal]_worlds
  BY <1>1, <1>2
<1> QED BY <1>3, WorldsInvariant, PTL DEF WorldsSpec, StatusByRule

===============================================================================
