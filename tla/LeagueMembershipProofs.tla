------------------------ MODULE LeagueMembershipProofs ------------------------
(***************************************************************************)
(* Proofs about LeagueMembership for any players, leagues, settings and     *)
(* number of requests in hand at once.                                      *)
(***************************************************************************)
EXTENDS LeagueMembership, FiniteSetTheorems, TLAPS

-------------------------------------------------------------------------------
(* A join that has passed the capacity check may still take its place ...   *)
HasPassed == {"leagues", "reactivate", "create", "insert"}
Passed(l) == {r \in Requests : request[r].pc \in HasPassed /\ Of(r)[2] = l}

(* ... and one that has passed every check, enter its league.               *)
IsAdmitted == {"reactivate", "create", "insert"}
Admitted(p) == {r \in Requests : request[r].pc \in IsAdmitted /\ Of(r)[1] = p /\ Of(r)[2] \in Exclusive}
Entered(p) == {l \in Exclusive : p \in Validated(l)}

(* Whoever passes a check finds it satisfied by those who are in by then;   *)
(* after that each request brings one more at most.                         *)
Room ==
  \A l \in Leagues : MaxPlayers[l] > 0 =>
    Cardinality(Validated(l)) + Cardinality(Passed(l)) <= MaxPlayers[l] - 1 + Cardinality(Requests)

OneLeague ==
  \A p \in Players : Cardinality(Entered(p)) + Cardinality(Admitted(p)) <= Cardinality(Requests)

(* What a request has read still holds of the row if there is no other one; *)
(* a row that there is, stays.                                              *)
HasRow == {"reactivate", "leave", "approve", "reject", "update"}

ReadOK ==
  \A r \in Requests :
    /\ request[r].pc \notin {"idle", "update"} => request[r].status \notin Terminal
    /\ request[r].pc = "update" => request[r].status # "none"
    /\ request[r].pc \in HasRow => member[Of(r)] # "none"
    /\ request[r].pc # "idle" /\ request[r].status # "none" => member[Of(r)] # "none"
    /\ Cardinality(Requests) = 1 /\ request[r].pc \notin {"idle", "update"} =>
         member[Of(r)] = request[r].status

IInv == TypeOK /\ Room /\ OneLeague /\ ReadOK

-------------------------------------------------------------------------------
(* The requests past a check and the members who went through it, counted.  *)
LEMMA CountStep ==
  ASSUME NEW V, NEW P, IsFiniteSet(V), IsFiniteSet(P), NEW V2, NEW P2,
         \/ V2 \subseteq V /\ P2 \subseteq P
         \/ \E x : V2 \subseteq V \cup {x} /\ \E r \in P : P2 \subseteq P \ {r},
         NEW n \in Int, Cardinality(V) + Cardinality(P) <= n
  PROVE  Cardinality(V2) + Cardinality(P2) <= n
<1>1. Cardinality(V) \in Nat /\ Cardinality(P) \in Nat
  BY FS_CardinalityType
<1>2. CASE V2 \subseteq V /\ P2 \subseteq P
  <2>1. /\ Cardinality(V2) <= Cardinality(V) /\ Cardinality(P2) <= Cardinality(P)
        /\ IsFiniteSet(V2) /\ IsFiniteSet(P2)
    BY <1>2, FS_Subset
  <2>2. Cardinality(V2) \in Nat /\ Cardinality(P2) \in Nat
    BY <2>1, FS_CardinalityType
  <2> QED BY <1>1, <2>1, <2>2
<1>3. CASE \E x : V2 \subseteq V \cup {x} /\ \E r \in P : P2 \subseteq P \ {r}
  <2>1. PICK x : V2 \subseteq V \cup {x} /\ \E r \in P : P2 \subseteq P \ {r}
    BY <1>3
  <2>2. PICK r \in P : P2 \subseteq P \ {r}
    BY <2>1
  <2>3. /\ IsFiniteSet(V \cup {x}) /\ Cardinality(V \cup {x}) <= Cardinality(V) + 1
        /\ IsFiniteSet(P \ {r}) /\ Cardinality(P \ {r}) = Cardinality(P) - 1
    <3>1. /\ IsFiniteSet(V \cup {x})
          /\ Cardinality(V \cup {x}) = IF x \in V THEN Cardinality(V) ELSE Cardinality(V) + 1
      BY FS_AddElement
    <3>2. IsFiniteSet(P \ {r}) /\ Cardinality(P \ {r}) = Cardinality(P) - 1
      BY FS_RemoveElement
    <3> QED BY <1>1, <3>1, <3>2
  <2>4. /\ Cardinality(V2) <= Cardinality(V \cup {x}) /\ IsFiniteSet(V2)
        /\ Cardinality(P2) <= Cardinality(P \ {r}) /\ IsFiniteSet(P2)
    BY <2>1, <2>2, <2>3, FS_Subset
  <2>5. /\ Cardinality(V2) \in Nat /\ Cardinality(P2) \in Nat
        /\ Cardinality(V \cup {x}) \in Nat /\ Cardinality(P \ {r}) \in Nat
    BY <2>3, <2>4, FS_CardinalityType
  <2> QED BY <1>1, <2>3, <2>4, <2>5
<1> QED BY <1>2, <1>3

(* All these sets are finite.                                               *)
LEMMA Finite ==
  ASSUME MembershipAssumption
  PROVE  /\ Cardinality(Requests) \in Nat
         /\ \A l : /\ IsFiniteSet(Validated(l)) /\ IsFiniteSet(Passed(l))
                   /\ Cardinality(Validated(l)) \in Nat /\ Cardinality(Passed(l)) \in Nat
                   /\ Cardinality(Passed(l)) <= Cardinality(Requests)
         /\ \A p : /\ IsFiniteSet(Entered(p)) /\ IsFiniteSet(Admitted(p))
                   /\ Cardinality(Entered(p)) \in Nat /\ Cardinality(Admitted(p)) \in Nat
                   /\ Cardinality(Admitted(p)) <= Cardinality(Requests)
<1>1. IsFiniteSet(Requests) /\ IsFiniteSet(Players) /\ IsFiniteSet(Exclusive)
  BY FS_Subset DEF MembershipAssumption
<1>2. ASSUME NEW l
      PROVE  /\ IsFiniteSet(Validated(l)) /\ IsFiniteSet(Passed(l))
             /\ Cardinality(Passed(l)) <= Cardinality(Requests)
  <2>1. Validated(l) \subseteq Players /\ Passed(l) \subseteq Requests
    BY DEF Validated, Active, Passed
  <2> QED BY <1>1, <2>1, FS_Subset
<1>3. ASSUME NEW p
      PROVE  /\ IsFiniteSet(Entered(p)) /\ IsFiniteSet(Admitted(p))
             /\ Cardinality(Admitted(p)) <= Cardinality(Requests)
  <2>1. Entered(p) \subseteq Exclusive /\ Admitted(p) \subseteq Requests
    BY DEF Entered, Admitted
  <2> QED BY <1>1, <2>1, FS_Subset
<1> QED BY <1>1, <1>2, <1>3, FS_CardinalityType

(* A set of one request: whichever two it has are the same.                 *)
LEMMA OneRequest ==
  ASSUME MembershipAssumption, Cardinality(Requests) = 1
  PROVE  \A q, r \in Requests : q = r
BY FS_Singleton DEF MembershipAssumption

-------------------------------------------------------------------------------
(* The ways on of a request.                                                *)
LEMMA OfMembership ==
  ASSUME TypeOK, NEW r \in Requests, ~At(r, "idle")
  PROVE  /\ request[r] \in Request /\ Of(r) \in Memberships
         /\ Of(r)[1] \in Players /\ Of(r)[2] \in Leagues /\ Of(r) = <<Of(r)[1], Of(r)[2]>>
<1>1. request[r] \in Request
  BY DEF TypeOK, At, Idle
<1> QED BY <1>1 DEF Request, Of, Memberships

(* A request that arrives, and nobody else moved.                           *)
LEMMA AcceptShape ==
  ASSUME TypeOK, NEW r \in Requests, NEW pc \in Step, NEW m \in Memberships, NEW status \in Status,
         Accept(r, pc, m, status)
  PROVE  /\ request' \in [Requests -> {Idle} \cup Request]
         /\ \A q \in Requests : q # r => request'[q] = request[q]
         /\ request'[r].pc = pc /\ request'[r].of = m /\ request'[r].status = status
<1>1. [pc |-> pc, of |-> m, status |-> status, cooling |-> FALSE] \in Request
  BY DEF Request
<1> QED BY <1>1 DEF TypeOK, Accept

(* A request that goes on, of the same membership, and nobody else moved.   *)
LEMMA GotoShape ==
  ASSUME TypeOK, NEW r \in Requests, ~At(r, "idle"), NEW pc \in Step, Goto(r, pc)
  PROVE  /\ request' \in [Requests -> {Idle} \cup Request]
         /\ \A q \in Requests : q # r => request'[q] = request[q]
         /\ request'[r].pc = pc /\ request'[r].of = Of(r)
         /\ request'[r].status = request[r].status
<1>1. request[r] \in Request
  BY OfMembership
<1>2. [pc |-> pc, of |-> request[r].of, status |-> request[r].status,
       cooling |-> request[r].cooling] \in Request
  BY <1>1 DEF Request
<1> QED BY <1>2 DEF TypeOK, Goto, Of

(* A request that ends, and nobody else moved.                              *)
LEMMA EndShape ==
  ASSUME TypeOK, NEW r \in Requests, End(r)
  PROVE  /\ request' \in [Requests -> {Idle} \cup Request]
         /\ \A q \in Requests : q # r => request'[q] = request[q]
         /\ request'[r].pc = "idle"
BY DEF TypeOK, End, Idle

(* A write of a status: that membership's, and no other's.                  *)
LEMMA WriteShape ==
  ASSUME TypeOK, NEW r \in Requests, ~At(r, "idle"), NEW status \in LeagueMemberStatus,
         WriteStatus(r, status)
  PROVE  /\ request' \in [Requests -> {Idle} \cup Request]
         /\ \A q \in Requests : q # r => request'[q] = request[q]
         /\ request'[r].pc = "idle"
         /\ member' \in [Memberships -> Status] /\ member'[Of(r)] = status
         /\ \A m \in Memberships : m # Of(r) => member'[m] = member[m]
         /\ \A m \in Memberships : member[m] # "none" => member'[m] # "none"
<1>1. Of(r) \in Memberships /\ status \in Status /\ status # "none"
  BY OfMembership DEF Status, LeagueMemberStatus
<1> QED BY <1>1, EndShape DEF TypeOK, WriteStatus

(* What others have read stays true of rows that stay, unless they are      *)
(* alone.                                                                   *)
LEMMA OthersRead ==
  ASSUME MembershipAssumption, IInv, NEW r \in Requests,
         \A q \in Requests : q # r => request'[q] = request[q],
         \A m \in Memberships : member[m] # "none" => member'[m] # "none",
         request'[r].pc \notin {"idle", "update"} => request'[r].status \notin Terminal,
         request'[r].pc = "update" => request'[r].status # "none",
         request'[r].pc \in HasRow => member'[request'[r].of] # "none",
         request'[r].pc # "idle" /\ request'[r].status # "none" => member'[request'[r].of] # "none",
         request'[r].pc \notin {"idle", "update"} /\ Cardinality(Requests) = 1 =>
           member'[request'[r].of] = request'[r].status
  PROVE  ReadOK'
<1>1. ASSUME NEW q \in Requests, q # r
      PROVE  /\ request[q].pc \notin {"idle", "update"} => request[q].status \notin Terminal
             /\ request[q].pc = "update" => request[q].status # "none"
             /\ request[q].pc \in HasRow => member'[Of(q)] # "none"
             /\ request[q].pc # "idle" /\ request[q].status # "none" => member'[Of(q)] # "none"
             /\ Cardinality(Requests) # 1
  <2>1. request[q].pc \in HasRow => member[Of(q)] # "none" /\ Of(q) \in Memberships
    BY OfMembership DEF IInv, ReadOK, HasRow, At
  <2>2. request[q].pc # "idle" /\ request[q].status # "none" =>
          member[Of(q)] # "none" /\ Of(q) \in Memberships
    BY OfMembership DEF IInv, ReadOK, At
  <2> QED BY <1>1, <2>1, <2>2, OneRequest DEF IInv, ReadOK
<1> QED BY <1>1 DEF ReadOK, Of

-------------------------------------------------------------------------------
(* The bounds are kept if one who enters leaves the requests past the check.*)
LEMMA CountsKept ==
  ASSUME MembershipAssumption, IInv,
         \A l \in Leagues :
           \/ Validated(l)' \subseteq Validated(l) /\ Passed(l)' \subseteq Passed(l)
           \/ \E p : /\ Validated(l)' \subseteq Validated(l) \cup {p}
                     /\ \E r \in Passed(l) : Passed(l)' \subseteq Passed(l) \ {r},
         \A p \in Players :
           \/ Entered(p)' \subseteq Entered(p) /\ Admitted(p)' \subseteq Admitted(p)
           \/ \E l : /\ Entered(p)' \subseteq Entered(p) \cup {l}
                     /\ \E r \in Admitted(p) : Admitted(p)' \subseteq Admitted(p) \ {r}
  PROVE  Room' /\ OneLeague'
<1>1. ASSUME NEW l \in Leagues, MaxPlayers[l] > 0
      PROVE  Cardinality(Validated(l)') + Cardinality(Passed(l)') <=
               MaxPlayers[l] - 1 + Cardinality(Requests)
  <2> DEFINE n == MaxPlayers[l] - 1 + Cardinality(Requests)
  <2>1. n \in Int /\ Cardinality(Validated(l)) + Cardinality(Passed(l)) <= n
    BY <1>1, Finite DEF MembershipAssumption, IInv, Room
  <2> HIDE DEF n
  <2>2. Cardinality(Validated(l)') + Cardinality(Passed(l)') <= n
    BY <2>1, Finite, CountStep
  <2> QED BY <2>2 DEF n
<1>2. ASSUME NEW p \in Players
      PROVE  Cardinality(Entered(p)') + Cardinality(Admitted(p)') <= Cardinality(Requests)
  <2>1. Cardinality(Entered(p)) + Cardinality(Admitted(p)) <= Cardinality(Requests)
    BY DEF IInv, OneLeague
  <2>2. Cardinality(Requests) \in Int
    BY Finite
  <2> QED BY <2>1, <2>2, Finite, CountStep
<1> QED BY <1>1, <1>2 DEF Room, OneLeague

(* A step that brings in nobody, and takes no request past a check.         *)
LEMMA NobodyEnters ==
  ASSUME MembershipAssumption, IInv, NEW r \in Requests,
         \A q \in Requests : q # r => request'[q] = request[q],
         request'[r].pc \in HasPassed => request[r].pc \in HasPassed /\ request'[r].of = Of(r),
         request'[r].pc \in IsAdmitted => request[r].pc \in IsAdmitted,
         \A m \in Memberships : member'[m] = "ACTIVE" /\ m \notin waived' =>
                                  member[m] = "ACTIVE" /\ m \notin waived
  PROVE  Room' /\ OneLeague'
<1>1. \A l \in Leagues :
        Validated(l)' \subseteq Validated(l) /\ Passed(l)' \subseteq Passed(l)
  BY DEF Validated, Active, Memberships, Passed, Of
<1>2. \A p \in Players :
        Entered(p)' \subseteq Entered(p) /\ Admitted(p)' \subseteq Admitted(p)
  BY DEF Entered, Validated, Active, Memberships, MembershipAssumption, Admitted, Of,
         HasPassed, IsAdmitted
<1> QED BY <1>1, <1>2, CountsKept

(* A request that has passed the checks brings in one member and ends.      *)
LEMMA OneEnters ==
  ASSUME MembershipAssumption, IInv, NEW r \in Requests, request[r].pc \in IsAdmitted,
         \A q \in Requests : q # r => request'[q] = request[q], request'[r].pc = "idle",
         \A m \in Memberships : m # Of(r) /\ member'[m] = "ACTIVE" /\ m \notin waived' =>
                                  member[m] = "ACTIVE" /\ m \notin waived
  PROVE  Room' /\ OneLeague'
<1>1. \A l : Passed(l)' \subseteq Passed(l) /\ r \notin Passed(l)'
  BY DEF Passed, Of, HasPassed
<1>2. \A p : Admitted(p)' \subseteq Admitted(p) /\ r \notin Admitted(p)'
  BY DEF Admitted, Of, IsAdmitted
<1>3. ASSUME NEW l \in Leagues
      PROVE  \/ Validated(l)' \subseteq Validated(l)
             \/ Validated(l)' \subseteq Validated(l) \cup {Of(r)[1]} /\ r \in Passed(l)
  <2>1. CASE l = Of(r)[2]
    <3>1. r \in Passed(l)
      BY <2>1 DEF Passed, HasPassed, IsAdmitted
    <3>2. \A p \in Players : p # Of(r)[1] => <<p, l>> # Of(r)
      OBVIOUS
    <3> QED BY <3>1, <3>2 DEF Validated, Active, Memberships
  <2>2. CASE l # Of(r)[2]
    <3>1. \A p \in Players : <<p, l>> # Of(r)
      BY <2>2
    <3> QED BY <3>1 DEF Validated, Active, Memberships
  <2> QED BY <2>1, <2>2
<1>4. ASSUME NEW p \in Players
      PROVE  \/ Entered(p)' \subseteq Entered(p)
             \/ Entered(p)' \subseteq Entered(p) \cup {Of(r)[2]} /\ r \in Admitted(p)
  <2>1. \A l \in Exclusive : l \in Leagues
    BY DEF MembershipAssumption
  <2>2. \A l \in Exclusive : <<p, l>> # Of(r) /\ l \in Entered(p)' => l \in Entered(p)
    BY <2>1 DEF Entered, Validated, Active, Memberships
  <2>3. CASE p = Of(r)[1] /\ Of(r)[2] \in Exclusive
    <3>1. r \in Admitted(p)
      BY <2>3 DEF Admitted
    <3>2. \A l \in Exclusive : l # Of(r)[2] => <<p, l>> # Of(r)
      OBVIOUS
    <3> QED BY <2>2, <3>1, <3>2 DEF Entered
  <2>4. CASE ~(p = Of(r)[1] /\ Of(r)[2] \in Exclusive)
    <3>1. \A l \in Exclusive : <<p, l>> # Of(r)
      BY <2>4
    <3> QED BY <2>2, <3>1 DEF Entered
  <2> QED BY <2>3, <2>4
<1>5. \A l \in Leagues :
        \/ Validated(l)' \subseteq Validated(l) /\ Passed(l)' \subseteq Passed(l)
        \/ \E p : /\ Validated(l)' \subseteq Validated(l) \cup {p}
                  /\ \E q \in Passed(l) : Passed(l)' \subseteq Passed(l) \ {q}
  BY <1>1, <1>3
<1>6. \A p \in Players :
        \/ Entered(p)' \subseteq Entered(p) /\ Admitted(p)' \subseteq Admitted(p)
        \/ \E l : /\ Entered(p)' \subseteq Entered(p) \cup {l}
                  /\ \E q \in Admitted(p) : Admitted(p)' \subseteq Admitted(p) \ {q}
  BY <1>2, <1>4
<1> QED BY <1>5, <1>6, CountsKept

-------------------------------------------------------------------------------
(* The actions keep the invariant.                                          *)
LEMMA InitOK == ASSUME MembershipAssumption, Init PROVE IInv
<1>1. TypeOK
  BY DEF Init, TypeOK, Status
<1>2. ReadOK
  BY DEF Init, ReadOK, Idle, HasRow
<1>3. \A l \in Leagues : Validated(l) = {} /\ Passed(l) = {}
  BY DEF Init, Validated, Active, Passed, Idle, HasPassed, Memberships
<1>4. \A p : Entered(p) = {} /\ Admitted(p) = {}
  BY <1>3 DEF Init, Entered, Admitted, Idle, IsAdmitted, MembershipAssumption
<1>5. Room
  <2>1. \A l \in Leagues : MaxPlayers[l] \in Nat
    BY DEF MembershipAssumption
  <2> QED BY <1>3, <2>1, Finite, FS_EmptySet DEF Room
<1>6. OneLeague
  BY <1>4, Finite, FS_EmptySet DEF OneLeague
<1> QED BY <1>1, <1>2, <1>5, <1>6 DEF IInv

(* A request arrives: it has read the row.                                  *)
LEMMA AcceptOK ==
  ASSUME MembershipAssumption, IInv, NEW r \in Requests, Reads,
         NEW pc \in {"readPlayer", "leave", "approve", "reject", "update"},
         NEW m \in Memberships, NEW status \in Status, Accept(r, pc, m, status),
         pc # "update" => status = member[m] /\ status \notin Terminal,
         pc = "update" => status # "none",
         pc # "readPlayer" => member[m] # "none"
  PROVE  IInv'
<1>1. pc \in Step
  BY DEF Step
<1>2. /\ request' \in [Requests -> {Idle} \cup Request]
      /\ \A q \in Requests : q # r => request'[q] = request[q]
      /\ request'[r].pc = pc /\ request'[r].of = m /\ request'[r].status = status
  BY <1>1, AcceptShape DEF IInv
<1>3. TypeOK'
  BY <1>2 DEF IInv, TypeOK, Reads
<1>4. ReadOK'
  BY <1>2, OthersRead DEF Reads, HasRow
<1>5. Room' /\ OneLeague'
  BY <1>2, NobodyEnters DEF Reads, HasPassed, IsAdmitted
<1> QED BY <1>3, <1>4, <1>5 DEF IInv

(* A call that arrives writes nothing.                                      *)
LEMMA ArriveOK ==
  ASSUME MembershipAssumption, IInv, NEW r \in Requests, Arrive(r) PROVE IInv'
<1>1. PICK m \in Memberships : Join(r, m) \/ Leave(r, m) \/ Answer(r, m) \/ Update(r, m)
  BY DEF Arrive
<1>2. member[m] \in Status
  BY DEF IInv, TypeOK
<1>3. CASE Join(r, m)
  BY <1>2, <1>3, AcceptOK DEF Join
<1>4. CASE Leave(r, m)
  <2>1. "ACTIVE" \notin Terminal
    BY DEF Terminal
  <2> QED BY <1>2, <1>4, <2>1, AcceptOK DEF Leave
<1>5. CASE Answer(r, m)
  <2>1. PICK pc \in {"approve", "reject"} : Accept(r, pc, m, member[m])
    BY <1>5 DEF Answer
  <2>2. member[m] = "PENDING_APPROVAL" /\ Reads /\ "PENDING_APPROVAL" \notin Terminal
    BY <1>5 DEF Answer, Terminal
  <2> QED BY <1>2, <2>1, <2>2, AcceptOK
<1>6. CASE Update(r, m)
  <2>1. PICK status \in LeagueMemberStatus : Accept(r, "update", m, status)
    BY <1>6 DEF Update
  <2>2. member[m] # "none" /\ Reads /\ status \in Status /\ status # "none"
    BY <1>6 DEF Update, Status, LeagueMemberStatus
  <2> QED BY <2>1, <2>2, AcceptOK
<1> QED BY <1>1, <1>3, <1>4, <1>5, <1>6

(* A request goes on without having written anything.                       *)
LEMMA ReadStep ==
  ASSUME MembershipAssumption, IInv, NEW r \in Requests, ~At(r, "idle"), Reads,
         request' \in [Requests -> {Idle} \cup Request],
         \A q \in Requests : q # r => request'[q] = request[q],
         request'[r].of = Of(r) /\ request'[r].status = request[r].status,
         request[r].pc # "update", request'[r].pc \notin {"idle", "update"},
         request'[r].pc \in HasRow => member[Of(r)] # "none"
  PROVE  TypeOK' /\ ReadOK'
<1>1. TypeOK'
  BY DEF IInv, TypeOK, Reads
<1>2. /\ request[r].status \notin Terminal
      /\ request[r].status # "none" => member[Of(r)] # "none"
      /\ Cardinality(Requests) = 1 => member[Of(r)] = request[r].status
  BY DEF IInv, ReadOK, At
<1>3. ReadOK'
  BY <1>2, OthersRead DEF Reads
<1> QED BY <1>1, <1>3

(* A join reads its player, whose cooldown it may have to honour.           *)
LEMMA ReadPlayerOK ==
  ASSUME MembershipAssumption, IInv, NEW r \in Requests, ReadPlayer(r) PROVE IInv'
<1>1. At(r, "readPlayer") /\ ~At(r, "idle") /\ Reads
  BY DEF ReadPlayer, At
<1>2. request[r] \in Request /\ cooling[Of(r)[1]] \in BOOLEAN
  BY <1>1, OfMembership DEF IInv, TypeOK
<1>3. [pc |-> "capacity", of |-> request[r].of, status |-> request[r].status,
       cooling |-> cooling[Of(r)[1]]] \in Request
  BY <1>2 DEF Request, Step
<1>4. /\ request' \in [Requests -> {Idle} \cup Request]
      /\ \A q \in Requests : q # r => request'[q] = request[q]
      /\ request'[r].pc = "capacity" /\ request'[r].of = Of(r)
      /\ request'[r].status = request[r].status
  BY <1>3 DEF IInv, TypeOK, ReadPlayer, Of
<1>5. TypeOK' /\ ReadOK'
  BY <1>1, <1>4, ReadStep DEF HasRow, At
<1>6. Room' /\ OneLeague'
  BY <1>1, <1>4, NobodyEnters DEF HasPassed, IsAdmitted, Reads
<1> QED BY <1>5, <1>6 DEF IInv

(* Whoever is told that there is room: the league is not full.              *)
LEMMA CheckCapacityOK ==
  ASSUME MembershipAssumption, IInv, NEW r \in Requests, CheckCapacity(r) PROVE IInv'
<1>1. /\ At(r, "capacity") /\ ~At(r, "idle") /\ Reads /\ HasRoom(Of(r)[2])
      /\ Goto(r, "leagues") /\ "leagues" \in Step
  BY DEF CheckCapacity, At, Step
<1>2. /\ request' \in [Requests -> {Idle} \cup Request]
      /\ \A q \in Requests : q # r => request'[q] = request[q]
      /\ request'[r].pc = "leagues" /\ request'[r].of = Of(r)
      /\ request'[r].status = request[r].status
  BY <1>1, GotoShape DEF IInv
<1>3. TypeOK' /\ ReadOK'
  BY <1>1, <1>2, ReadStep DEF HasRow, At
<1>4. ASSUME NEW l \in Leagues, MaxPlayers[l] > 0
      PROVE  Cardinality(Validated(l)') + Cardinality(Passed(l)') <=
               MaxPlayers[l] - 1 + Cardinality(Requests)
  <2>1. Validated(l)' = Validated(l)
    BY <1>1 DEF Validated, Active, Reads
  <2>2. CASE l = Of(r)[2]
    <3>1. Cardinality(Active(l)) < MaxPlayers[l]
      BY <1>1, <1>4, <2>2 DEF HasRoom
    <3>2. IsFiniteSet(Active(l)) /\ Validated(l) \subseteq Active(l)
      BY FS_Subset DEF MembershipAssumption, Active, Validated
    <3>3. Cardinality(Validated(l)) <= Cardinality(Active(l)) /\ Cardinality(Active(l)) \in Nat
      BY <3>2, FS_Subset, FS_CardinalityType
    <3>4. IsFiniteSet(Requests) /\ Passed(l)' \subseteq Requests
      BY DEF MembershipAssumption, Passed
    <3>5. Cardinality(Passed(l)') <= Cardinality(Requests) /\ Cardinality(Passed(l)') \in Nat
      BY <3>4, FS_Subset, FS_CardinalityType
    <3> QED BY <2>1, <3>1, <3>3, <3>5, Finite DEF MembershipAssumption
  <2>3. CASE l # Of(r)[2]
    <3>1. Passed(l)' = Passed(l)
      BY <1>1, <1>2, <2>3 DEF Passed, HasPassed, At, Of
    <3> QED BY <1>4, <2>1, <3>1 DEF IInv, Room
  <2> QED BY <2>2, <2>3
<1>5. \A p : Entered(p)' = Entered(p) /\ Admitted(p)' \subseteq Admitted(p)
  BY <1>1, <1>2 DEF Entered, Validated, Active, Reads, Admitted, IsAdmitted, Of
<1>6. OneLeague'
  <2>1. ASSUME NEW p \in Players
        PROVE  Cardinality(Admitted(p)') <= Cardinality(Admitted(p)) /\ Cardinality(Admitted(p)') \in Nat
    BY <1>5, Finite, FS_Subset, FS_CardinalityType
  <2> QED BY <1>5, <2>1, Finite DEF IInv, OneLeague
<1> QED BY <1>3, <1>4, <1>6 DEF IInv, Room

(* Whoever is let into an exclusive league is in none.                      *)
LEMMA CheckLeaguesOK ==
  ASSUME MembershipAssumption, IInv, NEW r \in Requests, CheckLeagues(r) PROVE IInv'
<1>1. At(r, "leagues") /\ ~At(r, "idle") /\ Reads /\ Admits(r)
  BY DEF CheckLeagues, At
<1>2. PICK pc \in {"create", "reactivate"} :
        Goto(r, pc) /\ (pc = "reactivate" => request[r].status # "none")
  BY DEF CheckLeagues
<1>3. pc \in Step
  BY DEF Step
<1>4. /\ request' \in [Requests -> {Idle} \cup Request]
      /\ \A q \in Requests : q # r => request'[q] = request[q]
      /\ request'[r].pc = pc /\ request'[r].of = Of(r)
      /\ request'[r].status = request[r].status
  BY <1>1, <1>2, <1>3, GotoShape DEF IInv
<1>5. request'[r].pc \in HasRow => member[Of(r)] # "none"
  BY <1>1, <1>2, <1>4 DEF HasRow, IInv, ReadOK, At
<1>6. TypeOK' /\ ReadOK'
  BY <1>1, <1>4, <1>5, ReadStep DEF At
<1>7. \A l : Validated(l)' = Validated(l) /\ Passed(l)' \subseteq Passed(l)
  BY <1>1, <1>4 DEF Validated, Active, Reads, Passed, HasPassed, At, Of
<1>8. Room'
  <2>1. ASSUME NEW l \in Leagues, MaxPlayers[l] > 0
        PROVE  Cardinality(Passed(l)') <= Cardinality(Passed(l)) /\ Cardinality(Passed(l)') \in Nat
    BY <1>7, Finite, FS_Subset, FS_CardinalityType
  <2> QED BY <1>7, <2>1, Finite DEF IInv, Room, MembershipAssumption
<1>9. ASSUME NEW p \in Players
      PROVE  Cardinality(Entered(p)') + Cardinality(Admitted(p)') <= Cardinality(Requests)
  <2>1. Entered(p)' = Entered(p)
    BY <1>7 DEF Entered
  <2>2. CASE p = Of(r)[1] /\ Of(r)[2] \in Exclusive
    <3>1. Entered(p) = {}
      BY <1>1, <2>2 DEF Admits, ActiveIn, Entered, Validated, Active, MembershipAssumption
    <3>2. IsFiniteSet(Requests) /\ Admitted(p)' \subseteq Requests
      BY DEF MembershipAssumption, Admitted
    <3>3. Cardinality(Admitted(p)') <= Cardinality(Requests) /\ Cardinality(Admitted(p)') \in Nat
      BY <3>2, FS_Subset, FS_CardinalityType
    <3> QED BY <2>1, <3>1, <3>3, Finite, FS_EmptySet
  <2>3. CASE ~(p = Of(r)[1] /\ Of(r)[2] \in Exclusive)
    <3>1. Admitted(p)' = Admitted(p)
      BY <1>1, <1>4, <2>3 DEF Admitted, IsAdmitted, At, Of
    <3> QED BY <2>1, <3>1 DEF IInv, OneLeague
  <2> QED BY <2>2, <2>3
<1> QED BY <1>6, <1>8, <1>9 DEF IInv, OneLeague

(* The last read of a join: whether there is a row to write over.           *)
LEMMA CreateOK ==
  ASSUME MembershipAssumption, IInv, NEW r \in Requests, Create(r) PROVE IInv'
<1>1. At(r, "create") /\ ~At(r, "idle") /\ Reads
  BY DEF Create, At
<1>2. PICK pc \in {"insert", "reactivate"} :
        Goto(r, pc) /\ (pc = "reactivate" => member[Of(r)] # "none")
  BY DEF Create
<1>3. pc \in Step
  BY DEF Step
<1>4. /\ request' \in [Requests -> {Idle} \cup Request]
      /\ \A q \in Requests : q # r => request'[q] = request[q]
      /\ request'[r].pc = pc /\ request'[r].of = Of(r)
      /\ request'[r].status = request[r].status
  BY <1>1, <1>2, <1>3, GotoShape DEF IInv
<1>5. TypeOK' /\ ReadOK'
  BY <1>1, <1>2, <1>4, ReadStep DEF HasRow, At
<1>6. Room' /\ OneLeague'
  BY <1>1, <1>4, NobodyEnters DEF HasPassed, IsAdmitted, Reads, At
<1> QED BY <1>5, <1>6 DEF IInv

(* The row is written and the request ends.                                 *)
LEMMA WriteStep ==
  ASSUME MembershipAssumption, IInv, NEW r \in Requests, ~At(r, "idle"),
         NEW status \in LeagueMemberStatus, WriteStatus(r, status),
         cooling' \in [Players -> BOOLEAN],
         rated' \subseteq rated \cup {Of(r)}, waived' \subseteq waived \cup {Of(r)}
  PROVE  TypeOK' /\ ReadOK'
<1>1. /\ request' \in [Requests -> {Idle} \cup Request]
      /\ \A q \in Requests : q # r => request'[q] = request[q]
      /\ request'[r].pc = "idle"
      /\ member' \in [Memberships -> Status] /\ member'[Of(r)] = status
      /\ \A m \in Memberships : m # Of(r) => member'[m] = member[m]
      /\ \A m \in Memberships : member[m] # "none" => member'[m] # "none"
  BY WriteShape DEF IInv
<1>2. Of(r) \in Memberships /\ status # "none"
  BY OfMembership DEF IInv, LeagueMemberStatus
<1>3. TypeOK'
  BY <1>1, <1>2 DEF IInv, TypeOK
<1>4. ReadOK'
  BY <1>1, OthersRead DEF HasRow
<1> QED BY <1>3, <1>4

(* A join writes its row, by an insert or over an older one.                *)
LEMMA EnterOK ==
  ASSUME MembershipAssumption, IInv, NEW r \in Requests, Reactivate(r) \/ Insert(r) PROVE IInv'
<1>1. PICK status \in LeagueMemberStatus :
        /\ WriteStatus(r, status) /\ rated' \subseteq rated \cup {Of(r)}
        /\ waived' = waived \ {Of(r)} /\ cooling' = cooling /\ request[r].pc \in IsAdmitted
  BY DEF Reactivate, Insert, DetermineInitialStatus, InitializeRating, LeagueMemberStatus,
         IsAdmitted, At
<1>2. ~At(r, "idle")
  BY <1>1 DEF IsAdmitted, At
<1>3. TypeOK' /\ ReadOK'
  BY <1>1, <1>2, WriteStep DEF IInv, TypeOK
<1>4. /\ \A q \in Requests : q # r => request'[q] = request[q]
      /\ request'[r].pc = "idle"
      /\ \A m \in Memberships : m # Of(r) => member'[m] = member[m]
  BY <1>1, <1>2, WriteShape DEF IInv
<1>5. Room' /\ OneLeague'
  BY <1>1, <1>4, OneEnters
<1> QED BY <1>3, <1>5 DEF IInv

(* A member leaves, or is written without a look at the limits.             *)
LEMMA AnswerOK ==
  ASSUME MembershipAssumption, IInv, NEW r \in Requests,
         Left(r) \/ Approved(r) \/ Rejected(r) \/ Updated(r)
  PROVE  IInv'
<1>1. ~At(r, "idle")
  BY DEF Left, Approved, Rejected, Updated, At
<1>2. Of(r)[1] \in Players /\ request[r] \in Request
  BY <1>1, OfMembership DEF IInv
<1>3. PICK status \in LeagueMemberStatus :
        /\ WriteStatus(r, status) /\ rated' \subseteq rated \cup {Of(r)}
        /\ waived' \subseteq waived \cup {Of(r)} /\ waived \ {Of(r)} \subseteq waived'
        /\ status = "ACTIVE" => Of(r) \in waived'
  <2>1. At(r, "update") => request[r].status \in LeagueMemberStatus
    BY <1>2 DEF Request, Status, IInv, ReadOK, At
  <2> QED BY <2>1 DEF Left, Approved, Rejected, Updated, LeagueMemberStatus
<1>4. cooling' \in [Players -> BOOLEAN]
  BY <1>2 DEF Left, Approved, Rejected, Updated, UpdateCooldown, IInv, TypeOK
<1>5. TypeOK' /\ ReadOK'
  BY <1>1, <1>3, <1>4, WriteStep
<1>6. /\ \A q \in Requests : q # r => request'[q] = request[q]
      /\ request'[r].pc = "idle" /\ member'[Of(r)] = status
      /\ \A m \in Memberships : m # Of(r) => member'[m] = member[m]
  BY <1>1, <1>3, WriteShape DEF IInv
<1>7. Room' /\ OneLeague'
  BY <1>3, <1>6, NobodyEnters DEF HasPassed, IsAdmitted
<1> QED BY <1>5, <1>7 DEF IInv

(* A call that is refused or fails writes nothing.                          *)
LEMMA RefuseOK ==
  ASSUME MembershipAssumption, IInv, NEW r \in Requests, Refuse(r) PROVE IInv'
<1>1. /\ request' \in [Requests -> {Idle} \cup Request]
      /\ \A q \in Requests : q # r => request'[q] = request[q]
      /\ request'[r].pc = "idle" /\ Reads
  BY EndShape DEF Refuse, IInv
<1>2. TypeOK'
  BY <1>1 DEF IInv, TypeOK, Reads
<1>3. ReadOK'
  BY <1>1, OthersRead DEF Reads, HasRow
<1>4. Room' /\ OneLeague'
  BY <1>1, NobodyEnters DEF Reads, HasPassed, IsAdmitted
<1> QED BY <1>2, <1>3, <1>4 DEF IInv

(* What is deleted takes the requests that had to do with it along.         *)
LEMMA GoneOK ==
  ASSUME MembershipAssumption, IInv, NEW gone \in SUBSET Memberships, Gone(gone),
         cooling' \in [Players -> BOOLEAN]
  PROVE  IInv'
<1>1. /\ request' \in [Requests -> {Idle} \cup Request]
      /\ \A q \in Requests : request'[q] = request[q] \/ request'[q] = Idle
      /\ \A q \in Requests : ~At(q, "idle") /\ Of(q) \in gone => request'[q] = Idle
  BY DEF Gone, IInv, TypeOK
<1>2. /\ member' \in [Memberships -> Status]
      /\ \A m \in gone : member'[m] = "none"
      /\ \A m \in Memberships \ gone : member'[m] = member[m]
      /\ rated' = rated \ gone /\ waived' = waived \ gone
  BY DEF Gone, IInv, TypeOK, Status
<1>3. TypeOK'
  BY <1>1, <1>2 DEF IInv, TypeOK
<1>4. ASSUME NEW q \in Requests, request'[q].pc # "idle"
      PROVE  request'[q] = request[q] /\ request[q].pc # "idle" /\ member'[Of(q)] = member[Of(q)]
  <2>1. request'[q] = request[q] /\ ~At(q, "idle")
    BY <1>1, <1>4 DEF Idle, At
  <2>2. Of(q) \in Memberships
    BY <2>1, OfMembership DEF IInv
  <2>3. Of(q) \notin gone
    BY <1>1, <1>4, <2>1 DEF Idle
  <2> QED BY <1>2, <2>1, <2>2, <2>3 DEF At
<1>5. ReadOK'
  <2> SUFFICES ASSUME NEW q \in Requests, request'[q].pc # "idle"
               PROVE  /\ request'[q].pc # "update" => request'[q].status \notin Terminal
                      /\ request'[q].pc = "update" => request'[q].status # "none"
                      /\ request'[q].pc \in HasRow => member'[request'[q].of] # "none"
                      /\ request'[q].status # "none" => member'[request'[q].of] # "none"
                      /\ Cardinality(Requests) = 1 /\ request'[q].pc # "update" =>
                           member'[request'[q].of] = request'[q].status
    BY DEF ReadOK, Of, HasRow
  <2> QED BY <1>4 DEF IInv, ReadOK, Of
<1>6. \A l \in Leagues : Validated(l)' \subseteq Validated(l) /\ Passed(l)' \subseteq Passed(l)
  <2>1. ASSUME NEW l \in Leagues PROVE Validated(l)' \subseteq Validated(l)
    <3>1. ASSUME NEW p \in Players, member'[<<p, l>>] = "ACTIVE", <<p, l>> \notin waived'
          PROVE  member[<<p, l>>] = "ACTIVE" /\ <<p, l>> \notin waived
      BY <1>2, <3>1 DEF Memberships
    <3> QED BY <3>1 DEF Validated, Active
  <2>2. ASSUME NEW l \in Leagues PROVE Passed(l)' \subseteq Passed(l)
    BY <1>4 DEF Passed, Of, HasPassed
  <2> QED BY <2>1, <2>2
<1>7. \A p \in Players : Entered(p)' \subseteq Entered(p) /\ Admitted(p)' \subseteq Admitted(p)
  <2>1. ASSUME NEW p \in Players PROVE Entered(p)' \subseteq Entered(p)
    BY <1>6 DEF Entered, MembershipAssumption
  <2>2. ASSUME NEW p \in Players PROVE Admitted(p)' \subseteq Admitted(p)
    BY <1>4 DEF Admitted, Of, IsAdmitted
  <2> QED BY <2>1, <2>2
<1>8. Room' /\ OneLeague'
  BY <1>6, <1>7, CountsKept
<1> QED BY <1>3, <1>5, <1>8 DEF IInv

(* Players and leagues that are deleted.                                    *)
LEMMA DeletedOK ==
  ASSUME MembershipAssumption, IInv,
         \/ \E players \in SUBSET Players : PlayersDeleted(players)
         \/ \E l \in Leagues : LeagueDeleted(l)
  PROVE  IInv'
<1>1. CASE \E players \in SUBSET Players : PlayersDeleted(players)
  <2>1. PICK players \in SUBSET Players : PlayersDeleted(players)
    BY <1>1
  <2>2. players \X Leagues \in SUBSET Memberships
    BY DEF Memberships
  <2>3. cooling' \in [Players -> BOOLEAN]
    BY <2>1 DEF PlayersDeleted, IInv, TypeOK
  <2> QED BY <2>1, <2>2, <2>3, GoneOK DEF PlayersDeleted
<1>2. CASE \E l \in Leagues : LeagueDeleted(l)
  <2>1. PICK l \in Leagues : LeagueDeleted(l)
    BY <1>2
  <2>2. Players \X {l} \in SUBSET Memberships
    BY DEF Memberships
  <2> QED BY <2>1, <2>2, GoneOK DEF LeagueDeleted, IInv, TypeOK
<1> QED BY <1>1, <1>2

(* No step, nor a stutter, breaks the invariant.                            *)
LEMMA StepOK == ASSUME MembershipAssumption, IInv, [Next]_vars PROVE IInv'
<1>1. CASE UNCHANGED <<member, rated, waived, request>> /\ cooling' \in [Players -> BOOLEAN]
  <2>1. TypeOK'
    BY <1>1 DEF IInv, TypeOK
  <2>2. ReadOK' /\ \A l : Validated(l)' = Validated(l) /\ Passed(l)' = Passed(l)
    BY <1>1 DEF IInv, ReadOK, Of, Validated, Active, Passed
  <2>3. \A p : Entered(p)' = Entered(p) /\ Admitted(p)' = Admitted(p)
    BY <1>1, <2>2 DEF Entered, Admitted, Of
  <2> QED BY <2>1, <2>2, <2>3 DEF IInv, Room, OneLeague
<1>2. ASSUME NEW p \in Players, CooldownEnds(p)
      PROVE  IInv'
  BY <1>1, <1>2 DEF CooldownEnds, IInv, TypeOK
<1>3. CASE UNCHANGED vars
  BY <1>1, <1>3 DEF vars, IInv, TypeOK
<1>4. ASSUME NEW r \in Requests, Proceed(r)
      PROVE  IInv'
  BY <1>4, ReadPlayerOK, CheckCapacityOK, CheckLeaguesOK, CreateOK, EnterOK, AnswerOK DEF Proceed
<1> QED BY <1>2, <1>3, <1>4, ArriveOK, RefuseOK, DeletedOK DEF Next

-------------------------------------------------------------------------------
(* What the invariant says of the limits of leagues and players.            *)
LEMMA ExceedOK == ASSUME MembershipAssumption, IInv PROVE JoinsExceedByRaceOnly
<1>1. OverfullByRaceOnly
  BY Finite DEF IInv, Room, OverfullByRaceOnly, MembershipAssumption
<1>2. LeaguesByRaceOnly
  BY Finite DEF IInv, OneLeague, LeaguesByRaceOnly, Entered
<1> QED BY <1>1, <1>2 DEF JoinsExceedByRaceOnly

(* A row that changes is that of a request at its last step, unless it goes *)
(* with its player or its league.                                           *)
LEMMA RowChanges ==
  ASSUME MembershipAssumption, IInv, [Next]_vars, NEW m \in Memberships, member'[m] # member[m],
         \A players \in SUBSET Players : ~PlayersDeleted(players),
         \A l \in Leagues : ~LeagueDeleted(l)
  PROVE  \E r \in Requests :
           /\ ~At(r, "idle") /\ Of(r) = m /\ End(r)
           /\ \/ Reactivate(r) \/ Insert(r)
              \/ Left(r) \/ Approved(r) \/ Rejected(r) \/ Updated(r)
<1>1. PICK r \in Requests : \/ Reactivate(r) \/ Insert(r)
                            \/ Left(r) \/ Approved(r) \/ Rejected(r) \/ Updated(r)
  BY DEF Next, vars, Arrive, Join, Leave, Answer, Update, Proceed, ReadPlayer,
              CheckCapacity, CheckLeagues, Create, Refuse, CooldownEnds, Reads
<1>2. ~At(r, "idle")
  BY <1>1 DEF Reactivate, Insert, Left, Approved, Rejected, Updated, At
<1>3. PICK status : WriteStatus(r, status)
  BY <1>1 DEF Reactivate, Insert, Left, Approved, Rejected, Updated
<1>4. End(r) /\ Of(r) = m
  BY <1>3 DEF WriteStatus, IInv, TypeOK
<1> QED BY <1>1, <1>2, <1>4

(* What a deletion leaves of a row that it changes: of its player, or of    *)
(* its league, there is none left.                                          *)
LEMMA RowGoes ==
  ASSUME MembershipAssumption, IInv, NEW m \in Memberships, member'[m] # member[m],
         \/ \E players \in SUBSET Players : PlayersDeleted(players)
         \/ \E l \in Leagues : LeagueDeleted(l)
  PROVE  /\ member'[m] = "none"
         /\ \/ \A l \in Leagues : member'[<<m[1], l>>] = "none"
            \/ \A p \in Players : member'[<<p, m[2]>>] = "none"
<1>1. m[1] \in Players /\ m[2] \in Leagues /\ m = <<m[1], m[2]>>
  BY DEF Memberships
<1>2. ASSUME NEW gone, Gone(gone)
      PROVE  m \in gone /\ \A k \in Memberships : k \in gone => member'[k] = "none"
  BY <1>2 DEF Gone, IInv, TypeOK
<1>3. CASE \E players \in SUBSET Players : PlayersDeleted(players)
  <2>1. PICK players \in SUBSET Players : PlayersDeleted(players)
    BY <1>3
  <2>2. m \in players \X Leagues /\ \A k \in players \X Leagues : member'[k] = "none"
    BY <1>2, <2>1 DEF PlayersDeleted, Memberships
  <2> QED BY <1>1, <2>2
<1>4. CASE \E l \in Leagues : LeagueDeleted(l)
  <2>1. PICK l \in Leagues : LeagueDeleted(l)
    BY <1>4
  <2>2. m \in Players \X {l} /\ \A k \in Players \X {l} : member'[k] = "none"
    BY <1>2, <2>1 DEF LeagueDeleted, Memberships
  <2> QED BY <1>1, <2>2
<1> QED BY <1>3, <1>4

(* A step changes a terminal row only by an update, by a request that was   *)
(* in hand before the row was terminal, or with its player or league.       *)
LEMMA TerminalOK == ASSUME MembershipAssumption, IInv, [Next]_vars PROVE KeepsTerminal
<1> SUFFICES ASSUME NEW m \in Memberships, member[m] \in Terminal, member'[m] # member[m]
             PROVE  \/ \E r \in Requests :
                         /\ ~At(r, "idle") /\ Of(r) = m /\ End(r)
                         /\ \/ At(r, "update")
                            \/ Cardinality(Requests) > 1 /\ request[r].status \notin Terminal
                    \/ \A l \in Leagues : member'[<<m[1], l>>] = "none"
                    \/ \A p \in Players : member'[<<p, m[2]>>] = "none"
  BY DEF KeepsTerminal
<1>0. SUFFICES ASSUME \A players \in SUBSET Players : ~PlayersDeleted(players),
                      \A l \in Leagues : ~LeagueDeleted(l)
               PROVE  \E r \in Requests :
                        /\ ~At(r, "idle") /\ Of(r) = m /\ End(r)
                        /\ \/ At(r, "update")
                           \/ Cardinality(Requests) > 1 /\ request[r].status \notin Terminal
  BY RowGoes
<1>1. PICK r \in Requests :
        /\ ~At(r, "idle") /\ Of(r) = m /\ End(r)
        /\ \/ Reactivate(r) \/ Insert(r)
           \/ Left(r) \/ Approved(r) \/ Rejected(r) \/ Updated(r)
  BY <1>0, RowChanges
<1>2. CASE ~At(r, "update")
  <2>1. request[r].status \notin Terminal /\ (Cardinality(Requests) = 1 => member[m] = request[r].status)
    BY <1>1, <1>2 DEF IInv, ReadOK, At
  <2>2. Cardinality(Requests) # 0 /\ Cardinality(Requests) \in Nat
    BY FS_EmptySet, Finite DEF MembershipAssumption
  <2> QED BY <1>1, <2>1, <2>2
<1> QED BY <1>1, <1>2

(* A step makes a row active where approval is asked only by an approval,   *)
(* an update, or coming back.                                               *)
LEMMA ApprovalOK == ASSUME MembershipAssumption, IInv, [Next]_vars PROVE AsksApproval
<1> SUFFICES ASSUME NEW m \in Memberships, m[2] \in NeedsApproval,
                    member'[m] = "ACTIVE", member[m] # "ACTIVE"
             PROVE  \/ /\ member[m] \in Status \ {"none"}
                       /\ \E r \in Requests : At(r, "reactivate") /\ Of(r) = m
                    \/ \E r \in Requests : request[r].pc \in {"approve", "update"} /\ Of(r) = m /\ End(r)
  BY DEF AsksApproval
<1>0. /\ \A players \in SUBSET Players : ~PlayersDeleted(players)
      /\ \A l \in Leagues : ~LeagueDeleted(l)
  BY RowGoes
<1>1. PICK r \in Requests :
        /\ ~At(r, "idle") /\ Of(r) = m /\ End(r)
        /\ \/ Reactivate(r) \/ Insert(r)
           \/ Left(r) \/ Approved(r) \/ Rejected(r) \/ Updated(r)
  BY <1>0, RowChanges
<1>2. member[m] \in Status
  BY DEF IInv, TypeOK
<1>3. CASE Reactivate(r)
  BY <1>1, <1>2, <1>3 DEF Reactivate, At, IInv, ReadOK, HasRow
<1>4. CASE Insert(r) \/ Left(r) \/ Rejected(r)
  <2>1. PICK status \in LeagueMemberStatus \ {"ACTIVE"} : WriteStatus(r, status)
    BY <1>1, <1>4 DEF Insert, DetermineInitialStatus, Left, Rejected, LeagueMemberStatus
  <2> QED BY <1>1, <2>1 DEF WriteStatus, IInv, TypeOK
<1>5. CASE Approved(r) \/ Updated(r)
  BY <1>1, <1>5 DEF Approved, Updated, At
<1> QED BY <1>1, <1>3, <1>4, <1>5

-------------------------------------------------------------------------------
(* The results, for any players, leagues, settings and requests.            *)

(* The parts of the inductive invariant always hold.                        *)
THEOREM Invariant == ASSUME MembershipAssumption PROVE Spec => []IInv
<1>1. MembershipAssumption /\ Init => IInv
  BY InitOK
<1>2. MembershipAssumption /\ IInv /\ [Next]_vars => IInv'
  BY StepOK
<1> QED BY <1>1, <1>2, PTL DEF Spec

(* Types, and only a membership that exists is rated.                       *)
THEOREM TypeCorrect == ASSUME MembershipAssumption PROVE Spec => []TypeOK
<1>1. IInv => TypeOK
  BY DEF IInv
<1> QED BY <1>1, Invariant, PTL

(* A league is over its limit, and a player in more than one exclusive      *)
(* league, only by joins that raced each other: by fewer than are in hand.  *)
THEOREM ExceededByRaceOnly == ASSUME MembershipAssumption PROVE Spec => []JoinsExceedByRaceOnly
<1>1. MembershipAssumption /\ IInv => JoinsExceedByRaceOnly
  BY ExceedOK
<1> QED BY <1>1, Invariant, PTL

(* A ban goes by an update, by a request that was in hand before it, or     *)
(* with its player or league; and nobody becomes active where approval is   *)
(* asked but by an approval, an update, or coming back.                     *)
THEOREM StatusKept == ASSUME MembershipAssumption PROVE Spec => StatusByRule
<1>1. MembershipAssumption /\ IInv /\ [Next]_vars => [KeepsTerminal /\ AsksApproval]_vars
  BY TerminalOK, ApprovalOK
<1> QED BY <1>1, Invariant, PTL DEF Spec, StatusByRule
===============================================================================
