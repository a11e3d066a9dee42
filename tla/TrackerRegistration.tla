-------------------------- MODULE TrackerRegistration --------------------------
(***************************************************************************)
(* How a user comes to have trackers: registerTrackers and addTracker of    *)
(* TrackerProcessingService, with the rows as TrackerService keeps them.    *)
(* A request counts, checks and creates in calls of its own, and no lock    *)
(* spans them; only the unique index on the URL does.  What becomes of a    *)
(* created tracker is the matter of TrackerEnqueue: enqueueing never fails  *)
(* the request.                                                             *)
(***************************************************************************)
EXTENDS Naturals, Sequences, FiniteSets

CONSTANTS
  Users, Requests,
  Urls,         \* what may be sent, spelling for spelling
  Accepted,     \* those that are well-formed
  MaxTrackers,  \* 4 in the code
  NoUser

RegistrationAssumption ==
  /\ Accepted \subseteq Urls /\ MaxTrackers \in Nat \ {0} /\ NoUser \notin Users

VARIABLES
  user,      \* the users there are
  owner,     \* owner[l]: whose tracker has URL l, or NoUser
  deleted,   \* the URLs of trackers that are soft-deleted
  request,   \* request[r]: where it stands and the URLs it has left
  raced,     \* history: users of whom two requests were past the count at once
  contested  \* history: requests one of whose URLs another has taken meanwhile

vars == <<user, owner, deleted, request, raced, contested>>

-------------------------------------------------------------------------------
Idle == [pc |-> "idle"]
Step == {"ensure", "count", "unique", "create"}

At(r, pc) == request[r].pc = pc
Goto(r, pc) == request' = [request EXCEPT ![r] = [@ EXCEPT !.pc = pc]]
End(r) == request' = [request EXCEPT ![r] = Idle] /\ contested' = contested \ {r}

Taken(l) == owner[l] # NoUser
Trackers(u) == {l \in Urls : owner[l] = u /\ l \notin deleted}
Listed(urls) == {urls[i] : i \in 1..Len(urls)}

Init ==
  /\ user = {}
  /\ owner = [l \in Urls |-> NoUser]
  /\ deleted = {} /\ raced = {} /\ contested = {}
  /\ request = [r \in Requests |-> Idle]

-------------------------------------------------------------------------------
(* The bot asks to register some URLs, or to add one.                       *)
Ask(r, u, urls, add) ==
  /\ At(r, "idle")
  /\ request' = [request EXCEPT ![r] = [pc |-> "ensure", of |-> u, urls |-> urls, add |-> add]]
  /\ UNCHANGED <<user, owner, deleted, raced, contested>>

(* ensureUserExists: upserted. *)
EnsureUser(r) ==
  /\ At(r, "ensure") /\ Goto(r, "count")
  /\ user' = user \cup {request[r].of}
  /\ UNCHANGED <<owner, deleted, raced, contested>>

(* Mutant: one too many is let through. *)
WithinLimit_OffByOne(r) ==
  Cardinality(Trackers(request[r].of)) <= (IF request[r].add THEN MaxTrackers ELSE 0)

(* Who registers may have none yet; who adds, fewer than the limit.         *)
WithinLimit(r) ==
  Cardinality(Trackers(request[r].of)) < (IF request[r].add THEN MaxTrackers ELSE 1)

PastCount(q) == request[q].pc \in {"unique", "create"}

Count(r) ==
  /\ At(r, "count")
  /\ \/ WithinLimit(r) /\ Goto(r, "unique") /\ UNCHANGED contested
     \/ ~WithinLimit(r) /\ End(r)
  /\ raced' = IF WithinLimit(r) /\ \E q \in Requests \ {r} : PastCount(q) /\ request[q].of = request[r].of
              THEN raced \cup {request[r].of} ELSE raced
  /\ UNCHANGED <<user, owner, deleted>>

(* Mutant: the URL of a tracker that was removed is free. *)
Unique_ButDeleted(l) == ~Taken(l) \/ l \in deleted

(* checkUrlUniqueness and its batch: a removed tracker keeps its URL.       *)
Unique(l) == ~Taken(l)

(* validateTrackerUrls: 1 to MaxTrackers, none twice, none registered, and  *)
(* all of them well-formed.                                                 *)
Valid(urls) ==
  /\ Len(urls) \in 1..MaxTrackers /\ Cardinality(Listed(urls)) = Len(urls)
  /\ \A l \in Listed(urls) : Unique(l) /\ l \in Accepted

Validate(r) ==
  /\ At(r, "unique")
  /\ \/ Valid(request[r].urls) /\ Goto(r, "create") /\ UNCHANGED contested
     \/ ~Valid(request[r].urls) /\ End(r)
  /\ UNCHANGED <<user, owner, deleted, raced>>

(* One row after the other; a URL that is taken by now, or a user who is    *)
(* gone, ends the request, and what it has created stays.                   *)
Create(r) ==
  /\ At(r, "create")
  /\ LET url == Head(request[r].urls)
         rest == Tail(request[r].urls)
         meets(q) == q # r /\ At(q, "create") /\ url \in Listed(request[q].urls)
     IN  IF Taken(url) \/ request[r].of \notin user
         THEN End(r) /\ UNCHANGED owner
         ELSE /\ owner' = [owner EXCEPT ![url] = request[r].of]
              /\ contested' = (contested \cup {q \in Requests : meets(q)}) \
                                (IF rest = <<>> THEN {r} ELSE {})
              /\ request' = [request EXCEPT ![r] =
                               IF rest = <<>> THEN Idle ELSE [request[r] EXCEPT !.urls = rest]]
  /\ UNCHANGED <<user, deleted, raced>>

Fail(r) ==
  /\ ~At(r, "idle") /\ End(r)
  /\ UNCHANGED <<user, owner, deleted, raced>>

(* deleteTracker: soft, whatever its state. *)
DeleteTracker(l) ==
  /\ Taken(l) /\ deleted' = deleted \cup {l}
  /\ UNCHANGED <<user, owner, request, raced, contested>>

(* The user is deleted, with all his rows. *)
DeleteUser(u) ==
  /\ u \in user /\ user' = user \ {u}
  /\ owner' = [l \in Urls |-> IF owner[l] = u THEN NoUser ELSE owner[l]]
  /\ deleted' = {l \in deleted : owner[l] # u}
  /\ UNCHANGED <<request, raced, contested>>

Lists == UNION {[1..n -> Urls] : n \in 0..MaxTrackers}

Next ==
  \/ \E r \in Requests :
       \/ \E u \in Users : \/ \E urls \in Lists : Ask(r, u, urls, FALSE)
                           \/ \E l \in Urls : Ask(r, u, <<l>>, TRUE)
       \/ EnsureUser(r) \/ Count(r) \/ Validate(r) \/ Create(r) \/ Fail(r)
  \/ \E l \in Urls : DeleteTracker(l)
  \/ \E u \in Users : DeleteUser(u)

Spec == Init /\ [][Next]_vars

-------------------------------------------------------------------------------
TypeOK ==
  /\ user \subseteq Users /\ raced \subseteq Users /\ contested \subseteq Requests
  /\ owner \in [Urls -> Users \cup {NoUser}]
  /\ deleted \subseteq {l \in Urls : Taken(l)}
  /\ \A l \in Urls : Taken(l) => owner[l] \in user /\ l \in Accepted
  /\ \A r \in Requests : request[r].pc \in {"idle"} \cup Step
  /\ \A r \in contested : At(r, "create")

(* The limit the bot is told is exceeded only by a user of whom two         *)
(* requests had counted before either of them was done creating.            *)
LimitByRaceOnly ==
  \A u \in Users \ raced : Cardinality(Trackers(u)) <= MaxTrackers

(* A registration stops midway, and leaves some trackers without the others *)
(* (so that the next one is refused), only if another request has taken a   *)
(* URL of it since it was validated, or a call fails: what the validation   *)
(* calls free, the unique index does not refuse.                            *)
StoppedByRaceOnly ==
  \A r \in Requests \ contested :
    At(r, "create") => \A l \in Listed(request[r].urls) : ~Taken(l)
===============================================================================
