------------------------------- MODULE JoinRules -------------------------------
(***************************************************************************)
(* What LeagueJoinValidationService asks of a player before it counts: the  *)
(* refusals that LeagueMembership leaves open.  An application j has the    *)
(* league's settings, the player, his trackers and the set of calls that    *)
(* throw.  Trackers scraped at the same time, or never, are in any order.   *)
(***************************************************************************)
EXTENDS Integers, FiniteSets

Never == 1000   \* PostgreSQL puts null before every time in descending order

(* A limit, a date, a rating or a rank is a set of at most one.             *)

(* A tracker: [active, deleted, scraped, seasons], a season: [number,       *)
(* rating, rank].                                                           *)
Usable(j) == {t \in j.trackers : t.active /\ ~t.deleted}
WithData(j) == {t \in Usable(j) : t.seasons # {}}

(* Mutant: a deleted tracker counts. *)
FindBest_Deleted(j) ==
  LET among == {t \in j.trackers : t.active}
  IN  {t \in among : \A u \in among : u.scraped <= t.scraped}

(* findBestForUser: any of those scraped last that have data; else of those *)
(* without.                                                                 *)
FindBest(j) ==
  LET among == IF WithData(j) # {} THEN WithData(j) ELSE Usable(j)
  IN  {t \in among : \A u \in among : u.scraped <= t.scraped}

LatestSeason(t) == {s \in t.seasons : \A u \in t.seasons : u.number <= s.number}

(* The value the metric asks for, of the 2v2 playlist. *)
SkillOf(t, metric) ==
  UNION {CASE metric = "MMR" -> s.rating
           [] metric = "RANK" -> s.rank
           [] OTHER -> {} : s \in LatestSeason(t)}

-------------------------------------------------------------------------------
Works(j, call) == call \notin j.fails

(* validateSkillRequirements, by the tracker t; no requirement, no look.    *)
SkillSuffices(j, t) ==
  \A asked \in j.skill :
    \E value \in SkillOf(t, asked.metric) :
      (\A least \in asked.min : value >= least) /\ (\A most \in asked.max : value <= most)

(* validateRegistrationWindow *)
RegistrationOpen(j) ==
  /\ j.open
  /\ \A start \in j.start : j.now >= start
  /\ \A end \in j.end : j.now <= end

(* The end of validateJoin: only an invitation or an application may be     *)
(* refused for want of self-registration.                                   *)
MayRegister(j) == j.method \in {"INVITE_ONLY", "APPLICATION"} => j.selfRegistration

(* The tracker is looked up once to see whether there is one, and again for *)
(* what it says.                                                            *)
MayJoin(j) ==
  /\ Works(j, "settings") /\ Works(j, "player")
  /\ j.requireGuildMembership => Works(j, "membership") /\ j.member
  /\ j.requirePlayerStatus => j.status \notin {"BANNED", "SUSPENDED"}
  /\ j.requireTracker => Works(j, "tracker") /\ FindBest(j) # {}
  /\ j.skill # {} => Works(j, "tracker") /\ \E t \in FindBest(j) : SkillSuffices(j, t)
  /\ RegistrationOpen(j)
  /\ MayRegister(j)

-------------------------------------------------------------------------------
(* A skill requirement lets nobody in who could not show, on a tracker he   *)
(* still has, a latest season within it; and the tracker he is judged by is *)
(* the one scraped last of those with data, unless some that has data was   *)
(* never scraped to the end: that one then goes before all others.          *)
JoinersAreSkilled(j) ==
  MayJoin(j) => \A asked \in j.skill :
    \E t \in j.trackers :
      /\ t.active /\ ~t.deleted
      /\ \E s \in t.seasons :
           /\ \A u \in t.seasons : u.number <= s.number
           /\ asked.metric \in {"MMR", "RANK"}
           /\ \E value \in IF asked.metric = "MMR" THEN s.rating ELSE s.rank :
                ~(\E least \in asked.min : value < least) /\ ~(\E most \in asked.max : value > most)
      /\ \A u \in j.trackers :
           u.active /\ ~u.deleted /\ u.seasons # {} =>
             u.scraped <= t.scraped \/ u.scraped = Never

(* No check is passed because a call it rests on failed.                    *)
JoinFailsClosed(j) ==
  MayJoin(j) =>
    /\ {"settings", "player"} \cap j.fails = {}
    /\ j.requireGuildMembership => "membership" \notin j.fails
    /\ j.requireTracker \/ j.skill # {} => "tracker" \notin j.fails
===============================================================================
