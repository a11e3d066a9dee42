------------------------------- MODULE Listings -------------------------------
(***************************************************************************)
(* The lists the repositories answer with, page by page, and what a client  *)
(* sees who walks through one while the table changes.  Every page is a     *)
(* query of its own: the table is that of its moment, and PostgreSQL orders *)
(* rows of one key as it likes, each time anew.                             *)
(***************************************************************************)
EXTENDS Integers, FiniteSets

CONSTANT MaxLimit   \* what Math.min caps a page at (100)

ASSUME ListingsAssumption == MaxLimit \in Nat \ {0}

(* A row: of is what the path names, status stands for whatever else is     *)
(* asked for, created is the key of most lists, touched that of the lists   *)
(* that may be sorted by a time an update moves.  A query: of, statuses ({} *)
(* for all), sort, descending, page and limit as the client gave them.      *)
Of(t, q) == {r \in t : r.of = q.of}
With(t, q) == {r \in t : q.statuses = {} \/ r.status \in q.statuses}

Smaller(m, n) == IF m < n THEN m ELSE n

-------------------------------------------------------------------------------
(* Mutant: pages are counted from nought. *)
Paged_FromZero(q) == [skip |-> q.page * q.limit, take |-> Smaller(q.limit, MaxLimit)]

(* Most lists: the page asked for is skipped whole, though only MaxLimit    *)
(* rows of each are shown.                                                  *)
Paged(q) == [skip |-> (q.page - 1) * q.limit, take |-> Smaller(q.limit, MaxLimit)]

(* Those that cap the limit before they use it, and those that never do, be *)
(* it a page or an offset they are asked for.                               *)
CappedFirst(q) ==
  LET limit == Smaller(q.limit, MaxLimit)
  IN  [skip |-> (q.page - 1) * limit, take |-> limit]

Uncapped(q) == [skip |-> (q.page - 1) * q.limit, take |-> q.limit]

(* getAuditLogs caps the limit and not the offset the client has counted.   *)
GetAuditLogs(q) == [skip |-> (q.page - 1) * q.limit, take |-> Smaller(q.limit, MaxLimit)]

(* A list: its rows, what they are ordered by, and the part of them.        *)
List(rows, by, part) == [rows |-> rows, by |-> by, descending |-> TRUE, part |-> part]
Sorted(rows, q, part) == [rows |-> rows, by |-> q.sort, descending |-> q.descending, part |-> part]

-------------------------------------------------------------------------------
AllGuilds(t, q) == List({r \in t : r.status = "A"}, "created", Paged(q))
AllUsers(t, q) == List(t, "created", Paged(q))
AllTeams(t, q) == List(t, "created", Paged(q))
AllTeamMembers(t, q) == List(t, "created", Paged(q))
AllOrganizations(t, q) == List(t, "created", Paged(q))
AllPlayers(t, q) == List(t, "created", Paged(q))
AllLeagueMembers(t, q) == List(t, "created", Paged(q))
AllGuildMembers(t, q) == List(t, "created", Paged(q))
AllMatches(t, q) == List(t, "created", CappedFirst(q))
AllTournaments(t, q) == List(t, "created", CappedFirst(q))
AllParticipants(t, q) == List(t, "none", CappedFirst(q))

Leagues(t, q) == List(With(Of(t, q), q), "created", Paged(q))
PlayersOfGuild(t, q) == Sorted(With(Of(t, q), q), q, Paged(q))
PlayersOfUser(t, q) == Sorted(With(Of(t, q), q), q, Paged(q))
MembersOfLeague(t, q) == Sorted(With(Of(t, q), q), q, Paged(q))
MembershipsOfPlayer(t, q) == Sorted(With(Of(t, q), q), q, Paged(q))
MembersOfGuild(t, q) == List(Of(t, q), "created", Paged(q))
SearchMembers(t, q) == List(With(Of(t, q), q), "created", Uncapped(q))
TrackersOfUser(t, q) == Sorted(With(Of(t, q), q), q, CappedFirst(q))
TrackersForAdmin(t, q) == List(With(t, q), "created", Uncapped(q))
ScrapingLogs(t, q) == List(With(Of(t, q), q), "created", Uncapped(q))

AuditOfUser(t, q) == List(With(Of(t, q), q), "created", Uncapped(q))
AuditOfBot(t, q) == List(With(Of(t, q), q), "created", Uncapped(q))
AuditOfResource(t, q) == List(With(Of(t, q), q), "created", Uncapped(q))
AuditLogs(t, q) == List(With(Of(t, q), q), "created", Uncapped(q))
ActivityLogs(t, q) == List(With(Of(t, q), q), "created", GetAuditLogs(q))

ListOf(name, t, q) ==
  CASE name = "guilds" -> AllGuilds(t, q)
    [] name = "users" -> AllUsers(t, q)
    [] name = "teams" -> AllTeams(t, q)
    [] name = "team members" -> AllTeamMembers(t, q)
    [] name = "organizations" -> AllOrganizations(t, q)
    [] name = "players" -> AllPlayers(t, q)
    [] name = "league members" -> AllLeagueMembers(t, q)
    [] name = "guild members" -> AllGuildMembers(t, q)
    [] name = "matches" -> AllMatches(t, q)
    [] name = "tournaments" -> AllTournaments(t, q)
    [] name = "participants" -> AllParticipants(t, q)
    [] name = "leagues of guild" -> Leagues(t, q)
    [] name = "players of guild" -> PlayersOfGuild(t, q)
    [] name = "players of user" -> PlayersOfUser(t, q)
    [] name = "members of league" -> MembersOfLeague(t, q)
    [] name = "memberships" -> MembershipsOfPlayer(t, q)
    [] name = "members of guild" -> MembersOfGuild(t, q)
    [] name = "search" -> SearchMembers(t, q)
    [] name = "trackers of user" -> TrackersOfUser(t, q)
    [] name = "trackers" -> TrackersForAdmin(t, q)
    [] name = "scraping logs" -> ScrapingLogs(t, q)
    [] name = "audit of user" -> AuditOfUser(t, q)
    [] name = "audit of bot" -> AuditOfBot(t, q)
    [] name = "audit of resource" -> AuditOfResource(t, q)
    [] name = "audit logs" -> AuditLogs(t, q)
    [] name = "activity" -> ActivityLogs(t, q)

ListNames ==
  {"guilds", "users", "teams", "team members", "organizations", "players", "league members",
   "guild members", "matches", "tournaments", "participants", "leagues of guild",
   "players of guild", "players of user", "members of league", "memberships",
   "members of guild", "search", "trackers of user", "trackers", "scraping logs",
   "audit of user", "audit of bot", "audit of resource", "audit logs", "activity"}

-------------------------------------------------------------------------------
(* A walk: the name of the list, the query but for the page, the table at   *)
(* each page and the rank PostgreSQL gives a row among those of one key.    *)
AtPage(w, n) == ListOf(w.list, w.tables[n], [w.query EXCEPT !.page = n])

Key(l, r) == IF l.by = "none" THEN 0 ELSE r[l.by]
Ahead(l, a, b) == IF l.descending THEN Key(l, a) > Key(l, b) ELSE Key(l, a) < Key(l, b)
Tied(l, a, b) == a # b /\ Key(l, a) = Key(l, b)

Showing(w, n) ==
  LET l == AtPage(w, n)
      Before(a, b) == Ahead(l, a, b) \/ (Tied(l, a, b) /\ w.ranks[n][a.id] < w.ranks[n][b.id])
      Place(r) == Cardinality({x \in l.rows : Before(x, r)})
  IN  {r \in l.rows : l.part.skip <= Place(r) /\ Place(r) < l.part.skip + l.part.take}

(* The client asks for pages until those he has been told of are shown.     *)
Shown(w, n) == n * AtPage(w, n).part.take >= Cardinality(AtPage(w, n).rows)
Walked(w) == {n \in DOMAIN w.tables : \A m \in 1..n - 1 : ~Shown(w, m)}
Seen(w, r) == {n \in Walked(w) : r \in Showing(w, n)}

Stays(w, r) == \A n \in Walked(w) : r \in AtPage(w, n).rows
AheadOf(w, n, r) == {x.id : x \in {y \in AtPage(w, n).rows : Ahead(AtPage(w, n), y, r)}}
TiedEver(w, r) == \E n \in Walked(w) : \E x \in AtPage(w, n).rows : Tied(AtPage(w, n), x, r)

(* The lists that lose nothing to their cap. *)
CapFree == {"matches", "tournaments", "participants", "search", "trackers of user", "trackers",
            "scraping logs", "audit of user", "audit of bot", "audit of resource", "audit logs"}
OverCap(w) == w.query.limit > MaxLimit /\ w.list \notin CapFree

(* A row that is in the list all along is missed only if one ahead of it    *)
(* goes or falls behind, if another has the same key, or if the client asks *)
(* for more than a page may hold; and is seen twice only if one comes ahead *)
(* of it or has the same key.                                               *)
WalkSees(w) ==
  \A r \in AtPage(w, 1).rows : Stays(w, r) =>
    LET steps == {n \in Walked(w) : n + 1 \in Walked(w)}
    IN  /\ Seen(w, r) = {} =>
             \/ OverCap(w) \/ TiedEver(w, r)
             \/ \E n \in steps : ~(AheadOf(w, n, r) \subseteq AheadOf(w, n + 1, r))
        /\ Cardinality(Seen(w, r)) > 1 =>
             \/ TiedEver(w, r)
             \/ \E n \in steps : ~(AheadOf(w, n + 1, r) \subseteq AheadOf(w, n, r))
===============================================================================
