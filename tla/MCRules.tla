------------------------------- MODULE MCRules -------------------------------
(***************************************************************************)
(* The modules without state, each over a bounded set of inputs: input is   *)
(* first empty, and then one input of one of them.                          *)
(***************************************************************************)
EXTENDS AccessControl, Listings, MmrRules, ScraperRules, TrackerUrls

VARIABLE input

JR == INSTANCE JoinRules

ASSUME RulesAssumption == {"ra", "rb"} \subseteq Roles /\ ScraperRetries <= 1

-------------------------------------------------------------------------------
(* Worlds in which the guild's administrators, and those in which the       *)
(* league's are looked for.  Bounds: two roles, one retry, two failures.    *)
Answer(status, permissions) ==
  [status |-> status, roles |-> {"ra"}, permissions |-> permissions]
Object(r) == [format |-> "object", id |-> r]
String(r) == [format |-> "string", id |-> r]
Plain ==
  [fails |-> {}, stored |-> TRUE, configured |-> <<Object("ra")>>, existing |-> Roles,
   roles |-> {"ra"}, caller |-> "user", target |-> "other", route |-> "user", jwt |-> TRUE, apiKey |-> FALSE,
   token |-> TRUE, discord |-> <<Answer(200, {}), Answer(404, {})>>, guild |-> TRUE, row |-> TRUE,
   league |-> TRUE, player |-> TRUE, member |-> [status |-> "ACTIVE", role |-> "MEMBER"],
   organization |-> TRUE, managers |-> {"user"}, shared |-> {}, systemAdmins |-> {}]
Guild == [f \in {"fails", "stored", "configured", "existing", "roles"} |-> Plain[f]]

Lists == {<<>>, <<Object("ra")>>, <<Object("ra"), Object("rb")>>, <<String("rb"), String("ra")>>,
          <<String("ra"), Object("rb")>>}
Failures(calls) == {f \in SUBSET calls : Cardinality(f) <= 2}

GuildWorld(t, l, e, r, a, f) ==
  [Plain EXCEPT !.token = t, !.discord = <<a, Answer(404, {})>>, !.stored = l # <<>>,
                !.configured = l, !.existing = e, !.row = r # {"none"}, !.roles = r \ {"none"},
                !.fails = f]
GuildWorlds ==
  {GuildWorld(t, l, e, r, a, f) :
     t \in BOOLEAN, l \in Lists, e \in SUBSET Roles, r \in SUBSET Roles \cup {{"none"}},
     a \in {Answer(200, {}), Answer(200, {"ADMINISTRATOR"}), Answer(401, {}), Answer(500, {})},
     f \in Failures({"token", "settings", "membership", "createMembership", "exists",
                     "validateRole", "audit"})}

LeagueWorld(g, p, s, r, m, f) ==
  [Plain EXCEPT !.league = g, !.player = p, !.member = [status |-> s, role |-> m], !.roles = r,
                !.fails = f]
LeagueWorlds ==
  {LeagueWorld(g, p, s, r, m, f) :
     g \in BOOLEAN, p \in BOOLEAN, s \in {"none", "ACTIVE", "BANNED"}, r \in SUBSET Roles,
     m \in {"MEMBER", "MODERATOR", "ADMIN"},
     f \in Failures({"league", "guild", "player", "leagueMember", "membership", "settings"})}

(* Organizations, resources, trackers of others, and the two ways in.       *)
SharedGuild(s, e, f) == [Guild EXCEPT !.stored = s, !.existing = e, !.fails = f]
OtherWorld(c, t, r, j, k, s, e, m, f) ==
  [Plain EXCEPT !.caller = c, !.target = t, !.route = r, !.jwt = j, !.apiKey = k, !.fails = f,
                !.organization = m # {"gone"}, !.managers = m \ {"gone"},
                !.systemAdmins = {"other"}, !.shared = {SharedGuild(s, e, f)}]
BotWorld(k, m, f) ==
  [Plain EXCEPT !.caller = "bot", !.route = "bot only", !.token = FALSE, !.row = FALSE,
                !.roles = {}, !.player = FALSE, !.apiKey = k, !.managers = m, !.fails = f]
OtherWorlds ==
  {OtherWorld(c, t, r, j, k, s, e, m, f) :
     c \in {"user", "other"}, t \in {"user", "other"}, r \in {"user", "public"}, j \in BOOLEAN,
     k \in BOOLEAN, s \in BOOLEAN, e \in {{}, Roles}, m \in {{}, {"gone"}, {"user"}, {"other"}},
     f \in Failures({"membership", "settings", "validateRole", "managers", "countManagers"})}
  \cup
  {BotWorld(k, m, f) :
     k \in BOOLEAN, m \in {{}, {"user"}}, f \in Failures({"managers", "countManagers"})}

-------------------------------------------------------------------------------
(* Applications: two trackers of every kind under each requirement, and     *)
(* one good tracker under whatever else may refuse.                         *)
NewOrOld(old, new) ==
  {[number |-> 1, rating |-> {old}, rank |-> {}], [number |-> 2, rating |-> {new}, rank |-> {1}]}
Tracker(a, d, t, s) == [active |-> a, deleted |-> d, scraped |-> t, seasons |-> s]
Trackers ==
  {Tracker(s # "off", s = "deleted", t, h) :
     s \in {"on", "off", "deleted"}, t \in {1, 2, JR!Never},
     h \in {{}, NewOrOld(1, 3), NewOrOld(3, 1)}}
Skill(metric, min, max) == [metric |-> metric, min |-> min, max |-> max]
Requirements ==
  {{}} \cup {{Skill(m, l, h)} : m \in {"MMR", "RANK", "ELO", "CUSTOM"},
                              l \in {{}, {2}}, h \in {{}, {2}}}
Application ==
  [fails |-> {}, requireGuildMembership |-> TRUE, requirePlayerStatus |-> TRUE,
   requireTracker |-> TRUE, skill |-> {}, open |-> TRUE, start |-> {}, end |-> {}, now |-> 2,
   method |-> "OPEN", selfRegistration |-> TRUE, member |-> TRUE, status |-> "ACTIVE",
   trackers |-> {Tracker(TRUE, FALSE, 1, NewOrOld(1, 3))}]

Judged(t, u, k, r) ==
  [Application EXCEPT !.trackers = {t, u}, !.skill = k, !.requireTracker = r]
Refused(g, m, p, s, o, w, j, k, f) ==
  [Application EXCEPT !.requireGuildMembership = g, !.member = m, !.requirePlayerStatus = p,
                      !.status = s, !.open = o, !.start = w[1], !.end = w[2], !.method = j,
                      !.selfRegistration = o, !.skill = k, !.fails = f]
Applications ==
  {Judged(t, u, k, r) : t \in Trackers, u \in Trackers, k \in Requirements, r \in BOOLEAN}
  \cup
  {Refused(g, m, p, s, o, w, j, k, f) :
     g \in BOOLEAN, m \in BOOLEAN, p \in BOOLEAN, s \in {"ACTIVE", "BANNED"}, o \in BOOLEAN,
     w \in {<<{}, {}>>, <<{2}, {2}>>, <<{3}, {}>>, <<{}, {1}>>}, j \in {"OPEN", "INVITE_ONLY"},
     k \in {{}, {Skill("MMR", {}, {})}},
     f \in Failures({"settings", "player", "membership", "tracker"})}

-------------------------------------------------------------------------------
(* Ratings: two seasons of a tracker, weights, a least number of games.     *)
Rating(mmr, games, peak) == [mmr |-> mmr, games |-> games, peak |-> peak]
Ratings == {Rating(Absent, 5, Absent), Rating(3, 60, Absent), Rating(7, 1, 8), Rating(4, Absent, 5)}
Season(n, r) == [seasonNumber |-> n, playlists |-> r]
Config(v, w, g, c, k) ==
  [algorithm |-> "WEIGHTED_AVERAGE", weights |-> w, minGames |-> [p \in Playlists |-> g],
   current |-> c, peak |-> k,
   formula |-> [variables |-> v, atTestData |-> 5, at |-> Absent + g]]
Configs ==
  {Config(v, w, g, c, k) :
     v \in {{"ones"}, {"ones", "onesPeak"}},
     w \in {[p \in Playlists |-> 1], [p \in Playlists |-> IF p = "twos" THEN 2 ELSE 0]},
     g \in {0, 60}, c \in {0, 1}, k \in {0, 3}}

-------------------------------------------------------------------------------
(* Scrapes: the profile's page, and what the tries for each season get.     *)
Segment(t, s, p, r, k, v) ==
  [type |-> t, season |-> s, playlist |-> p, rating |-> r, peak |-> k, valid |-> v]
FullPage(n) ==
  <<Segment("playlist", n, 1, n, n, TRUE), Segment("playlist", n, 10, 10 + n, None, TRUE),
    Segment("peak-rating", n, 1, None, 20, TRUE)>>
MixedPage(n) ==
  <<Segment("playlist", n, 2, n, n, FALSE), Segment("playlist", n - 1, 1, 50, n, TRUE)>>
Page(segments, status, page, arrays) ==
  [kind |-> "answer", status |-> status, page |-> page, arrays |-> arrays, segments |-> segments,
   available |-> <<>>, current |-> None]
Lost == [kind |-> "error"]
Tries(n) == <<<<Lost, Page(FullPage(n), "ok", "JSON", TRUE)>>, <<Page(MixedPage(n), "no status", "JSON", TRUE)>>,
              <<Lost, Lost>>, <<Page(<<>>, "error", "JSON", TRUE)>>, <<Page(<<>>, "ok", "no JSON", TRUE)>>,
              <<Page(<<>>, "ok", "JSON", FALSE)>>>>
(* What a profile lists, in and out of order, with seasons listed twice.    *)
ProfileLists == {<<>>, <<3>>, <<1, 2>>, <<1, 2, 3>>, <<3, 2, 2>>, <<2, 1, 2>>, <<2, 2, 2>>, <<3, 1, 3>>}

-------------------------------------------------------------------------------
(* Walks through a list of three rows, with one change between two pages;   *)
(* rows of one key are ordered in one way before it and in another after.   *)
Row(id, of, status, key) ==
  [id |-> id, of |-> of, status |-> status, created |-> key, touched |-> key]
Table(o, k) == {Row(1, "a", "A", k[1]), Row(2, o[1], "A", k[2]), Row(3, "a", o[2], k[3])}
Tables ==
  {Table(o, k) : o \in {<<"a", "A">>, <<"b", "A">>, <<"a", "B">>}, k \in {<<2, 3, 4>>, <<3, 3, 2>>}}
Touched(r, s) == [r EXCEPT !.touched = 6, !.status = s]
Changed(t) ==
  {t \ {r} : r \in t} \cup {t \cup {Row(4, "a", "A", k)} : k \in {1, 5}}
  \cup {(t \ {r}) \cup {Touched(r, s)} : r \in t, s \in {"A", "B"}}
Queries ==
  [of : {"a"}, statuses : {{}, {"A"}}, sort : {"created", "touched"}, descending : BOOLEAN,
   page : {1}, limit : 1..MaxLimit + 1]
WalkOf(name, q, t, u, n, turned) ==
  [list |-> name, query |-> q,
   tables |-> [m \in 1..4 |-> IF m <= n THEN t ELSE u],
   ranks |-> [m \in 1..4 |-> [id \in 1..4 |-> IF turned /\ m > n THEN 0 - id ELSE id]]]

-------------------------------------------------------------------------------
Nothing == [rule |-> "none"]

Init == input = Nothing

Access == \E w \in GuildWorlds \cup LeagueWorlds \cup OtherWorlds :
            input' = [rule |-> "access", world |-> w]

Join == \E j \in Applications : input' = [rule |-> "join", application |-> j]

Mmr ==
  \E config \in Configs, old \in Ratings, new \in [Playlists -> Ratings] :
    input' = [rule |-> "mmr", config |-> config,
              seasons |-> {Season(1, [p \in Playlists |-> old]), Season(2, new)}]

Scrape ==
  \E available \in ProfileLists, current \in {0, 3, 4}, max \in {0, 2}, f \in [1..3 -> 1..6],
     own \in BOOLEAN :
    input' = [rule |-> "scrape", max |-> max,
              answers |-> [i \in DOMAIN available |-> Tries(available[i])[f[i]]],
              base |-> [failed |-> FALSE, available |-> available, current |-> current,
                        segments |-> IF own THEN FullPage(current) ELSE MixedPage(current)]]

Address == \E u \in Url : input' = [rule |-> "address", url |-> u]

(* A walk is chosen in two steps, its list first. *)
ChooseList ==
  \E name \in ListNames, q \in Queries :
    input' = [rule |-> "list", list |-> name, query |-> q]

Walk ==
  \E t \in Tables, n \in {1, 2}, turned \in BOOLEAN :
    \E u \in {t} \cup Changed(t) :
      input' = [rule |-> "walk", walk |-> WalkOf(input.list, input.query, t, u, n, turned)]

Next ==
  \/ input = Nothing /\ (Access \/ Join \/ Mmr \/ Scrape \/ Address \/ ChooseList)
  \/ input.rule = "list" /\ Walk

Spec == Init /\ [][Next]_input

-------------------------------------------------------------------------------
(* FailsClosed, JoinFailsClosed: no guard lets anybody in because a call    *)
(* failed, and no league takes him for that.                                *)
Closed ==
  /\ input.rule = "access" => FailsClosed(input.world)
  /\ input.rule = "join" => JR!JoinFailsClosed(input.application)

(* GrantsAreDue, JoinersAreSkilled: whoever a guard lets in, or a league    *)
(* that asks for skill, is entitled to it; AuditTells: the audit log tells  *)
(* what a guard did.                                                        *)
Due ==
  /\ input.rule = "access" => GrantsAreDue(input.world) /\ AuditTells(input.world)
  /\ input.rule = "join" => JR!JoinersAreSkilled(input.application)

(* RatingWithin, EachGuildRated: a rating lies among the ratings it is made *)
(* of, and each guild of a user has one, whatever ails the others.          *)
Within ==
  input.rule = "mmr" => /\ RatingWithin(input.seasons, input.config)
                        /\ EachGuildRated(input.seasons, input.config)

(* SeasonsAsAsked: a scrape returns the seasons it was to return.           *)
AsAsked == input.rule = "scrape" => SeasonsAsAsked(input.base, input.answers, input.max)

(* AcceptedConverts: the scraper can use every URL a registration accepts.  *)
Converts == input.rule = "address" => AcceptedConverts(input.url)

(* WalkSees: a client who pages through a list sees every row that stays,   *)
(* once, unless rows ahead of it come or go or share its key.               *)
Sees == input.rule = "walk" => WalkSees(input.walk)
=============================================================================
