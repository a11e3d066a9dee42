------------------------------ MODULE RulesProofs ------------------------------
(***************************************************************************)
(* Proofs about the modules without state: what MCRules checks of bounded   *)
(* inputs holds of every input of their form.                               *)
(***************************************************************************)
EXTENDS MCRules, FiniteSetTheorems, WellFoundedInduction, TLAPS

-------------------------------------------------------------------------------
(* A finite set of numbers that is not empty has a least one.               *)
LEMMA LeastExists ==
  ASSUME NEW S \in SUBSET Int, IsFiniteSet(S), S # {}
  PROVE  \E x \in S : \A y \in S : x <= y
<1> DEFINE Upto(x) == {y \in S : y <= x}
           T == {Upto(x) : x \in S}
           R == StrictSubsetOrdering(S)
<1>1. IsWellFoundedOn(R, FiniteSubsetsOf(S))
  BY FS_StrictSubsetOrderingWellFounded
<1>2. T \subseteq FiniteSubsetsOf(S) /\ T # {}
  <2>1. FiniteSubsetsOf(S) = SUBSET S
    BY FS_FiniteSubsetsOfFinite
  <2>2. \A x \in S : Upto(x) \in SUBSET S
    OBVIOUS
  <2>3. T \subseteq SUBSET S /\ T # {}
    <3> HIDE DEF Upto
    <3> QED BY <2>2
  <2> QED BY <2>1, <2>3
<1>3. \E t \in T : \A u \in T : ~(<<u, t>> \in R)
  <2> HIDE DEF T, R
  <2> QED BY <1>1, <1>2, WFMin
<1>4. PICK x \in S : \A u \in T : ~(<<u, Upto(x)>> \in R)
  BY <1>3
<1>5. ASSUME NEW y \in S, y < x PROVE FALSE
  <2>1. ~(<<Upto(y), Upto(x)>> \in R)
    BY <1>4
  <2>2. x \in Int /\ y \in Int /\ \A z \in S : z \in Int
    OBVIOUS
  <2>3. \A z \in S : z <= y => z <= x
    BY <1>5, <2>2
  <2>4. x <= x /\ ~(x <= y)
    BY <1>5, <2>2
  <2>5. Upto(y) \subseteq Upto(x)
    BY <2>3
  <2>6. x \in Upto(x) /\ x \notin Upto(y)
    BY <2>4
  <2>7. Upto(y) \in SUBSET S /\ Upto(x) \in SUBSET S
    OBVIOUS
  <2> HIDE DEF Upto
  <2>8. <<Upto(y), Upto(x)>> \in R
    BY <2>5, <2>6, <2>7 DEF StrictSubsetOrdering
  <2> QED BY <2>1, <2>8
<1>6. \A y \in S : x <= y
  <2>1. x \in Int /\ \A z \in S : z \in Int
    OBVIOUS
  <2> QED BY <2>1, <1>5
<1> QED BY <1>6


(* Min of such a set is that number.                                        *)
LEMMA LeastIs ==
  ASSUME NEW S \in SUBSET Int, IsFiniteSet(S), S # {}
  PROVE  Min(S) \in S /\ \A y \in S : Min(S) <= y
BY LeastExists DEF Min

(* It has a greatest one too: the least of its negatives, negated.          *)
LEMMA GreatestExists ==
  ASSUME NEW S \in SUBSET Int, IsFiniteSet(S), S # {}
  PROVE  \E x \in S : \A y \in S : x >= y
<1> DEFINE T == {0 - y : y \in S}
<1>1. T \in SUBSET Int /\ T # {}
  <2>1. \A y \in S : y \in Int /\ 0 - y \in Int
    OBVIOUS
  <2>2. \A y \in S : 0 - y \in T
    OBVIOUS
  <2> QED BY <2>1, <2>2
<1>2. IsFiniteSet(T)
  <2> DEFINE f == [y \in S |-> 0 - y]
  <2>1. T = {f[y] : y \in S}
    OBVIOUS
  <2>2. f \in Surjection(S, T)
    BY DEF Surjection
  <2> HIDE DEF f, T
  <2> QED BY <2>2, FS_Surjection
<1>3. PICK t \in T : \A y \in T : t <= y
  <2> HIDE DEF T
  <2> QED BY <1>1, <1>2, LeastExists
<1>4. PICK x \in S : t = 0 - x
  OBVIOUS
<1>5. \A y \in S : x >= y
  <2> SUFFICES ASSUME NEW y \in S PROVE x >= y
    OBVIOUS
  <2>1. 0 - y \in T
    OBVIOUS
  <2>2. 0 - x <= 0 - y
    BY <1>3, <1>4, <2>1
  <2> QED BY <2>2
<1> QED BY <1>5

(* Max of such a set is that number.                                        *)
LEMMA GreatestIs ==
  ASSUME NEW S \in SUBSET Int, IsFiniteSet(S), S # {}
  PROVE  Max(S) \in S /\ \A y \in S : Max(S) >= y
BY GreatestExists DEF Max

-------------------------------------------------------------------------------
(* The fields a guild is asked for in a world, and those of a world.        *)
GuildFields == {"fails", "stored", "configured", "existing", "roles"}
WorldFields ==
  GuildFields \cup {"caller", "target", "route", "jwt", "apiKey", "token", "discord", "guild", "row",
                    "league", "player", "member", "organization", "managers", "shared", "systemAdmins"}

IsGuild(g) ==
  /\ GuildFields \subseteq DOMAIN g
  /\ g.configured \in Seq([format : {"object", "string"}, id : Roles])
  /\ g.existing \subseteq Roles

IsWorld(w) ==
  /\ IsGuild(w)
  /\ WorldFields \subseteq DOMAIN w
  /\ \A g \in w.shared : IsGuild(g)

(* A world without its failures is the same world otherwise, and so are the *)
(* guilds in it.                                                            *)
LEMMA UnfailingIs ==
  ASSUME NEW w, IsWorld(w)
  PROVE  /\ Unfailing(w).fails = {}
         /\ Unfailing(w).shared = {[g EXCEPT !.fails = {}] : g \in w.shared}
         /\ Unfailing(w).stored = w.stored
         /\ Unfailing(w).configured = w.configured
         /\ Unfailing(w).existing = w.existing
         /\ Unfailing(w).roles = w.roles
         /\ Unfailing(w).caller = w.caller
         /\ Unfailing(w).target = w.target
         /\ Unfailing(w).route = w.route
         /\ Unfailing(w).jwt = w.jwt
         /\ Unfailing(w).apiKey = w.apiKey
         /\ Unfailing(w).token = w.token
         /\ Unfailing(w).discord = w.discord
         /\ Unfailing(w).guild = w.guild
         /\ Unfailing(w).row = w.row
         /\ Unfailing(w).league = w.league
         /\ Unfailing(w).player = w.player
         /\ Unfailing(w).member = w.member
         /\ Unfailing(w).organization = w.organization
         /\ Unfailing(w).managers = w.managers
         /\ Unfailing(w).systemAdmins = w.systemAdmins
BY DEF Unfailing, IsWorld, IsGuild, WorldFields, GuildFields


(* The administrators' roles are looked up in the same way when nothing fails. *)
LEMMA RolesUnfailing ==
  ASSUME NEW w, NEW u, NEW roles,
         u.configured = w.configured, u.existing = w.existing, u.fails = {},
         CheckAdminRoles(w, roles)
  PROVE  CheckAdminRoles(u, roles)
BY DEF CheckAdminRoles, ValidateRoleId, Works

(* What Discord answers for the guild does not depend on what fails         *)
(* elsewhere.                                                               *)
LEMMA PermissionsUnfailing ==
  ASSUME NEW w, NEW u, u.discord = w.discord
  PROVE  CheckGuildPermissions(u) = CheckGuildPermissions(w)
BY DEF CheckGuildPermissions

(* In every world: whom a guard lets in although calls fail, it lets in     *)
(* when none does.                                                          *)
LEMMA AccessClosed ==
  ASSUME NEW w, IsWorld(w)
  PROVE  FailsClosed(w)
<1> DEFINE u == Unfailing(w)
<1>1. /\ u.fails = {}
      /\ u.shared = {[g EXCEPT !.fails = {}] : g \in w.shared}
      /\ u.stored = w.stored /\ u.configured = w.configured /\ u.existing = w.existing
      /\ u.roles = w.roles /\ u.caller = w.caller /\ u.target = w.target
      /\ u.route = w.route /\ u.jwt = w.jwt /\ u.apiKey = w.apiKey /\ u.token = w.token
      /\ u.discord = w.discord /\ u.guild = w.guild /\ u.row = w.row /\ u.league = w.league
      /\ u.player = w.player /\ u.member = w.member /\ u.organization = w.organization
      /\ u.managers = w.managers /\ u.systemAdmins = w.systemAdmins
  BY UnfailingIs
<1> HIDE DEF u
<1>2. \A call : Works(u, call)
  BY <1>1 DEF Works
<1>3. CheckGuildPermissions(u) = CheckGuildPermissions(w)
  BY <1>1, PermissionsUnfailing
<1>4. \A roles : CheckAdminRoles(w, roles) => CheckAdminRoles(u, roles)
  BY <1>1, RolesUnfailing
<1>5. CheckGuildAdmin(w) => CheckGuildAdmin(u)
  BY <1>1, <1>2, <1>3, <1>4 DEF CheckGuildAdmin, GetValidAccessToken
<1>6. CheckGuildAdminAccess(w) => CheckGuildAdminAccess(u)
  <2>1. ValidateUserGuildAccess(w) => ValidateUserGuildAccess(u)
    BY <1>1, <1>2, <1>3 DEF ValidateUserGuildAccess, VerifyAndSyncMembership, GetValidAccessToken
  <2>2. KnownRoles(u) = KnownRoles(w)
    BY <1>1, <1>3 DEF KnownRoles
  <2> QED BY <1>2, <1>4, <2>1, <2>2 DEF CheckGuildAdminAccess
<1>7. ValidateLeagueAccess(w) => ValidateLeagueAccess(u)
  BY <1>1, <1>2 DEF ValidateLeagueAccess
<1>8. \A wanted : CheckLeagueAccess(w, wanted) => CheckLeagueAccess(u, wanted)
  <2>1. IsGuildAdmin(w) => IsGuildAdmin(u)
    BY <1>1, <1>2, <1>4 DEF IsGuildAdmin, HasAdminRole
  <2>2. \A wanted : CheckLeagueRole(w, wanted) => CheckLeagueRole(u, wanted)
    BY <1>1, <1>2 DEF CheckLeagueRole
  <2> QED BY <1>1, <1>2, <2>1, <2>2 DEF CheckLeagueAccess
<1>9. OrganizationGm(w) => OrganizationGm(u)
  BY <1>1, <1>2 DEF OrganizationGm, IsGeneralManager
<1>10. ValidateTrackerAccess(w) => ValidateTrackerAccess(u)
  <2>1. ASSUME NEW g \in w.shared, Works(g, "settings"), g.stored, CheckAdminRoles(g, g.roles)
        PROVE  \E h \in u.shared : Works(h, "settings") /\ h.stored /\ CheckAdminRoles(h, h.roles)
    <3> DEFINE h == [g EXCEPT !.fails = {}]
    <3>1. /\ h.fails = {} /\ h.stored = g.stored /\ h.configured = g.configured
          /\ h.existing = g.existing /\ h.roles = g.roles
      BY DEF IsWorld, IsGuild, GuildFields
    <3>2. h \in u.shared
      BY <1>1
    <3> HIDE DEF h
    <3>3. Works(h, "settings") /\ CheckAdminRoles(h, h.roles)
      BY <2>1, <3>1, RolesUnfailing DEF Works
    <3> QED BY <2>1, <3>1, <3>2, <3>3
  <2> QED BY <1>1, <1>2, <2>1 DEF ValidateTrackerAccess
<1>11. ASSUME NEW guard \in Guards, Passes(w, guard) PROVE Passes(u, guard)
  <2> USE DEF Passes
  <2>1. CASE guard = "guild admin"
    BY <1>5, <1>11, <2>1
  <2>2. CASE guard = "guild admin, simple"
    BY <1>6, <1>11, <2>2
  <2>3. CASE guard = "league"
    BY <1>7, <1>11, <2>3
  <2>4. CASE guard = "league admin"
    BY <1>7, <1>8, <1>11, <2>4
  <2>5. CASE guard = "league admin or moderator"
    BY <1>7, <1>8, <1>11, <2>5
  <2>6. CASE guard = "organization manager"
    BY <1>9, <1>11, <2>6
  <2>7. CASE guard = "tracker"
    BY <1>10, <1>11, <2>7
  <2>8. CASE guard = "tracker owner"
    BY <1>1, <1>11, <2>8 DEF ValidateTrackerOwnership
  <2>9. CASE guard = "resource owner"
    BY <1>1, <1>11, <2>9 DEF ResourceOwnership
  <2>10. CASE guard = "system admin"
    BY <1>1, <1>11, <2>10 DEF CheckSystemAdmin
  <2> QED BY <2>1, <2>2, <2>3, <2>4, <2>5, <2>6, <2>7, <2>8, <2>9, <2>10 DEF Guards
<1>12. JwtAuth(w) = JwtAuth(u) /\ BotAuth(w) = BotAuth(u)
  BY <1>1 DEF JwtAuth, BotAuth
<1>13. \A guard \in Guards : Granted(w, guard) => Granted(u, guard)
  BY <1>11, <1>12 DEF Granted
<1> QED BY <1>13 DEF FailsClosed, u

(* Of some positions in a list there is a least one.                        *)
LEMMA MinOfPositions ==
  ASSUME NEW n \in Nat, NEW S \in SUBSET (1..n), S # {}
  PROVE  Min(S) \in S /\ \A y \in S : Min(S) <= y
<1>1. IsFiniteSet(S)
  <2>1. IsFiniteSet(1..n)
    BY FS_Interval
  <2> QED BY <2>1, FS_Subset
<1>2. S \in SUBSET Nat
  OBVIOUS
<1>3. \E x \in S : \A y \in S : x <= y
  BY <1>1, <1>2, LeastExists
<1> QED BY <1>3 DEF Min

(* The first entry of a list is one of its entries.                         *)
LEMMA FirstIn ==
  ASSUME NEW S, NEW list \in Seq(S), list # <<>>
  PROVE  list[1] \in S
<1>1. Len(list) # 0
  OBVIOUS
<1> QED BY <1>1

(* Who has the role the settings name, and Discord knows, administers.      *)
LEMMA RolesAdminister ==
  ASSUME AccessAssumption, NEW g, IsGuild(g), NEW roles, CheckAdminRoles(g, roles)
  PROVE  Administers(g, roles) /\ ToSet(GetAdminRolesFromSettings(g.configured)) \cap roles # {}
<1> DEFINE list == g.configured
           ids == GetAdminRolesFromSettings(list)
           having == {i \in DOMAIN ids : ids[i] \in roles}
           i == Min(having)
<1>1. having # {} /\ Works(g, "validateRole") /\ ids[i] \in g.existing
  BY DEF CheckAdminRoles, ValidateRoleId
<1>2. list \in Seq([format : {"object", "string"}, id : Roles])
  BY DEF IsGuild
<1>3. list # <<>> /\ ids = [k \in DOMAIN list |-> IF list[k].format = list[1].format THEN list[k].id ELSE NoRole]
  <2>1. list # <<>>
    <3> SUFFICES ASSUME list = <<>> PROVE FALSE
      OBVIOUS
    <3>1. ids = <<>>
      BY DEF GetAdminRolesFromSettings
    <3> HIDE DEF ids
    <3>2. having = {}
      BY <3>1
    <3> QED BY <1>1, <3>2
  <2>2. list[1].format \in {"object", "string"}
    <3> HIDE DEF list
    <3>1. list[1] \in [format : {"object", "string"}, id : Roles]
      BY <1>2, <2>1, FirstIn
    <3> QED BY <3>1
  <2> QED BY <2>1, <2>2 DEF GetAdminRolesFromSettings
<1>4. DOMAIN ids = 1..Len(list) /\ Len(list) \in Nat
  BY <1>2, <1>3
<1>5. i \in having
  <2>1. having \in SUBSET (1..Len(list))
    BY <1>4
  <2> HIDE DEF having
  <2> QED BY <1>1, <1>4, <2>1, MinOfPositions
<1> HIDE DEF i
<1>6. ids[i] # NoRole
  BY <1>1 DEF AccessAssumption, IsGuild
<1>7. list[i].id = ids[i] /\ i \in DOMAIN list
  BY <1>3, <1>5, <1>6
<1>8. ids[i] \in roles
  BY <1>5
<1> HIDE DEF ids
<1> QED BY <1>1, <1>4, <1>5, <1>7, <1>8 DEF Administers, ToSet, ids

(* In every world: whom a guard lets in, is entitled to it, and what the    *)
(* two guild guards say agrees.                                             *)
LEMMA AccessDue ==
  ASSUME AccessAssumption, NEW w, IsWorld(w)
  PROVE  GrantsAreDue(w)
<1>1. IsGuild(w) /\ \A g \in w.shared : IsGuild(g)
  BY DEF IsWorld
<1>2. \A roles : CheckAdminRoles(w, roles) =>
        Administers(w, roles) /\ ToSet(GetAdminRolesFromSettings(w.configured)) \cap roles # {}
  BY <1>1, RolesAdminister
<1>3. IsGuildAdmin(w) => Administers(w, w.roles) /\ CheckGuildAccess(w).isAdmin
  BY <1>2 DEF IsGuildAdmin, HasAdminRole, CheckGuildAccess
<1>4. ValidateLeagueAccess(w) => ~Banned(w)
  BY DEF ValidateLeagueAccess, Banned
<1>5. \A wanted : CheckLeagueAccess(w, wanted) => Administers(w, w.roles) \/ Manages(w, wanted)
  BY <1>3 DEF CheckLeagueAccess, CheckLeagueRole, Manages
<1>6. ASSUME NEW guard \in Guards, Passes(w, guard) PROVE Entitled(w, guard)
  <2> USE DEF Passes, Entitled
  <2>1. CASE guard = "guild admin"
    BY <1>2, <1>6, <2>1 DEF CheckGuildAdmin
  <2>2. CASE guard = "guild admin, simple"
    BY <1>2, <1>6, <2>2 DEF CheckGuildAdminAccess
  <2>3. CASE guard = "league"
    BY <1>4, <1>6, <2>3
  <2>4. CASE guard = "league admin"
    BY <1>4, <1>5, <1>6, <2>4
  <2>5. CASE guard = "league admin or moderator"
    BY <1>4, <1>5, <1>6, <2>5
  <2>6. CASE guard = "tracker"
    <3>1. \A g \in w.shared : CheckAdminRoles(g, g.roles) => Administers(g, g.roles)
      BY <1>1, RolesAdminister
    <3> QED BY <1>6, <2>6, <3>1 DEF ValidateTrackerAccess
  <2>7. CASE guard \in {"organization manager", "tracker owner", "resource owner", "system admin"}
    BY <2>7
  <2> QED BY <2>1, <2>2, <2>3, <2>4, <2>5, <2>6, <2>7 DEF Guards
<1> QED BY <1>3, <1>6 DEF GrantsAreDue, Granted

(* An entry stands for each of its reasons, unless it cannot be written.    *)
LEMMA EntryOf ==
  ASSUME NEW w, NEW guard, NEW type, NEW reasons, NEW result
  PROVE  /\ \A e \in Entry(w, guard, type, reasons, result) : e.result = result
         /\ reasons = {} => Entry(w, guard, type, reasons, result) = {}
         /\ \A r : reasons = {r} /\ Works(w, "audit") =>
              \E e : Entry(w, guard, type, reasons, result) = {e}
<1>1. \A e \in Entry(w, guard, type, reasons, result) : e.result = result
  BY DEF Entry
<1>2. reasons = {} => Entry(w, guard, type, reasons, result) = {}
  BY DEF Entry
<1>3. ASSUME NEW r, reasons = {r}, Works(w, "audit")
      PROVE  Entry(w, guard, type, reasons, result)
               = {[guard |-> guard, type |-> type, result |-> result, reason |-> r]}
  <2> DEFINE e == [guard |-> guard, type |-> type, result |-> result, reason |-> r]
  <2>1. Entry(w, guard, type, reasons, result)
          = [guard : {guard}, type : {type}, result : {result}, reason : {r}]
    BY <1>3 DEF Entry
  <2>2. e \in [guard : {guard}, type : {type}, result : {result}, reason : {r}]
    OBVIOUS
  <2>3. \A x \in [guard : {guard}, type : {type}, result : {result}, reason : {r}] : x = e
    OBVIOUS
  <2> HIDE DEF e
  <2>4. [guard : {guard}, type : {type}, result : {result}, reason : {r}] = {e}
    BY <2>2, <2>3
  <2> QED BY <2>1, <2>4 DEF e
<1> QED BY <1>1, <1>2, <1>3

(* In every world: the entries of the audit log say what the guard did, one *)
(* for each decision if the log can be written.                             *)
LEMMA AccessAudited ==
  ASSUME NEW w
  PROVE  AuditTells(w)
<1> DEFINE discord == CheckGuildPermissions(w)
           member == GetValidAccessToken(w) /\ discord.isMember /\ w.caller # "bot"
           asked == member /\ ~discord.administrator /\ Works(w, "settings")
           looked == asked /\ w.configured # <<>> /\ Works(w, "membership") /\ w.row
           admin == CheckAdminRoles(w, w.roles)
           When(cond, reason) == IF cond THEN {reason} ELSE {}
           E1 == GuildAudit(w, When(member /\ discord.administrator, "discord_administrator_permission"), "allowed")
           E2 == GuildAudit(w, When(asked /\ w.configured = <<>>, "no_admin_roles_configured"), "allowed")
           E3 == GuildAudit(w, When(looked /\ admin, "configured_admin_role"), "allowed")
           E4 == GuildAudit(w, When(looked /\ ~admin, "no_admin_access"), "denied")
<1>1. GuildAdminEntries(w) = E1 \cup E2 \cup E3 \cup E4
  BY DEF GuildAdminEntries
<1>2. \A reasons, result : 
        /\ \A e \in GuildAudit(w, reasons, result) : e.result = result
        /\ reasons = {} => GuildAudit(w, reasons, result) = {}
        /\ \A r : reasons = {r} /\ Works(w, "audit") => \E e : GuildAudit(w, reasons, result) = {e}
  BY EntryOf DEF GuildAudit
<1>3. /\ \A e \in E1 \cup E2 \cup E3 : e.result = "allowed"
      /\ \A e \in E4 : e.result = "denied"
  BY <1>2
<1>4. /\ E1 # {} => member /\ discord.administrator
      /\ E2 # {} => asked /\ w.configured = <<>>
      /\ E3 # {} => looked /\ admin
      /\ E4 # {} => looked /\ ~admin
  BY <1>2
<1>5. Works(w, "audit") =>
        /\ member /\ discord.administrator => \E e : E1 = {e}
        /\ asked /\ w.configured = <<>> => \E e : E2 = {e}
        /\ looked /\ admin => \E e : E3 = {e}
  <2>1. \A r, result : Works(w, "audit") => \E e : GuildAudit(w, {r}, result) = {e}
    BY <1>2
  <2>3. ASSUME member /\ discord.administrator
        PROVE  E1 = GuildAudit(w, {"discord_administrator_permission"}, "allowed")
    BY <2>3
  <2>4. ASSUME asked /\ w.configured = <<>>
        PROVE  E2 = GuildAudit(w, {"no_admin_roles_configured"}, "allowed")
    BY <2>4
  <2>5. ASSUME looked /\ admin
        PROVE  E3 = GuildAudit(w, {"configured_admin_role"}, "allowed")
    BY <2>5
  <2> HIDE DEF discord, member, asked, looked, admin, E1, E2, E3
  <2>6. Works(w, "audit") /\ member /\ discord.administrator => \E e : E1 = {e}
    BY <2>1, <2>3
  <2>7. Works(w, "audit") /\ asked /\ w.configured = <<>> => \E e : E2 = {e}
    BY <2>1, <2>4
  <2>8. Works(w, "audit") /\ looked /\ admin => \E e : E3 = {e}
    BY <2>1, <2>5
  <2> QED BY <2>6, <2>7, <2>8
<1> HIDE DEF E1, E2, E3, E4
<1>6. CheckGuildAdmin(w) /\ w.caller # "bot" <=>
        \/ member /\ discord.administrator
        \/ asked /\ w.configured = <<>>
        \/ looked /\ admin
  BY DEF CheckGuildAdmin
<1>7. \A e \in GuildAdminEntries(w) : e.result = "allowed" <=> CheckGuildAdmin(w)
  <2> SUFFICES ASSUME NEW e \in GuildAdminEntries(w) PROVE e.result = "allowed" <=> CheckGuildAdmin(w)
    OBVIOUS
  <2>1. CASE e \in E1 \cup E2 \cup E3
    BY <1>3, <1>4, <1>6, <2>1
  <2>2. CASE e \in E4
    <3>1. looked /\ ~admin /\ e.result = "denied"
      BY <1>3, <1>4, <2>2
    <3> QED BY <1>6, <3>1
  <2> QED BY <1>1, <2>1, <2>2
<1>8. Works(w, "audit") /\ CheckGuildAdmin(w) /\ w.caller # "bot" => \E e : GuildAdminEntries(w) = {e}
  <2> SUFFICES ASSUME Works(w, "audit"), CheckGuildAdmin(w), w.caller # "bot"
               PROVE  \E e : GuildAdminEntries(w) = {e}
    OBVIOUS
  <2>1. CASE member /\ discord.administrator
    BY <1>1, <1>4, <1>5, <2>1
  <2>2. CASE asked /\ w.configured = <<>>
    BY <1>1, <1>4, <1>5, <2>2
  <2>3. CASE looked /\ admin
    BY <1>1, <1>4, <1>5, <2>3
  <2> QED BY <1>6, <2>1, <2>2, <2>3
<1>9. \A reasons, result : 
        /\ \A e \in SystemAudit(w, reasons, result) : e.result = result
        /\ \A r : reasons = {r} /\ Works(w, "audit") => \E e : SystemAudit(w, reasons, result) = {e}
  BY EntryOf DEF SystemAudit
<1>10. \A e \in SystemAdminEntries(w) : e.result = "allowed" <=> CheckSystemAdmin(w)
  BY <1>9 DEF SystemAdminEntries
<1>11. Works(w, "audit") => \E e : SystemAdminEntries(w) = {e}
  BY <1>9 DEF SystemAdminEntries
<1>12. \A S : (\E e : S = {e}) => Cardinality(S) = 1
  BY FS_Singleton
<1> QED BY <1>7, <1>8, <1>10, <1>11, <1>12 DEF AuditTells

-------------------------------------------------------------------------------
(* For every application: nobody joins while a call that the check rests on *)
(* fails.                                                                   *)
LEMMA JoinClosed ==
  ASSUME NEW j
  PROVE  JR!JoinFailsClosed(j)
BY DEF JR!JoinFailsClosed, JR!MayJoin, JR!Works

(* The value a skill is measured by is of a latest season.                  *)
LEMMA SkillIsOf ==
  ASSUME NEW t, NEW metric, NEW value \in JR!SkillOf(t, metric)
  PROVE  /\ metric \in {"MMR", "RANK"}
         /\ \E s \in JR!LatestSeason(t) :
              value \in IF metric = "MMR" THEN s.rating ELSE s.rank
<1>1. CASE metric = "MMR"
  <2>1. JR!SkillOf(t, metric) = UNION {s.rating : s \in JR!LatestSeason(t)}
    BY <1>1 DEF JR!SkillOf
  <2> QED BY <1>1, <2>1
<1>2. CASE metric = "RANK"
  <2>1. JR!SkillOf(t, metric) = UNION {s.rank : s \in JR!LatestSeason(t)}
    BY <1>2 DEF JR!SkillOf
  <2> QED BY <1>2, <2>1
<1>3. CASE metric \notin {"MMR", "RANK"}
  <2>1. JR!SkillOf(t, metric) = UNION {{} : s \in JR!LatestSeason(t)}
    BY <1>3 DEF JR!SkillOf
  <2> QED BY <2>1
<1> QED BY <1>1, <1>2, <1>3

IsApplication(j) ==
  /\ \A t \in j.trackers : \A s \in t.seasons : s.rating \subseteq Int /\ s.rank \subseteq Int
  /\ \A k \in j.skill : k.min \subseteq Int /\ k.max \subseteq Int

(* For every application: who joins a league that asks for skill has a      *)
(* tracker in use whose newest season has a value between the bounds, and   *)
(* no tracker in use was scraped later.                                     *)
LEMMA JoinSkilled ==
  ASSUME NEW j, IsApplication(j)
  PROVE  JR!JoinersAreSkilled(j)
<1> SUFFICES ASSUME JR!MayJoin(j), NEW asked \in j.skill
             PROVE  \E t \in j.trackers :
      /\ t.active /\ ~t.deleted
      /\ \E s \in t.seasons :
           /\ \A u \in t.seasons : u.number <= s.number
           /\ asked.metric \in {"MMR", "RANK"}
           /\ \E value \in IF asked.metric = "MMR" THEN s.rating ELSE s.rank :
                ~(\E least \in asked.min : value < least) /\ ~(\E most \in asked.max : value > most)
      /\ \A u \in j.trackers :
           u.active /\ ~u.deleted /\ u.seasons # {} =>
             u.scraped <= t.scraped \/ u.scraped = JR!Never
  BY DEF JR!JoinersAreSkilled
<1>1. PICK t \in JR!FindBest(j) : JR!SkillSuffices(j, t)
  BY DEF JR!MayJoin
<1>2. PICK value \in JR!SkillOf(t, asked.metric) :
        (\A least \in asked.min : value >= least) /\ (\A most \in asked.max : value <= most)
  BY <1>1 DEF JR!SkillSuffices
<1>3. PICK s \in JR!LatestSeason(t) : value \in IF asked.metric = "MMR" THEN s.rating ELSE s.rank
  BY SkillIsOf, <1>2
<1>4. asked.metric \in {"MMR", "RANK"}
  BY SkillIsOf, <1>2
<1>5. s \in t.seasons /\ \A u \in t.seasons : u.number <= s.number
  BY DEF JR!LatestSeason
<1>6. t \in j.trackers /\ t.active /\ ~t.deleted
  BY DEF JR!FindBest, JR!WithData, JR!Usable
<1>7. \A u \in j.trackers : u.active /\ ~u.deleted /\ u.seasons # {} => u.scraped <= t.scraped
  BY DEF JR!FindBest, JR!WithData, JR!Usable
<1>8. value \in Int /\ asked.min \subseteq Int /\ asked.max \subseteq Int
  <2>1. s.rating \subseteq Int /\ s.rank \subseteq Int
    BY <1>5, <1>6 DEF IsApplication
  <2>2. value \in Int
    BY <1>3, <2>1
  <2> QED BY <2>2 DEF IsApplication
<1>9. ~(\E least \in asked.min : value < least) /\ ~(\E most \in asked.max : value > most)
  <2>1. \A least \in asked.min : least \in Int /\ value >= least
    BY <1>2, <1>8
  <2>2. \A most \in asked.max : most \in Int /\ value <= most
    BY <1>2, <1>8
  <2> QED BY <1>8, <2>1, <2>2
<1>10. \E v \in IF asked.metric = "MMR" THEN s.rating ELSE s.rank :
         ~(\E least \in asked.min : v < least) /\ ~(\E most \in asked.max : v > most)
  BY <1>3, <1>9
<1> HIDE DEF IsApplication
<1> QED BY <1>4, <1>5, <1>6, <1>7, <1>10

-------------------------------------------------------------------------------
(* Integer division rounds down.                                            *)
LEMMA Divided ==
  ASSUME NEW a \in Int, NEW b \in Int, b > 0
  PROVE  /\ a \div b \in Int
         /\ b * (a \div b) <= a
         /\ a < b * (a \div b) + b
OBVIOUS

(* Of two products with one factor the one with the greater other factor is *)
(* greater by that factor or more.                                          *)
LEMMA ProductMonotone ==
  ASSUME NEW m \in Int, m > 0, NEW x \in Int, NEW y \in Int, x < y
  PROVE  x * m + m <= y * m
<1>1. (x + 1) * m <= y * m
  OBVIOUS
<1> QED BY <1>1

(* A quotient between two integers stays between them when it is rounded:   *)
(* the ties go up, and never past the upper one.                            *)
LEMMA RoundWithin ==
  ASSUME NEW m \in Int, m > 0, NEW n \in Int, NEW low \in Int, NEW high \in Int,
         low * m <= n, n <= high * m
  PROVE  Round(n, m) \in Int /\ low <= Round(n, m) /\ Round(n, m) <= high
<1> DEFINE q == (2 * n + m) \div (2 * m)
<1>1. /\ q \in Int
      /\ (2 * m) * q <= 2 * n + m
      /\ 2 * n + m < (2 * m) * q + 2 * m
  <2>1. 2 * n + m \in Int /\ 2 * m \in Int /\ 2 * m > 0
    OBVIOUS
  <2> QED BY <2>1, Divided
<1> HIDE DEF q
<1>2. low <= q
  <2> SUFFICES ASSUME q < low PROVE FALSE
    BY <1>1
  <2>1. q * m + m <= low * m
    BY <1>1, ProductMonotone
  <2>2. (2 * m) * q = 2 * (q * m)
    BY <1>1
  <2> QED BY <1>1, <2>1, <2>2
<1>3. q <= high
  <2> SUFFICES ASSUME high < q PROVE FALSE
    BY <1>1
  <2>1. high * m + m <= q * m
    BY <1>1, ProductMonotone
  <2>2. (2 * m) * q = 2 * (q * m)
    BY <1>1
  <2> QED BY <1>1, <2>1, <2>2
<1> QED BY <1>1, <1>2, <1>3 DEF Round, q
(* What is as low as the lowest and as high as the highest is between.      *)
LEMMA BetweenBounds ==
  ASSUME NEW S \in SUBSET Int, IsFiniteSet(S), NEW x,
         \A low, high \in Int : S # {} /\ (\A y \in S : low <= y /\ y <= high) => low <= x /\ x <= high
  PROVE  Between(x, S)
<1> SUFFICES ASSUME S # {} PROVE Min(S) <= x /\ x <= Max(S)
  BY DEF Between
<1>1. Min(S) \in S /\ \A y \in S : Min(S) <= y
  BY LeastIs
<1>2. Max(S) \in S /\ \A y \in S : Max(S) >= y
  BY GreatestIs
<1>3. \A y \in S : Min(S) <= y /\ y <= Max(S)
  BY <1>1, <1>2
<1> QED BY <1>1, <1>2, <1>3

-------------------------------------------------------------------------------
IsData(d) ==
  \A p \in Playlists :
    d[p].mmr \in Nat \cup {Absent} /\ d[p].peak \in Nat \cup {Absent} /\ d[p].games \in Nat \cup {Absent}

IsConfig(config) ==
  /\ {"algorithm", "weights", "minGames", "current", "peak", "formula"} \subseteq DOMAIN config
  /\ \A p \in Playlists : config.weights[p] \in Int /\ config.minGames[p] \in Int
  /\ config.current \in Nat /\ config.peak \in Nat

(* A weight draws what it weighs no further than what it weighs.            *)
LEMMA WeighedWithin ==
  ASSUME NEW w \in Nat, NEW x \in Int, NEW low \in Int, NEW high \in Int, w > 0 => low <= x /\ x <= high
  PROVE  /\ x * w \in Int /\ low * w \in Int /\ high * w \in Int
         /\ low * w <= x * w /\ x * w <= high * w
<1>1. CASE w = 0
  BY <1>1
<1>2. CASE w > 0
  BY <1>2
<1> QED BY <1>1, <1>2

(* A weighted average lies between any bounds of the ratings that count: by *)
(* the four playlists, each weighed by WeighedWithin, and RoundWithin for   *)
(* the sum.                                                                 *)
LEMMA WeightedWithin ==
  ASSUME NEW d, IsData(d), NEW config, IsConfig(config), NEW low \in Int, NEW high \in Int,
         Counted(d, config) # {},
         \A p \in Counted(d, config) : low <= d[p].mmr /\ d[p].mmr <= high
  PROVE  /\ low <= CalculateWeightedAverage(d, config)
         /\ CalculateWeightedAverage(d, config) <= high
<1> DEFINE counted == Counted(d, config)
           W(p) == IF p \in counted THEN config.weights[p] ELSE 0
           X(p) == IF p \in counted THEN d[p].mmr ELSE 0
           total == W("ones") + W("twos") + W("threes") + W("fours")
           sum == X("ones") * W("ones") + X("twos") * W("twos") + X("threes") * W("threes") + X("fours") * W("fours")
<1>1. \A p \in Playlists :
        /\ W(p) \in Nat /\ X(p) \in Int
        /\ W(p) > 0 => low <= X(p) /\ X(p) <= high
        /\ p \in counted => W(p) > 0
  BY DEF IsData, IsConfig, Counted, Absent
<1>2. counted \subseteq Playlists
  BY DEF Counted
<1>3. \A p \in Playlists : X(p) * W(p) = IF p \in counted THEN d[p].mmr * config.weights[p] ELSE 0
  BY <1>1
<1>4. CalculateWeightedAverage(d, config) =
        IF total = 0 THEN 0
        ELSE Round((IF "ones" \in counted THEN d["ones"].mmr * config.weights["ones"] ELSE 0)
                   + (IF "twos" \in counted THEN d["twos"].mmr * config.weights["twos"] ELSE 0)
                   + (IF "threes" \in counted THEN d["threes"].mmr * config.weights["threes"] ELSE 0)
                   + (IF "fours" \in counted THEN d["fours"].mmr * config.weights["fours"] ELSE 0),
                   total)
  BY DEF CalculateWeightedAverage, SumOver
<1>5. CalculateWeightedAverage(d, config) = IF total = 0 THEN 0 ELSE Round(sum, total)
  <2> HIDE DEF W, X, counted, total
  <2> QED BY <1>3, <1>4 DEF Playlists
<1> HIDE DEF W, X, counted
<1>6. \A p \in Playlists :
        /\ X(p) * W(p) \in Int /\ low * W(p) \in Int /\ high * W(p) \in Int
        /\ low * W(p) <= X(p) * W(p) /\ X(p) * W(p) <= high * W(p)
  BY <1>1, WeighedWithin
<1>7. total \in Int /\ total > 0
  <2>1. PICK p \in Playlists : p \in counted
    BY <1>2 DEF counted
  <2>2. W("ones") \in Nat /\ W("twos") \in Nat /\ W("threes") \in Nat /\ W("fours") \in Nat
    BY <1>1 DEF Playlists
  <2>3. W("ones") > 0 \/ W("twos") > 0 \/ W("threes") > 0 \/ W("fours") > 0
    BY <1>1, <2>1 DEF Playlists
  <2> QED BY <2>2, <2>3
<1>8. sum \in Int /\ low * total <= sum /\ sum <= high * total
  <2>1. W("ones") \in Int /\ W("twos") \in Int /\ W("threes") \in Int /\ W("fours") \in Int
    BY <1>1 DEF Playlists
  <2>2. low * total = low * W("ones") + low * W("twos") + low * W("threes") + low * W("fours")
    BY <2>1
  <2>3. high * total = high * W("ones") + high * W("twos") + high * W("threes") + high * W("fours")
    BY <2>1
  <2> HIDE DEF total
  <2> QED BY <1>6, <2>2, <2>3 DEF Playlists
<1> HIDE DEF total, sum
<1> QED BY <1>5, <1>7, <1>8, RoundWithin

(* So do the ratings and peaks of the playlists that were played.           *)
LEMMA AscendancyWithin ==
  ASSUME NEW twos, twos.mmr \in Int, twos.peak \in Int,
         NEW threes, threes.mmr \in Int, threes.peak \in Int,
         NEW g \in Nat, NEW h \in Nat, g + h > 0,
         NEW config, config.current \in Nat, config.peak \in Nat, config.current + config.peak > 0,
         NEW low \in Int, NEW high \in Int,
         g > 0 => /\ low <= twos.mmr /\ twos.mmr <= high
                  /\ low <= twos.peak /\ twos.peak <= high,
         h > 0 => /\ low <= threes.mmr /\ threes.mmr <= high
                  /\ low <= threes.peak /\ threes.peak <= high
  PROVE  /\ low <= Ascendancy(twos, g, threes, h, config)
         /\ Ascendancy(twos, g, threes, h, config) <= high
<1> DEFINE c == config.current
           k == config.peak
           both == c + k
           S(r) == r.mmr * c + r.peak * k
<1>1. \A r : r.mmr \in Int /\ r.peak \in Int /\ low <= r.mmr /\ r.mmr <= high /\ low <= r.peak /\ r.peak <= high
             => low * both <= S(r) /\ S(r) <= high * both
  <2> SUFFICES ASSUME NEW r, r.mmr \in Int, r.peak \in Int, low <= r.mmr, r.mmr <= high, low <= r.peak, r.peak <= high
               PROVE  low * both <= S(r) /\ S(r) <= high * both
    OBVIOUS
  <2>1. /\ r.mmr * c \in Int /\ low * c \in Int /\ high * c \in Int
        /\ low * c <= r.mmr * c /\ r.mmr * c <= high * c
    BY WeighedWithin
  <2>2. /\ r.peak * k \in Int /\ low * k \in Int /\ high * k \in Int
        /\ low * k <= r.peak * k /\ r.peak * k <= high * k
    BY WeighedWithin
  <2>3. low * both = low * c + low * k /\ high * both = high * c + high * k
    OBVIOUS
  <2> HIDE DEF both, c, k
  <2> QED BY <2>1, <2>2, <2>3
<1>2. /\ S(twos) \in Int /\ S(threes) \in Int /\ both \in Nat /\ both > 0
      /\ low * both \in Int /\ high * both \in Int
  OBVIOUS
<1>3. /\ g > 0 => low * both <= S(twos) /\ S(twos) <= high * both
      /\ h > 0 => low * both <= S(threes) /\ S(threes) <= high * both
  BY <1>1
<1>4. Ascendancy(twos, g, threes, h, config) = Round(S(twos) * g + S(threes) * h, both * (g + h))
  BY <1>2 DEF Ascendancy
<1> HIDE DEF S, both
<1>5. /\ S(twos) * g \in Int /\ low * both * g <= S(twos) * g /\ S(twos) * g <= high * both * g
      /\ S(threes) * h \in Int /\ low * both * h <= S(threes) * h /\ S(threes) * h <= high * both * h
  BY <1>2, <1>3, WeighedWithin
<1>6. /\ low * (both * (g + h)) = low * both * g + low * both * h
      /\ high * (both * (g + h)) = high * both * g + high * both * h
      /\ both * (g + h) \in Int /\ both * (g + h) > 0
      /\ low * both * g \in Int /\ low * both * h \in Int /\ high * both * g \in Int /\ high * both * h \in Int
  BY <1>2
<1> DEFINE n == S(twos) * g + S(threes) * h
           m == both * (g + h)
<1>7. n \in Int /\ low * m <= n /\ n <= high * m
  BY <1>5, <1>6
<1>8. m \in Int /\ m > 0
  BY <1>6
<1> HIDE DEF n, m
<1>9. low <= Round(n, m) /\ Round(n, m) <= high
  BY <1>7, <1>8, RoundWithin
<1> QED BY <1>4, <1>9 DEF n, m

-------------------------------------------------------------------------------
(* The ratings and peaks of the playlists of P, a missing peak being the    *)
(* rating.                                                                  *)
LEMMA FilledIs ==
  ASSUME NEW d, IsData(d), NEW p \in Playlists
  PROVE  /\ Filled(d, p).mmr = Or(d[p].mmr, 0)
         /\ Filled(d, p).peak = Or(d[p].peak, Or(d[p].mmr, 0))
         /\ Or(d[p].mmr, 0) \in Nat /\ Or(d[p].peak, Or(d[p].mmr, 0)) \in Nat
         /\ Or(d[p].peak, 0) \in Nat /\ Games(d, p) \in Nat
BY DEF Filled, Or, IsData, Games, Absent

(* Four things are a finite set.                                            *)
LEMMA Four ==
  ASSUME NEW a, NEW b, NEW c, NEW e
  PROVE  IsFiniteSet({a, b, c, e})
<1>1. \A x, y \in {{a}, {b}, {c}, {e}} : IsFiniteSet(x \cup y)
  BY FS_Singleton, FS_Union
<1>2. IsFiniteSet(({a} \cup {b}) \cup ({c} \cup {e}))
  BY <1>1, FS_Union
<1>3. {a, b, c, e} = ({a} \cup {b}) \cup ({c} \cup {e})
  OBVIOUS
<1> QED BY <1>2, <1>3

(* The ratings and peaks that are filled in are a finite set of numbers, so *)
(* that it has a least and a greatest one.                                  *)
LEMMA FilledSet ==
  ASSUME NEW d, IsData(d), NEW P \in SUBSET {"twos", "threes"}
  PROVE  LET S == UNION {{Or(d[p].mmr, 0), Or(d[p].peak, Or(d[p].mmr, 0))} : p \in P}
         IN  /\ S \in SUBSET Nat /\ IsFiniteSet(S)
             /\ \A p \in P : Or(d[p].mmr, 0) \in S /\ Or(d[p].peak, Or(d[p].mmr, 0)) \in S
<1> DEFINE S == UNION {{Or(d[p].mmr, 0), Or(d[p].peak, Or(d[p].mmr, 0))} : p \in P}
           A(p) == Or(d[p].mmr, 0)
           B(p) == Or(d[p].peak, Or(d[p].mmr, 0))
<1>1. P \subseteq Playlists
  BY DEF Playlists
<1>2. \A p \in P : A(p) \in Nat /\ B(p) \in Nat
  BY <1>1, FilledIs
<1> HIDE DEF A, B
<1>3. S = UNION {{A(p), B(p)} : p \in P}
  BY DEF A, B
<1> HIDE DEF S
<1>4. S \subseteq {A("twos"), B("twos"), A("threes"), B("threes")}
  BY <1>3
<1>5. IsFiniteSet({A("twos"), B("twos"), A("threes"), B("threes")})
  BY Four
<1>6. S \in SUBSET Nat
  BY <1>2, <1>3
<1>7. \A p \in P : A(p) \in S /\ B(p) \in S
  BY <1>3
<1>8. IsFiniteSet(S)
  BY <1>4, <1>5, FS_Subset
<1> QED BY <1>6, <1>7, <1>8 DEF A, B, S

(* So are the ratings of some playlists.                                    *)
LEMMA RatingsFinite ==
  ASSUME NEW d, IsData(d), NEW P \in SUBSET Playlists, \A p \in P : d[p].mmr # Absent
  PROVE  {d[p].mmr : p \in P} \in SUBSET Int /\ IsFiniteSet({d[p].mmr : p \in P})
<1>1. {d[p].mmr : p \in P} \in SUBSET Int
  BY DEF IsData, Absent
<1>2. {d[p].mmr : p \in P} \subseteq {d["ones"].mmr, d["twos"].mmr, d["threes"].mmr, d["fours"].mmr}
  BY DEF Playlists
<1>3. IsFiniteSet({d["ones"].mmr, d["twos"].mmr, d["threes"].mmr, d["fours"].mmr})
  BY Four
<1> QED BY <1>1, <1>2, <1>3, FS_Subset

(* A request with tracker data is answered by the algorithm of the settings,*)
(* and what the algorithm goes by does not depend on its name.              *)
LEMMA Answered ==
  ASSUME NEW d, NEW config, IsConfig(config)
  PROVE  /\ AnswerRequest({d}, {}, [config EXCEPT !.algorithm = "WEIGHTED_AVERAGE"]) = CalculateWeightedAverage(d, config)
         /\ AnswerRequest({d}, {}, [config EXCEPT !.algorithm = "PEAK_MMR"]) = CalculatePeakMmr(d, config)
         /\ AnswerRequest({d}, {}, [config EXCEPT !.algorithm = "ASCENDANCY"]) = CalculateAscendancy(d, config)
         /\ AnswerRequest({}, {d}, [config EXCEPT !.algorithm = "ASCENDANCY"]) = CalculateAscendancyMmr(d, config)
<1>1. \A a : LET c == [config EXCEPT !.algorithm = a] IN
        /\ c.algorithm = a /\ c.weights = config.weights /\ c.minGames = config.minGames
        /\ c.current = config.current /\ c.peak = config.peak /\ c.formula = config.formula
  BY DEF IsConfig
<1>2. (CHOOSE e \in {d} : TRUE) = d
  OBVIOUS
<1>3. \A c : AnswerRequest({d}, {}, c) = CalculateMmr(d, c)
  BY <1>2 DEF AnswerRequest
<1>4. AnswerRequest({d}, {}, [config EXCEPT !.algorithm = "WEIGHTED_AVERAGE"]) = CalculateWeightedAverage(d, config)
  <2> DEFINE c == [config EXCEPT !.algorithm = "WEIGHTED_AVERAGE"]
  <2>1. /\ c.algorithm = "WEIGHTED_AVERAGE" /\ c.weights = config.weights /\ c.minGames = config.minGames
        /\ c.current = config.current /\ c.peak = config.peak /\ c.formula = config.formula
    BY <1>1
  <2> HIDE DEF c
  <2>2. CalculateMmr(d, c) = CalculateWeightedAverage(d, c)
    BY <2>1 DEF CalculateMmr
  <2>3. CalculateWeightedAverage(d, c) = CalculateWeightedAverage(d, config)
    BY <2>1 DEF CalculateWeightedAverage, Counted, Played, SumOver
  <2> QED BY <1>3, <2>2, <2>3 DEF c
<1>5. AnswerRequest({d}, {}, [config EXCEPT !.algorithm = "PEAK_MMR"]) = CalculatePeakMmr(d, config)
  <2> DEFINE c == [config EXCEPT !.algorithm = "PEAK_MMR"]
  <2>1. /\ c.algorithm = "PEAK_MMR" /\ c.weights = config.weights /\ c.minGames = config.minGames
        /\ c.current = config.current /\ c.peak = config.peak /\ c.formula = config.formula
    BY <1>1
  <2> HIDE DEF c
  <2>2. CalculateMmr(d, c) = CalculatePeakMmr(d, c)
    BY <2>1 DEF CalculateMmr
  <2>3. CalculatePeakMmr(d, c) = CalculatePeakMmr(d, config)
    BY <2>1 DEF CalculatePeakMmr, Played
  <2> QED BY <1>3, <2>2, <2>3 DEF c
<1>6. AnswerRequest({d}, {}, [config EXCEPT !.algorithm = "ASCENDANCY"]) = CalculateAscendancy(d, config)
  <2> DEFINE c == [config EXCEPT !.algorithm = "ASCENDANCY"]
  <2>1. /\ c.algorithm = "ASCENDANCY" /\ c.weights = config.weights /\ c.minGames = config.minGames
        /\ c.current = config.current /\ c.peak = config.peak /\ c.formula = config.formula
    BY <1>1
  <2> HIDE DEF c
  <2>2. CalculateMmr(d, c) = CalculateAscendancy(d, c)
    BY <2>1 DEF CalculateMmr
  <2>3. CalculateAscendancy(d, c) = CalculateAscendancy(d, config)
    BY <2>1 DEF CalculateAscendancy, Ascendancy
  <2> QED BY <1>3, <2>2, <2>3 DEF c
<1>8. AnswerRequest({}, {d}, [config EXCEPT !.algorithm = "ASCENDANCY"]) = CalculateAscendancyMmr(d, config)
  BY <1>1, <1>2 DEF AnswerRequest, CalculateAscendancyMmr, Ascendancy
<1> QED BY <1>4, <1>5, <1>6, <1>8

(* An ascendancy rating lies between the ratings and peaks of the playlists *)
(* with games.                                                              *)
LEMMA AscendancyBetween ==
  ASSUME NEW d, IsData(d), NEW config,
         config.current \in Nat, config.peak \in Nat, config.current + config.peak > 0,
         NEW P \in SUBSET {"twos", "threes"}, \A p \in {"twos", "threes"} : Games(d, p) > 0 => p \in P,
         \E p \in {"twos", "threes"} : Games(d, p) > 0
  PROVE  Between(CalculateAscendancy(d, config),
                 UNION {{Or(d[p].mmr, 0), Or(d[p].peak, Or(d[p].mmr, 0))} : p \in P})
<1> DEFINE S == UNION {{Or(d[p].mmr, 0), Or(d[p].peak, Or(d[p].mmr, 0))} : p \in P}
           x == CalculateAscendancy(d, config)
           twos == Filled(d, "twos")
           threes == Filled(d, "threes")
           g == Games(d, "twos")
           h == Games(d, "threes")
<1>1. /\ S \in SUBSET Nat /\ IsFiniteSet(S)
      /\ \A p \in P : Or(d[p].mmr, 0) \in S /\ Or(d[p].peak, Or(d[p].mmr, 0)) \in S
  BY FilledSet
<1>2. /\ twos.mmr = Or(d["twos"].mmr, 0) /\ twos.peak = Or(d["twos"].peak, Or(d["twos"].mmr, 0))
      /\ threes.mmr = Or(d["threes"].mmr, 0) /\ threes.peak = Or(d["threes"].peak, Or(d["threes"].mmr, 0))
      /\ twos.mmr \in Int /\ twos.peak \in Int /\ threes.mmr \in Int /\ threes.peak \in Int
      /\ g \in Nat /\ h \in Nat
  BY FilledIs DEF Playlists
<1>3. g + h > 0
  BY <1>2
<1>4. /\ g > 0 => twos.mmr \in S /\ twos.peak \in S
      /\ h > 0 => threes.mmr \in S /\ threes.peak \in S
  BY <1>1, <1>2
<1>5. x = Ascendancy(twos, g, threes, h, config)
  BY DEF CalculateAscendancy
<1> HIDE DEF S, x, twos, threes, g, h
<1>6. ASSUME NEW low \in Int, NEW high \in Int, \A y \in S : low <= y /\ y <= high
      PROVE  low <= x /\ x <= high
  <2>1. /\ g > 0 => low <= twos.mmr /\ twos.mmr <= high /\ low <= twos.peak /\ twos.peak <= high
        /\ h > 0 => low <= threes.mmr /\ threes.mmr <= high /\ low <= threes.peak /\ threes.peak <= high
    BY <1>4, <1>6
  <2> QED BY <1>2, <1>3, <1>5, <2>1, AscendancyWithin
<1>7. S \in SUBSET Int
  BY <1>1
<1> QED BY <1>1, <1>6, <1>7, BetweenBounds DEF S, x

(* So does that of a request whose games are of two seasons.                *)
LEMMA RequestBetween ==
  ASSUME NEW d, IsData(d), NEW config,
         config.current \in Nat, config.peak \in Nat, config.current + config.peak > 0
  PROVE  LET request == RequestOf(d)
         IN Between(CalculateAscendancyMmr(request, config),
                    {request.mmr2sCurrent, request.mmr2sPeak}
                      \cup (IF request.games3sCurrSeason = 0 THEN {}
                            ELSE {request.mmr3sCurrent, request.mmr3sPeak}))
<1> DEFINE a == RequestOf(d)
           S == {a.mmr2sCurrent, a.mmr2sPeak}
                  \cup (IF a.games3sCurrSeason = 0 THEN {} ELSE {a.mmr3sCurrent, a.mmr3sPeak})
           x == CalculateAscendancyMmr(a, config)
           twos == [mmr |-> a.mmr2sCurrent, peak |-> a.mmr2sPeak]
           threes == [mmr |-> a.mmr3sCurrent, peak |-> a.mmr3sPeak]
           g == a.games2sCurrSeason + a.games2sPrevSeason
           h == a.games3sCurrSeason + a.games3sPrevSeason
<1>1. /\ a.mmr2sCurrent \in Nat /\ a.mmr2sPeak \in Nat /\ a.mmr3sCurrent \in Nat /\ a.mmr3sPeak \in Nat
      /\ a.games2sCurrSeason = 1 /\ a.games2sPrevSeason \in Nat
      /\ a.games3sCurrSeason \in Nat /\ a.games3sPrevSeason = 0
  BY FilledIs DEF RequestOf, Playlists
<1> HIDE DEF a
<1>2. /\ twos.mmr \in Int /\ twos.peak \in Int /\ threes.mmr \in Int /\ threes.peak \in Int
      /\ g \in Nat /\ h \in Nat /\ g + h > 0 /\ h = a.games3sCurrSeason
  BY <1>1
<1>3. /\ twos.mmr \in S /\ twos.peak \in S
      /\ h > 0 => threes.mmr \in S /\ threes.peak \in S
  BY <1>2
<1>4. S \in SUBSET Int
  BY <1>1
<1>5. IsFiniteSet(S)
  <2>1. S \subseteq {a.mmr2sCurrent, a.mmr2sPeak, a.mmr3sCurrent, a.mmr3sPeak}
    OBVIOUS
  <2> QED BY <2>1, Four, FS_Subset
<1>6. x = Ascendancy(twos, g, threes, h, config)
  BY DEF CalculateAscendancyMmr
<1> HIDE DEF S, x, twos, threes, g, h
<1>7. ASSUME NEW low \in Int, NEW high \in Int, \A y \in S : low <= y /\ y <= high
      PROVE  low <= x /\ x <= high
  BY <1>2, <1>3, <1>6, <1>7, AscendancyWithin
<1>8. Between(x, S)
  BY <1>4, <1>5, <1>7, BetweenBounds
<1> QED BY <1>8 DEF S, x, a

(* For every data and every configuration: the weighted average lies among  *)
(* the ratings that count, the peak rating is their greatest, and the two   *)
(* forms of the ascendancy rating lie among the ratings and peaks they are  *)
(* made of.                                                                 *)
LEMMA RatingIsWithin ==
  ASSUME NEW seasons, NEW config, IsConfig(config),
         \A d \in ExtractTrackerData(seasons) : IsData(d)
  PROVE  RatingWithin(seasons, config)
<1> SUFFICES ASSUME NEW d \in ExtractTrackerData(seasons)
             PROVE
    LET By(algorithm) == AnswerRequest({d}, {}, [config EXCEPT !.algorithm = algorithm])
        rated == {p \in Playlists : d[p].mmr # Absent /\ Games(d, p) >= config.minGames[p]}
        counting == {p \in rated : config.weights[p] > 0}
        played == {p \in {"twos", "threes"} : Games(d, p) > 0}
        request == RequestOf(d)
        asked == {request.mmr2sCurrent, request.mmr2sPeak}
                   \cup (IF request.games3sCurrSeason = 0 THEN {}
                         ELSE {request.mmr3sCurrent, request.mmr3sPeak})
    IN /\ Between(By("WEIGHTED_AVERAGE"), {d[p].mmr : p \in counting})
       /\ rated # {} => By("PEAK_MMR") = Max({d[p].mmr : p \in rated})
       /\ config.current + config.peak > 0 =>
            /\ Between(By("ASCENDANCY"),
                       UNION {{Or(d[p].mmr, 0), Or(d[p].peak, Or(d[p].mmr, 0))} : p \in played})
            /\ Between(AnswerRequest({}, {request}, [config EXCEPT !.algorithm = "ASCENDANCY"]), asked)
  BY DEF RatingWithin
<1> DEFINE rated == {p \in Playlists : d[p].mmr # Absent /\ Games(d, p) >= config.minGames[p]}
           counting == {p \in rated : config.weights[p] > 0}
           played == {p \in {"twos", "threes"} : Games(d, p) > 0}
<1>1. IsData(d)
  OBVIOUS
<1>2. Between(CalculateWeightedAverage(d, config), {d[p].mmr : p \in counting})
  <2> DEFINE S == {d[p].mmr : p \in counting}
  <2>1. counting = Counted(d, config)
    BY DEF Counted, Played
  <2>2. counting \in SUBSET Playlists /\ \A p \in counting : d[p].mmr # Absent
    OBVIOUS
  <2>3. S \in SUBSET Int /\ IsFiniteSet(S)
    <3> HIDE DEF counting
    <3> QED BY <1>1, <2>2, RatingsFinite
  <2>4. ASSUME NEW low \in Int, NEW high \in Int, S # {}, \A y \in S : low <= y /\ y <= high
        PROVE  /\ low <= CalculateWeightedAverage(d, config)
               /\ CalculateWeightedAverage(d, config) <= high
    <3> HIDE DEF counting
    <3>1. \A p \in counting : low <= d[p].mmr /\ d[p].mmr <= high
      BY <2>4
    <3>2. counting # {}
      BY <2>4
    <3> QED BY <1>1, <2>1, <3>1, <3>2, WeightedWithin
  <2> HIDE DEF S
  <2>5. Between(CalculateWeightedAverage(d, config), S)
    BY <2>3, <2>4, BetweenBounds
  <2> QED BY <2>5 DEF S
<1>3. rated # {} => CalculatePeakMmr(d, config) = Max({d[p].mmr : p \in rated})
  <2>1. rated = {q \in Playlists : d[q].mmr # Absent /\ Played(d, q, config)}
    BY DEF Played
  <2> HIDE DEF rated
  <2>2. rated # {} => {d[p].mmr : p \in rated} # {}
    OBVIOUS
  <2> QED BY <2>1, <2>2 DEF CalculatePeakMmr
<1>4. config.current + config.peak > 0 =>
        Between(CalculateAscendancy(d, config),
                UNION {{Or(d[p].mmr, 0), Or(d[p].peak, Or(d[p].mmr, 0))} : p \in played})
  <2> SUFFICES ASSUME config.current + config.peak > 0
               PROVE  Between(CalculateAscendancy(d, config),
                UNION {{Or(d[p].mmr, 0), Or(d[p].peak, Or(d[p].mmr, 0))} : p \in played})
    OBVIOUS
  <2>1. CASE played = {}
    BY <2>1 DEF Between
  <2>2. CASE played # {}
    <3>1. \E p \in {"twos", "threes"} : Games(d, p) > 0
      BY <2>2
    <3>2. /\ played \in SUBSET {"twos", "threes"}
          /\ \A p \in {"twos", "threes"} : Games(d, p) > 0 => p \in played
      OBVIOUS
    <3> HIDE DEF played
    <3> QED BY <1>1, <3>1, <3>2, AscendancyBetween DEF IsConfig
  <2> QED BY <2>1, <2>2
<1>5. config.current + config.peak > 0 =>
        LET request == RequestOf(d)
        IN Between(CalculateAscendancyMmr(request, config),
                    {request.mmr2sCurrent, request.mmr2sPeak}
                      \cup (IF request.games3sCurrSeason = 0 THEN {}
                            ELSE {request.mmr3sCurrent, request.mmr3sPeak}))
  BY <1>1, RequestBetween DEF IsConfig
<1> HIDE DEF rated, counting, played
<1> QED BY <1>2, <1>3, <1>4, <1>5, Answered DEF rated, counting, played

IsSeasons(seasons) ==
  /\ \A s \in seasons : s.seasonNumber \in Int /\ IsData(s.playlists)
  /\ \A s, t \in seasons : s.seasonNumber = t.seasonNumber => s = t

(* A tracker whose seasons have numbers of their own has one latest season  *)
(* at most.                                                                 *)
LEMMA LatestIsOne ==
  ASSUME NEW seasons, IsSeasons(seasons)
  PROVE  /\ \A d \in ExtractTrackerData(seasons) : IsData(d)
         /\ \A d, e \in ExtractTrackerData(seasons) : d = e
<1>1. \A s, t \in seasons :
        /\ \A u \in seasons : u.seasonNumber <= s.seasonNumber
        /\ \A u \in seasons : u.seasonNumber <= t.seasonNumber
        => s = t
  BY DEF IsSeasons
<1> QED BY <1>1 DEF ExtractTrackerData, IsSeasons

(* A guild without settings of its own, and one with a formula.             *)
LEMMA GuildIsRated ==
  ASSUME NEW seasons, IsSeasons(seasons), NEW config, IsConfig(config)
  PROVE  EachGuildRated(seasons, config)
<1> DEFINE custom == [config EXCEPT !.algorithm = "CUSTOM"]
           settings == [unset |-> {}, own |-> {custom}]
           Given(d, h) == CalculateMmrForGuild(d, settings[h])
           S(d) == UNION {{Or(d[q].mmr, 0), Or(d[q].peak, Or(d[q].mmr, 0))} : q \in {"twos", "threes"}}
<1> SUFFICES ASSUME NEW ratings \in CalculateMmrForUser(seasons, settings),
                    NEW d \in ExtractTrackerData(seasons)
             PROVE  /\ "unset" \in DOMAIN ratings
                    /\ \A p \in {"twos", "threes"} : Games(d, p) > 0 => Between(ratings["unset"], S(d))
  BY DEF EachGuildRated
<1>1. DOMAIN settings = {"unset", "own"} /\ settings["unset"] = {} /\ settings["own"] = {custom}
  OBVIOUS
<1>2. ratings = [g \in {h \in {"unset", "own"} : Given(d, h) # Absent} |-> Given(d, g)]
  <2>1. PICK e \in ExtractTrackerData(seasons) :
          ratings = [g \in {h \in DOMAIN settings : Given(e, h) # Absent} |-> Given(e, g)]
    BY DEF CalculateMmrForUser
  <2>2. e = d
    BY LatestIsOne
  <2> HIDE DEF settings, Of
  <2> QED BY <1>1, <2>1, <2>2
<1>3. Given(d, "unset") = CalculateAscendancy(d, DefaultConfig)
  <2>1. Given(d, "unset") = CalculateMmr(d, DefaultConfig)
    BY <1>1 DEF CalculateMmrForGuild
  <2>2. DefaultConfig.algorithm = "ASCENDANCY"
    BY DEF DefaultConfig
  <2> QED BY <2>1, <2>2 DEF CalculateMmr
<1> HIDE DEF Given, settings, custom
<1>5. IsData(d)
  BY LatestIsOne
<1>6. DefaultConfig.current = 1 /\ DefaultConfig.peak = 3
  BY DEF DefaultConfig
<1>7. ASSUME NEW p \in {"twos", "threes"}, Games(d, p) > 0
      PROVE  Between(Given(d, "unset"), S(d))
  <2> DEFINE P == {"twos", "threes"}
  <2>1. P \in SUBSET {"twos", "threes"} /\ \A q \in {"twos", "threes"} : Games(d, q) > 0 => q \in P
    OBVIOUS
  <2> HIDE DEF P
  <2>2. Between(CalculateAscendancy(d, DefaultConfig),
                UNION {{Or(d[q].mmr, 0), Or(d[q].peak, Or(d[q].mmr, 0))} : q \in P})
    BY <1>5, <1>6, <1>7, <2>1, AscendancyBetween
  <2> QED BY <1>3, <2>2 DEF P
<1>8. Given(d, "unset") # Absent
  <2>1. Games(d, "twos") \in Nat /\ Games(d, "threes") \in Nat
    BY <1>5, FilledIs DEF Playlists
  <2>2. CASE Games(d, "twos") + Games(d, "threes") = 0
    BY <1>3, <2>2 DEF CalculateAscendancy, Ascendancy, Absent
  <2>3. CASE Games(d, "twos") + Games(d, "threes") > 0
    <3>1. PICK p \in {"twos", "threes"} : Games(d, p) > 0
      BY <2>1, <2>3
    <3>2. Between(Given(d, "unset"), S(d))
      BY <1>7, <3>1
    <3>3. S(d) \in SUBSET Nat /\ IsFiniteSet(S(d)) /\ S(d) # {}
      <4> DEFINE P == {"twos", "threes"}
      <4>1. P \in SUBSET {"twos", "threes"} /\ "twos" \in P
        OBVIOUS
      <4> HIDE DEF P
      <4>2. LET T == UNION {{Or(d[q].mmr, 0), Or(d[q].peak, Or(d[q].mmr, 0))} : q \in P}
            IN  T \in SUBSET Nat /\ IsFiniteSet(T) /\ Or(d["twos"].mmr, 0) \in T
        BY <1>5, <4>1, FilledSet
      <4> QED BY <4>2 DEF P
    <3>4. Min(S(d)) \in Nat /\ Max(S(d)) \in Nat
      <4> HIDE DEF S
      <4> QED BY <3>3, LeastIs, GreatestIs
    <3> QED BY <3>2, <3>3, <3>4 DEF Between, Absent
  <2> QED BY <2>1, <2>2, <2>3
<1> HIDE DEF S
<1> QED BY <1>2, <1>7, <1>8

-------------------------------------------------------------------------------
(* Entries are pairs of a season and a place; of two one is before the      *)
(* other, and what comes before comes before all that follows.              *)
Pairs == Int \X Int

LEMMA PrecedesOrders ==
  /\ \A a, b \in Pairs : Precedes(a, b) => ~Precedes(b, a) /\ a # b
  /\ \A a, b \in Pairs : a = b \/ Precedes(a, b) \/ Precedes(b, a)
  /\ \A a, b, c \in Pairs : Precedes(a, b) /\ Precedes(b, c) => Precedes(a, c)
<1>1. \A a \in Pairs : a = <<a[1], a[2]>> /\ a[1] \in Int /\ a[2] \in Int
  BY DEF Pairs
<1>2. \A a, b \in Pairs : Precedes(a, b) => ~Precedes(b, a) /\ a # b
  BY <1>1 DEF Precedes
<1>3. ASSUME NEW a \in Pairs, NEW b \in Pairs PROVE a = b \/ Precedes(a, b) \/ Precedes(b, a)
  <2>1. CASE a[1] = b[1] /\ a[2] = b[2]
    BY <1>1, <2>1
  <2>2. CASE ~(a[1] = b[1] /\ a[2] = b[2])
    BY <1>1, <2>2 DEF Precedes
  <2> QED BY <2>1, <2>2
<1>4. \A a, b, c \in Pairs : Precedes(a, b) /\ Precedes(b, c) => Precedes(a, c)
  BY <1>1 DEF Precedes
<1> QED BY <1>2, <1>3, <1>4

(* Finitely many entries have a last one.                                   *)
LEMMA LastExists ==
  ASSUME NEW S \in SUBSET Pairs, IsFiniteSet(S), S # {}
  PROVE  \E e \in S : \A d \in S \ {e} : Precedes(d, e)
<1> DEFINE season == [e \in S |-> e[1]]
           Seasons == {e[1] : e \in S}
<1>0. \A e \in S : e[1] \in Int /\ e[2] \in Int /\ e = <<e[1], e[2]>>
  BY DEF Pairs
<1>1. IsFiniteSet(Seasons) /\ Seasons \in SUBSET Int /\ Seasons # {}
  <2>1. season \in Surjection(S, Seasons)
    BY DEF Surjection
  <2>2. Seasons \in SUBSET Int /\ Seasons # {}
    BY <1>0
  <2> HIDE DEF season, Seasons
  <2> QED BY <2>1, <2>2, FS_Surjection
<1> DEFINE n == Min(Seasons)
<1>2. n \in Seasons /\ \A m \in Seasons : n <= m
  <2> HIDE DEF Seasons
  <2> QED BY <1>1, LeastIs
<1> DEFINE T == {e \in S : e[1] = n}
           place == [e \in T |-> e[2]]
           Places == {e[2] : e \in T}
<1> HIDE DEF n
<1>3. IsFiniteSet(T) /\ T # {}
  BY <1>2, FS_Subset
<1>4. IsFiniteSet(Places) /\ Places \in SUBSET Int /\ Places # {}
  <2>1. place \in Surjection(T, Places)
    BY DEF Surjection
  <2>2. Places \in SUBSET Int /\ Places # {}
    BY <1>0, <1>3
  <2> HIDE DEF place, Places, T
  <2> QED BY <1>3, <2>1, <2>2, FS_Surjection
<1>5. Max(Places) \in Places /\ \A y \in Places : Max(Places) >= y
  <2> HIDE DEF Places
  <2> QED BY <1>4, GreatestIs
<1>6. PICK e \in T : e[2] = Max(Places)
  BY <1>5
<1>7. \A d \in T : d[2] <= e[2]
  <2> SUFFICES ASSUME NEW d \in T PROVE d[2] <= e[2]
    OBVIOUS
  <2>1. d[2] \in Places
    OBVIOUS
  <2> HIDE DEF Places, T
  <2> QED BY <1>5, <1>6, <2>1
<1>8. ASSUME NEW d \in S \ {e} PROVE Precedes(d, e)
  <2>1. n <= d[1] /\ e[1] = n /\ e \in S
    BY <1>2, <1>6
  <2>2. d[1] = n => d[2] <= e[2]
    BY <1>7
  <2>3. d[1] = e[1] => d[2] # e[2]
    BY <1>0, <2>1
  <2> QED BY <1>0, <2>1, <2>2, <2>3 DEF Precedes
<1> QED BY <1>6, <1>8

IsDescending(list, S) ==
  /\ list \in [1..Cardinality(S) -> S]
  /\ \A i, j \in DOMAIN list : i < j => Precedes(list[i], list[j])

(* Finitely many entries can be listed in order.                            *)
LEMMA DescendingExists ==
  ASSUME NEW S \in SUBSET Pairs, IsFiniteSet(S)
  PROVE  \E list : IsDescending(list, S)
<1> DEFINE Bad == {T \in SUBSET S : ~\E list : IsDescending(list, T)}
           C == {Cardinality(T) : T \in Bad}
<1> SUFFICES ASSUME S \in Bad PROVE FALSE
  OBVIOUS
<1>1. \A T \in SUBSET S : IsFiniteSet(T) /\ Cardinality(T) \in Nat /\ Cardinality(T) <= Cardinality(S)
  BY FS_Subset, FS_CardinalityType
<1>2. C \in SUBSET (0..Cardinality(S)) /\ C # {}
  BY <1>1, FS_CardinalityType
<1>3. PICK n \in C : \A m \in C : n <= m
  <2>1. IsFiniteSet(0..Cardinality(S))
    BY FS_Interval, FS_CardinalityType
  <2>2. IsFiniteSet(C) /\ C \in SUBSET Int
    <3>1. Cardinality(S) \in Nat
      BY FS_CardinalityType
    <3> HIDE DEF C
    <3>2. C \in SUBSET Int
      BY <1>2, <3>1
    <3>3. IsFiniteSet(C)
      BY <1>2, <2>1, FS_Subset
    <3> QED BY <3>2, <3>3
  <2> HIDE DEF C
  <2> QED BY <1>2, <2>2, LeastExists
<1>4. PICK T \in Bad : n = Cardinality(T)
  OBVIOUS
<1>5. T \in SUBSET Pairs /\ IsFiniteSet(T) /\ n \in Nat
  BY <1>1, <1>4
<1>6. T # {}
  <2> SUFFICES ASSUME T = {} PROVE FALSE
    OBVIOUS
  <2> DEFINE none == [i \in 1..0 |-> 0]
  <2>1. Cardinality(T) = 0
    BY FS_EmptySet
  <2>2. none \in [1..0 -> T]
    OBVIOUS
  <2>3. \A i \in 1..0 : FALSE
    OBVIOUS
  <2>4. DOMAIN none = 1..0
    OBVIOUS
  <2> HIDE DEF none
  <2>5. IsDescending(none, T)
    BY <2>1, <2>2, <2>3, <2>4 DEF IsDescending
  <2> QED BY <2>5
<1>7. PICK m \in T : \A y \in T \ {m} : Precedes(y, m)
  BY <1>5, <1>6, LastExists
<1> DEFINE U == T \ {m}
<1>8. IsFiniteSet(U) /\ Cardinality(U) = n - 1 /\ n - 1 \in Nat
  <2>1. IsFiniteSet(U) /\ Cardinality(U) = n - 1
    BY <1>4, <1>5, <1>7, FS_RemoveElement
  <2>2. Cardinality(U) \in Nat
    BY <2>1, FS_CardinalityType
  <2> QED BY <2>1, <2>2
<1>9. U \in SUBSET S /\ U \notin Bad
  <2>1. U \in SUBSET S
    OBVIOUS
  <2>2. ASSUME U \in Bad PROVE FALSE
    <3>1. Cardinality(U) \in C
      BY <2>2
    <3> HIDE DEF C, U
    <3>2. n <= Cardinality(U)
      BY <1>3, <3>1
    <3> QED BY <1>5, <1>8, <3>2
  <2> QED BY <2>1, <2>2
<1>10. PICK l : IsDescending(l, U)
  BY <1>9
<1> DEFINE list == [i \in 1..n |-> IF i = n THEN m ELSE l[i]]
<1>11. l \in [1..n - 1 -> U] /\ \A i, j \in 1..n - 1 : i < j => Precedes(l[i], l[j])
  BY <1>8, <1>10 DEF IsDescending
<1>12. \A i \in 1..n : i # n => i \in 1..n - 1 /\ l[i] \in U
  BY <1>5, <1>11
<1>13. list \in [1..n -> T]
  BY <1>7, <1>12
<1>14. \A y \in U : Precedes(y, m)
  BY <1>7
<1>15. \A i, j \in 1..n : i < j => Precedes(list[i], list[j])
  <2> SUFFICES ASSUME NEW i \in 1..n, NEW j \in 1..n, i < j PROVE Precedes(list[i], list[j])
    OBVIOUS
  <2>1. i # n /\ i \in 1..n - 1 /\ l[i] \in U
    BY <1>5, <1>12
  <2>2. CASE j = n
    BY <1>14, <2>1, <2>2
  <2>3. CASE j # n
    <3>1. j \in 1..n - 1
      BY <1>12, <2>3
    <3> QED BY <1>11, <2>1, <2>3, <3>1
  <2> QED BY <2>2, <2>3
<1>16. IsDescending(list, T)
  BY <1>4, <1>13, <1>15 DEF IsDescending
<1> QED BY <1>16

(* Newest lists every element of a set once.                                *)
LEMMA NewestIs ==
  ASSUME NEW S \in SUBSET Pairs, IsFiniteSet(S)
  PROVE  /\ Cardinality(S) \in Nat
         /\ Newest(S) \in [1..Cardinality(S) -> S]
         /\ \A i, j \in 1..Cardinality(S) : i < j => Precedes(Newest(S)[i], Newest(S)[j])
         /\ \A x \in S : \E i \in 1..Cardinality(S) : x = Newest(S)[i]
         /\ Newest(S) \in Seq(S) /\ Len(Newest(S)) = Cardinality(S)
<1> DEFINE n == Cardinality(S)
           list == Newest(S)
<1>1. n \in Nat
  BY FS_CardinalityType
<1>2. IsDescending(list, S)
  <2>1. PICK down : IsDescending(down, S)
    BY DescendingExists
  <2>2. \E l \in [1..Cardinality(S) -> S] : \A i, j \in DOMAIN l : i < j => Precedes(l[i], l[j])
    BY <2>1 DEF IsDescending
  <2> QED BY <2>2 DEF Newest, IsDescending
<1> HIDE DEF list
<1>3. list \in [1..n -> S] /\ \A i, j \in 1..n : i < j => Precedes(list[i], list[j])
  BY <1>2 DEF IsDescending
<1>4. list \in Injection(1..n, S)
  <2>1. ASSUME NEW i \in 1..n, NEW j \in 1..n, list[i] = list[j] PROVE i = j
    <3>1. list[i] \in Pairs /\ list[j] \in Pairs
      BY <1>3
    <3>2. ~(i < j) /\ ~(j < i)
      BY <1>3, <2>1, <3>1, PrecedesOrders
    <3> QED BY <3>2
  <2> QED BY <1>3, <2>1 DEF Injection, IsInjective
<1>5. list \in Surjection(1..n, S)
  <2>1. IsFiniteSet(1..n) /\ Cardinality(1..n) = n
    BY <1>1, FS_Interval
  <2> QED BY <1>4, <2>1, FS_Injection
<1>6. \A x \in S : \E i \in 1..n : x = list[i]
  BY <1>5 DEF Surjection
<1>7. list \in Seq(S) /\ Len(list) = n
  BY <1>1, <1>3
<1> QED BY <1>1, <1>3, <1>6, <1>7 DEF list

(* The i-th of them has i - 1 before it.                                    *)
LEMMA NewestPlace ==
  ASSUME NEW S \in SUBSET Pairs, IsFiniteSet(S), NEW i \in 1..Cardinality(S)
  PROVE  Cardinality({y \in S : Precedes(y, Newest(S)[i])}) = i - 1
<1> DEFINE n == Cardinality(S)
           list == Newest(S)
           T == {y \in S : Precedes(y, list[i])}
           f == [k \in 1..i - 1 |-> list[k]]
<1>1. /\ n \in Nat /\ list \in [1..n -> S]
      /\ \A k, j \in 1..n : k < j => Precedes(list[k], list[j])
      /\ \A x \in S : \E k \in 1..n : x = list[k]
  BY NewestIs
<1> HIDE DEF list, n
<1>2. \A k \in 1..i - 1 : k \in 1..n /\ list[k] \in T
  BY <1>1 DEF n
<1>3. \A y \in T : \E k \in 1..i - 1 : y = list[k]
  <2> SUFFICES ASSUME NEW y \in T PROVE \E k \in 1..i - 1 : y = list[k]
    OBVIOUS
  <2>1. PICK k \in 1..n : y = list[k]
    BY <1>1
  <2>2. Precedes(list[k], list[i]) /\ i \in 1..n /\ list[i] \in Pairs /\ list[k] \in Pairs
    BY <1>1, <2>1 DEF n
  <2>3. ~(i < k) /\ i # k
    BY <1>1, <2>2, PrecedesOrders
  <2>4. k < i
    BY <2>2, <2>3
  <2> QED BY <2>1, <2>2, <2>4
<1>4. \A k, j \in 1..i - 1 : list[k] = list[j] => k = j
  <2> SUFFICES ASSUME NEW k \in 1..i - 1, NEW j \in 1..i - 1, list[k] = list[j] PROVE k = j
    OBVIOUS
  <2>1. k \in 1..n /\ j \in 1..n
    BY <1>2
  <2>2. list[k] \in Pairs /\ list[j] \in Pairs
    BY <1>1, <2>1
  <2>3. ~(k < j) /\ ~(j < k)
    BY <1>1, <2>1, <2>2, PrecedesOrders
  <2> QED BY <2>3
<1> HIDE DEF T
<1>5. f \in Bijection(1..i - 1, T)
  <2>1. f \in [1..i - 1 -> T]
    BY <1>2
  <2>2. f \in Injection(1..i - 1, T)
    BY <1>4, <2>1 DEF Injection, IsInjective
  <2>3. f \in Surjection(1..i - 1, T)
    BY <1>3, <2>1 DEF Surjection
  <2> QED BY <2>2, <2>3 DEF Bijection
<1>6. IsFiniteSet(1..i - 1) /\ Cardinality(1..i - 1) = i - 1
  BY FS_Interval DEF n
<1>7. ExistsBijection(1..i - 1, T)
  BY <1>5 DEF ExistsBijection
<1> QED BY <1>6, <1>7, FS_Bijection DEF T, list

-------------------------------------------------------------------------------
(* What the tries of a request get: an answer, or all of them.              *)
IsTries(tries) ==
  /\ \E k \in Nat : DOMAIN tries = 1..k
  /\ \E i \in DOMAIN tries : i > ScraperRetries \/ tries[i].kind = "answer"
  /\ \A i \in DOMAIN tries :
       tries[i].kind = "answer" => \E k \in Nat : DOMAIN tries[i].segments = 1..k

IsBase(base, answers) ==
  /\ \E k \in Nat : DOMAIN base.available = 1..k /\ DOMAIN answers = 1..k
  /\ \A i \in DOMAIN base.available : base.available[i] \in Int /\ IsTries(answers[i])
  /\ base.current \in Int
  /\ \E k \in Nat : DOMAIN base.segments = 1..k

(* A page that could be had has a list of segments.                         *)
LEMMA PageIsList ==
  ASSUME NEW tries, IsTries(tries), ~ScrapeTrackerData(tries).failed
  PROVE  \E k \in Nat : DOMAIN ScrapeTrackerData(tries).segments = 1..k
<1> DEFINE T == {i \in DOMAIN tries : i > ScraperRetries \/ tries[i].kind = "answer"}
<1>1. Min(T) \in T
  <2>1. PICK k \in Nat : DOMAIN tries = 1..k
    BY DEF IsTries
  <2>2. IsFiniteSet(1..k)
    BY FS_Interval
  <2>3. T \in SUBSET (1..k) /\ T # {}
    BY <2>1 DEF IsTries
  <2>4. 1..k \in SUBSET Int
    OBVIOUS
  <2> HIDE DEF T
  <2>5. T \in SUBSET Int /\ IsFiniteSet(T)
    BY <2>2, <2>3, <2>4, FS_Subset
  <2> QED BY <2>3, <2>5, LeastIs
<1> DEFINE answer == tries[Min(T)]
<1>2. MakeProxyRequest(tries) = answer
  BY DEF MakeProxyRequest
<1> HIDE DEF T
<1>3. answer.kind = "answer" => \E k \in Nat : DOMAIN answer.segments = 1..k
  BY <1>1 DEF IsTries, T
<1> HIDE DEF answer
<1>4. ScrapeTrackerData(tries) = ParseApiResponse(answer)
  BY <1>2 DEF ScrapeTrackerData
<1>5. Failed.failed
  BY DEF Failed
<1>6. answer.kind = "answer" /\ ParseApiResponse(answer).segments = answer.segments
  BY <1>4, <1>5 DEF ParseApiResponse
<1> QED BY <1>3, <1>4, <1>6

(* The entries of a list, and those of it that are not the current season.  *)
LEMMA EntriesAre ==
  ASSUME NEW base, NEW answers, IsBase(base, answers)
  PROVE  /\ Entries(base) \in SUBSET Pairs /\ IsFiniteSet(Entries(base))
         /\ \A e \in Entries(base) : e[2] \in DOMAIN answers /\ e[2] # 0 /\ IsTries(answers[e[2]])
<1> DEFINE E == Entries(base)
           f == [i \in DOMAIN base.available |-> <<base.available[i], i>>]
<1>1. PICK k \in Nat : DOMAIN base.available = 1..k /\ DOMAIN answers = 1..k
  BY DEF IsBase
<1>2. \A i \in 1..k : base.available[i] \in Int /\ IsTries(answers[i])
  BY <1>1 DEF IsBase
<1>3. E = {<<base.available[i], i>> : i \in 1..k}
  BY <1>1 DEF Entries
<1>4. f \in Surjection(1..k, E)
  BY <1>1, <1>3 DEF Surjection
<1>5. IsFiniteSet(1..k)
  BY FS_Interval
<1> HIDE DEF E, f
<1>6. IsFiniteSet(E)
  BY <1>4, <1>5, FS_Surjection
<1>7. ASSUME NEW e \in E
      PROVE  e \in Pairs /\ e[2] \in DOMAIN answers /\ e[2] # 0 /\ IsTries(answers[e[2]])
  <2>1. PICK i \in 1..k : e = <<base.available[i], i>>
    BY <1>3
  <2>2. e[2] = i /\ e \in Pairs
    BY <1>2, <2>1 DEF Pairs
  <2> QED BY <1>1, <1>2, <2>2
<1> QED BY <1>6, <1>7 DEF E

(* The entries asked for are the most recent past ones.                     *)
LEMMA AskedSeasons ==
  ASSUME NEW base, NEW answers, IsBase(base, answers), NEW max \in Nat
  PROVE  LET past == {e \in Entries(base) : e[1] # base.current}
         IN  ToSet(SeasonsToScrape(base, max)) = {n \in past : Cardinality({m \in past : Precedes(m, n)}) < max}
<1> DEFINE past == {e \in Entries(base) : e[1] # base.current}
           list == Newest(past)
           k == Cardinality(past)
           cut == Min({max, k})
           first == SeasonsToScrape(base, max)
<1>1. past \in SUBSET Pairs /\ IsFiniteSet(past)
  BY EntriesAre, FS_Subset
<1> HIDE DEF past
<1>2. /\ k \in Nat /\ list \in [1..k -> past] /\ list \in Seq(past) /\ Len(list) = k
      /\ \A x \in past : \E i \in 1..k : x = list[i]
  BY <1>1, NewestIs
<1>3. \A i \in 1..k : Cardinality({y \in past : Precedes(y, list[i])}) = i - 1
  BY <1>1, NewestPlace
<1> HIDE DEF list, k
<1>4. cut \in Nat /\ cut <= k /\ \A i \in 1..k : i <= cut <=> i <= max
  <2>1. cut = IF max <= k THEN max ELSE k
    BY <1>2 DEF Min
  <2> HIDE DEF cut
  <2> QED BY <1>2, <2>1
<1>5. first = SubSeq(list, 1, cut)
  BY <1>2 DEF SeasonsToScrape, FirstOf, past, list
<1> HIDE DEF first, cut
<1>6. DOMAIN first = 1..cut /\ \A i \in 1..cut : first[i] = list[i]
  BY <1>2, <1>4, <1>5
<1>7. ToSet(first) = {list[i] : i \in 1..cut}
  BY <1>6 DEF ToSet
<1>11. \A i \in 1..k : i \in Int
  <2>1. k \in Nat
    BY <1>2
  <2> QED BY <2>1
<1>8. ASSUME NEW n \in past
      PROVE  n \in ToSet(first) <=> Cardinality({m \in past : Precedes(m, n)}) < max
  <2>1. PICK i \in 1..k : n = list[i]
    BY <1>2
  <2>2. Cardinality({m \in past : Precedes(m, n)}) = i - 1
    BY <1>3, <2>1
  <2>3. i \in Int /\ (i <= cut <=> i - 1 < max)
    <3>1. i \in Int
      BY <1>11
    <3>2. i <= cut <=> i <= max
      BY <1>4
    <3> QED BY <3>1, <3>2
  <2>4. ASSUME NEW j \in 1..cut, n = list[j] PROVE i = j
    <3>1. j \in 1..k
      BY <1>2, <1>4
    <3>2. Cardinality({m \in past : Precedes(m, n)}) = j - 1
      BY <1>3, <2>4, <3>1
    <3> QED BY <2>2, <2>3, <3>1, <3>2
  <2>5. n \in ToSet(first) <=> i <= cut
    BY <1>4, <1>7, <2>1, <2>3, <2>4
  <2> QED BY <2>2, <2>3, <2>5
<1>9. ToSet(first) \subseteq past
  BY <1>2, <1>4, <1>7
<1>10. ToSet(first) = {n \in past : Cardinality({m \in past : Precedes(m, n)}) < max}
  BY <1>8, <1>9
<1> QED BY <1>10 DEF first, past

(* A season that was found says a rating of that season.                    *)
LEMMA RatingsAreOwn ==
  ASSUME NEW segments, \E k \in Nat : DOMAIN segments = 1..k, NEW n, NEW f \in Fields,
         ParseSegments(segments, n).playlists[f] # Failed
  PROVE  \E segment \in ToSet(segments) :
           segment.season = n /\ segment.rating = ParseSegments(segments, n).playlists[f].rating
<1> DEFINE Own == {i \in DOMAIN segments :
                   /\ segments[i].type = "playlist" /\ segments[i].season = n
                   /\ segments[i].playlist \in IdsOf(f) /\ segments[i].valid}
           had == ParseSegments(segments, n).playlists[f]
<1>1. \E peak : had = IF Own = {} THEN Failed ELSE ExtractPlaylistData(segments[Max(Own)], peak)
  BY DEF ParseSegments
<1>2. Own # {} /\ had.rating = segments[Max(Own)].rating
  <2> HIDE DEF Own
  <2> QED BY <1>1 DEF ExtractPlaylistData
<1>3. Max(Own) \in Own
  <2>1. PICK k \in Nat : DOMAIN segments = 1..k
    OBVIOUS
  <2>2. Own \in SUBSET (1..k) /\ IsFiniteSet(1..k) /\ 1..k \in SUBSET Int
    BY <2>1, FS_Interval
  <2> HIDE DEF Own
  <2>3. Own \in SUBSET Int /\ IsFiniteSet(Own)
    BY <2>2, FS_Subset
  <2> QED BY <1>2, <2>3, GreatestIs
<1> DEFINE i == Max(Own)
<1> HIDE DEF i, had
<1>4. i \in DOMAIN segments /\ segments[i].season = n
  BY <1>3 DEF i
<1>5. had.rating = segments[i].rating
  BY <1>2 DEF i
<1> QED BY <1>4, <1>5 DEF ToSet, had

(* For every list of seasons and whatever each try gets: the result is in   *)
(* order, has exactly the newest past entries that were to be had and the   *)
(* current season, and rates each from a page that was asked for it.        *)
LEMMA ScrapeAsAsked ==
  ASSUME NEW base, NEW answers, IsBase(base, answers), NEW max \in Nat
  PROVE  SeasonsAsAsked(base, answers, max)
<1> DEFINE result == ScrapeSeasons(base, answers, max)
           past == {e \in Entries(base) : e[1] # base.current}
           page == [i \in DOMAIN answers |-> ScrapeTrackerData(answers[i])]
           asked == ToSet(SeasonsToScrape(base, max))
           had == {e \in asked : ~page[e[2]].failed}
           returned == had \cup (IF base.current # 0 THEN {Current(base)} ELSE {})
           order == Newest(returned)
           Parsed(e) == ParseSegments(IF e[2] = 0 THEN base.segments ELSE page[e[2]].segments, e[1])
           due == {e \in past : /\ Cardinality({d \in past : Precedes(d, e)}) < max
                                /\ ~ScrapeTrackerData(answers[e[2]]).failed}
           owed == due \cup (IF base.current = 0 THEN {} ELSE {Current(base)})
           Stated(e) == IF e[2] = 0 THEN base.segments ELSE ScrapeTrackerData(answers[e[2]]).segments
<1> SUFFICES ASSUME base.available # <<>>
             PROVE  /\ \A i, j \in DOMAIN result :
                         i < j => result[i].seasonNumber >= result[j].seasonNumber
                    /\ {result[i].seasonNumber : i \in DOMAIN result} = {e[1] : e \in owed}
                    /\ DOMAIN result = 1..Cardinality(owed)
                    /\ \A i, j \in DOMAIN result :
                         {result[i].seasonNumber, result[j].seasonNumber} = {base.current} => i = j
                    /\ \A i \in DOMAIN result, f \in Fields :
                         LET it == result[i].playlists[f]
                         IN it # Failed =>
                              \E e \in owed : /\ e[1] = result[i].seasonNumber
                                              /\ \E segment \in ToSet(Stated(e)) :
                                                   segment.season = e[1] /\ segment.rating = it.rating
  BY DEF SeasonsAsAsked
<1>1. result = [i \in DOMAIN order |-> Parsed(order[i])]
  BY DEF ScrapeSeasons
<1>2. /\ past \in SUBSET Pairs /\ IsFiniteSet(past) /\ base.current \in Int
      /\ \A e \in past : /\ e[1] # base.current /\ e[2] # 0
                         /\ e[2] \in DOMAIN answers /\ IsTries(answers[e[2]])
  <2>1. base.current \in Int
    BY DEF IsBase
  <2> QED BY <2>1, EntriesAre, FS_Subset
<1>3. asked = {e \in past : Cardinality({d \in past : Precedes(d, e)}) < max}
  BY AskedSeasons
<1> HIDE DEF asked, past
<1>4. \A e \in past : page[e[2]] = ScrapeTrackerData(answers[e[2]])
  BY <1>2
<1> HIDE DEF page
<1>5. had = due
  BY <1>3, <1>4
<1>6. returned = owed
  BY <1>5
<1>7. Current(base) \in Pairs /\ Current(base)[1] = base.current /\ Current(base)[2] = 0
  BY <1>2 DEF Current, Pairs
<1>8. /\ owed \in SUBSET Pairs /\ IsFiniteSet(owed)
      /\ \A e \in owed : e = Current(base) \/ (e \in past /\ ~ScrapeTrackerData(answers[e[2]]).failed)
  <2>1. owed \in SUBSET (past \cup {Current(base)})
    OBVIOUS
  <2>2. IsFiniteSet(past \cup {Current(base)})
    BY <1>2, FS_AddElement
  <2>3. \A e \in owed : e = Current(base) \/ (e \in past /\ ~ScrapeTrackerData(answers[e[2]]).failed)
    OBVIOUS
  <2> HIDE DEF owed
  <2> QED BY <1>2, <1>7, <2>1, <2>2, <2>3, FS_Subset
<1>9. order = Newest(owed)
  BY <1>6
<1> HIDE DEF had, returned, due, owed
<1>10. /\ DOMAIN order = 1..Cardinality(owed)
       /\ \A i \in DOMAIN order : order[i] \in owed
       /\ \A i, j \in DOMAIN order : i < j => Precedes(order[i], order[j])
       /\ \A e \in owed : \E i \in DOMAIN order : e = order[i]
       /\ Cardinality(owed) \in Nat
  BY <1>8, <1>9, NewestIs
<1> HIDE DEF order
<1>11. \A e : Parsed(e).seasonNumber = e[1]
  BY DEF ParseSegments
<1>12. ASSUME NEW e \in owed
       PROVE  Parsed(e) = ParseSegments(Stated(e), e[1]) /\ \E k \in Nat : DOMAIN Stated(e) = 1..k
  <2>1. CASE e[2] = 0
    BY <2>1 DEF IsBase
  <2>2. CASE e[2] # 0
    <3>1. e \in past /\ ~ScrapeTrackerData(answers[e[2]]).failed
      BY <1>7, <1>8, <2>2
    <3>2. \E k \in Nat : DOMAIN ScrapeTrackerData(answers[e[2]]).segments = 1..k
      BY <1>2, <3>1, PageIsList
    <3> QED BY <1>4, <2>2, <3>1, <3>2
  <2> QED BY <2>1, <2>2
<1>13. /\ DOMAIN result = DOMAIN order
       /\ \A i \in DOMAIN order : result[i] = Parsed(order[i])
  BY <1>1
<1> HIDE DEF result, Parsed, Stated
<1>14. \A i \in DOMAIN result : result[i].seasonNumber = order[i][1]
  BY <1>11, <1>13
<1>15. {result[i].seasonNumber : i \in DOMAIN result} = {e[1] : e \in owed}
  BY <1>10, <1>13, <1>14
<1>16. ASSUME NEW i \in DOMAIN result, NEW f \in Fields, result[i].playlists[f] # Failed
       PROVE  \E e \in owed : /\ e[1] = result[i].seasonNumber
                              /\ \E segment \in ToSet(Stated(e)) :
                                   segment.season = e[1] /\ segment.rating = result[i].playlists[f].rating
  <2> DEFINE e == order[i]
  <2>1. e \in owed /\ result[i] = Parsed(e) /\ result[i].seasonNumber = e[1]
    BY <1>10, <1>13, <1>14
  <2> HIDE DEF e
  <2>2. result[i] = ParseSegments(Stated(e), e[1]) /\ \E k \in Nat : DOMAIN Stated(e) = 1..k
    BY <1>12, <2>1
  <2> DEFINE n == e[1]
             stated == Stated(e)
  <2>3. ParseSegments(stated, n).playlists[f] # Failed
    BY <1>16, <2>2
  <2>4. \E k \in Nat : DOMAIN stated = 1..k
    BY <2>2
  <2> HIDE DEF n, stated
  <2>5. \E segment \in ToSet(stated) :
          segment.season = n /\ segment.rating = ParseSegments(stated, n).playlists[f].rating
    BY <2>3, <2>4, RatingsAreOwn
  <2> QED BY <2>1, <2>2, <2>5 DEF n, stated
<1>17. \A i, j \in DOMAIN result : i < j => result[i].seasonNumber >= result[j].seasonNumber
  <2> SUFFICES ASSUME NEW i \in DOMAIN result, NEW j \in DOMAIN result, i < j
               PROVE  result[i].seasonNumber >= result[j].seasonNumber
    OBVIOUS
  <2>1. Precedes(order[i], order[j]) /\ order[i] \in Pairs /\ order[j] \in Pairs
    BY <1>8, <1>10, <1>13
  <2>2. order[i][1] \in Int /\ order[j][1] \in Int
    BY <2>1 DEF Pairs
  <2> QED BY <1>14, <2>1, <2>2 DEF Precedes
<1>18. \A i, j \in DOMAIN result :
         {result[i].seasonNumber, result[j].seasonNumber} = {base.current} => i = j
  <2> SUFFICES ASSUME NEW i \in DOMAIN result, NEW j \in DOMAIN result,
                      {result[i].seasonNumber, result[j].seasonNumber} = {base.current}
               PROVE  i = j
    OBVIOUS
  <2>1. order[i][1] = base.current /\ order[j][1] = base.current /\ order[i] \in owed /\ order[j] \in owed
    BY <1>10, <1>13, <1>14
  <2>2. order[i] = Current(base) /\ order[j] = Current(base)
    BY <1>2, <1>8, <2>1
  <2>3. ~Precedes(order[i], order[j]) /\ ~Precedes(order[j], order[i])
    BY <1>7, <2>2, PrecedesOrders
  <2>4. ~(i < j) /\ ~(j < i) /\ i \in 1..Cardinality(owed) /\ j \in 1..Cardinality(owed)
    BY <1>10, <1>13, <2>3
  <2> QED BY <1>10, <2>4
<1>19. DOMAIN result = 1..Cardinality(owed)
  BY <1>10, <1>13
<1> QED BY <1>15, <1>16, <1>17, <1>18, <1>19

-------------------------------------------------------------------------------
IsTable(t) ==
  /\ IsFiniteSet(t)
  /\ \A a, b \in t : a.id = b.id => a = b
  /\ \A a \in t : a["created"] \in Int /\ a["touched"] \in Int

IsQuery(q) ==
  /\ {"of", "statuses", "sort", "descending", "page", "limit"} \subseteq DOMAIN q
  /\ q.limit \in Nat \ {0} /\ q.sort \in {"created", "touched"}

(* A walk has as many pages as its table has rows, or more.                 *)
IsWalk(w) ==
  /\ w.list \in ListNames /\ IsQuery(w.query)
  /\ \E k \in Nat \ {0} :
       /\ DOMAIN w.tables = 1..k
       /\ \A n \in 1..k : IsTable(w.tables[n]) /\ Cardinality(w.tables[n]) <= k

(* What the lists have in common.                                           *)
IsListOf(l, t, parts) ==
  /\ l.rows \subseteq t
  /\ l.by \in {"created", "touched", "none"}
  /\ l.part \in parts


(* The lists that take the page and limit of the query as they are.         *)
LEMMA PagedLists ==
  ASSUME NEW t, NEW q, NEW name,
         name \in {"guilds", "users", "teams", "team members", "organizations", "players",
                   "league members", "guild members"}
  PROVE  IsListOf(ListOf(name, t, q), t, {Paged(q)})
BY DEF ListOf, IsListOf, List, AllGuilds, AllUsers, AllTeams, AllTeamMembers, AllOrganizations, AllPlayers,
       AllLeagueMembers, AllGuildMembers

(* Those that also filter or sort by the query.                             *)
LEMMA FilteredLists ==
  ASSUME NEW t, NEW q, IsQuery(q), NEW name,
         name \in {"leagues of guild", "players of guild", "players of user", "members of league",
                   "memberships", "members of guild"}
  PROVE  IsListOf(ListOf(name, t, q), t, {Paged(q)})
<1>1. With(Of(t, q), q) \subseteq t /\ Of(t, q) \subseteq t /\ q.sort \in {"created", "touched"}
  BY DEF With, Of, IsQuery
<1> QED BY <1>1 DEF ListOf, IsListOf, List, Sorted, Leagues, PlayersOfGuild, PlayersOfUser, MembersOfLeague,
                    MembershipsOfPlayer, MembersOfGuild

(* Those that cap the limit before they skip.                               *)
LEMMA CappedLists ==
  ASSUME NEW t, NEW q, IsQuery(q), NEW name,
         name \in {"matches", "tournaments", "participants", "trackers of user"}
  PROVE  IsListOf(ListOf(name, t, q), t, {CappedFirst(q)})
<1>1. With(Of(t, q), q) \subseteq t /\ q.sort \in {"created", "touched"}
  BY DEF With, Of, IsQuery
<1> QED BY <1>1 DEF ListOf, IsListOf, List, Sorted, AllMatches, AllTournaments, AllParticipants, TrackersOfUser

(* Those that take any limit.                                               *)
LEMMA UncappedLists ==
  ASSUME NEW t, NEW q, NEW name,
         name \in {"search", "trackers", "scraping logs", "audit of user", "audit of bot",
                   "audit of resource", "audit logs"}
  PROVE  IsListOf(ListOf(name, t, q), t, {Uncapped(q)})
<1>1. With(Of(t, q), q) \subseteq t /\ With(t, q) \subseteq t
  BY DEF With, Of
<1> QED BY <1>1 DEF ListOf, IsListOf, List, SearchMembers, TrackersForAdmin, ScrapingLogs, AuditOfUser,
           AuditOfBot,
                    AuditOfResource, AuditLogs

(* The activity log, which caps what it takes and not what it skips.        *)
LEMMA ActivityList ==
  ASSUME NEW t, NEW q
  PROVE  IsListOf(ListOf("activity", t, q), t, {GetAuditLogs(q)})
<1>1. With(Of(t, q), q) \subseteq t
  BY DEF With, Of
<1> QED BY <1>1 DEF ListOf, IsListOf, List, ActivityLogs

(* A page holds take rows, and skips skip for each page before it: as many, *)
(* unless more are asked for than a page may hold.                          *)
Take(w) == AtPage(w, 1).part.take

(* What the pages of a walk have in common: one list, one size, one step    *)
(* that is as large or larger, and as large when the limit is under the     *)
(* cap.                                                                     *)
LEMMA PagesAre ==
  ASSUME ListingsAssumption, NEW w, IsWalk(w)
  PROVE  /\ Take(w) \in Nat /\ Take(w) > 0
         /\ \E step \in Nat :
              /\ Take(w) <= step /\ (~OverCap(w) => step = Take(w))
              /\ \A n : LET l == AtPage(w, n)
                        IN  /\ l.rows \subseteq w.tables[n]
                            /\ l.by \in {"created", "touched", "none"}
                            /\ l.part.take = Take(w) /\ l.part.skip = (n - 1) * step
<1> DEFINE q(m) == [w.query EXCEPT !.page = m]
           name == w.list
           limit == w.query.limit
<1>1. \A m : /\ IsQuery(q(m)) /\ q(m).limit = limit /\ q(m).page = m
  BY DEF IsQuery, IsWalk
<1>2. \A m : AtPage(w, m) = ListOf(name, w.tables[m], q(m))
  BY DEF AtPage
<1>3. limit \in Nat /\ limit > 0 /\ MaxLimit \in Nat /\ MaxLimit > 0 /\ name \in ListNames
  BY DEF IsWalk, IsQuery, ListingsAssumption
<1> DEFINE capped == name \in {"matches", "tournaments", "participants", "trackers of user"}
           uncapped == name \in {"search", "trackers", "scraping logs", "audit of user", "audit of bot",
                                 "audit of resource", "audit logs"}
           cap == Smaller(limit, MaxLimit)
           step == IF capped THEN cap ELSE limit
           take == IF uncapped THEN limit ELSE cap
<1> HIDE DEF q
<1>4. ASSUME NEW m
      PROVE  IsListOf(AtPage(w, m), w.tables[m], {[skip |-> (m - 1) * step, take |-> take]})
  <2> DEFINE part == [skip |-> (m - 1) * step, take |-> take]
  <2>1. IsListOf(ListOf(name, w.tables[m], q(m)), w.tables[m], {part})
    <3>1. CASE name \in {"guilds", "users", "teams", "team members", "organizations", "players",
                         "league members", "guild members"}
      <4>1. ~capped /\ ~uncapped
        BY <3>1
      <4>2. part = Paged(q(m))
        BY <1>1, <4>1 DEF Paged
      <4> QED BY <3>1, <4>2, PagedLists
    <3>2. CASE name \in {"leagues of guild", "players of guild", "players of user", "members of league",
                         "memberships", "members of guild"}
      <4>1. ~capped /\ ~uncapped
        BY <3>2
      <4>2. part = Paged(q(m))
        BY <1>1, <4>1 DEF Paged
      <4> QED BY <1>1, <3>2, <4>2, FilteredLists
    <3>3. CASE capped
      <4>1. ~uncapped
        BY <3>3
      <4>2. part = CappedFirst(q(m))
        BY <1>1, <3>3, <4>1 DEF CappedFirst
      <4> QED BY <1>1, <3>3, <4>2, CappedLists
    <3>4. CASE uncapped
      <4>1. ~capped
        BY <3>4
      <4>2. part = Uncapped(q(m))
        BY <1>1, <3>4, <4>1 DEF Uncapped
      <4> QED BY <3>4, <4>2, UncappedLists
    <3>5. CASE name = "activity"
      <4>1. ~capped /\ ~uncapped
        BY <3>5
      <4>2. part = GetAuditLogs(q(m))
        BY <1>1, <4>1 DEF GetAuditLogs
      <4> QED BY <3>5, <4>2, ActivityList
    <3> QED BY <1>3, <3>1, <3>2, <3>3, <3>4, <3>5 DEF ListNames
  <2> QED BY <1>2, <2>1
<1>5. ~(capped /\ uncapped) /\ (capped \/ uncapped => name \in CapFree) /\ (name \in CapFree => capped \/ uncapped)
  BY DEF CapFree
<1> HIDE DEF capped, uncapped
<1>6. cap \in Nat /\ cap > 0 /\ cap <= limit /\ (limit <= MaxLimit => cap = limit)
  BY <1>3 DEF Smaller
<1> HIDE DEF cap
<1>7. /\ step \in Nat /\ take \in Nat /\ take > 0 /\ take <= step
      /\ ~OverCap(w) => step = take
  BY <1>3, <1>5, <1>6 DEF OverCap
<1> HIDE DEF step, take
<1>8. \A m : /\ AtPage(w, m).rows \subseteq w.tables[m]
             /\ AtPage(w, m).by \in {"created", "touched", "none"}
             /\ AtPage(w, m).part.skip = (m - 1) * step /\ AtPage(w, m).part.take = take
  BY <1>4 DEF IsListOf
<1> QED BY <1>7, <1>8 DEF Take

(* The number of rows ahead of r on page n.                                 *)
Rank(w, n, r) == Cardinality(AheadOf(w, n, r))

(* Unless another row has its key, a page shows a row if so many are ahead  *)
(* of it as the page skips, and fewer than it skips and takes.              *)
LEMMA ShownByRank ==
  ASSUME NEW w, NEW n, NEW r \in AtPage(w, n).rows,
         LET l == AtPage(w, n)
         IN  /\ IsTable(w.tables[n]) /\ l.rows \subseteq w.tables[n]
             /\ l.by \in {"created", "touched", "none"}
             /\ \A x \in l.rows : ~Tied(l, x, r)
  PROVE  LET l == AtPage(w, n)
         IN  /\ IsFiniteSet(l.rows) /\ IsFiniteSet(AheadOf(w, n, r))
             /\ Rank(w, n, r) \in Nat /\ Rank(w, n, r) < Cardinality(l.rows)
             /\ r \in Showing(w, n) <=>
                  l.part.skip <= Rank(w, n, r) /\ Rank(w, n, r) < l.part.skip + l.part.take
<1> DEFINE l == AtPage(w, n)
           Before(a, b) == Ahead(l, a, b) \/ (Tied(l, a, b) /\ w.ranks[n][a.id] < w.ranks[n][b.id])
           Place(b) == Cardinality({x \in l.rows : Before(x, b)})
           H == {x \in l.rows : Ahead(l, x, r)}
           I == AheadOf(w, n, r)
<1>1. /\ IsTable(w.tables[n]) /\ l.rows \subseteq w.tables[n]
      /\ l.by \in {"created", "touched", "none"}
      /\ \A x \in l.rows : ~Tied(l, x, r)
  OBVIOUS
<1>2. Showing(w, n) = {b \in l.rows : l.part.skip <= Place(b) /\ Place(b) < l.part.skip + l.part.take}
  BY DEF Showing
<1>3. I = {x.id : x \in H}
  BY DEF AheadOf
<1> HIDE DEF I
<1>4. {x \in l.rows : Before(x, r)} = H
  BY <1>1
<1> HIDE DEF l
<1>5. ~Ahead(l, r, r)
  <2>1. Key(l, r) \in Int
    BY <1>1 DEF Key, IsTable, l
  <2> QED BY <2>1 DEF Ahead
<1>6. IsFiniteSet(l.rows) /\ H \in SUBSET l.rows /\ IsFiniteSet(H) /\ Cardinality(H) < Cardinality(l.rows)
  <2>1. IsFiniteSet(l.rows)
    BY <1>1, FS_Subset DEF IsTable
  <2>2. H \in SUBSET (l.rows \ {r})
    BY <1>5
  <2>3. r \in l.rows
    BY DEF l
  <2>4. IsFiniteSet(l.rows \ {r}) /\ Cardinality(l.rows \ {r}) = Cardinality(l.rows) - 1
    BY <2>1, <2>3, FS_RemoveElement
  <2>5. Cardinality(l.rows) \in Nat
    BY <2>1, FS_CardinalityType
  <2> HIDE DEF H
  <2>6. IsFiniteSet(H) /\ Cardinality(H) <= Cardinality(l.rows \ {r}) /\ Cardinality(H) \in Nat
    BY <2>2, <2>4, FS_Subset, FS_CardinalityType
  <2> QED BY <2>1, <2>2, <2>4, <2>5, <2>6
<1>7. IsFiniteSet(I) /\ Cardinality(I) = Cardinality(H) /\ Cardinality(I) \in Nat
  <2> DEFINE f == [x \in H |-> x.id]
  <2>1. \A x, y \in H : x.id = y.id => x = y
    BY <1>1, <1>6 DEF IsTable
  <2> HIDE DEF H
  <2>2. f \in [H -> I]
    BY <1>3
  <2>3. f \in Injection(H, I)
    BY <2>1, <2>2 DEF Injection, IsInjective
  <2>4. f \in Surjection(H, I)
    BY <1>3, <2>2 DEF Surjection
  <2>5. ExistsBijection(H, I)
    BY <2>3, <2>4 DEF ExistsBijection, Bijection
  <2>6. IsFiniteSet(I) /\ Cardinality(I) = Cardinality(H)
    BY <1>6, <2>5, FS_Bijection
  <2> QED BY <2>6, FS_CardinalityType
<1>8. Rank(w, n, r) = Cardinality(I) /\ Place(r) = Cardinality(I)
  BY <1>4, <1>7 DEF Rank, I
<1>9. r \in l.rows
  BY DEF l
<1> HIDE DEF Place, H
<1>10. r \in Showing(w, n) <=> l.part.skip <= Place(r) /\ Place(r) < l.part.skip + l.part.take
  BY <1>2, <1>9
<1> QED BY <1>6, <1>7, <1>8, <1>10 DEF l, I

(* Pages are asked for one after the other until all rows are shown.        *)
LEMMA WalkedIs ==
  ASSUME ListingsAssumption, NEW w, IsWalk(w)
  PROVE  /\ Walked(w) \in SUBSET (Nat \ {0}) /\ IsFiniteSet(Walked(w))
         /\ 1 \in Walked(w)
         /\ \A n \in Walked(w), m \in Nat \ {0} : m <= n => m \in Walked(w)
         /\ \A n \in Walked(w) : n + 1 \in Walked(w) \/ Shown(w, n)
         /\ \A n \in Walked(w) : IsTable(w.tables[n])
<1>1. PICK k \in Nat \ {0} :
        /\ DOMAIN w.tables = 1..k
        /\ \A n \in 1..k : IsTable(w.tables[n]) /\ Cardinality(w.tables[n]) <= k
  BY DEF IsWalk
<1>2. Walked(w) = {n \in 1..k : \A m \in 1..n - 1 : ~Shown(w, m)}
  BY <1>1 DEF Walked
<1>3. Walked(w) \in SUBSET (Nat \ {0}) /\ \A n \in Walked(w) : IsTable(w.tables[n])
  BY <1>1, <1>2
<1>4. IsFiniteSet(Walked(w))
  <2>1. IsFiniteSet(1..k) /\ Walked(w) \in SUBSET (1..k)
    BY <1>2, FS_Interval
  <2> QED BY <2>1, FS_Subset
<1>5. 1 \in Walked(w)
  BY <1>2
<1>6. \A n \in Walked(w), m \in Nat \ {0} : m <= n => m \in Walked(w)
  BY <1>2
<1>7. ASSUME NEW n \in Walked(w), ~Shown(w, n) PROVE n + 1 \in Walked(w)
  <2>1. n \in 1..k /\ \A m \in 1..n - 1 : ~Shown(w, m)
    BY <1>2
  <2>2. \A m \in 1..n : ~Shown(w, m)
    BY <1>7, <2>1
  <2>3. CASE n < k
    <3>1. n + 1 \in 1..k /\ (n + 1) - 1 = n
      BY <2>1, <2>3
    <3> QED BY <1>2, <2>2, <3>1
  <2>4. CASE n = k
    <3>1. /\ AtPage(w, k).rows \subseteq w.tables[k] /\ AtPage(w, k).part.take = Take(w)
          /\ Take(w) \in Nat /\ Take(w) > 0
      BY PagesAre
    <3>2. IsFiniteSet(w.tables[k]) /\ Cardinality(w.tables[k]) <= k
      BY <1>1 DEF IsTable
    <3>3. Cardinality(AtPage(w, k).rows) <= Cardinality(w.tables[k])
      BY <3>1, <3>2, FS_Subset
    <3>4. Cardinality(AtPage(w, k).rows) \in Nat /\ Cardinality(w.tables[k]) \in Nat
      BY <3>1, <3>2, FS_Subset, FS_CardinalityType
    <3>5. k <= k * Take(w) /\ k * Take(w) \in Nat
      BY <3>1
    <3>6. Shown(w, k)
      BY <3>1, <3>2, <3>3, <3>4, <3>5 DEF Shown
    <3> QED BY <1>7, <2>4, <3>6
  <2> QED BY <2>1, <2>3, <2>4
<1> QED BY <1>3, <1>4, <1>5, <1>6, <1>7

(* For every walk: a row that stays and shares its key with none is on the  *)
(* page its rank says. While no row leaves from ahead of it its rank cannot *)
(* fall from one page to the next, so that it is not passed over; while     *)
(* none comes ahead of it its rank cannot grow, so that it is not met       *)
(* again.                                                                   *)
LEMMA WalkIsSeen ==
  ASSUME ListingsAssumption, NEW w, IsWalk(w)
  PROVE  WalkSees(w)
<1> DEFINE steps == {n \in Walked(w) : n + 1 \in Walked(w)}
<1> SUFFICES ASSUME NEW r \in AtPage(w, 1).rows, Stays(w, r), ~TiedEver(w, r)
             PROVE  /\ Seen(w, r) = {} =>
                         \/ OverCap(w)
                         \/ \E n \in steps : ~(AheadOf(w, n, r) \subseteq AheadOf(w, n + 1, r))
                    /\ Cardinality(Seen(w, r)) > 1 =>
                         \E n \in steps : ~(AheadOf(w, n + 1, r) \subseteq AheadOf(w, n, r))
  BY DEF WalkSees
<1> DEFINE W == Walked(w)
           T == Take(w)
           P(n) == Rank(w, n, r)
<1>1. /\ W \in SUBSET (Nat \ {0}) /\ IsFiniteSet(W) /\ 1 \in W
      /\ \A n \in W, m \in Nat \ {0} : m <= n => m \in W
      /\ \A n \in W : n + 1 \in W \/ Shown(w, n)
      /\ \A n \in W : IsTable(w.tables[n])
  BY WalkedIs
<1>2. T \in Nat /\ T > 0
  BY PagesAre
<1>3. PICK step \in Nat :
        /\ T <= step /\ (~OverCap(w) => step = T)
        /\ \A n : LET l == AtPage(w, n)
                  IN  /\ l.rows \subseteq w.tables[n]
                      /\ l.by \in {"created", "touched", "none"}
                      /\ l.part.take = T /\ l.part.skip = (n - 1) * step
  BY PagesAre
<1>4. \A n \in W : r \in AtPage(w, n).rows /\ \A x \in AtPage(w, n).rows : ~Tied(AtPage(w, n), x, r)
  BY DEF Stays, TiedEver
<1>5. ASSUME NEW n \in W
      PROVE  /\ IsFiniteSet(AtPage(w, n).rows) /\ IsFiniteSet(AheadOf(w, n, r))
             /\ P(n) \in Nat /\ P(n) < Cardinality(AtPage(w, n).rows)
             /\ r \in Showing(w, n) <=> (n - 1) * step <= P(n) /\ P(n) < (n - 1) * step + T
  <2>1. LET l == AtPage(w, n)
         IN  /\ IsTable(w.tables[n]) /\ l.rows \subseteq w.tables[n]
             /\ l.by \in {"created", "touched", "none"}
             /\ \A x \in l.rows : ~Tied(l, x, r)
    BY <1>1, <1>3, <1>4
  <2>2. AtPage(w, n).part.take = T /\ AtPage(w, n).part.skip = (n - 1) * step /\ r \in AtPage(w, n).rows
    BY <1>3, <1>4
  <2> QED BY <2>1, <2>2, ShownByRank
<1>6. \A n \in W : n \in Seen(w, r) <=> r \in Showing(w, n)
  BY DEF Seen
<1>7. Seen(w, r) \subseteq W
  BY DEF Seen
<1>8. \A n \in W : Shown(w, n) => P(n) < n * T
  <2> SUFFICES ASSUME NEW n \in W, Shown(w, n) PROVE P(n) < n * T
    OBVIOUS
  <2>1. n * T >= Cardinality(AtPage(w, n).rows)
    BY <1>3 DEF Shown
  <2>2. n * T \in Nat /\ Cardinality(AtPage(w, n).rows) \in Nat /\ P(n) \in Nat /\ P(n) < Cardinality(AtPage(w, n).rows)
    BY <1>1, <1>2, <1>5, FS_CardinalityType
  <2> QED BY <2>1, <2>2
<1> HIDE DEF W, T, P
(* A row that is never shown is beyond every page.                          *)
<1>9. ASSUME Seen(w, r) = {}, ~OverCap(w),
             \A n \in steps : AheadOf(w, n, r) \subseteq AheadOf(w, n + 1, r)
      PROVE  FALSE
  <2> DEFINE Bad == {n \in W : P(n) < n * T}
  <2>1. \A n \in W : n + 1 \in W => P(n) <= P(n + 1)
    <3> SUFFICES ASSUME NEW n \in W, n + 1 \in W PROVE P(n) <= P(n + 1)
      OBVIOUS
    <3>1. AheadOf(w, n, r) \subseteq AheadOf(w, n + 1, r)
      BY <1>9 DEF W
    <3> QED BY <1>5, <3>1, FS_Subset DEF P, Rank
  <2>2. Bad # {}
    <3>1. PICK n \in W : \A m \in W : n >= m
      <4>1. W \in SUBSET Int
        BY <1>1
      <4> QED BY <1>1, <4>1, GreatestExists
    <3>2. n + 1 \notin W
      BY <1>1, <3>1
    <3> QED BY <1>1, <1>8, <3>2
  <2>3. PICK n \in Bad : \A m \in Bad : n <= m
    <3>1. Bad \in SUBSET Int /\ IsFiniteSet(Bad)
      <4>1. Bad \in SUBSET W /\ W \in SUBSET Int
        BY <1>1
      <4> HIDE DEF Bad
      <4> QED BY <1>1, <4>1, FS_Subset
    <3> HIDE DEF Bad
    <3> QED BY <2>2, <3>1, LeastExists
  <2>4. n \in W /\ n \in Nat /\ n > 0 /\ P(n) \in Nat /\ P(n) < n * T
    BY <1>1, <1>5
  <2>5. (n - 1) * T <= P(n)
    <3>1. CASE n = 1
      BY <1>2, <2>4, <3>1
    <3>2. CASE n # 1
      <4>1. n - 1 \in W
        BY <1>1, <2>4, <3>2
      <4>2. n - 1 \notin Bad /\ (n - 1) + 1 = n
        BY <2>3, <2>4
      <4>3. (n - 1) * T <= P(n - 1)
        <5>1. ~(P(n - 1) < (n - 1) * T)
          BY <4>1, <4>2
        <5>2. P(n - 1) \in Nat /\ (n - 1) * T \in Int
          BY <1>2, <1>5, <2>4, <4>1
        <5> QED BY <5>1, <5>2
      <4>4. P(n - 1) <= P(n)
        BY <2>1, <2>4, <4>1, <4>2
      <4>5. P(n - 1) \in Nat /\ (n - 1) * T \in Int
        BY <1>2, <1>5, <2>4, <4>1
      <4> QED BY <2>4, <4>3, <4>4, <4>5
    <3> QED BY <3>1, <3>2
  <2>6. (n - 1) * T + T = n * T
    BY <1>2, <2>4
  <2>7. step = T
    BY <1>3, <1>9
  <2>8. r \in Showing(w, n)
    BY <1>5, <2>4, <2>5, <2>6, <2>7
  <2> QED BY <1>6, <1>9, <2>4, <2>8
(* A row shown on two pages has moved on between them.                      *)
<1>10. ASSUME NEW n \in Seen(w, r), NEW m \in Seen(w, r), n < m,
              \A k \in steps : AheadOf(w, k + 1, r) \subseteq AheadOf(w, k, r)
       PROVE  FALSE
  <2> DEFINE Bad == {k \in W : n <= k /\ P(k) > P(n)}
  <2>1. \A k \in W : k + 1 \in W => P(k + 1) <= P(k)
    <3> SUFFICES ASSUME NEW k \in W, k + 1 \in W PROVE P(k + 1) <= P(k)
      OBVIOUS
    <3>1. AheadOf(w, k + 1, r) \subseteq AheadOf(w, k, r)
      BY <1>10 DEF W
    <3> QED BY <1>5, <3>1, FS_Subset DEF P, Rank
  <2>2. /\ n \in W /\ m \in W /\ n \in Nat /\ m \in Nat /\ n > 0
        /\ P(n) \in Nat /\ P(m) \in Nat
    <3>1. n \in W /\ m \in W
      BY <1>7
    <3>2. n \in Nat /\ m \in Nat /\ n > 0
      BY <1>1, <3>1
    <3> QED BY <1>5, <3>1, <3>2
  <2>3. P(n) < (n - 1) * step + T /\ (m - 1) * step <= P(m)
    BY <1>5, <1>6, <2>2
  <2>4. (n - 1) * step + T <= (m - 1) * step
    <3>1. (m - 1) - n \in Nat
      BY <1>10, <2>2
    <3>2. ((m - 1) - n) * step >= 0
      BY <3>1
    <3>3. (m - 1) * step = ((m - 1) - n) * step + (n - 1) * step + step
      BY <2>2
    <3>4. ((m - 1) - n) * step \in Int /\ (n - 1) * step \in Int
      BY <2>2
    <3> QED BY <1>2, <1>3, <3>2, <3>3, <3>4
  <2>5. m \in Bad
    <3>1. (n - 1) * step \in Int /\ (m - 1) * step \in Int
      BY <2>2
    <3> QED BY <1>2, <1>10, <2>2, <2>3, <2>4, <3>1
  <2>6. PICK k \in Bad : \A j \in Bad : k <= j
    <3>1. Bad \in SUBSET Int /\ IsFiniteSet(Bad)
      <4>1. Bad \in SUBSET W /\ W \in SUBSET Int
        BY <1>1
      <4> HIDE DEF Bad
      <4> QED BY <1>1, <4>1, FS_Subset
    <3> HIDE DEF Bad
    <3> QED BY <2>5, <3>1, LeastExists
  <2>7. k \in W /\ k \in Nat /\ k > n /\ P(k) \in Nat /\ P(k) > P(n)
    <3>1. k \in W /\ n <= k /\ P(k) > P(n)
      OBVIOUS
    <3>2. k \in Nat /\ P(k) \in Nat
      BY <1>1, <1>5, <3>1
    <3>3. k # n
      BY <2>2, <3>1
    <3> QED BY <2>2, <3>1, <3>2, <3>3
  <2>8. k - 1 \in W /\ n <= k - 1 /\ (k - 1) + 1 = k
    BY <1>1, <2>2, <2>7
  <2>9. k - 1 \notin Bad
    BY <2>6, <2>7
  <2>10. P(k - 1) \in Nat /\ ~(P(k - 1) > P(n)) /\ P(k) <= P(k - 1)
    BY <1>5, <2>1, <2>7, <2>8, <2>9
  <2> QED BY <2>2, <2>7, <2>10
<1>11. ASSUME Cardinality(Seen(w, r)) > 1
       PROVE  \E n, m \in Seen(w, r) : n < m
  <2>1. IsFiniteSet(Seen(w, r)) /\ Seen(w, r) \in SUBSET Int
    <3>1. Seen(w, r) \in SUBSET W /\ W \in SUBSET Int
      BY <1>1, <1>7
    <3> QED BY <1>1, <3>1, FS_Subset
  <2>2. Seen(w, r) # {}
    <3>1. Seen(w, r) = {} => Cardinality(Seen(w, r)) = 0
      BY FS_EmptySet
    <3> QED BY <1>11, <3>1
  <2>3. PICK n \in Seen(w, r) : TRUE
    BY <2>2
  <2>4. Seen(w, r) # {n}
    <3>1. Cardinality({n}) = 1
      BY FS_Singleton
    <3> QED BY <1>11, <3>1
  <2>5. PICK m \in Seen(w, r) : m # n
    BY <2>4
  <2>6. n \in Int /\ m \in Int
    BY <2>1
  <2> QED BY <2>5, <2>6
<1> QED BY <1>9, <1>10, <1>11

-------------------------------------------------------------------------------
(* What a registration accepts, the scraper converts. *)
LEMMA Conversion ==
  ASSUME NEW u \in Url
  PROVE  AcceptedConverts(u)
<1>1. u.slashes \in 0..2 /\ u.name \in {"alice", "al%69ce", "bob"}
  BY DEF Url
<1>2. SUFFICES ASSUME Wellformed(u)
              PROVE  Converted(u) # {} /\ (u.name # "al%69ce" => Asked(u) = {Profile(u)})
  BY DEF AcceptedConverts
<1>3. Converted(u) = {[platform |-> u.platform, name |-> Encode(u.name)]}
  BY <1>2 DEF Converted, Wellformed, ValidTrn, ValidPlatform
<1>4. ASSUME u.name # "al%69ce" PROVE Asked(u) = {Profile(u)}
  <2>1. Encode(u.name) = u.name
    BY <1>4 DEF Encode
  <2> HIDE DEF Url
  <2>2. Asked(u) = {[platform |-> u.platform, name |-> Decode(u.name)]}
    BY <1>3, <2>1 DEF Asked
  <2> QED BY <2>2 DEF Profile
<1> QED BY <1>3, <1>4

-------------------------------------------------------------------------------
(* The worlds that are checked have the form the lemmas ask for.            *)
LEMMA PlainIs ==
  ASSUME AccessAssumption, RulesAssumption
  PROVE  /\ IsWorld(Plain)
         /\ Plain.shared = {}
         /\ DOMAIN Plain = WorldFields
         /\ Guild = [x \in GuildFields |-> Plain[x]]
         /\ IsGuild(Guild) /\ DOMAIN Guild = GuildFields
<1>1. DOMAIN Plain = WorldFields
  BY DEF Plain, WorldFields, GuildFields
<1>2. Plain.shared = {} /\ Plain.configured = <<Object("ra")>> /\ Plain.existing = Roles
  BY DEF Plain
<1>3. Object("ra") \in [format : {"object", "string"}, id : Roles]
  BY DEF Object, RulesAssumption
<1>4. <<Object("ra")>> \in Seq([format : {"object", "string"}, id : Roles])
  <2> HIDE DEF Object
  <2> QED BY <1>3
<1>5. GuildFields \subseteq WorldFields
  BY DEF WorldFields
<1> HIDE DEF Plain
<1>6. IsGuild(Plain)
  BY <1>1, <1>2, <1>4, <1>5 DEF IsGuild
<1>7. Guild = [x \in GuildFields |-> Plain[x]]
  BY DEF Guild, GuildFields
<1>8. Guild.configured = Plain.configured /\ Guild.existing = Plain.existing /\ DOMAIN Guild = GuildFields
  BY <1>7 DEF GuildFields
<1>9. IsGuild(Guild)
  BY <1>2, <1>4, <1>7, <1>8 DEF IsGuild
<1> QED BY <1>1, <1>2, <1>6, <1>7, <1>8, <1>9 DEF IsWorld

(* Worlds of a guild: the fields of Plain, and roles among Roles.           *)
LEMMA GuildWorldIs ==
  ASSUME AccessAssumption, RulesAssumption,
         NEW t, NEW l \in Lists, NEW e \in SUBSET Roles, NEW r, NEW a, NEW f
  PROVE  IsWorld(GuildWorld(t, l, e, r, a, f))
<1> DEFINE w == GuildWorld(t, l, e, r, a, f)
<1>1. DOMAIN w = WorldFields
  BY PlainIs DEF GuildWorld, IsWorld, IsGuild
<1>2. w.configured = l /\ w.existing = e /\ w.shared = {}
  BY PlainIs DEF GuildWorld, IsWorld, IsGuild, WorldFields, GuildFields
<1>3. l \in Seq([format : {"object", "string"}, id : Roles])
  <2>1. /\ Object("ra") \in [format : {"object", "string"}, id : Roles]
        /\ Object("rb") \in [format : {"object", "string"}, id : Roles]
        /\ String("ra") \in [format : {"object", "string"}, id : Roles]
        /\ String("rb") \in [format : {"object", "string"}, id : Roles]
    BY DEF Object, String, RulesAssumption
  <2> HIDE DEF Object, String
  <2>2. <<>> \in Seq([format : {"object", "string"}, id : Roles])
    OBVIOUS
  <2>3. <<Object("ra")>> \in Seq([format : {"object", "string"}, id : Roles])
    BY <2>1
  <2>4. <<Object("ra"), Object("rb")>> \in Seq([format : {"object", "string"}, id : Roles])
    BY <2>1
  <2>5. <<String("rb"), String("ra")>> \in Seq([format : {"object", "string"}, id : Roles])
    BY <2>1
  <2>6. <<String("ra"), Object("rb")>> \in Seq([format : {"object", "string"}, id : Roles])
    BY <2>1
  <2> QED BY <2>2, <2>3, <2>4, <2>5, <2>6 DEF Lists
<1> HIDE DEF w
<1>4. IsGuild(w)
  BY <1>1, <1>2, <1>3 DEF IsGuild, WorldFields
<1> QED BY <1>1, <1>2, <1>4 DEF IsWorld, w

(* Worlds of a league.                                                      *)
LEMMA LeagueWorldIs ==
  ASSUME AccessAssumption, RulesAssumption,
         NEW g, NEW p, NEW s, NEW r, NEW m, NEW f
  PROVE  IsWorld(LeagueWorld(g, p, s, r, m, f))
<1> DEFINE w == LeagueWorld(g, p, s, r, m, f)
<1>1. DOMAIN w = WorldFields
  BY PlainIs DEF LeagueWorld
<1>2. w.configured = Plain.configured /\ w.existing = Plain.existing /\ w.shared = {}
  BY PlainIs DEF LeagueWorld, WorldFields, GuildFields
<1> HIDE DEF w
<1>3. IsGuild(w)
  BY <1>1, <1>2, PlainIs DEF IsGuild, IsWorld, WorldFields
<1> QED BY <1>1, <1>2, <1>3 DEF IsWorld, w

(* Worlds in which the bot calls.                                           *)
LEMMA BotWorldIs ==
  ASSUME AccessAssumption, RulesAssumption, NEW k, NEW m, NEW f
  PROVE  IsWorld(BotWorld(k, m, f))
<1> DEFINE w == BotWorld(k, m, f)
<1>1. DOMAIN w = WorldFields
  <2>1. DOMAIN Plain = WorldFields
    BY PlainIs
  <2>2. DOMAIN w = DOMAIN Plain
    BY ZenonT(30) DEF BotWorld
  <2> QED BY <2>1, <2>2
<1>2. w.configured = Plain.configured /\ w.existing = Plain.existing /\ w.shared = {}
  BY PlainIs DEF BotWorld, WorldFields, GuildFields
<1> HIDE DEF w
<1>3. IsGuild(w)
  BY <1>1, <1>2, PlainIs DEF IsGuild, IsWorld, WorldFields
<1> QED BY <1>1, <1>2, <1>3 DEF IsWorld, w

(* Worlds with a guild that two users share.                                *)
LEMMA OtherWorldIs ==
  ASSUME AccessAssumption, RulesAssumption,
         NEW c, NEW t, NEW r, NEW j, NEW k, NEW s, NEW e \in SUBSET Roles, NEW m, NEW f
  PROVE  IsWorld(OtherWorld(c, t, r, j, k, s, e, m, f))
<1> DEFINE w == OtherWorld(c, t, r, j, k, s, e, m, f)
           h == SharedGuild(s, e, f)
<1>1. DOMAIN w = WorldFields
  <2>1. DOMAIN Plain = WorldFields
    BY PlainIs
  <2>2. DOMAIN w = DOMAIN Plain
    BY ZenonT(30) DEF OtherWorld
  <2> QED BY <2>1, <2>2
<1>2. w.configured = Plain.configured /\ w.existing = Plain.existing /\ w.shared = {h}
  BY PlainIs DEF OtherWorld, WorldFields, GuildFields
<1>3. DOMAIN h = GuildFields /\ h.configured = Guild.configured /\ h.existing = e
  BY PlainIs DEF SharedGuild, GuildFields
<1> HIDE DEF w, h
<1>4. IsGuild(w)
  BY <1>1, <1>2, PlainIs DEF IsGuild, IsWorld, WorldFields
<1>5. IsGuild(h)
  BY <1>3, PlainIs DEF IsGuild
<1> QED BY <1>1, <1>2, <1>4, <1>5 DEF IsWorld, w

(* So each world that MCRules takes.                                        *)
LEMMA WorldsAre ==
  ASSUME AccessAssumption, RulesAssumption, NEW w \in GuildWorlds \cup LeagueWorlds \cup OtherWorlds
  PROVE  IsWorld(w)
<1>1. CASE w \in GuildWorlds
  <2>1. \E t \in BOOLEAN, l \in Lists, e \in SUBSET Roles : \E r, a, f : w = GuildWorld(t, l, e, r, a, f)
    BY <1>1 DEF GuildWorlds
  <2> QED BY <2>1, GuildWorldIs
<1>2. CASE w \in LeagueWorlds
  <2>1. \E g, p, s, r, m, f : w = LeagueWorld(g, p, s, r, m, f)
    BY <1>2 DEF LeagueWorlds
  <2> QED BY <2>1, LeagueWorldIs
<1>3. CASE w \in OtherWorlds
  <2>1. \/ \E c, t, r, j, k, s, m, f : \E e \in {{}, Roles} : w = OtherWorld(c, t, r, j, k, s, e, m, f)
        \/ \E k, m, f : w = BotWorld(k, m, f)
    BY <1>3 DEF OtherWorlds
  <2> QED BY <2>1, OtherWorldIs, BotWorldIs
<1> QED BY <1>1, <1>2, <1>3

-------------------------------------------------------------------------------
(* So have the applications: what their trackers and leagues say are        *)
(* numbers.                                                                 *)
LEMMA TrackersAre ==
  ASSUME NEW t \in Trackers \cup Application.trackers, NEW s \in t.seasons
  PROVE  s.rating \subseteq Int /\ s.rank \subseteq Int
<1>1. \A a, d, x, h : Tracker(a, d, x, h).seasons = h
  BY DEF Tracker
<1>2. t.seasons \in {{}, NewOrOld(1, 3), NewOrOld(3, 1)}
  <2>1. Application.trackers = {Tracker(TRUE, FALSE, 1, NewOrOld(1, 3))}
    BY DEF Application
  <2> HIDE DEF Tracker, Application
  <2>2. CASE t \in Trackers
    BY <1>1, <2>2 DEF Trackers
  <2>3. CASE t \in Application.trackers
    <3>1. t = Tracker(TRUE, FALSE, 1, NewOrOld(1, 3))
      BY <2>1, <2>3
    <3>2. t.seasons = NewOrOld(1, 3)
      BY <3>1 DEF Tracker
    <3> QED BY <3>2
  <2> QED BY <2>2, <2>3
<1>3. \A x, y \in Int : \A u \in NewOrOld(x, y) : u.rating \subseteq Int /\ u.rank \subseteq Int
  BY DEF NewOrOld
<1> QED BY <1>2, <1>3

(* What the requirements ask for are numbers too.                           *)
LEMMA SkillsAre ==
  ASSUME NEW k \in Requirements \cup {{}, {Skill("MMR", {}, {})}}, NEW asked \in k
  PROVE  asked.min \subseteq Int /\ asked.max \subseteq Int
<1>1. \E metric, min, max : asked = Skill(metric, min, max) /\ min \subseteq {2} /\ max \subseteq {2}
  <2> HIDE DEF Skill
  <2>1. CASE k \in {{}, {Skill("MMR", {}, {})}}
    BY <2>1
  <2>2. CASE k \in Requirements
    <3>1. PICK metric, min, max : k = {Skill(metric, min, max)} /\ min \in {{}, {2}} /\ max \in {{}, {2}}
      BY <2>2 DEF Requirements
    <3>2. asked = Skill(metric, min, max)
      BY <3>1
    <3> QED BY <3>1, <3>2
  <2> QED BY <2>1, <2>2
<1>2. PICK metric, min, max : asked = Skill(metric, min, max) /\ min \subseteq {2} /\ max \subseteq {2}
  BY <1>1
<1>3. asked.min = min /\ asked.max = max
  BY <1>2 DEF Skill
<1> QED BY <1>2, <1>3

ApplicationFields ==
  {"fails", "requireGuildMembership", "requirePlayerStatus", "requireTracker", "skill", "open", "start", "end",
   "now", "method", "selfRegistration", "member", "status", "trackers"}

(* The fields of an application.                                            *)
LEMMA ApplicationIs == DOMAIN Application = ApplicationFields
BY DEF Application, ApplicationFields

(* What the applications with two trackers change.                          *)
LEMMA JudgedIs ==
  ASSUME NEW t, NEW u, NEW k, NEW r
  PROVE  Judged(t, u, k, r).trackers = {t, u} /\ Judged(t, u, k, r).skill = k
BY ApplicationIs DEF Judged, ApplicationFields

(* What the applications with one tracker change.                           *)
LEMMA RefusedIs ==
  ASSUME NEW g, NEW m, NEW p, NEW s, NEW o, NEW w, NEW j, NEW k, NEW f
  PROVE  /\ Refused(g, m, p, s, o, w, j, k, f).trackers = Application.trackers
         /\ Refused(g, m, p, s, o, w, j, k, f).skill = k
BY ApplicationIs DEF Refused, ApplicationFields

(* So each application that MCRules takes.                                  *)
LEMMA ApplicationsAre ==
  ASSUME NEW j \in Applications
  PROVE  IsApplication(j)
<1>1. \/ \E t, u \in Trackers, k \in Requirements : \E r : j = Judged(t, u, k, r)
      \/ \E k \in {{}, {Skill("MMR", {}, {})}} : \E g, m, p, s, o, w, n, f : j = Refused(g, m, p, s, o, w, n, k, f)
  <2> HIDE DEF Skill
  <2> QED BY DEF Applications
<1>2. /\ j.trackers \subseteq Trackers \cup Application.trackers
      /\ j.skill \in Requirements \cup {{}, {Skill("MMR", {}, {})}}
  <2>1. ASSUME NEW t \in Trackers, NEW u \in Trackers, NEW k \in Requirements, NEW r, j = Judged(t, u, k, r)
        PROVE  j.trackers \subseteq Trackers /\ j.skill \in Requirements
    BY <2>1, JudgedIs
  <2>2. ASSUME NEW k \in {{}, {Skill("MMR", {}, {})}}, NEW g, NEW m, NEW p, NEW s, NEW o, NEW w, NEW n, NEW f,
               j = Refused(g, m, p, s, o, w, n, k, f)
        PROVE  j.trackers = Application.trackers /\ j.skill \in {{}, {Skill("MMR", {}, {})}}
    BY <2>2, RefusedIs
  <2> HIDE DEF Skill, Requirements
  <2> QED BY <1>1, <2>1, <2>2
<1>3. \A t \in j.trackers : \A s \in t.seasons : s.rating \subseteq Int /\ s.rank \subseteq Int
  BY <1>2, TrackersAre
<1>4. \A asked \in j.skill : asked.min \subseteq Int /\ asked.max \subseteq Int
  BY <1>2, SkillsAre
<1> QED BY <1>3, <1>4 DEF IsApplication

-------------------------------------------------------------------------------
(* Ratings, weights and seasons, pages and tries, tables and walks.         *)
LEMMA DataAre ==
  ASSUME NEW d \in [Playlists -> Ratings]
  PROVE  IsData(d)
<1>1. \A x \in Ratings :
        x.mmr \in Nat \cup {Absent} /\ x.peak \in Nat \cup {Absent} /\ x.games \in Nat \cup {Absent}
  BY DEF Ratings, Rating, Absent
<1> HIDE DEF Ratings
<1> QED BY <1>1 DEF IsData

(* The two seasons have numbers of their own.                               *)
LEMMA SeasonsAre ==
  ASSUME NEW old \in Ratings, NEW new \in [Playlists -> Ratings]
  PROVE  IsSeasons({Season(1, [p \in Playlists |-> old]), Season(2, new)})
<1>1. /\ Season(1, [p \in Playlists |-> old]).seasonNumber = 1 /\ Season(2, new).seasonNumber = 2
      /\ Season(1, [p \in Playlists |-> old]).playlists \in [Playlists -> Ratings]
      /\ Season(2, new).playlists \in [Playlists -> Ratings]
  BY DEF Season
<1> HIDE DEF Season
<1> QED BY <1>1, DataAre DEF IsSeasons

(* Weights and bounds are numbers.                                          *)
LEMMA ConfigsAre ==
  ASSUME NEW config \in Configs
  PROVE  IsConfig(config)
<1> DEFINE Weights == {[p \in Playlists |-> 1], [p \in Playlists |-> IF p = "twos" THEN 2 ELSE 0]}
<1>1. PICK v \in {{"ones"}, {"ones", "onesPeak"}}, w \in Weights, g \in {0, 60}, c \in {0, 1}, k \in {0, 3} :
        config = Config(v, w, g, c, k)
  BY DEF Configs
<1>2. \A p \in Playlists : w[p] \in Int
  OBVIOUS
<1> HIDE DEF Weights
<1> QED BY <1>1, <1>2 DEF IsConfig, Config

(* An answer has the segments it was given; a lost one is an error.         *)
LEMMA PageIs ==
  /\ \A s, t, p, a : Page(s, t, p, a).kind = "answer" /\ Page(s, t, p, a).segments = s
  /\ Lost.kind = "error"
BY DEF Page, Lost

(* A single try that was answered is a list of tries.                       *)
LEMMA OneTry ==
  ASSUME NEW s, \E k \in Nat : DOMAIN s = 1..k, NEW t, NEW p, NEW a
  PROVE  IsTries(<<Page(s, t, p, a)>>)
BY PageIs DEF IsTries

(* So are two tries of which the first is lost: a second one ends it, for   *)
(* no more than one is repeated.                                            *)
LEMMA TwoTries ==
  ASSUME RulesAssumption, ScraperAssumption, NEW x, NEW y, x.kind = "error",
         y.kind = "answer" => \E k \in Nat : DOMAIN y.segments = 1..k
  PROVE  IsTries(<<x, y>>)
<1> DEFINE tries == <<x, y>>
<1>1. DOMAIN tries = 1..2 /\ tries[1] = x /\ tries[2] = y
  OBVIOUS
<1>2. 2 > ScraperRetries
  BY DEF RulesAssumption, ScraperAssumption
<1>3. 2 \in DOMAIN tries /\ \A i \in DOMAIN tries : tries[i] = x \/ tries[i] = y
  BY <1>1
<1> HIDE DEF tries
<1>4. IsTries(tries)
  BY <1>1, <1>2, <1>3 DEF IsTries
<1> QED BY <1>4 DEF tries

(* So are the tries of each season that MCRules takes.                      *)
LEMMA TriesAre ==
  ASSUME RulesAssumption, ScraperAssumption, NEW n \in Int, NEW i \in 1..6
  PROVE  IsTries(Tries(n)[i])
<1>1. DOMAIN FullPage(n) = 1..3 /\ DOMAIN MixedPage(n) = 1..2 /\ DOMAIN <<>> = 1..0
  BY DEF FullPage, MixedPage
<1>2. CASE i = 1
  <2>1. Tries(n)[i] = <<Lost, Page(FullPage(n), "ok", "JSON", TRUE)>>
    BY <1>2 DEF Tries
  <2>2. Lost.kind = "error" /\ Page(FullPage(n), "ok", "JSON", TRUE).segments = FullPage(n)
    BY DEF Page, Lost
  <2> HIDE DEF Page, Lost
  <2> QED BY <1>1, <2>1, <2>2, TwoTries
<1>3. CASE i = 2
  <2>1. Tries(n)[i] = <<Page(MixedPage(n), "no status", "JSON", TRUE)>>
    BY <1>3 DEF Tries
  <2> QED BY <1>1, <2>1, OneTry
<1>4. CASE i = 3
  <2>1. Tries(n)[i] = <<Lost, Lost>>
    BY <1>4 DEF Tries
  <2>2. Lost.kind = "error"
    BY DEF Lost
  <2> HIDE DEF Lost
  <2> QED BY <2>1, <2>2, TwoTries
<1>5. CASE i = 4
  <2>1. Tries(n)[i] = <<Page(<<>>, "error", "JSON", TRUE)>>
    BY <1>5 DEF Tries
  <2> QED BY <1>1, <2>1, OneTry
<1>6. CASE i = 5
  <2>1. Tries(n)[i] = <<Page(<<>>, "ok", "no JSON", TRUE)>>
    BY <1>6 DEF Tries
  <2> QED BY <1>1, <2>1, OneTry
<1>7. CASE i = 6
  <2>1. Tries(n)[i] = <<Page(<<>>, "ok", "JSON", FALSE)>>
    BY <1>7 DEF Tries
  <2> QED BY <1>1, <2>1, OneTry
<1> QED BY <1>2, <1>3, <1>4, <1>5, <1>6, <1>7

(* The profile page names seasons that have tries, and has a list of        *)
(* segments.                                                                *)
LEMMA BaseIs ==
  ASSUME RulesAssumption, ScraperAssumption, NEW base, NEW answers, NEW f \in [1..3 -> 1..6],
         base.available \in ProfileLists,
         answers = [i \in DOMAIN base.available |-> Tries(base.available[i])[f[i]]],
         base.current \in {0, 3, 4},
         base.segments \in {FullPage(base.current), MixedPage(base.current)}
  PROVE  IsBase(base, answers)
<1> DEFINE a == base.available
<1>1. PICK k \in 0..3 : DOMAIN a = 1..k /\ \A i \in DOMAIN a : a[i] \in 1..3
  BY DEF ProfileLists
<1>2. DOMAIN answers = 1..k /\ \A i \in 1..k : answers[i] = Tries(a[i])[f[i]]
  BY <1>1
<1>3. \A i \in 1..k : IsTries(answers[i])
  <2> SUFFICES ASSUME NEW i \in 1..k PROVE IsTries(Tries(a[i])[f[i]])
    BY <1>2
  <2>1. a[i] \in 1..3 /\ f[i] \in 1..6
    BY <1>1
  <2> HIDE DEF a
  <2> QED BY <2>1, TriesAre
<1>4. DOMAIN FullPage(base.current) = 1..3 /\ DOMAIN MixedPage(base.current) = 1..2
  BY DEF FullPage, MixedPage
<1>5. \E m \in Nat : DOMAIN base.segments = 1..m
  <2>1. base.segments = FullPage(base.current) \/ base.segments = MixedPage(base.current)
    OBVIOUS
  <2> QED BY <1>4, <2>1
<1>6. base.current \in Int /\ k \in Nat /\ \A i \in 1..k : a[i] \in Int
  BY <1>1
<1> QED BY <1>1, <1>2, <1>3, <1>5, <1>6 DEF IsBase

(* A table of rows that are numbered from 1 to at most 4.                   *)
IsNumbered(t, k) ==
  /\ \A a \in t : a.id \in 1..k /\ a["created"] \in Int /\ a["touched"] \in Int
  /\ \A a, b \in t : a.id = b.id => a = b

(* Such a table has rows of different numbers, and at most four.            *)
LEMMA NumberedIs ==
  ASSUME NEW t, IsNumbered(t, 4)
  PROVE  IsTable(t) /\ Cardinality(t) <= 4
<1> DEFINE f == [a \in t |-> a.id]
<1>1. f \in [t -> 1..4]
  BY DEF IsNumbered
<1>2. f \in Injection(t, 1..4)
  BY <1>1 DEF Injection, IsInjective, IsNumbered
<1>3. IsFiniteSet(1..4) /\ Cardinality(1..4) = 4
  <2>1. 1 \in Int /\ 4 \in Int
    OBVIOUS
  <2>2. IsFiniteSet(1..4) /\ Cardinality(1..4) = IF 1 > 4 THEN 0 ELSE 4 - 1 + 1
    BY <2>1, FS_Interval, Zenon
  <2>3. (IF 1 > 4 THEN 0 ELSE 4 - 1 + 1) = 4
    OBVIOUS
  <2> QED BY <2>2, <2>3
<1>4. IsFiniteSet(t) /\ Cardinality(t) <= 4
  <2> HIDE DEF f
  <2> QED BY <1>2, <1>3, FS_Injection
<1> QED BY <1>4 DEF IsTable, IsNumbered

(* The fields of a row.                                                     *)
LEMMA RowIs ==
  ASSUME NEW id, NEW of, NEW status, NEW key
  PROVE  LET r == Row(id, of, status, key)
         IN  r.id = id /\ r["created"] = key /\ r["touched"] = key
BY DEF Row

(* The tables that MCRules takes have three rows.                           *)
LEMMA TablesAre ==
  ASSUME NEW t \in Tables
  PROVE  /\ IsNumbered(t, 3)
         /\ \A r \in t : DOMAIN r = {"id", "of", "status", "created", "touched"}
<1>1. PICK o, k : t = Table(o, k) /\ k \in {<<2, 3, 4>>, <<3, 3, 2>>}
  BY DEF Tables
<1>2. k[1] \in Int /\ k[2] \in Int /\ k[3] \in Int
  BY <1>1
<1>3. t = {Row(1, "a", "A", k[1]), Row(2, o[1], "A", k[2]), Row(3, "a", o[2], k[3])}
  BY <1>1 DEF Table
<1>4. \A id, of, status, key : DOMAIN Row(id, of, status, key) = {"id", "of", "status", "created", "touched"}
  BY DEF Row
<1> HIDE DEF Row
<1> QED BY <1>2, <1>3, <1>4, RowIs DEF IsNumbered

(* A row that was touched has its number still.                             *)
LEMMA TouchedIs ==
  ASSUME NEW r, NEW s, {"id", "created", "touched", "status"} \subseteq DOMAIN r
  PROVE  Touched(r, s).id = r.id /\ Touched(r, s)["created"] = r["created"] /\ Touched(r, s)["touched"] = 6
BY DEF Touched

(* One change leaves a table of four rows at most.                          *)
LEMMA ChangedAre ==
  ASSUME NEW t \in Tables, NEW u \in {t} \cup Changed(t)
  PROVE  IsNumbered(t, 4) /\ IsNumbered(u, 4)
<1>1. IsNumbered(t, 3) /\ IsNumbered(t, 4) /\ \A r \in t : DOMAIN r = {"id", "of", "status", "created", "touched"}
  BY TablesAre DEF IsNumbered
<1>2. \A r : IsNumbered(t \ {r}, 4)
  BY <1>1 DEF IsNumbered
<1>3. ASSUME NEW k \in {1, 5} PROVE IsNumbered(t \cup {Row(4, "a", "A", k)}, 4)
  <2> DEFINE r == Row(4, "a", "A", k)
  <2>1. r.id = 4 /\ r["created"] \in Int /\ r["touched"] \in Int
    BY RowIs
  <2> HIDE DEF r
  <2>2. \A a \in t : a.id # 4
    BY <1>1 DEF IsNumbered
  <2>3. IsNumbered(t \cup {r}, 4)
    BY <1>1, <2>1, <2>2 DEF IsNumbered
  <2> QED BY <2>3 DEF r
<1>4. ASSUME NEW r \in t, NEW s PROVE IsNumbered((t \ {r}) \cup {Touched(r, s)}, 4)
  <2> DEFINE x == Touched(r, s)
  <2>1. x.id = r.id /\ x["created"] = r["created"] /\ x["touched"] = 6
    BY <1>1, TouchedIs
  <2> HIDE DEF x
  <2>2. \A a \in t \ {r} : a.id # x.id
    BY <1>1, <2>1 DEF IsNumbered
  <2>3. x.id \in 1..4 /\ x["created"] \in Int
    BY <1>1, <2>1 DEF IsNumbered
  <2>4. IsNumbered((t \ {r}) \cup {x}, 4)
    BY <1>1, <2>1, <2>2, <2>3 DEF IsNumbered
  <2> QED BY <2>4 DEF x
<1>5. \/ u = t
      \/ \E r \in t : u = t \ {r}
      \/ \E k \in {1, 5} : u = t \cup {Row(4, "a", "A", k)}
      \/ \E r \in t, s \in {"A", "B"} : u = (t \ {r}) \cup {Touched(r, s)}
  <2> HIDE DEF Row, Touched
  <2> QED BY DEF Changed
<1> QED BY <1>1, <1>2, <1>3, <1>4, <1>5

(* So each walk that MCRules takes is long enough for its tables.           *)
LEMMA WalksAre ==
  ASSUME ListingsAssumption, NEW name \in ListNames, NEW q \in Queries, NEW t \in Tables,
         NEW u \in {t} \cup Changed(t), NEW n, NEW turned
  PROVE  IsWalk(WalkOf(name, q, t, u, n, turned))
<1> DEFINE w == WalkOf(name, q, t, u, n, turned)
<1>1. w.list = name /\ w.query = q /\ w.tables = [m \in 1..4 |-> IF m <= n THEN t ELSE u]
  BY DEF WalkOf
<1> HIDE DEF w
<1>2. IsTable(t) /\ Cardinality(t) <= 4 /\ IsTable(u) /\ Cardinality(u) <= 4
  BY ChangedAre, NumberedIs
<1>3. DOMAIN w.tables = 1..4 /\ \A m \in 1..4 : IsTable(w.tables[m]) /\ Cardinality(w.tables[m]) <= 4
  BY <1>1, <1>2
<1>4. IsQuery(q)
  BY DEF Queries, IsQuery, ListingsAssumption
<1> QED BY <1>1, <1>3, <1>4 DEF IsWalk, w


-------------------------------------------------------------------------------
(* Whatever the input, it has the form of its rule: the inductive           *)
(* invariant from which each property follows by the lemma about its rule.  *)
InputTyped ==
  /\ input.rule = "access" => IsWorld(input.world)
  /\ input.rule = "join" => IsApplication(input.application)
  /\ input.rule = "mmr" => IsSeasons(input.seasons) /\ IsConfig(input.config)
  /\ input.rule = "scrape" => IsBase(input.base, input.answers) /\ input.max \in Nat
  /\ input.rule = "address" => input.url \in Url
  /\ input.rule = "list" => input.list \in ListNames /\ input.query \in Queries
  /\ input.rule = "walk" => IsWalk(input.walk)

RulesHypotheses ==
  AccessAssumption /\ RulesAssumption /\ ScraperAssumption /\ ListingsAssumption

(* The assumptions on the constants.                                        *)
LEMMA RulesHold == RulesHypotheses
BY AccessAssumption, RulesAssumption, ScraperAssumption, ListingsAssumption DEF RulesHypotheses

(* One lemma for each action: what it chooses has its form.                 *)
LEMMA AccessTyped == RulesHypotheses /\ Access => InputTyped'
<1> SUFFICES ASSUME RulesHypotheses, Access PROVE InputTyped'
  OBVIOUS
<1>1. PICK w \in GuildWorlds \cup LeagueWorlds \cup OtherWorlds : input' = [rule |-> "access", world |-> w]
  BY DEF Access
<1>2. IsWorld(w)
  BY WorldsAre DEF RulesHypotheses
<1>3. input'.rule = "access" /\ input'.world = w
  BY <1>1
<1> QED BY <1>2, <1>3 DEF InputTyped

(* An application is chosen.                                                *)
LEMMA JoinTyped == Join => InputTyped'
<1> SUFFICES ASSUME Join PROVE InputTyped'
  OBVIOUS
<1>1. PICK j \in Applications : input' = [rule |-> "join", application |-> j]
  BY DEF Join
<1>2. input'.rule = "join" /\ input'.application = j
  BY <1>1
<1> QED BY <1>2, ApplicationsAre DEF InputTyped

(* Ratings are chosen.                                                      *)
LEMMA MmrTyped == Mmr => InputTyped'
<1> SUFFICES ASSUME Mmr PROVE InputTyped'
  OBVIOUS
<1>1. PICK config \in Configs, old \in Ratings, new \in [Playlists -> Ratings] :
        input' = [rule |-> "mmr", config |-> config,
                  seasons |-> {Season(1, [p \in Playlists |-> old]), Season(2, new)}]
  BY DEF Mmr
<1>2. /\ input'.rule = "mmr" /\ input'.config = config
      /\ input'.seasons = {Season(1, [p \in Playlists |-> old]), Season(2, new)}
  BY <1>1
<1>3. IsSeasons(input'.seasons) /\ IsConfig(input'.config)
  BY <1>2, SeasonsAre, ConfigsAre
<1> QED BY <1>2, <1>3 DEF InputTyped

(* Pages and tries are chosen.                                              *)
LEMMA ScrapeTyped == RulesHypotheses /\ Scrape => InputTyped'
<1> SUFFICES ASSUME RulesHypotheses, Scrape PROVE InputTyped'
  OBVIOUS
<1>1. PICK available \in ProfileLists, current \in {0, 3, 4}, max \in {0, 2}, f \in [1..3 -> 1..6],
           own \in BOOLEAN :
        input' = [rule |-> "scrape", max |-> max,
                  answers |-> [i \in DOMAIN available |-> Tries(available[i])[f[i]]],
                  base |-> [failed |-> FALSE, available |-> available, current |-> current,
                            segments |-> IF own THEN FullPage(current) ELSE MixedPage(current)]]
  <2> HIDE DEF Tries, FullPage, MixedPage
  <2> QED BY DEF Scrape
<1> HIDE DEF Tries, FullPage, MixedPage
<1>2. /\ input'.rule = "scrape" /\ input'.max = max
      /\ input'.answers = [i \in DOMAIN available |-> Tries(available[i])[f[i]]]
      /\ input'.base.available = available /\ input'.base.current = current
      /\ input'.base.segments = IF own THEN FullPage(current) ELSE MixedPage(current)
  BY <1>1
<1>3. input'.base.segments \in {FullPage(input'.base.current), MixedPage(input'.base.current)}
  BY <1>2
<1>4. /\ input'.base.available \in ProfileLists /\ input'.base.current \in {0, 3, 4}
      /\ f \in [1..3 -> 1..6] /\ RulesAssumption /\ ScraperAssumption
  BY <1>2 DEF RulesHypotheses
<1>5. IsBase(input'.base, input'.answers)
  BY <1>2, <1>3, <1>4, BaseIs
<1>6. input'.max \in Nat
  BY <1>2
<1> QED BY <1>2, <1>5, <1>6 DEF InputTyped

(* A walk is chosen for the list and query chosen before.                   *)
LEMMA WalkTyped == RulesHypotheses /\ InputTyped /\ input.rule = "list" /\ Walk => InputTyped'
<1> SUFFICES ASSUME RulesHypotheses, InputTyped, input.rule = "list", Walk PROVE InputTyped'
  OBVIOUS
<1>1. PICK t \in Tables, n \in {1, 2}, turned \in BOOLEAN :
        \E u \in {t} \cup Changed(t) :
          input' = [rule |-> "walk", walk |-> WalkOf(input.list, input.query, t, u, n, turned)]
  <2> HIDE DEF WalkOf, Changed
  <2> QED BY DEF Walk
<1>2. PICK u \in {t} \cup Changed(t) :
        input' = [rule |-> "walk", walk |-> WalkOf(input.list, input.query, t, u, n, turned)]
  BY <1>1, Zenon
<1>3. input'.rule = "walk" /\ input'.walk = WalkOf(input.list, input.query, t, u, n, turned)
  BY <1>2
<1>4. input.list \in ListNames /\ input.query \in Queries /\ ListingsAssumption
  BY DEF InputTyped, RulesHypotheses
<1>5. IsWalk(input'.walk)
  BY <1>3, <1>4, WalksAre
<1> QED BY <1>3, <1>5 DEF InputTyped

(* Every input that is chosen has its form.                                 *)
THEOREM RulesTyped == Spec => []InputTyped
<1>1. Init => InputTyped
  BY DEF Init, Nothing, InputTyped
<1>2. ASSUME InputTyped, [Next]_input PROVE InputTyped'
  <2>1. CASE UNCHANGED input
    BY <1>2, <2>1 DEF InputTyped
  <2>2. CASE Access
    BY <2>2, RulesHold, AccessTyped
  <2>3. CASE Join
    BY <2>3, JoinTyped
  <2>4. CASE Mmr
    BY <2>4, MmrTyped
  <2>5. CASE Scrape
    BY <2>5, RulesHold, ScrapeTyped
  <2>6. CASE Address
    <3>1. PICK u \in Url : input' = [rule |-> "address", url |-> u]
      BY <2>6 DEF Address
    <3>2. input'.rule = "address" /\ input'.url = u
      BY <3>1
    <3> QED BY <3>2 DEF InputTyped
  <2>7. CASE ChooseList
    <3>1. PICK name \in ListNames, q \in Queries : input' = [rule |-> "list", list |-> name, query |-> q]
      BY <2>7 DEF ChooseList
    <3>2. input'.rule = "list" /\ input'.list = name /\ input'.query = q
      BY <3>1
    <3> QED BY <3>2 DEF InputTyped
  <2>8. CASE input.rule = "list" /\ Walk
    BY <1>2, <2>8, RulesHold, WalkTyped
  <2> QED BY <1>2, <2>1, <2>2, <2>3, <2>4, <2>5, <2>6, <2>7, <2>8 DEF Next
<1> QED BY <1>1, <1>2, PTL DEF Spec

-------------------------------------------------------------------------------
(* FailsClosed, JoinFailsClosed: no guard lets anybody in because a call    *)
(* to the database, the settings or Discord failed who would not be let in  *)
(* without the failure, and no league takes him for that.                   *)
THEOREM AlwaysClosed == Spec => []Closed
<1>1. InputTyped => Closed
  BY AccessClosed, JoinClosed DEF InputTyped, Closed
<1> QED BY <1>1, RulesTyped, PTL

(* GrantsAreDue, JoinersAreSkilled, AuditTells: whoever a guard lets in is  *)
(* entitled to what he asks for, whoever joins a league that asks for skill *)
(* has it, and the audit log tells what each guard decided.                 *)
THEOREM AlwaysDue == Spec => []Due
<1>1. InputTyped => Due
  BY AccessAssumption, AccessDue, AccessAudited, JoinSkilled DEF InputTyped, Due
<1> QED BY <1>1, RulesTyped, PTL

(* RatingWithin, EachGuildRated: the rating the calculator gives lies among *)
(* the ratings it is made of, and each of a user's guilds gets one even     *)
(* when another guild's settings are of no use.                             *)
THEOREM AlwaysWithin == Spec => []Within
<1>1. InputTyped => Within
  BY RatingIsWithin, LatestIsOne, GuildIsRated DEF InputTyped, Within
<1> QED BY <1>1, RulesTyped, PTL

(* SeasonsAsAsked: a scrape returns the newest seasons it was to return,    *)
(* each with ratings of its own and none that it could not have.            *)
THEOREM AlwaysAsAsked == Spec => []AsAsked
<1>1. InputTyped => AsAsked
  BY ScrapeAsAsked DEF InputTyped, AsAsked
<1> QED BY <1>1, RulesTyped, PTL

(* AcceptedConverts: every profile URL a registration accepts is one the    *)
(* scraper can convert to the address it asks.                              *)
THEOREM AlwaysConverts == Spec => []Converts
<1>1. InputTyped => Converts
  BY Conversion DEF InputTyped, Converts
<1> QED BY <1>1, RulesTyped, PTL

(* WalkSees: a client who pages through a list sees every row that stays,   *)
(* and sees it once, unless rows ahead of it come or go or share its key.   *)
THEOREM AlwaysSees == Spec => []Sees
<1>1. InputTyped => Sees
  BY ListingsAssumption, WalkIsSeen DEF InputTyped, Sees
<1> QED BY <1>1, RulesTyped, PTL
===============================================================================
