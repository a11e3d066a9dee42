---------------------------- MODULE AccessControl ----------------------------
(***************************************************************************)
(* Who is let in: the guards and the services they ask.  A decision is a    *)
(* pure function of a world w: the caller, the rows the services read, what *)
(* Discord answers, and the set w.fails of calls that throw.  Denied and    *)
(* not found are both FALSE.  The audit entries of the two guards that      *)
(* write any are a set of their own: nobody waits for them.                 *)
(***************************************************************************)
EXTENDS Naturals, Sequences, FiniteSets, SequencesExt, FiniteSetsExt

CONSTANTS
  Roles,          \* Discord role ids
  RetryAttempts   \* discord.retryAttempts (3 by default)

NoRole == "no role"   \* no role has this id

ASSUME AccessAssumption == RetryAttempts \in Nat /\ IsFiniteSet(Roles) /\ NoRole \notin Roles

Calls == {"token", "settings", "membership", "createMembership", "exists", "guild",
          "league", "player", "leagueMember", "validateRole", "managers", "countManagers",
          "audit"}

Works(w, call) == call \notin w.fails

-------------------------------------------------------------------------------
(* Discord on behalf of the user.  w.discord lists what successive tries    *)
(* get: [status |-> s], with permissions and roles if s is 200.             *)

(* createRetryOperator: 429 and 401 are final, everything else that is not  *)
(* an answer is tried again.                                                *)
Final(answer) == answer.status \in {200, 401, 429}

Retried(answers) ==
  answers[Min({i \in DOMAIN answers : i > RetryAttempts \/ Final(answers[i])})]

CheckAdministratorPermission(permissions) ==
  permissions \cap {"ADMINISTRATOR", "bit 8 set", "2147483648"} # {}

(* checkGuildPermissions: whatever goes wrong, the user is not a member. *)
CheckGuildPermissions(w) ==
  LET answer == Retried(w.discord)
  IN IF answer.status = 200
     THEN [isMember |-> TRUE, roles |-> answer.roles,
           administrator |-> CheckAdministratorPermission(answer.permissions)]
     ELSE [isMember |-> FALSE, roles |-> {}, administrator |-> FALSE]

GetValidAccessToken(w) == Works(w, "token") /\ w.token

(* The bot's side: validateRoleId, FALSE on any error. *)
ValidateRoleId(w, role) == Works(w, "validateRole") /\ role \in w.existing

-------------------------------------------------------------------------------
(* RoleParserService: the configured list in either format; the first       *)
(* element decides which, and an element of another has no id of its own.   *)
GetAdminRolesFromSettings(list) ==
  IF list = <<>> \/ list[1].format \notin {"object", "string"} THEN <<>>
  ELSE [i \in DOMAIN list |->
          IF list[i].format = list[1].format THEN list[i].id ELSE NoRole]

(* Mutant: a role that exists no more counts. *)
CheckAdminRoles_Unvalidated(w, roles) ==
  ToSet(GetAdminRolesFromSettings(w.configured)) \cap roles # {}

(* PermissionCheckService.checkAdminRoles: of the configured roles the user *)
(* has, only the first is looked up in Discord.                             *)
CheckAdminRoles(w, roles) ==
  LET ids == GetAdminRolesFromSettings(w.configured)
      having == {i \in DOMAIN ids : ids[i] \in roles}
  IN having # {} /\ ValidateRoleId(w, ids[Min(having)])

HasAdminRole(w) ==
  Works(w, "membership") /\ w.row /\ w.stored /\ CheckAdminRoles(w, w.roles)

(* checkGuildAccess, as the controller asks it with settings at hand. *)
CheckGuildAccess(w) ==
  LET member == Works(w, "membership") /\ w.row
  IN [isMember |-> member,
      isAdmin |-> /\ member /\ w.stored
                  /\ ToSet(GetAdminRolesFromSettings(w.configured)) \cap w.roles # {}]

-------------------------------------------------------------------------------
(* GuildAccessValidationService: a membership Discord vouches for is stored *)
(* on the way, with Discord's roles; KnownRoles are those of the row after. *)
VerifyAndSyncMembership(w) ==
  /\ GetValidAccessToken(w) /\ CheckGuildPermissions(w).isMember
  /\ Works(w, "guild") /\ w.guild
  /\ Works(w, "createMembership")

ValidateUserGuildAccess(w) ==
  /\ Works(w, "exists") /\ w.guild
  /\ Works(w, "membership")
  /\ w.row \/ VerifyAndSyncMembership(w)

KnownRoles(w) == IF w.row THEN w.roles ELSE CheckGuildPermissions(w).roles

(* GuildAuthorizationService.  Settings that are not there are created      *)
(* without roles, and without roles every member is let in.                 *)
(* Mutant: settings that cannot be read are taken for settings without      *)
(* roles.                                                                   *)
CheckGuildAdmin_Lenient(w) ==
  LET discord == CheckGuildPermissions(w)
  IN /\ GetValidAccessToken(w) /\ discord.isMember
     /\ \/ discord.administrator
        \/ w.configured = <<>> \/ ~Works(w, "settings")
        \/ Works(w, "membership") /\ w.row /\ CheckAdminRoles(w, w.roles)

CheckGuildAdmin(w) ==
  LET discord == CheckGuildPermissions(w)
  IN /\ GetValidAccessToken(w) /\ discord.isMember
     /\ \/ discord.administrator
        \/ /\ Works(w, "settings")
           /\ \/ w.configured = <<>>
              \/ Works(w, "membership") /\ w.row /\ CheckAdminRoles(w, w.roles)

CheckGuildAdminAccess(w) ==
  /\ ValidateUserGuildAccess(w)
  /\ Works(w, "settings") /\ CheckAdminRoles(w, KnownRoles(w))

-------------------------------------------------------------------------------
(* LeagueAccessValidationService: not yet a player is well, banned is not.  *)
(* Mutant: a lookup that fails finds nobody.                                *)
ValidateLeagueAccess_Swallows(w) ==
  /\ Works(w, "league") /\ w.league /\ Works(w, "guild") /\ w.guild
  /\ \/ ~w.player \/ ~Works(w, "player") \/ ~Works(w, "leagueMember")
     \/ w.member.status # "BANNED"

ValidateLeagueAccess(w) ==
  /\ Works(w, "league") /\ w.league /\ Works(w, "guild") /\ w.guild
  /\ Works(w, "player")
  /\ w.player => Works(w, "leagueMember") /\ w.member.status # "BANNED"

(* LeaguePermissionService. *)
CheckLeagueRole(w, wanted) ==
  /\ Works(w, "league") /\ w.league
  /\ Works(w, "player") /\ w.player
  /\ Works(w, "leagueMember") /\ w.member.status = "ACTIVE" /\ w.member.role \in wanted

IsGuildAdmin(w) == Works(w, "settings") /\ HasAdminRole(w)

CheckLeagueAccess(w, wanted) ==
  Works(w, "league") /\ w.league /\ (IsGuildAdmin(w) \/ CheckLeagueRole(w, wanted))

-------------------------------------------------------------------------------
(* OrganizationAuthorizationService and its guard: where nobody manages,    *)
(* the bot does.                                                            *)
IsGeneralManager(w) ==
  Works(w, "managers") /\ w.organization /\ w.caller \in w.managers

OrganizationGm(w) ==
  /\ Works(w, "managers")
  /\ \/ IsGeneralManager(w)
     \/ Works(w, "countManagers") /\ w.managers = {} /\ w.caller = "bot"

(* TrackerAuthorizationService: for oneself, or as admin of a guild both    *)
(* are in (w.shared); a guild whose check fails is passed over.             *)
ValidateTrackerAccess(w) ==
  \/ w.caller = w.target
  \/ /\ Works(w, "membership")
     /\ \E g \in w.shared :
          Works(g, "settings") /\ g.stored /\ CheckAdminRoles(g, g.roles)

ValidateTrackerOwnership(w) == w.caller = w.target

ResourceOwnership(w) == w.caller = "bot" \/ w.caller = w.target

CheckSystemAdmin(w) == w.caller \in w.systemAdmins

(* JwtAuthGuard stands before every route.  Public ones pass it, and so do  *)
(* the bot's, which BotAuthGuard then takes.                                *)
JwtAuth(w) == w.route \in {"public", "bot only"} \/ w.jwt
BotAuth(w) == w.route = "bot only" => w.apiKey

-------------------------------------------------------------------------------
(* The audit log of the decisions.  Entries are written without being       *)
(* waited for, in a transaction of their own, and one whose write fails is  *)
(* lost.  Of the two guards only that of the guilds knows the bot, and      *)
(* writes nothing of it.                                                    *)
Entry(w, guard, type, reasons, result) ==
  IF Works(w, "audit")
  THEN [guard : {guard}, type : {type}, result : {result}, reason : reasons]
  ELSE {}

(* Mutant: the allowed entry is written by a copy of the denied one. *)
GuildAudit_Copied(w, reasons, result) ==
  Entry(w, "guild admin", "GUILD_ACCESS", reasons, "denied")

GuildAudit(w, reasons, result) == Entry(w, "guild admin", "GUILD_ACCESS", reasons, result)
SystemAudit(w, reasons, result) == Entry(w, "system admin", "ADMIN_ACTION", reasons, result)

(* checkGuildAdmin, where it comes to each entry.  A caller who is not a    *)
(* member, or a call that throws, ends it without any.                      *)
GuildAdminEntries(w) ==
  LET discord == CheckGuildPermissions(w)
      member == GetValidAccessToken(w) /\ discord.isMember /\ w.caller # "bot"
      asked == member /\ ~discord.administrator /\ Works(w, "settings")
      looked == asked /\ w.configured # <<>> /\ Works(w, "membership") /\ w.row
      admin == CheckAdminRoles(w, w.roles)
      When(cond, reason) == IF cond THEN {reason} ELSE {}
  IN GuildAudit(w, When(member /\ discord.administrator, "discord_administrator_permission"),
                "allowed")
     \cup GuildAudit(w, When(asked /\ w.configured = <<>>, "no_admin_roles_configured"), "allowed")
     \cup GuildAudit(w, When(looked /\ admin, "configured_admin_role"), "allowed")
     \cup GuildAudit(w, When(looked /\ ~admin, "no_admin_access"), "denied")

SystemAdminEntries(w) ==
  IF CheckSystemAdmin(w)
  THEN SystemAudit(w, {"system_admin_user_id"}, "allowed")
  ELSE SystemAudit(w, {"not_system_admin"}, "denied")

-------------------------------------------------------------------------------
Guards == {"guild admin", "guild admin, simple", "league", "league admin",
           "league admin or moderator", "organization manager", "tracker",
           "tracker owner", "resource owner", "system admin"}

(* canActivate of each guard, after the two that authenticate. *)
Passes(w, guard) ==
  CASE guard = "guild admin" -> CheckGuildAdmin(w)
    [] guard = "guild admin, simple" -> CheckGuildAdminAccess(w)
    [] guard = "league" -> ValidateLeagueAccess(w)
    [] guard = "league admin" ->
         ValidateLeagueAccess(w) /\ CheckLeagueAccess(w, {"ADMIN"})
    [] guard = "league admin or moderator" ->
         ValidateLeagueAccess(w) /\ CheckLeagueAccess(w, {"ADMIN", "MODERATOR"})
    [] guard = "organization manager" -> OrganizationGm(w)
    [] guard = "tracker" -> ValidateTrackerAccess(w)
    [] guard = "tracker owner" -> ValidateTrackerOwnership(w)
    [] guard = "resource owner" -> ResourceOwnership(w)
    [] guard = "system admin" -> CheckSystemAdmin(w)

Granted(w, guard) == JwtAuth(w) /\ BotAuth(w) /\ Passes(w, guard)

-------------------------------------------------------------------------------
(* No guard lets anybody in because a call failed: what is granted while    *)
(* some calls fail is granted when none does.  A ban and a list of          *)
(* administrator roles shut people out, so a lookup of theirs that fails    *)
(* must not pass for an empty one.                                          *)
Unfailing(w) ==
  [w EXCEPT !.fails = {}, !.shared = {[g EXCEPT !.fails = {}] : g \in @}]

FailsClosed(w) ==
  \A guard \in Guards : Granted(w, guard) => Granted(Unfailing(w), guard)

(* A guild's administrators, by their roles: who has a configured role that *)
(* Discord still knows.                                                     *)
Administers(g, roles) ==
  \E i \in DOMAIN g.configured : g.configured[i].id \in roles \cap g.existing

Manages(w, wanted) == w.player /\ w.member.status = "ACTIVE" /\ w.member.role \in wanted
Banned(w) == w.player /\ w.member.status = "BANNED"

(* Whoever is let in is entitled to it: an administrator of the guild (by   *)
(* Discord's flag, by such a role, or because no role is configured yet),   *)
(* an active admin or moderator of the league who is not banned from it, an *)
(* administrator of a guild both users are in.  And whom the league guards  *)
(* take for the guild's administrator is told so at permissions/me.         *)
Entitled(w, guard) ==
  CASE guard = "guild admin" ->
         LET discord == CheckGuildPermissions(w)
         IN /\ discord.isMember
            /\ discord.administrator \/ w.configured = <<>> \/ Administers(w, w.roles)
    [] guard = "guild admin, simple" -> Administers(w, KnownRoles(w))
    [] guard = "league" -> ~Banned(w)
    [] guard = "league admin" ->
         ~Banned(w) /\ (Administers(w, w.roles) \/ Manages(w, {"ADMIN"}))
    [] guard = "league admin or moderator" ->
         ~Banned(w) /\ (Administers(w, w.roles) \/ Manages(w, {"ADMIN", "MODERATOR"}))
    [] guard = "tracker" ->
         w.caller = w.target \/ \E g \in w.shared : Administers(g, g.roles)
    [] OTHER -> TRUE

GrantsAreDue(w) ==
  /\ \A guard \in Guards : Granted(w, guard) => Entitled(w, guard)
  /\ IsGuildAdmin(w) => CheckGuildAccess(w).isAdmin

(* The audit log tells what the guard did: whoever it let in was let in,    *)
(* and a refusal stands only there where he was refused.  The entry is      *)
(* missing only if it could not be written or for the bot, a refusal also   *)
(* if the roles were never compared.                                        *)
AuditTells(w) ==
  /\ \A e \in GuildAdminEntries(w) : e.result = "allowed" <=> CheckGuildAdmin(w)
  /\ \A e \in SystemAdminEntries(w) : e.result = "allowed" <=> CheckSystemAdmin(w)
  /\ Works(w, "audit") =>
       /\ CheckGuildAdmin(w) /\ w.caller # "bot" =>
            Cardinality(GuildAdminEntries(w)) = 1
       /\ Cardinality(SystemAdminEntries(w)) = 1
=============================================================================
