----------------------------- MODULE MCServices -----------------------------
(***************************************************************************)
(* The smaller services for TLC, each on its own: service                   *)
(* says which of them a behaviour is about, and never changes.  What the    *)
(* services share by name (Requests, request, user, row, ...) is here one   *)
(* constant and one variable, which is whoever's turn it is; the variables  *)
(* of the others are "off", or empty for LeagueSettings, which this module  *)
(* extends so that its properties are checked as they are proved.  No       *)
(* service reads what another one writes: see the README for what each      *)
(* takes from its surroundings.                                             *)
(***************************************************************************)
EXTENDS LeagueSettings, TLC

CONSTANTS
  Services,                                 \* those a run is about
  Channels,                                 \* guild settings
  Users, Statuses,                          \* the directory of a guild
  Owners, Urls, Accepted, MaxTrackers, NoUser,  \* registration
  MaxPairs, MaxRetries,                     \* tokens
  Limit, Window, MaxTime,                   \* the scraper's rate limit
  Threshold, Timeout,                       \* messages
  Ttl, CallTimeout, MaxReadTime,            \* reads of Discord
  Teams, Players, Limits, MaxRows           \* rosters

VARIABLES
  service,
  joined, config, memo, told, overlapped, unsure,  \* guild settings
  guild, user, member, player, listed, later, gone,
  owner, deleted, raced, contested,
  issued, usable, valid, next, access, refresh, lost, out,
  now, windowStart, count, last, call, sent, crowd,
  circuit, copies, unanswered, failing,
  kind, truth, cached,
  max, active, other, excused, twofold,
  league

-------------------------------------------------------------------------------
(* What updates may ask for, and rows from before: a change that is valid   *)
(* alone but not on every row, one that turns organizations on; for a guild *)
(* one of each section that is validated, one of them in vain.              *)
LeaguePatches ==
  {[Unset EXCEPT !["minPlayers"] = {1}],
   [Unset EXCEPT !["minPlayers"] = {2}, !["requireOrganization"] = {TRUE}]}
LeagueLegacy == {[Unset EXCEPT !["maxPlayers"] = {1}]}

GC == INSTANCE GuildConfig
GuildPatches ==
  {[GC!Unset EXCEPT !["bot_command_channels"] = {Channels}],
   [GC!Unset EXCEPT !["algorithm"] = {"WEIGHTED_AVERAGE"}, !["ones"] = {0}],
   [GC!Unset EXCEPT !["enabled"] = {FALSE}, !["algorithm"] = {"PEAK_MMR"}]}
GuildLegacy == {[GC!Unset EXCEPT !["enabled"] = {FALSE}, !["version"] = {1}]}

GS == INSTANCE GuildSettings WITH
  Patches <- GuildPatches, Legacy <- GuildLegacy,
  exists <- joined, row <- config, cache <- memo, doubtful <- unsure
DI == INSTANCE Directory
TR == INSTANCE TrackerRegistration WITH Users <- Owners
TL == INSTANCE TokenLifecycle
SR == INSTANCE ScrapeRate WITH Calls <- Requests
TM == INSTANCE TrackerMessages
DR == INSTANCE DiscordReads WITH RetryAttempts <- MaxRetries, MaxTime <- MaxReadTime
RO == INSTANCE TeamRoster
LE == INSTANCE Leagues WITH status <- league

ASSUME ServicesAssumption ==
  /\ SettingsAssumption /\ GS!GuildSettingsAssumption /\ DI!DirectoryAssumption
  /\ TR!RegistrationAssumption /\ TL!TokenAssumption /\ SR!RateAssumption
  /\ RO!RosterAssumption /\ TM!MessagesAssumption /\ DR!ReadsAssumption

-------------------------------------------------------------------------------
settings == <<exists, row, cache, doubtful>>
guildSettings == <<joined, config, memo, told, overlapped, unsure>>
directory == <<guild, member, player, listed, later, gone>>
registration == <<owner, deleted, raced, contested>>
tokens == <<issued, usable, valid, next, access, refresh, lost, out>>
rate == <<windowStart, count, last, call, sent, crowd>>
messages == <<circuit, copies, unanswered, failing>>
reads == <<kind, truth, cached>>
roster == <<max, active, other, excused, twofold>>

services == <<service, settings, guildSettings, directory, user, registration, tokens, now,
              rate, messages, reads, roster, league, request>>

NoSettings == exists = FALSE /\ row = {} /\ cache = [n \in Processes |-> {}] /\ doubtful = {}
OffGuildSettings == /\ joined = "off" /\ config = "off" /\ memo = "off"
                    /\ told = "off" /\ overlapped = "off" /\ unsure = "off"
OffDirectory == /\ guild = "off" /\ member = "off" /\ player = "off"
                /\ listed = "off" /\ later = "off" /\ gone = "off"
OffUser == user = "off"
OffRegistration == owner = "off" /\ deleted = "off" /\ raced = "off" /\ contested = "off"
OffTokens == /\ issued = "off" /\ usable = "off" /\ valid = "off" /\ next = "off"
             /\ access = "off" /\ refresh = "off" /\ lost = "off" /\ out = "off"
OffClock == now = "off"
OffRate == /\ windowStart = "off" /\ count = "off" /\ last = "off"
           /\ call = "off" /\ sent = "off" /\ crowd = "off"
OffMessages == /\ circuit = "off" /\ copies = "off" /\ unanswered = "off" /\ failing = "off"
OffReads == kind = "off" /\ truth = "off" /\ cached = "off"
OffRoster == /\ max = "off" /\ active = "off" /\ other = "off"
             /\ excused = "off" /\ twofold = "off"
OffLeague == league = "off"

Is(name) == service = name

ServicesInit ==
  /\ service \in Services
  /\ IF Is("league settings") THEN Init ELSE NoSettings
  /\ IF Is("guild settings") THEN GS!Init ELSE OffGuildSettings
  /\ IF Is("directory") THEN DI!Init ELSE OffDirectory
  /\ IF Is("registration") THEN TR!Init ELSE OffRegistration
  /\ IF Is("tokens") THEN TL!Init ELSE OffTokens
  /\ IF service \in {"directory", "registration", "tokens"} THEN TRUE ELSE OffUser
  /\ IF Is("scraper") THEN SR!Init /\ request = "off" ELSE OffRate
  /\ IF Is("messages") THEN TM!Init ELSE OffMessages
  /\ IF Is("reads") THEN DR!Init ELSE OffReads
  /\ IF service \in {"scraper", "messages", "reads"} THEN TRUE ELSE OffClock
  /\ IF Is("rosters") THEN RO!Init ELSE OffRoster
  /\ IF Is("leagues") THEN LE!Init ELSE OffLeague

ServicesNext ==
  /\ UNCHANGED service
  /\ \/ /\ Is("league settings") /\ Next
        /\ UNCHANGED <<guildSettings, directory, user, registration, tokens, now, rate, messages, reads, roster, league>>
     \/ /\ Is("guild settings") /\ GS!Next
        /\ UNCHANGED <<settings, directory, user, registration, tokens, now, rate, messages, reads, roster, league>>
     \/ /\ Is("directory") /\ DI!Next
        /\ UNCHANGED <<settings, guildSettings, registration, tokens, now, rate, messages, reads, roster, league>>
     \/ /\ Is("registration") /\ TR!Next
        /\ UNCHANGED <<settings, guildSettings, directory, tokens, now, rate, messages, reads, roster, league>>
     \/ /\ Is("tokens") /\ TL!Next
        /\ UNCHANGED <<settings, guildSettings, directory, registration, now, rate, messages, reads, roster, league>>
     \/ /\ Is("scraper") /\ SR!Next
        /\ UNCHANGED <<settings, guildSettings, directory, user, registration, tokens, messages, reads, roster, league, request>>
     \/ /\ Is("messages") /\ TM!Next
        /\ UNCHANGED <<settings, guildSettings, directory, user, registration, tokens, rate, reads, roster, league>>
     \/ /\ Is("reads") /\ DR!Next
        /\ UNCHANGED <<settings, guildSettings, directory, user, registration, tokens, rate, messages, roster, league>>
     \/ /\ Is("rosters") /\ RO!Next
        /\ UNCHANGED <<settings, guildSettings, directory, user, registration, tokens, now, rate, messages, reads, league>>
     \/ /\ Is("leagues") /\ LE!Next
        /\ UNCHANGED <<settings, guildSettings, directory, user, registration, tokens, now, rate, messages, reads, roster>>

ServicesSpec == ServicesInit /\ [][ServicesNext]_services

(* The services' sorts but the players share their model values, which one  *)
(* permutation exchanges in all of them.                                    *)
Symmetry == Permutations(Requests) \cup Permutations(Processes) \cup Permutations(Players)

(* Bound: a guild that was removed, whose rows all stay, is not gone on     *)
(* with.                                                                    *)
GuildStays == guild # "left"

(* Bound: while two syncs are in hand there are no players, who matter to   *)
(* neither.                                                                 *)
PlayersAside ==
  Is("directory") /\ (\A r \in Requests : request[r].pc \in DI!Open) =>
    \A u \in Users : player[u] = "none"

-------------------------------------------------------------------------------
(* Of the guild settings: the activity log explains what is stored, unless  *)
(* requests overlapped, and the process answers with something other than   *)
(* the row only if that was written while it remembered or held an older.   *)
GuildSettingsExplained ==
  Is("guild settings") => GS!LogTellsRow /\ GS!AnswersBehindByOverlapOnly

(* Of the directory: the members are those of the sync committed last, but  *)
(* for rows that came or went since.                                        *)
MembersAreSynced == Is("directory") => DI!MembersAreSynced

(* Of registrations and rosters: the number of trackers of a user and that  *)
(* of members of a team exceed their limits only by races, or for a team by *)
(* an edit; and only a race makes a registration stop midway.               *)
LimitsByRaceOnly ==
  /\ Is("registration") => TR!LimitByRaceOnly /\ TR!StoppedByRaceOnly
  /\ Is("rosters") => RO!RosterByRaceOrEdit

(* Of tokens: no interleaving alone leaves the user with a refresh token    *)
(* that cannot be used.                                                     *)
LockedOutByLossOnly == Is("tokens") => TL!LockedOutByLossOnly

(* Of tokens, and not true of the code: "Revoke Discord tokens and clear    *)
(* from database", of whoever logs out.                                     *)
LogoutClears == Is("tokens") => TL!LogoutClears

(* Of the scraper: requests keep their distance unless calls wait together. *)
SpacedByOverlapOnly == Is("scraper") => SR!SpacedByOverlapOnly

(* Of the scraper, and not true of the code: never more requests a minute   *)
(* than the limit.                                                          *)
RateKept == Is("scraper") => SR!RateKept

(* Of messages: nobody is told of one scrape twice unless an answer of      *)
(* Discord was lost, and the circuit is open only after enough calls that   *)
(* failed one after another.                                                *)
ToldWithCare == Is("messages") => TM!ToldTwiceByLossOnly /\ TM!OpenForCause

(* Of what is read from Discord: it was so not long ago.                    *)
TrueRecently == Is("reads") => DR!TrueRecently

(* Of leagues: one that is archived or cancelled is opened again only by an *)
(* edit, or a change that was allowed while it was open.                    *)
ReopenedByEditOrRace == [][Is("leagues") => LE!ReopensDuly]_services

(* Every variable keeps its type, of whatever service it is.                *)
TypesOK ==
  /\ Is("league settings") => TypeOK
  /\ Is("guild settings") => GS!TypeOK
  /\ Is("directory") => DI!TypeOK
  /\ Is("registration") => TR!TypeOK
  /\ Is("tokens") => TL!TypeOK
  /\ Is("scraper") => SR!TypeOK
  /\ Is("messages") => TM!TypeOK
  /\ Is("reads") => DR!TypeOK
  /\ Is("rosters") => RO!TypeOK
  /\ Is("leagues") => LE!TypeOK
=============================================================================
