SPECIFICATION ServicesSpec
CONSTANTS
  Patches <- LeaguePatches
  Legacy <- LeagueLegacy
  Services = {"league settings", "guild settings", "directory", "registration",
              "tokens", "scraper", "messages", "reads", "rosters", "leagues"}
  Requests = {r1, r2}
  Processes = {x1, x2}
  Users = {x1, x2}
  Teams = {x1, x2}
  Players = {y1, y2}
  Channels = {c1}
  Statuses = {"ACTIVE"}
  Owners = {o1}
  Urls = {y1, y2, l3, l4}
  Accepted = {y1, y2, l3}
  MaxTrackers = 2
  NoUser = NoUser
  MaxPairs = 3
  MaxRetries = 1
  Limit = 2
  Window = 4
  MaxTime = 7
  Threshold = 5
  Timeout = 2
  Ttl = 1
  CallTimeout = 1
  MaxReadTime = 4
  Limits = {1, 2}
  MaxRows = 2
SYMMETRY Symmetry
CONSTRAINTS GuildStays PlayersAside
INVARIANTS
  StoredValid StaleByOverlapOnly GuildSettingsExplained MembersAreSynced LimitsByRaceOnly
  ToldWithCare TrueRecently LockedOutByLossOnly SpacedByOverlapOnly
PROPERTIES UpdatesKept ReopenedByEditOrRace
CHECK_DEADLOCK FALSE
