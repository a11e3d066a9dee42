SPECIFICATION ServicesSpec
CONSTANTS
  Patches <- LeaguePatches
  Legacy <- LeagueLegacy
  Services = {"tokens"}
  Requests = {r1, r2}
  Processes = {x1, x2}
  Users = {x1, x2}
  Teams = {x1, x2}
  Players = {y1, y2}
  Channels = {c1}
  Statuses = {"ACTIVE", "BANNED"}
  Owners = {o1}
  Urls = {y1, y2, l3, l4}
  Accepted = {y1, y2, l3}
  MaxTrackers = 2
  NoUser = NoUser
  MaxPairs = 3
  MaxRetries = 1
  Limit = 2
  Window = 4
  MaxTime = 7
  Threshold = 5
  Timeout = 2
  Ttl = 1
  CallTimeout = 1
  MaxReadTime = 4
  Limits = {1, 2}
  MaxRows = 2
SYMMETRY Symmetry
INVARIANTS LogoutClears
CHECK_DEADLOCK FALSE
