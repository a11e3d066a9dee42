SPECIFICATION FairSpec
CONSTANTS
  u1 = u1
  t1 = t1
  t2 = t2
  Users = {u1}
  Trackers = {t1}
  Owner <- OneOwner
  Workers = {w1}
  Jobs = {j1}
  Guilds = {g1}
  Requests = {r1}
  Sweepers = {s1}
  Latest = 1
  MaxHistory = 0
  MaxTries = 2
  MaxStalls = 1
  AttemptsCap = 1
  MaxFaults = 1
  NoTracker = NoTracker
  NoWorker = NoWorker
  NoJob = NoJob

PROPERTIES EverySettles DueTried
CONSTRAINTS FlagsKept GuildKept
CHECK_DEADLOCK FALSE
