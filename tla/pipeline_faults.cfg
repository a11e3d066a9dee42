SPECIFICATION Spec
CONSTANTS
  u1 = u1
  t1 = t1
  t2 = t2
  Users = {u1}
  Trackers = {t1}
  Owner <- OneOwner
  Workers = {w1, w2}
  Jobs = {j1}
  Guilds = {}
  Requests = {r1}
  Sweepers = {}
  Latest = 1
  MaxHistory = 0
  MaxTries = 2
  MaxStalls = 1
  AttemptsCap = 1
  MaxFaults = 2
  NoTracker = NoTracker
  NoWorker = NoWorker
  NoJob = NoJob
SYMMETRY Symmetry
INVARIANTS InProgressOwned FaultsContained
CONSTRAINTS FlagsKept GoneLeft
CHECK_DEADLOCK FALSE
