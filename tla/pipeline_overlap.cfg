SPECIFICATION Spec
CONSTANTS
  u1 = u1
  t1 = t1
  t2 = t2
  Users = {u1}
  Trackers = {t1}
  Owner <- OneOwner
  Workers = {w1, w2}
  Jobs = {j1, j2}
  Guilds = {}
  Requests = {r1}
  Sweepers = {}
  Latest = 2
  MaxHistory = 1
  MaxTries = 2
  MaxStalls = 1
  AttemptsCap = 1
  MaxFaults = 0
  NoTracker = NoTracker
  NoWorker = NoWorker
  NoJob = NoJob
SYMMETRY Symmetry
INVARIANTS HistoryKept OutcomesAddUp
PROPERTIES NothingUnlearned
CONSTRAINT FlagsKept
CHECK_DEADLOCK FALSE
