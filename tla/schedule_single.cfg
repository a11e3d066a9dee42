SPECIFICATION FairSpec
CONSTANTS
  Schedules = {s1}
  Processes = {p1}
  Year = 3
  Ahead = 2
  Horizon = 6
  MaxFaults = 2
  MaxCrashes = 2
INVARIANTS TimersAgree RunsOnceInTime
PROPERTIES SettlesInTheEnd
CHECK_DEADLOCK FALSE
