SPECIFICATION FairSpec
CONSTANTS
  Count = 3
  Events <- FirstEvents
  Unhandled = {3}
  Processors = {p1}
  BatchLimit = 2
  MaxRetries = 3
  DispatchedCap = 5
  MaxFaults = 3
  MaxCrashes = 1
INVARIANTS OncePerFault InOrder
PROPERTIES Delivers HandledInTheEnd
CHECK_DEADLOCK FALSE
