SPECIFICATION Spec
CONSTANTS
  Roles = {"ra", "rb"}
  RetryAttempts = 1
  ScraperRetries = 1
  MaxLimit = 2
INVARIANTS Closed Due Within AsAsked Converts Sees
CHECK_DEADLOCK FALSE
