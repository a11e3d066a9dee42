SPECIFICATION WorldsSpec
CONSTANTS
  p3 = p3
  r1 = r1
  Players = {p1, p2}
  Requests = {r1, r2}
  Matches = {m1, m2}
  EditsStatus = FALSE
  MaxCounts = 3
  open = open
  closed = closed
SYMMETRY Symmetry
INVARIANTS JoinsExceedByRaceOnly RowsAgree CompletedIsCounted
PROPERTIES StatusByRule
