SPECIFICATION Spec
CONSTANTS
  Players = {}
  Orgs = {o1, o2}
  Teams = {t1, t2, t3, t4}
  Requests = {r1, r2}
  MaxOrgs = 2
  MaxTeams = 1
  MaxFaults = 1
SYMMETRY Symmetry
CONSTRAINTS FewDeleted FewTeams
INVARIANTS CleanedUp TeamsByRaceOnly RequiredMeansAssigned
