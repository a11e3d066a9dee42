SPECIFICATION Spec
CONSTANTS
  Players = {p1, p2}
  Orgs = {o1, o2, o3}
  Teams = {t1}
  Requests = {r1, r2}
  MaxOrgs = 1
  MaxTeams = 1
  MaxFaults = 0
SYMMETRY Symmetry
CONSTRAINTS FewDeleted MembersStay SettingsStay
INVARIANTS ManagerKept OrganizationsByRaceOnly
