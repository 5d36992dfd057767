CONSTANTS
  Users = {u1, u2}
  Superusers = {}
  Workers = {w1, w2}
  ChangedRoles = {}
  SiteUsers = {}
  MaxEvents = 0
  AppIds = {p1, p2}
  Names = {n1, n2}
  None = None
SPECIFICATION AppSpec
SYMMETRY Symmetry
INVARIANTS
  OneInProgress
