CONSTANTS
  Users = {u1, u2}
  Superusers = {}
  Workers = {w1}
  ChangedRoles = {}
  SiteUsers = {}
  MaxEvents = 0
  AppIds = {p1}
  Names = {n1}
  None = None
SPECIFICATION AppSpec
SYMMETRY Symmetry
INVARIANTS
  RejectionNoticeIsTrue
