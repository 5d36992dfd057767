CONSTANTS
  Users = {u1, u2}
  Superusers = {}
  Workers = {w1, w2}
  ChangedRoles = {"ADVISOR"}
  SiteUsers = {}
  MaxEvents = 2
  AppIds = {p1}
  Names = {n1}
  None = None
SPECIFICATION AppSpec
SYMMETRY Symmetry
PROPERTIES
  ApprovalGrantsRole
