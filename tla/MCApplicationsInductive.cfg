CONSTANTS
  Users = {u1, u2}
  Superusers = {}
  Workers = {w1, w2}
  ChangedRoles = {"ADVISOR"}
  SiteUsers = {}
  MaxEvents = 1
  AppIds = {p1, p2}
  Names = {n1}
  None = None
SPECIFICATION AppSpec
SYMMETRY Symmetry
INVARIANTS
  AppTypeOK
  AppIInv
  HeldRoleIsAudited
  ApprovalMeetsNoDuplicate
