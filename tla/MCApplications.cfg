CONSTANTS
  Users = {u1, u2}
  Superusers = {}
  Workers = {w1, w2}
  ChangedRoles = {"ADVISOR"}
  SiteUsers = {u1}
  MaxEvents = 1
  AppIds = {p1}
  Names = {n1}
  None = None
SPECIFICATION AppSpec
SYMMETRY Symmetry
INVARIANTS
  AppTypeOK
  NoticesFollowDecisions
  HeldRoleIsAudited
PROPERTIES
  DecisionStands
  OnlyTheSiteMisdresses
  RolesPromiseWithApprovals
