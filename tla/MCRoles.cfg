CONSTANTS
  Users = {u1, u2}
  Superusers = {}
  Workers = {w1, w2}
  ChangedRoles = {"ADMIN"}
  SiteUsers = {u1}
  MaxEvents = 2
  None = None
SPECIFICATION FairSpec
INVARIANTS
  AuditTellsHolding
PROPERTIES
  RevocationLeavesAnAdmin
  RolesPromise
  RequestsFinish
