CONSTANTS
  Users = {u1, u2}
  Superusers = {u2}
  Workers = {w1, w2}
  ChangedRoles = {"ADVISOR", "ADMIN"}
  SiteUsers = {u1}
  MaxEvents = 1
  None = None
SPECIFICATION Spec
INVARIANTS
  TypeOK
  RoleIInv
  AuditTellsHolding
SYMMETRY Symmetry
