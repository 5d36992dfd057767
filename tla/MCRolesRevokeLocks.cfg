CONSTANTS
  Users = {u1, u2, u3}
  Superusers = {}
  Workers = {w1, w2}
  ChangedRoles = {"ADMIN"}
  SiteUsers = {}
  MaxEvents = 1
  None = None
SPECIFICATION Spec
SYMMETRY Symmetry
INVARIANTS
  RevokesNeverDeadlock
