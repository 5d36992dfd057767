CONSTANTS
  Users = {u1}
  Superusers = {}
  Workers = {w1, w2}
  ChangedRoles = {"ADVISOR"}
  SiteUsers = {}
  MaxEvents = 1
  AppIds = {p1}
  Names = {n1}
  None = None
SPECIFICATION FairAppSpec
PROPERTIES
  AppRequestsFinish
