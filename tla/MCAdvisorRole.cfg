CONSTANTS
  ConcernIds = {c1}
  AssignmentIds = {a1}
  Advisors = {v1}
  Authors = {u1}
  Texts = {t1}
  Workers = {w1, w2}
  None = None
SPECIFICATION RoleSpec
SYMMETRY Symmetry
PROPERTIES
  NewAssigneeIsAdvisor
