CONSTANTS
  ConcernIds = {c1, c2}
  AssignmentIds = {a1, a2}
  Advisors = {v1, v2}
  Authors = {u1}
  Texts = {t1, t2}
  Workers = {w1, w2}
  None = None
SPECIFICATION Spec
SYMMETRY Symmetry
INVARIANTS
  TypeOK
  StatusMatchesAssignments
  IInv
  AnnouncedOnce
PROPERTIES
  TextFrozenOnceAssigned
  StatusFollowsEdges
  DeletedIsFrozen
  LifecycleSpec
