CONSTANTS
  ConcernIds = {c1}
  AssignmentIds = {a1}
  Advisors = {v1}
  Authors = {u1}
  Texts = {t1}
  Workers = {w1, w2}
  AdviceIds = {d1}
  Bodies = {b1, b2}
  MaxVersion = 2
  None = None
SPECIFICATION AdviceSpec
SYMMETRY Symmetry
PROPERTIES
  WrittenWhileAssigned
