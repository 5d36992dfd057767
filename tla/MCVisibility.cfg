CONSTANTS
  ConcernIds = {c1}
  AssignmentIds = {a1, a2}
  Advisors = {v1, v2}
  Authors = {u1}
  Texts = {t1}
  Workers = {w1, w2}
  AdviceIds = {d1, d2}
  Bodies = {b1}
  MaxVersion = 2
  None = None
SPECIFICATION AdviceSpec
SYMMETRY Symmetry
INVARIANTS
  AnsweredHasApproval
  NoticePerDecision
  AdviceUnderAssignment
  QueueIsTheWork
  LookupsFindOne
PROPERTIES
  ApprovalAnswersAssigned
