CONSTANTS
  ConcernIds = {c1}
  AssignmentIds = {a1, a2}
  Advisors = {v1}
  Authors = {u1}
  Texts = {t1, t2}
  Workers = {w1, w2}
  AdviceIds = {d1}
  Bodies = {b1, b2}
  MaxVersion = 3
  Admins = {m1, m2}
  None = None
SPECIFICATION FeedbackSpec
SYMMETRY Symmetry
INVARIANTS
  FeedbackTypeOK
  HistoryComplete
  FeedbackUnderApproval
  ReviewRecorded
PROPERTIES
  DecidedAsRead
  DecisionFinal
  TextUnderAdviceStays
  ConcernsSpec
