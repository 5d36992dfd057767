--------------------------- MODULE ConcernsProofs ---------------------------
(***************************************************************************)
(* Machine-checked proofs about Concerns, for every number of concerns,    *)
(* assignments, advisors and workers.                                      *)
(***************************************************************************)
EXTENDS Concerns, TLAPS

(* What the fields of a request in flight hold, by the kind of request.    *)
LEMMA RequestFields ==
  ASSUME TypeOK, NEW w \in Workers, ~Idle(w)
  PROVE  /\ req[w] \in Request
         /\ req[w].concern \in ConcernIds
         /\ req[w].op \in {"edit", "delete", "assign", "unassign", "review"}
         /\ req[w].stage \in Stage
         /\ req[w].op = "edit" => req[w] \in EditRequest
         /\ req[w].op = "delete" => req[w] \in DeleteRequest
         /\ req[w].op = "assign" => req[w] \in AssignRequest
         /\ req[w].op = "unassign" => req[w] \in UnassignRequest
         /\ req[w].op = "review" => req[w] \in ReviewRequest
<1>1. req[w] \in Request
  BY DEF TypeOK, Idle
<1> QED
  BY <1>1 DEF Request, EditRequest, DeleteRequest, AssignRequest, UnassignRequest,
     ReviewRequest, Stage

(* Being granted a lock keeps the request a request.                       *)
LEMMA LockedRequestTyped ==
  ASSUME NEW r \in Request, r.op # "delete", NEW s \in Status
  PROVE  [r EXCEPT !.stage = "locked", !.seen = s] \in Request
BY DEF Request, EditRequest, DeleteRequest, AssignRequest, UnassignRequest,
   ReviewRequest, Stage

(* The requests a worker can start are requests.                           *)
LEMMA BegunRequestTyped ==
  ASSUME NEW w \in Workers, NEW c \in ConcernIds, BeginRequest(w, c)
  PROVE  \E r \in Request :
            /\ Begin(w, r) /\ r.stage = "waiting" /\ r.concern = c
            /\ r.op = "assign" => ~KeyInUse(r.id)
            /\ Exists(c)
            /\ UNCHANGED <<concern, assignment, announced, holder>>
<1> USE DEF Request, Stage
<1>1. ASSUME NEW u \in Authors, NEW t \in Texts, BeginEdit(w, u, c, t)
      PROVE  [op |-> "edit", stage |-> "waiting", concern |-> c, seen |-> None,
              text |-> t] \in Request
  BY DEF EditRequest
<1>2. [op |-> "delete", stage |-> "waiting", concern |-> c] \in Request
  BY DEF DeleteRequest
<1>3. ASSUME NEW v \in Advisors, NEW a \in AssignmentIds
      PROVE  [op |-> "assign", stage |-> "waiting", concern |-> c, seen |-> None,
              advisor |-> v, id |-> a] \in Request
  BY DEF AssignRequest
<1>4. ASSUME NEW a \in AssignmentIds
      PROVE  [op |-> "unassign", stage |-> "waiting", concern |-> c, seen |-> None,
              id |-> a] \in Request
  BY DEF UnassignRequest
<1>5. ASSUME NEW approve \in BOOLEAN
      PROVE  [op |-> "review", stage |-> "waiting", concern |-> c, seen |-> None,
              approve |-> approve] \in Request
  BY DEF ReviewRequest
<1> HIDE DEF Request
<1> QED
  BY <1>1, <1>2, <1>3, <1>4, <1>5
     DEF BeginRequest, BeginOwnRequest, BeginEdit, BeginDelete, BeginAssign, BeginUnassign, BeginReview,
         IsLive

(* A worker at the row is refused, is granted the lock, or is #19 writing. *)
LEMMA AtTheRowCases ==
  ASSUME TypeOK, IInv, NEW w \in Workers, AtTheRow(w)
  PROVE  /\ ~Idle(w) /\ req[w].stage = "waiting"
         /\ req[w].concern \in ConcernIds
         /\ Exists(req[w].concern)
         /\ concern[req[w].concern] \in ConcernRow
         /\ RowFree(req[w].concern)
         /\ \/ WriteDeleted(w) /\ req[w].op = "delete"
            \/ Refuse(w) /\ UNCHANGED <<concern, assignment, announced>>
            \/ /\ TakeLock(w) /\ UNCHANGED <<concern, assignment, announced>>
               /\ req[w].op # "delete"
               /\ req[w].op = "edit" => MayEdit(req[w].concern)
               /\ req[w].op = "assign" => MayAssign(req[w].concern)
               /\ req[w].op = "unassign" =>
                     req[w].id \in ActiveAssignments(req[w].concern)
               /\ req[w].op = "review" => ~concern[req[w].concern].deleted
<1>1. ~Idle(w) /\ req[w].stage = "waiting"
  BY DEF AtTheRow, LockForEdit, LockForAssign, LockForUnassign, LockForReview,
     WriteDeleted, Waiting
<1>2. req[w].concern \in ConcernIds
  BY <1>1, RequestFields
<1>3. Exists(req[w].concern) /\ concern[req[w].concern] \in ConcernRow
  BY <1>1, <1>2 DEF IInv, ChecksStillHold, Exists, TypeOK
<1> QED
  BY <1>1, <1>2, <1>3
     DEF AtTheRow, LockForEdit, LockForAssign, LockForUnassign, LockForReview,
         WriteDeleted, Waiting, LockIf

(* A transaction that commits still holds its row, and what it read there  *)
(* is what is there.                                                       *)
LEMMA CommitFacts ==
  ASSUME TypeOK, IInv, NEW w \in Workers, Commit(w)
  PROVE  /\ ~Idle(w) /\ req[w].stage = "locked"
         /\ req[w].concern \in ConcernIds
         /\ holder[req[w].concern] = w
         /\ Exists(req[w].concern)
         /\ concern[req[w].concern] \in ConcernRow
         /\ req[w].seen = concern[req[w].concern].status
         /\ EndTransaction(w)
<1>1. ~Idle(w) /\ req[w].stage = "locked" /\ EndTransaction(w)
  BY DEF Commit, CommitEdit, CommitAssign, InsertConflict, CommitUnassign,
     CommitReview, InTransaction
<1>2. req[w].concern \in ConcernIds
  BY <1>1, RequestFields
<1>3. Exists(req[w].concern) /\ concern[req[w].concern] \in ConcernRow
  BY <1>1, <1>2 DEF IInv, ChecksStillHold, Exists, TypeOK
<1>4. req[w].seen = concern[req[w].concern].status
  BY <1>1 DEF IInv, ChecksStillHold
<1>5. holder[req[w].concern] = w
  BY <1>1, <1>2 DEF IInv, LockTableOK
<1> QED
  BY <1>1, <1>2, <1>3, <1>4, <1>5

(* Every step keeps the types.                                             *)
LEMMA TypeStep ==
  ASSUME TypeOK, IInv, [Next]_vars
  PROVE  TypeOK'
<1>1. ASSUME NEW c \in ConcernIds, NEW u \in Authors, NEW t \in Texts,
             CreateConcern(c, u, t)
      PROVE  TypeOK'
  BY <1>1 DEF CreateConcern, ConcernRow, Status, TypeOK
<1>2. ASSUME NEW w \in Workers, NEW c \in ConcernIds, BeginRequest(w, c)
      PROVE  TypeOK'
  <2>1. PICK r \in Request :
          Begin(w, r) /\ UNCHANGED <<concern, assignment, announced, holder>>
    BY <1>2, BegunRequestTyped
  <2> QED
    BY <2>1 DEF Begin, TypeOK
<1>3. ASSUME NEW w \in Workers, AtTheRow(w)
      PROVE  TypeOK'
  <2> DEFINE c == req[w].concern
  <2>1. /\ ~Idle(w) /\ c \in ConcernIds /\ concern[c] \in ConcernRow
        /\ req[w] \in Request
    BY <1>3, AtTheRowCases, RequestFields
  <2>2. CASE WriteDeleted(w)
    <3>1. [concern[c] EXCEPT !.deleted = TRUE] \in ConcernRow
      BY <2>1 DEF ConcernRow
    <3> QED
      BY <2>1, <2>2, <3>1 DEF WriteDeleted, TypeOK
  <2>3. CASE Refuse(w) /\ UNCHANGED <<concern, assignment, announced>>
    BY <2>3 DEF Refuse, TypeOK
  <2>4. CASE TakeLock(w) /\ UNCHANGED <<concern, assignment, announced>>
             /\ req[w].op # "delete"
    <3>1. [req[w] EXCEPT !.stage = "locked", !.seen = concern[c].status] \in Request
      BY <2>1, <2>4, LockedRequestTyped DEF ConcernRow
    <3>2. req' = [req EXCEPT ![w] =
                    [req[w] EXCEPT !.stage = "locked", !.seen = concern[c].status]]
      BY <2>4 DEF TakeLock, TypeOK
    <3> QED
      BY <2>1, <2>4, <3>1, <3>2 DEF TakeLock, TypeOK
  <2> QED
    BY <1>3, <2>2, <2>3, <2>4, AtTheRowCases
<1>4. ASSUME NEW w \in Workers, Commit(w)
      PROVE  TypeOK'
  <2> DEFINE c == req[w].concern
  <2>1. c \in ConcernIds /\ concern[c] \in ConcernRow /\ EndTransaction(w) /\ ~Idle(w)
    BY <1>4, CommitFacts
  <2>2. holder' \in [ConcernIds -> Workers \cup {None}]
        /\ req' \in [Workers -> Request \cup {None}]
    BY <2>1 DEF EndTransaction, TypeOK
  <2>3. ASSUME NEW s \in Status
        PROVE  [concern EXCEPT ![c].status = s] \in [ConcernIds -> ConcernRow \cup {None}]
    <3>1. [concern[c] EXCEPT !.status = s] \in ConcernRow
      BY <2>1 DEF ConcernRow
    <3> QED
      BY <2>1, <3>1 DEF TypeOK
  <2>4. CASE CommitEdit(w)
    <3>1. req[w].text \in Texts
      BY <2>1, <2>4, RequestFields DEF CommitEdit, InTransaction, EditRequest
    <3>2. [concern[c] EXCEPT !.text = req[w].text] \in ConcernRow
      BY <2>1, <3>1 DEF ConcernRow
    <3> QED
      BY <2>1, <2>2, <2>4, <3>2 DEF CommitEdit, TypeOK
  <2>5. CASE CommitAssign(w)
    <3>1. req[w].id \in AssignmentIds /\ req[w].advisor \in Advisors
      BY <2>1, <2>5, RequestFields DEF CommitAssign, InTransaction, AssignRequest
    <3>2. [concern |-> c, advisor |-> req[w].advisor, active |-> TRUE] \in AssignmentRow
      BY <2>1, <3>1 DEF AssignmentRow
    <3>3. assignment' \in [AssignmentIds -> AssignmentRow \cup {None}]
          /\ announced' \in [AssignmentIds -> Nat]
      BY <2>5, <3>1, <3>2 DEF CommitAssign, TypeOK
    <3>4. concern' \in [ConcernIds -> ConcernRow \cup {None}]
      BY <2>3, <2>5 DEF CommitAssign, TypeOK, Status
    <3> QED
      BY <2>2, <3>3, <3>4 DEF TypeOK
  <2>6. CASE InsertConflict(w)
    BY <2>2, <2>6 DEF InsertConflict, TypeOK
  <2>7. CASE CommitUnassign(w)
    <3>1. req[w].id \in ActiveAssignments(c) 
      BY <2>1, <2>7 DEF CommitUnassign, IInv, ChecksStillHold
    <3>2. req[w].id \in AssignmentIds /\ assignment[req[w].id] \in AssignmentRow
      BY <3>1 DEF ActiveAssignments, AssignmentsOf, TypeOK
    <3>3. [assignment[req[w].id] EXCEPT !.active = FALSE] \in AssignmentRow
      BY <3>2 DEF AssignmentRow
    <3>4. assignment' \in [AssignmentIds -> AssignmentRow \cup {None}]
      BY <2>7, <3>2, <3>3 DEF CommitUnassign, TypeOK
    <3>5. concern' \in [ConcernIds -> ConcernRow \cup {None}]
      BY <2>3, <2>7 DEF CommitUnassign, TypeOK, Status
    <3> QED
      BY <2>2, <2>7, <3>4, <3>5 DEF CommitUnassign, TypeOK
  <2>8. CASE CommitReview(w)
    <3>1. concern' \in [ConcernIds -> ConcernRow \cup {None}]
      BY <2>3, <2>8 DEF CommitReview, TypeOK, Status
    <3> QED
      BY <2>2, <2>8, <3>1 DEF CommitReview, TypeOK
  <2> QED
    BY <1>4, <2>4, <2>5, <2>6, <2>7, <2>8 DEF Commit
<1>5. ASSUME NEW w \in Workers, Abort(w)
      PROVE  TypeOK'
  BY <1>5 DEF Abort, TypeOK
<1>6. ASSUME NEW c \in ConcernIds, AdminAction(c)
      PROVE  TypeOK'
  <2>1. concern[c] \in ConcernRow
    BY <1>6 DEF AdminAction, CloseSelected, SoftDeleteSelected, RestoreSelected, IsLive,
       Exists, TypeOK
  <2>2. /\ [concern[c] EXCEPT !.status = "CLOSED"] \in ConcernRow
        /\ [concern[c] EXCEPT !.deleted = TRUE] \in ConcernRow
        /\ [concern[c] EXCEPT !.deleted = FALSE] \in ConcernRow
    BY <2>1 DEF ConcernRow, Status
  <2> QED
    BY <1>6, <2>1, <2>2 DEF AdminAction, CloseSelected, SoftDeleteSelected,
       RestoreSelected, TypeOK
<1>7. CASE UNCHANGED vars
  BY <1>7 DEF vars, TypeOK
<1> QED
  BY <1>1, <1>2, <1>3, <1>4, <1>5, <1>6, <1>7 DEF Next

-----------------------------------------------------------------------------
(* What a commit does to the rows: only its own concern and assignments of *)
(* its own concern change.                                                 *)
LEMMA CommitLocality ==
  ASSUME TypeOK, IInv, NEW w \in Workers, Commit(w),
         NEW c \in ConcernIds, c # req[w].concern
  PROVE  /\ concern'[c] = concern[c]
         /\ AssignmentsOf(c)' = AssignmentsOf(c)
         /\ ActiveAssignments(c)' = ActiveAssignments(c)
<1>1. req[w].concern \in ConcernIds /\ ~Idle(w)
  BY CommitFacts
<1>2. CASE CommitEdit(w) \/ InsertConflict(w) \/ CommitReview(w)
  BY <1>1, <1>2 DEF CommitEdit, InsertConflict, CommitReview, AssignmentsOf,
     ActiveAssignments, TypeOK
<1>3. CASE CommitAssign(w)
  <2>1. req[w].id \in AssignmentIds /\ assignment[req[w].id] = None
    BY <1>1, <1>3, RequestFields
       DEF CommitAssign, InTransaction, AssignRequest, IInv, KeysReserved
  <2>2. \A a \in AssignmentIds : a # req[w].id => assignment'[a] = assignment[a]
    BY <1>3, <2>1 DEF CommitAssign, TypeOK
  <2>3. assignment'[req[w].id].concern = req[w].concern
    BY <1>3, <2>1 DEF CommitAssign, TypeOK
  <2>4. concern'[c] = concern[c]
    BY <1>1, <1>3 DEF CommitAssign, TypeOK
  <2> QED
    BY <2>1, <2>2, <2>3, <2>4 DEF AssignmentsOf, ActiveAssignments
<1>4. CASE CommitUnassign(w)
  <2>1. req[w].id \in ActiveAssignments(req[w].concern)
    BY <1>1, <1>4 DEF CommitUnassign, IInv, ChecksStillHold
  <2>2. req[w].id \in AssignmentIds /\ assignment[req[w].id] \in AssignmentRow
        /\ assignment[req[w].id].concern = req[w].concern
    BY <2>1 DEF ActiveAssignments, AssignmentsOf, TypeOK
  <2>3. assignment' = [assignment EXCEPT ![req[w].id] =
                         [assignment[req[w].id] EXCEPT !.active = FALSE]]
    BY <1>4 DEF CommitUnassign
  <2>4. assignment'[req[w].id].concern = req[w].concern
    BY <2>2, <2>3 DEF TypeOK, AssignmentRow
  <2>5. \A a \in AssignmentIds : a # req[w].id => assignment'[a] = assignment[a]
    BY <2>2, <2>3 DEF TypeOK
  <2>6. concern'[c] = concern[c]
    BY <1>1, <1>4 DEF CommitUnassign, TypeOK
  <2> QED
    BY <2>2, <2>4, <2>5, <2>6 DEF AssignmentsOf, ActiveAssignments
<1> QED
  BY <1>2, <1>3, <1>4 DEF Commit

(* A row lock protects: while a worker holds a concern, no step of another *)
(* request and no administration action changes the row or its             *)
(* assignments.                                                            *)
LEMMA LockProtects ==
  ASSUME TypeOK, IInv, Next,
         NEW x \in Workers, NEW c \in ConcernIds, holder[c] = x, ~Commit(x)
  PROVE  /\ concern'[c] = concern[c]
         /\ AssignmentsOf(c)' = AssignmentsOf(c)
         /\ ActiveAssignments(c)' = ActiveAssignments(c)
<1> USE DEF AssignmentsOf, ActiveAssignments
<1>0. None \notin Workers
  BY NoneAssumption
<1>1. ASSUME NEW d \in ConcernIds, NEW u \in Authors, NEW t \in Texts,
             CreateConcern(d, u, t)
      PROVE  concern'[c] = concern[c] /\ assignment' = assignment
  <2>1. ~Idle(x) /\ req[x].concern = c
    BY DEF IInv, LockTableOK
  <2>2. Exists(c)
    BY <2>1 DEF IInv, ChecksStillHold
  <2> QED
    BY <1>1, <2>2 DEF CreateConcern, TypeOK, Exists
<1>2. ASSUME NEW w \in Workers, NEW d \in ConcernIds, BeginRequest(w, d)
      PROVE  concern'[c] = concern[c] /\ assignment' = assignment
  BY <1>2, BegunRequestTyped
<1>3. ASSUME NEW w \in Workers, AtTheRow(w)
      PROVE  concern'[c] = concern[c] /\ assignment' = assignment
  <2>1. req[w].concern \in ConcernIds /\ req[w].concern # c
    BY <1>0, <1>3, AtTheRowCases DEF RowFree
  <2>2. \/ WriteDeleted(w)
        \/ UNCHANGED <<concern, assignment>>
    BY <1>3, AtTheRowCases
  <2> QED
    BY <2>1, <2>2 DEF WriteDeleted, TypeOK
<1>4. ASSUME NEW w \in Workers, Commit(w)
      PROVE  /\ concern'[c] = concern[c]
             /\ AssignmentsOf(c)' = AssignmentsOf(c)
             /\ ActiveAssignments(c)' = ActiveAssignments(c)
  <2>1. c # req[w].concern
    BY <1>4, CommitFacts
  <2> QED
    BY <1>4, <2>1, CommitLocality
<1>5. ASSUME NEW w \in Workers, Abort(w)
      PROVE  concern'[c] = concern[c] /\ assignment' = assignment
  BY <1>5 DEF Abort
<1>6. ASSUME NEW d \in ConcernIds, AdminAction(d)
      PROVE  concern'[c] = concern[c] /\ assignment' = assignment
  BY <1>0, <1>6 DEF AdminAction, CloseSelected, SoftDeleteSelected, RestoreSelected,
     RowFree, TypeOK
<1> QED
  BY <1>1, <1>2, <1>3, <1>4, <1>5, <1>6 DEF Next

(* How the request of a worker can look after a step, if there is one.     *)
LEMMA RequestStep ==
  ASSUME TypeOK, IInv, Next, NEW x \in Workers, ~Idle(x)'
  PROVE  \/ req'[x] = req[x] /\ ~Idle(x) /\ ~Commit(x)
         \/ Idle(x) /\ \E c \in ConcernIds : BeginRequest(x, c)
         \/ ~Idle(x) /\ AtTheRow(x) /\ TakeLock(x)
<1> USE DEF Idle
<1>1. ASSUME NEW d \in ConcernIds, NEW u \in Authors, NEW t \in Texts,
             CreateConcern(d, u, t)
      PROVE  UNCHANGED <<req, holder>>
  BY <1>1 DEF CreateConcern
<1>2. ASSUME NEW w \in Workers, NEW d \in ConcernIds, BeginRequest(w, d)
      PROVE  IF w = x THEN Idle(x) ELSE req'[x] = req[x] /\ UNCHANGED holder
  <2>1. PICK r \in Request : Begin(w, r) /\ UNCHANGED holder
    BY <1>2, BegunRequestTyped
  <2> QED
    BY <2>1 DEF Begin, TypeOK
<1>3. ASSUME NEW w \in Workers, AtTheRow(w)
      PROVE  IF w = x THEN ~Idle(x) /\ TakeLock(x) ELSE req'[x] = req[x]
  <2>1. \/ req' = [req EXCEPT ![w] = None]
        \/ TakeLock(w)
    BY <1>3, AtTheRowCases DEF WriteDeleted, Refuse
  <2> QED
    BY <1>3, <2>1, AtTheRowCases DEF TakeLock, TypeOK
<1>4. ASSUME NEW w \in Workers, Commit(w) \/ Abort(w)
      PROVE  w # x /\ req'[x] = req[x]
  <2>1. req' = [req EXCEPT ![w] = None]
    BY <1>4, CommitFacts DEF EndTransaction, Abort
  <2> QED
    BY <2>1 DEF TypeOK
<1>6. ASSUME NEW d \in ConcernIds, AdminAction(d)
      PROVE  req' = req
  BY <1>6 DEF AdminAction, CloseSelected, SoftDeleteSelected, RestoreSelected
<1>7. Commit(x) => req'[x] = None
  BY CommitFacts DEF EndTransaction, TypeOK
<1> QED
  BY <1>1, <1>2, <1>3, <1>4, <1>6, <1>7 DEF Next

-----------------------------------------------------------------------------
(* The conjuncts of the inductive invariant, one lemma each.               *)

(* The lock table names exactly the transactions that are under way.       *)
LEMMA LockTableStep ==
  ASSUME TypeOK, IInv, Next
  PROVE  LockTableOK'
<1> SUFFICES ASSUME NEW c \in ConcernIds, NEW x \in Workers
             PROVE  (holder[c] = x)' <=>
                      (~Idle(x) /\ req[x].stage = "locked" /\ req[x].concern = c)'
  BY DEF LockTableOK
<1> USE DEF Idle
<1>0. /\ None \notin Workers
      /\ \A w \in Workers, d \in ConcernIds :
           holder[d] = w <=> ~Idle(w) /\ req[w].stage = "locked" /\ req[w].concern = d
  BY NoneAssumption DEF IInv, LockTableOK
<1>1. ASSUME NEW d \in ConcernIds, NEW u \in Authors, NEW t \in Texts,
             CreateConcern(d, u, t)
      PROVE  UNCHANGED <<req, holder>>
  BY <1>1 DEF CreateConcern
<1>2. ASSUME NEW w \in Workers, NEW d \in ConcernIds, BeginRequest(w, d)
      PROVE  (holder'[c] = x) <=>
               (req'[x] # None /\ req'[x].stage = "locked" /\ req'[x].concern = c)
  <2>1. PICK r \in Request : Begin(w, r) /\ UNCHANGED holder /\ r.stage = "waiting"
    BY <1>2, BegunRequestTyped
  <2>2. req[w] = None /\ req'[w].stage = "waiting" /\ (x # w => req'[x] = req[x])
    BY <2>1 DEF Begin, TypeOK
  <2> QED
    BY <1>0, <2>1, <2>2
<1>3. ASSUME NEW w \in Workers, AtTheRow(w)
      PROVE  (holder'[c] = x) <=>
               (req'[x] # None /\ req'[x].stage = "locked" /\ req'[x].concern = c)
  <2>1. /\ req[w] # None /\ req[w].stage = "waiting" /\ req[w].concern \in ConcernIds
        /\ holder[req[w].concern] = None
        /\ req[w] \in Request
    BY <1>3, AtTheRowCases, RequestFields DEF RowFree
  <2>2. CASE req' = [req EXCEPT ![w] = None] /\ UNCHANGED holder
    BY <1>0, <2>1, <2>2 DEF TypeOK
  <2>3. CASE TakeLock(w) /\ req[w].op # "delete"
    <3>1. /\ holder'[req[w].concern] = w
          /\ \A d \in ConcernIds : d # req[w].concern => holder'[d] = holder[d]
      BY <2>1, <2>3 DEF TakeLock, TypeOK
    <3>2. /\ req'[w] = [req[w] EXCEPT !.stage = "locked",
                                     !.seen = concern[req[w].concern].status]
          /\ (x # w => req'[x] = req[x])
      BY <2>3 DEF TakeLock, TypeOK
    <3>3. concern[req[w].concern].status \in Status
      BY <1>3, AtTheRowCases DEF ConcernRow
    <3>4. req'[w] \in Request
      <4> DEFINE r == req[w]
                 s == concern[req[w].concern].status
      <4>1. [r EXCEPT !.stage = "locked", !.seen = s] \in Request
        <5> HIDE DEF r, s
        <5> QED  BY <2>1, <2>3, <3>3, LockedRequestTyped DEF r, s
      <4> QED  BY <3>2, <4>1
    <3>5. req'[w] # None /\ req'[w].stage = "locked" /\ req'[w].concern = req[w].concern
      BY <2>1, <2>3, <3>2, <3>4, NoneAssumption
         DEF Request, EditRequest, DeleteRequest, AssignRequest, UnassignRequest,
             ReviewRequest
    <3>6. CASE x = w
      BY <1>0, <2>1, <3>1, <3>5, <3>6
    <3>7. CASE x # w
      BY <1>0, <2>1, <3>1, <3>2, <3>7
    <3> QED
      BY <3>6, <3>7
  <2> QED
    BY <1>3, <2>2, <2>3, AtTheRowCases DEF WriteDeleted, Refuse
<1>4. ASSUME NEW w \in Workers, Commit(w)
      PROVE  (holder'[c] = x) <=>
               (req'[x] # None /\ req'[x].stage = "locked" /\ req'[x].concern = c)
  <2>1. /\ req[w] # None /\ req[w].stage = "locked" /\ req[w].concern \in ConcernIds
        /\ EndTransaction(w)
    BY <1>4, CommitFacts
  <2> QED
    BY <1>0, <2>1 DEF EndTransaction, TypeOK
<1>5. ASSUME NEW w \in Workers, Abort(w)
      PROVE  (holder'[c] = x) <=>
               (req'[x] # None /\ req'[x].stage = "locked" /\ req'[x].concern = c)
  BY <1>0, <1>5 DEF Abort, TypeOK
<1>6. ASSUME NEW d \in ConcernIds, AdminAction(d)
      PROVE  UNCHANGED <<req, holder>>
  BY <1>6 DEF AdminAction, CloseSelected, SoftDeleteSelected, RestoreSelected
<1> QED
  BY <1>0, <1>1, <1>2, <1>3, <1>4, <1>5, <1>6 DEF Next

(* Everything that can happen to an existing concern row in one step.      *)
RowStep(c) ==
  \/ concern'[c] = concern[c]
  \/ \E w \in Workers : /\ CommitEdit(w) /\ req[w].concern = c
                        /\ concern'[c] = [concern[c] EXCEPT !.text = req[w].text]
  \/ \E w \in Workers : /\ CommitAssign(w) /\ req[w].concern = c
                        /\ concern[c].status = "SUBMITTED"
                        /\ concern'[c] = [concern[c] EXCEPT !.status = "ASSIGNED"]
  \/ \E w \in Workers : /\ CommitUnassign(w) /\ req[w].concern = c
                        /\ concern[c].status = "ASSIGNED"
                        /\ ActiveAssignments(c) \ {req[w].id} = {}
                        /\ concern'[c] = [concern[c] EXCEPT !.status = "SUBMITTED"]
  \/ \E w \in Workers : /\ CommitReview(w) /\ req[w].concern = c
                        /\ concern[c].status = "ASSIGNED"
                        /\ concern'[c] = [concern[c] EXCEPT !.status = "ANSWERED"]
  \/ /\ RowFree(c) /\ concern[c].status = "ANSWERED" /\ ~concern[c].deleted
     /\ concern'[c] = [concern[c] EXCEPT !.status = "CLOSED"]
     /\ UNCHANGED assignment
  \/ \E b \in BOOLEAN : /\ RowFree(c) /\ UNCHANGED assignment
                        /\ concern'[c] = [concern[c] EXCEPT !.deleted = b]

(* The steps that write a concern, seen from one row.                      *)
LEMMA RowStepCases ==
  ASSUME TypeOK, IInv, Next, NEW c \in ConcernIds, Exists(c)
  PROVE  RowStep(c)
<1>1. ASSUME NEW d \in ConcernIds, NEW u \in Authors, NEW t \in Texts,
             CreateConcern(d, u, t)
      PROVE  concern'[c] = concern[c]
  BY <1>1 DEF CreateConcern, Exists, TypeOK
<1>2. ASSUME NEW w \in Workers, NEW d \in ConcernIds, BeginRequest(w, d)
      PROVE  concern'[c] = concern[c]
  BY <1>2, BegunRequestTyped
<1>3. ASSUME NEW w \in Workers, AtTheRow(w), concern'[c] # concern[c]
      PROVE  /\ RowFree(c) /\ UNCHANGED assignment
             /\ concern'[c] = [concern[c] EXCEPT !.deleted = TRUE]
  BY <1>3, AtTheRowCases DEF WriteDeleted, TypeOK
<1>4. ASSUME NEW w \in Workers, Commit(w)
      PROVE  RowStep(c)
  <2>1. CASE req[w].concern # c
    BY <1>4, <2>1, CommitLocality DEF RowStep
  <2>2. CASE req[w].concern = c
    <3>1. req[w].seen = concern[c].status
      BY <1>4, <2>2, CommitFacts
    <3>2. CASE CommitEdit(w)
      BY <2>2, <3>2 DEF CommitEdit, RowStep, TypeOK
    <3>3. CASE CommitAssign(w)
      BY <2>2, <3>1, <3>3 DEF CommitAssign, RowStep, TypeOK
    <3>4. CASE InsertConflict(w)
      BY <3>4 DEF InsertConflict, RowStep
    <3>5. CASE CommitUnassign(w)
      BY <2>2, <3>1, <3>5 DEF CommitUnassign, RowStep, TypeOK
    <3>6. CASE CommitReview(w)
      BY <2>2, <3>1, <3>6 DEF CommitReview, RowStep, TypeOK
    <3> QED
      BY <1>4, <3>2, <3>3, <3>4, <3>5, <3>6 DEF Commit
  <2> QED
    BY <2>1, <2>2
<1>5. ASSUME NEW w \in Workers, Abort(w)
      PROVE  concern'[c] = concern[c]
  BY <1>5 DEF Abort
<1>6. ASSUME NEW d \in ConcernIds, AdminAction(d)
      PROVE  RowStep(c)
  <2>1. CASE d # c
    BY <1>6, <2>1 DEF AdminAction, CloseSelected, SoftDeleteSelected, RestoreSelected,
       RowStep, TypeOK
  <2>2. CASE d = c
    BY <1>6, <2>2 DEF AdminAction, CloseSelected, SoftDeleteSelected, RestoreSelected,
       RowStep, IsLive, TypeOK
  <2> QED
    BY <2>1, <2>2
<1> QED
  BY <1>1, <1>2, <1>3, <1>4, <1>5, <1>6 DEF Next, RowStep

(* In particular no step takes a concern row away.                         *)
LEMMA RowsStay ==
  ASSUME TypeOK, IInv, Next, NEW c \in ConcernIds, Exists(c)
  PROVE  Exists(c)'
<1>1. concern[c] \in ConcernRow
  BY DEF Exists, TypeOK
<1>2. ASSUME NEW w \in Workers, CommitEdit(w)
      PROVE  req[w].text \in Texts
  BY <1>2, RequestFields DEF CommitEdit, InTransaction, EditRequest
<1>3. /\ \A t \in Texts : [concern[c] EXCEPT !.text = t] \in ConcernRow
      /\ \A s \in Status : [concern[c] EXCEPT !.status = s] \in ConcernRow
      /\ \A b \in BOOLEAN : [concern[c] EXCEPT !.deleted = b] \in ConcernRow
  BY <1>1 DEF ConcernRow
<1>4. concern'[c] \in ConcernRow
  <2>1. RowStep(c)
    BY RowStepCases
  <2>2. \/ concern'[c] = concern[c]
        \/ \E t \in Texts : concern'[c] = [concern[c] EXCEPT !.text = t]
        \/ \E s \in Status : concern'[c] = [concern[c] EXCEPT !.status = s]
        \/ \E b \in BOOLEAN : concern'[c] = [concern[c] EXCEPT !.deleted = b]
    BY <1>2, <2>1, Zenon DEF RowStep, Status
  <2> QED
    BY <1>1, <1>3, <2>2
<1> QED
  BY <1>4, NoneAssumption DEF Exists

(* What a transaction checked under its lock is still true at its commit.  *)
LEMMA ChecksStep ==
  ASSUME TypeOK, IInv, Next
  PROVE  ChecksStillHold'
<1> SUFFICES ASSUME NEW x \in Workers, ~Idle(x)'
             PROVE  (LET c == req[x].concern IN
                     /\ Exists(c)
                     /\ req[x].stage = "locked" => req[x].seen = concern[c].status
                     /\ InTransaction(x, "edit") => MayEdit(c)
                     /\ InTransaction(x, "assign") => MayAssign(c)
                     /\ InTransaction(x, "unassign") => req[x].id \in ActiveAssignments(c)
                     /\ InTransaction(x, "review") => ~concern[c].deleted)'
  BY DEF ChecksStillHold
<1>1. CASE req'[x] = req[x] /\ ~Idle(x) /\ ~Commit(x)
  <2> DEFINE c == req[x].concern
  <2>1. c \in ConcernIds /\ Exists(c)'
    BY <1>1, RequestFields, RowsStay DEF IInv, ChecksStillHold
  <2>2. CASE req[x].stage # "locked"
    BY <1>1, <2>1, <2>2 DEF InTransaction
  <2>3. CASE req[x].stage = "locked"
    <3>1. holder[c] = x
      BY <1>1, <2>1, <2>3 DEF IInv, LockTableOK
    <3>2. /\ concern'[c] = concern[c]
          /\ AssignmentsOf(c)' = AssignmentsOf(c)
          /\ ActiveAssignments(c)' = ActiveAssignments(c)
      BY <1>1, <2>1, <3>1, LockProtects
    <3> QED
      BY <1>1, <2>1, <3>2 DEF IInv, ChecksStillHold, InTransaction, MayEdit, MayAssign,
         IsLive, EverAssigned, Idle, Exists
  <2> QED
    BY <2>2, <2>3
<1>2. CASE Idle(x) /\ \E c \in ConcernIds : BeginRequest(x, c)
  <2>1. PICK c \in ConcernIds, r \in Request :
          /\ Begin(x, r) /\ r.stage = "waiting" /\ r.concern = c /\ Exists(c)
          /\ UNCHANGED concern
    BY <1>2, BegunRequestTyped
  <2>2. req'[x] = r
    BY <2>1 DEF Begin, TypeOK
  <2> QED
    BY <2>1, <2>2 DEF InTransaction, Exists
<1>3. CASE ~Idle(x) /\ AtTheRow(x) /\ TakeLock(x)
  <2> DEFINE c == req[x].concern
  <2>1. /\ req[x] \in Request
        /\ req'[x] = [req[x] EXCEPT !.stage = "locked", !.seen = concern[c].status]
    BY <1>3, RequestFields DEF TakeLock, TypeOK
  <2>2. UNCHANGED <<concern, assignment>> /\ Exists(c) /\ req[x].op # "delete"
        /\ (req[x].op = "edit" => MayEdit(c))
        /\ (req[x].op = "assign" => MayAssign(c))
        /\ (req[x].op = "unassign" => req[x].id \in ActiveAssignments(c))
        /\ (req[x].op = "review" => ~concern[c].deleted)
    <3>1. holder'[c] = x /\ x # None
      BY <1>3, AtTheRowCases, NoneAssumption DEF TakeLock, TypeOK
    <3>2. ~(Refuse(x) \/ WriteDeleted(x))
      BY <1>3, <3>1, AtTheRowCases DEF Refuse, WriteDeleted, RowFree
    <3> QED
      BY <1>3, <3>2, AtTheRowCases
  <2>3. /\ req'[x].op = req[x].op /\ req'[x].concern = c
        /\ req'[x].seen = concern[c].status
        /\ (req[x].op = "unassign" => req'[x].id = req[x].id)
    BY <2>1, <2>2 DEF Request, EditRequest, DeleteRequest, AssignRequest,
       UnassignRequest, ReviewRequest
  <2> QED
    BY <2>2, <2>3 DEF InTransaction, MayEdit, MayAssign, IsLive, EverAssigned,
       Exists, AssignmentsOf, ActiveAssignments
<1> QED
  BY <1>1, <1>2, <1>3, RequestStep

(* The key of an assignment about to be inserted is not in use, and no two *)
(* requests drew the same one.                                             *)
LEMMA KeysStep ==
  ASSUME TypeOK, IInv, Next
  PROVE  KeysReserved'
<1> SUFFICES ASSUME NEW x \in Workers, ~Idle(x)', req'[x].op = "assign"
             PROVE  /\ assignment'[req'[x].id] = None
                    /\ \A y \in Workers : ~Idle(y)' /\ req'[y].op = "assign"
                                           /\ req'[y].id = req'[x].id => y = x
  BY DEF KeysReserved
<1>1. ASSUME NEW y \in Workers, ~Idle(y)', req'[y].op = "assign"
      PROVE  \/ ~Idle(y) /\ req[y].op = "assign" /\ req'[y].id = req[y].id /\ ~Commit(y)
             \/ /\ \E c \in ConcernIds : BeginRequest(y, c)
                /\ Idle(y) /\ ~KeyInUse(req'[y].id) /\ UNCHANGED assignment
                /\ req'[y].id \in AssignmentIds
                /\ \A z \in Workers : z # y => req'[z] = req[z]
  <2>1. CASE req'[y] = req[y] /\ ~Idle(y) /\ ~Commit(y)
    BY <1>1, <2>1
  <2>2. CASE Idle(y) /\ \E c \in ConcernIds : BeginRequest(y, c)
    <3>1. PICK r \in Request :
            /\ Begin(y, r) /\ (r.op = "assign" => ~KeyInUse(r.id))
            /\ UNCHANGED assignment
      BY <2>2, BegunRequestTyped
    <3>2. req'[y] = r /\ \A z \in Workers : z # y => req'[z] = req[z]
      BY <3>1 DEF Begin, TypeOK
    <3>3. r.op = "assign" => r.id \in AssignmentIds
      BY DEF Request, EditRequest, DeleteRequest, AssignRequest, UnassignRequest,
         ReviewRequest
    <3> QED
      BY <1>1, <2>2, <3>1, <3>2, <3>3
  <2>3. CASE ~Idle(y) /\ AtTheRow(y) /\ TakeLock(y)
    <3>1. /\ req[y] \in Request
          /\ req'[y] = [req[y] EXCEPT !.stage = "locked",
                                     !.seen = concern[req[y].concern].status]
      BY <2>3, RequestFields DEF TakeLock, TypeOK
    <3>2. req'[y].op = req[y].op
      BY <3>1 DEF Request, EditRequest, DeleteRequest, AssignRequest, UnassignRequest,
         ReviewRequest
    <3>3. req'[y].id = req[y].id
      BY <1>1, <2>3, <3>1, <3>2, RequestFields DEF AssignRequest
    <3>4. ~Commit(y)
      <4>1. req[y].stage = "waiting"
        BY <2>3, AtTheRowCases
      <4> QED
        BY <4>1, CommitFacts
    <3> QED
      BY <1>1, <2>3, <3>2, <3>3, <3>4
  <2> QED
    BY <1>1, <2>1, <2>2, <2>3, RequestStep
<1>2. ASSUME NEW y \in Workers, ~Idle(y), req[y].op = "assign", ~Commit(y)
      PROVE  assignment'[req[y].id] = None
  <2>1. req[y].id \in AssignmentIds /\ assignment[req[y].id] = None
    BY <1>2, RequestFields DEF AssignRequest, IInv, KeysReserved
  <2>2. \/ UNCHANGED assignment
        \/ \E w \in Workers : CommitAssign(w) \/ CommitUnassign(w)
    BY AtTheRowCases, BegunRequestTyped DEF Next, CreateConcern, WriteDeleted, Commit, CommitEdit,
       InsertConflict, CommitReview, Abort, AdminAction, CloseSelected,
       SoftDeleteSelected, RestoreSelected
  <2>3. ASSUME NEW w \in Workers, CommitAssign(w)
        PROVE  req[w].id # req[y].id
    <3>1. ~Idle(w) /\ req[w].op = "assign" /\ w # y
      BY <1>2, <2>3 DEF CommitAssign, InTransaction, Commit
    <3> QED
      BY <1>2, <3>1 DEF IInv, KeysReserved
  <2>4. ASSUME NEW w \in Workers, CommitUnassign(w)
        PROVE  req[w].id # req[y].id
    <3>1. req[w].id \in ActiveAssignments(req[w].concern)
      BY <2>4 DEF CommitUnassign, InTransaction, IInv, ChecksStillHold
    <3> QED
      BY <2>1, <3>1 DEF ActiveAssignments, AssignmentsOf
  <2> QED
    BY <2>1, <2>2, <2>3, <2>4 DEF CommitAssign, CommitUnassign, TypeOK
<1>3. assignment'[req'[x].id] = None
  BY <1>1, <1>2 DEF KeyInUse
<1>4. ASSUME NEW y \in Workers, ~Idle(y)', req'[y].op = "assign", req'[y].id = req'[x].id
      PROVE  y = x
  <2>1. CASE ~Idle(x) /\ req[x].op = "assign" /\ req'[x].id = req[x].id
    BY <1>1, <1>4, <2>1 DEF IInv, KeysReserved, KeyInUse
  <2>2. CASE Idle(x) /\ ~KeyInUse(req'[x].id) /\ \A z \in Workers : z # x => req'[z] = req[z]
    BY <1>4, <2>2 DEF KeyInUse, Idle
  <2> QED
    BY <1>1, <2>1, <2>2
<1> QED
  BY <1>3, <1>4

(* Only #24 and #25 write assignments and their notifications.             *)
LEMMA AssignmentWriters ==
  ASSUME TypeOK, IInv, Next
  PROVE  \/ UNCHANGED <<assignment, announced>>
         \/ \E w \in Workers : CommitAssign(w) \/ CommitUnassign(w)
BY AtTheRowCases, BegunRequestTyped
   DEF Next, CreateConcern, WriteDeleted, Commit, CommitEdit, InsertConflict,
       CommitReview, Abort, AdminAction, CloseSelected, SoftDeleteSelected,
       RestoreSelected

(* The row #24 inserts.                                                    *)
LEMMA InsertedRow ==
  ASSUME TypeOK, IInv, NEW w \in Workers, CommitAssign(w)
  PROVE  /\ req[w].id \in AssignmentIds /\ assignment[req[w].id] = None
         /\ assignment'[req[w].id] # None
         /\ assignment'[req[w].id].concern = req[w].concern
         /\ assignment'[req[w].id].advisor = req[w].advisor
         /\ assignment'[req[w].id].active
         /\ \A a \in AssignmentIds : a # req[w].id =>
               assignment'[a] = assignment[a] /\ announced'[a] = announced[a]
         /\ announced'[req[w].id] = announced[req[w].id] + 1
<1>1. ~Idle(w) /\ req[w].op = "assign"
  BY DEF CommitAssign, InTransaction
<1>2. /\ req[w].id \in AssignmentIds /\ req[w].advisor \in Advisors
      /\ req[w].concern \in ConcernIds /\ assignment[req[w].id] = None
  BY <1>1, RequestFields DEF AssignRequest, IInv, KeysReserved
<1> DEFINE row == [concern |-> req[w].concern, advisor |-> req[w].advisor,
                   active |-> TRUE]
<1>3. row \in AssignmentRow
  BY <1>2 DEF AssignmentRow
<1>4. row # None
  BY <1>3, NoneAssumption
<1>5. assignment'[req[w].id] = row
  BY <1>2 DEF CommitAssign, TypeOK
<1> QED
  BY <1>2, <1>4, <1>5 DEF CommitAssign, TypeOK

(* The row #25 deactivates.                                                *)
LEMMA DeactivatedRow ==
  ASSUME TypeOK, IInv, NEW w \in Workers, CommitUnassign(w)
  PROVE  /\ req[w].id \in ActiveAssignments(req[w].concern)
         /\ assignment[req[w].id] \in AssignmentRow
         /\ assignment'[req[w].id] \in AssignmentRow
         /\ assignment'[req[w].id] # None
         /\ assignment'[req[w].id].concern = assignment[req[w].id].concern
         /\ assignment'[req[w].id].advisor = assignment[req[w].id].advisor
         /\ ~assignment'[req[w].id].active
         /\ \A a \in AssignmentIds : a # req[w].id => assignment'[a] = assignment[a]
<1>1. req[w].id \in ActiveAssignments(req[w].concern)
  BY DEF CommitUnassign, InTransaction, IInv, ChecksStillHold
<1>2. req[w].id \in AssignmentIds /\ assignment[req[w].id] \in AssignmentRow
  BY <1>1 DEF ActiveAssignments, AssignmentsOf, TypeOK
<1>3. assignment' = [assignment EXCEPT ![req[w].id] =
                       [assignment[req[w].id] EXCEPT !.active = FALSE]]
  BY DEF CommitUnassign
<1>4. /\ [assignment[req[w].id] EXCEPT !.active = FALSE] \in AssignmentRow
      /\ [assignment[req[w].id] EXCEPT !.active = FALSE].concern = assignment[req[w].id].concern
      /\ [assignment[req[w].id] EXCEPT !.active = FALSE].advisor = assignment[req[w].id].advisor
      /\ [assignment[req[w].id] EXCEPT !.active = FALSE].active = FALSE
  BY <1>2 DEF AssignmentRow
<1> QED
  BY <1>1, <1>2, <1>3, <1>4, NoneAssumption DEF TypeOK

(* An assignment belongs to a concern that exists.                         *)
LEMMA AssignmentsOfRowsStep ==
  ASSUME TypeOK, IInv, Next
  PROVE  AssignmentsOfRows'
<1> SUFFICES ASSUME NEW a \in AssignmentIds, assignment'[a] # None
             PROVE  Exists(assignment[a].concern)'
  BY DEF AssignmentsOfRows
<1>1. CASE assignment[a] # None /\ assignment'[a].concern = assignment[a].concern
  <2>1. Exists(assignment[a].concern) /\ assignment[a].concern \in ConcernIds
    BY <1>1 DEF IInv, AssignmentsOfRows, TypeOK, AssignmentRow
  <2> QED
    BY <1>1, <2>1, RowsStay DEF Exists
<1>2. ASSUME NEW w \in Workers, CommitAssign(w)
      PROVE  Exists(assignment[a].concern)'
  <2>1. concern'[req[w].concern] # None
    BY <1>2, CommitFacts, RowsStay DEF Commit, Exists
  <2>2. CASE a = req[w].id
    BY <1>2, <2>1, <2>2, InsertedRow DEF Exists
  <2>3. CASE a # req[w].id
    BY <1>1, <1>2, <2>3, InsertedRow
  <2> QED
    BY <2>2, <2>3
<1>3. ASSUME NEW w \in Workers, CommitUnassign(w)
      PROVE  Exists(assignment[a].concern)'
  <2>1. req[w].id \in AssignmentIds /\ assignment[req[w].id] # None
    BY <1>3, DeactivatedRow DEF ActiveAssignments, AssignmentsOf
  <2> QED
    BY <1>1, <1>3, <2>1, DeactivatedRow
<1> QED
  BY <1>1, <1>2, <1>3, AssignmentWriters

(* The partial unique index on active (concern, advisor).                  *)
LEMMA ActiveUniqueStep ==
  ASSUME TypeOK, IInv, Next
  PROVE  ActiveUnique'
<1>0. ActiveUnique
  BY DEF IInv
<1>1. ASSUME NEW w \in Workers, CommitAssign(w)
      PROVE  ActiveUnique'
  <2>1. ASSUME NEW a \in AssignmentIds, assignment[a] # None, assignment[a].active,
               assignment[a].concern = req[w].concern
        PROVE  assignment[a].advisor # req[w].advisor
    BY <1>1, <2>1 DEF CommitAssign, ActiveAdvisors, ActiveAssignments, AssignmentsOf
  <2> SUFFICES ASSUME NEW a \in AssignmentIds, NEW b \in AssignmentIds,
                      assignment'[a] # None /\ assignment'[a].active,
                      assignment'[b] # None /\ assignment'[b].active,
                      assignment'[a].concern = assignment'[b].concern,
                      assignment'[a].advisor = assignment'[b].advisor
               PROVE  a = b
    BY DEF ActiveUnique
  <2>2. CASE a = req[w].id /\ b # req[w].id
    BY <1>1, <2>1, <2>2, InsertedRow
  <2>3. CASE b = req[w].id /\ a # req[w].id
    BY <1>1, <2>1, <2>3, InsertedRow
  <2>4. CASE a # req[w].id /\ b # req[w].id
    BY <1>0, <1>1, <2>4, InsertedRow DEF ActiveUnique
  <2> QED
    BY <2>2, <2>3, <2>4
<1>2. ASSUME NEW w \in Workers, CommitUnassign(w)
      PROVE  ActiveUnique'
  BY <1>0, <1>2, DeactivatedRow DEF ActiveUnique
<1>3. CASE UNCHANGED assignment
  BY <1>0, <1>3 DEF ActiveUnique
<1> QED
  BY <1>1, <1>2, <1>3, AssignmentWriters

(* One notification per assignment.                                        *)
LEMMA AnnouncedStep ==
  ASSUME TypeOK, IInv, Next
  PROVE  AnnouncedOnce'
<1> SUFFICES ASSUME NEW a \in AssignmentIds
             PROVE  announced'[a] = IF assignment'[a] = None THEN 0 ELSE 1
  BY DEF AnnouncedOnce
<1>0. announced[a] = IF assignment[a] = None THEN 0 ELSE 1
  BY DEF IInv, AnnouncedOnce
<1>1. ASSUME NEW w \in Workers, CommitAssign(w)
      PROVE  announced'[a] = IF assignment'[a] = None THEN 0 ELSE 1
  <2>1. CASE a = req[w].id
    BY <1>0, <1>1, <2>1, InsertedRow
  <2>2. CASE a # req[w].id
    BY <1>0, <1>1, <2>2, InsertedRow
  <2> QED
    BY <2>1, <2>2
<1>2. ASSUME NEW w \in Workers, CommitUnassign(w)
      PROVE  announced'[a] = IF assignment'[a] = None THEN 0 ELSE 1
  <2>1. req[w].id \in AssignmentIds /\ assignment[req[w].id] # None
    BY <1>2, DeactivatedRow DEF ActiveAssignments, AssignmentsOf
  <2> QED
    BY <1>0, <1>2, <2>1, DeactivatedRow DEF CommitUnassign
<1> QED
  BY <1>0, <1>1, <1>2, AssignmentWriters

(* Status and active assignments keep agreeing.                            *)
LEMMA StatusStep ==
  ASSUME TypeOK, IInv, Next
  PROVE  StatusMatchesAssignments'
<1> SUFFICES ASSUME NEW c \in ConcernIds, Exists(c)'
             PROVE  /\ concern'[c].status = "SUBMITTED" => ActiveAssignments(c)' = {}
                    /\ concern'[c].status = "ASSIGNED" => ActiveAssignments(c)' # {}
  BY DEF StatusMatchesAssignments
<1>1. CASE ~Exists(c)
  <2>1. ActiveAssignments(c) = {} /\ UNCHANGED assignment
    <3>1. \A a \in AssignmentIds : assignment[a] # None => assignment[a].concern # c
      BY <1>1 DEF IInv, AssignmentsOfRows
    <3>2. ASSUME NEW w \in Workers, Commit(w)
          PROVE  FALSE
      BY <1>1, <3>2, CommitFacts, CommitLocality DEF Exists
    <3> QED
      BY <3>1, <3>2, AssignmentWriters DEF ActiveAssignments, AssignmentsOf, Commit
  <2>2. concern'[c].status = "SUBMITTED"
    <3>1. \E d \in ConcernIds, u \in Authors, t \in Texts : CreateConcern(d, u, t)
      <4>1. ASSUME NEW w \in Workers, NEW d \in ConcernIds, BeginRequest(w, d)
            PROVE  concern'[c] = concern[c]
        BY <4>1, BegunRequestTyped
      <4>2. ASSUME NEW w \in Workers, AtTheRow(w)
            PROVE  concern'[c] = concern[c]
        BY <1>1, <4>2, AtTheRowCases DEF WriteDeleted, TypeOK
      <4>3. ASSUME NEW w \in Workers, Commit(w)
            PROVE  concern'[c] = concern[c]
        BY <1>1, <4>3, CommitFacts, CommitLocality
      <4>4. ASSUME NEW d \in ConcernIds, AdminAction(d)
            PROVE  concern'[c] = concern[c]
        BY <1>1, <4>4 DEF AdminAction, CloseSelected, SoftDeleteSelected,
           RestoreSelected, IsLive, Exists, TypeOK
      <4> QED
        BY <1>1, <4>1, <4>2, <4>3, <4>4 DEF Next, Abort, Exists
    <3> QED
      BY <1>1, <3>1 DEF CreateConcern, Exists, TypeOK
  <2> QED
    BY <2>1, <2>2 DEF ActiveAssignments, AssignmentsOf
<1>2. CASE Exists(c)
  <2>0. /\ concern[c] \in ConcernRow
        /\ concern[c].status = "SUBMITTED" => ActiveAssignments(c) = {}
        /\ concern[c].status = "ASSIGNED" => ActiveAssignments(c) # {}
    BY <1>2 DEF IInv, StatusMatchesAssignments, Exists, TypeOK
  <2>1. ASSUME NEW w \in Workers, Commit(w), req[w].concern # c
        PROVE  concern'[c] = concern[c] /\ ActiveAssignments(c)' = ActiveAssignments(c)
    BY <2>1, CommitLocality
  <2>2. ASSUME NEW w \in Workers, CommitAssign(w), req[w].concern = c
        PROVE  ActiveAssignments(c)' # {} /\ concern'[c].status # "SUBMITTED"
    <3>1. req[w].id \in ActiveAssignments(c)'
      BY <2>2, InsertedRow DEF ActiveAssignments, AssignmentsOf
    <3>2. req[w].seen = concern[c].status
      BY <2>2, CommitFacts DEF Commit
    <3> QED
      BY <2>0, <2>2, <3>1, <3>2 DEF CommitAssign, TypeOK, ConcernRow
  <2>3. ASSUME NEW w \in Workers, CommitUnassign(w), req[w].concern = c
        PROVE  /\ concern'[c].status = "SUBMITTED" => ActiveAssignments(c)' = {}
               /\ concern'[c].status = "ASSIGNED" => ActiveAssignments(c)' # {}
    <3>1. ActiveAssignments(c)' = ActiveAssignments(c) \ {req[w].id}
          /\ req[w].id \in ActiveAssignments(c)
      BY <2>3, DeactivatedRow DEF ActiveAssignments, AssignmentsOf
    <3>2. req[w].seen = concern[c].status
      BY <2>3, CommitFacts DEF Commit
    <3> QED
      BY <2>0, <2>3, <3>1, <3>2 DEF CommitUnassign, TypeOK, ConcernRow
  <2>4. CASE UNCHANGED assignment
    <3>1. ~\E w \in Workers : CommitAssign(w) \/ CommitUnassign(w)
      <4>1. ASSUME NEW w \in Workers, CommitAssign(w) PROVE FALSE
        BY <2>4, <4>1, InsertedRow
      <4>2. ASSUME NEW w \in Workers, CommitUnassign(w) PROVE FALSE
        BY <2>4, <4>2, DeactivatedRow DEF ActiveAssignments
      <4> QED
        BY <4>1, <4>2
    <3>2. ActiveAssignments(c)' = ActiveAssignments(c)
      BY <2>4 DEF ActiveAssignments, AssignmentsOf
    <3>3. concern'[c].status \in {concern[c].status, "ANSWERED", "CLOSED"}
      BY <1>2, <2>0, <3>1, RowStepCases DEF RowStep, ConcernRow
    <3> QED
      BY <2>0, <3>2, <3>3
  <2> QED
    BY <2>0, <2>1, <2>2, <2>3, <2>4, AssignmentWriters DEF Commit
<1> QED
  BY <1>1, <1>2

-----------------------------------------------------------------------------
(* The initial state.                                                      *)
LEMMA InitInvariant == Init => TypeOK /\ IInv
BY NoneAssumption
   DEF Init, TypeOK, IInv, LockTableOK, ChecksStillHold, KeysReserved,
       AssignmentsOfRows, ActiveUnique, StatusMatchesAssignments, AnnouncedOnce,
       Exists, Idle

(* Every step keeps the invariant.                                         *)
LEMMA ConcernInvariantStep ==
  ASSUME TypeOK, IInv, [Next]_vars
  PROVE  TypeOK' /\ IInv'
<1>1. TypeOK'
  BY TypeStep
<1>2. CASE Next
  BY <1>1, <1>2, LockTableStep, ChecksStep, KeysStep, AssignmentsOfRowsStep,
     ActiveUniqueStep, StatusStep, AnnouncedStep DEF IInv
<1>3. CASE UNCHANGED vars
  BY <1>1, <1>3 DEF vars, IInv, LockTableOK, ChecksStillHold, KeysReserved,
     AssignmentsOfRows, ActiveUnique, StatusMatchesAssignments, AnnouncedOnce,
     Exists, IsLive, Idle,
     InTransaction, MayEdit, MayAssign, EverAssigned, ActiveAssignments, AssignmentsOf
<1> QED
  BY <1>1, <1>2, <1>3

(* The tables and requests keep their types, and every check a transaction *)
(* made under its row lock holds until it ends, in every reachable state.  *)
THEOREM Invariance == Spec => [](TypeOK /\ IInv)
<1>1. TypeOK /\ IInv /\ [Next]_vars => (TypeOK /\ IInv)'
  BY ConcernInvariantStep
<1> QED
  BY InitInvariant, <1>1, PTL DEF Spec

(* Every table, lock and request holds what its column or variable may.    *)
THEOREM TypeCorrect == Spec => []TypeOK
BY Invariance, PTL

(* In every reachable state the status of a concern and its assignment     *)
(* rows agree, however the requests that write them overlap.               *)
THEOREM StatusAgrees == Spec => []StatusMatchesAssignments
<1>1. IInv => StatusMatchesAssignments
  BY DEF IInv
<1> QED
  BY Invariance, <1>1, PTL

(* Each assignment is announced exactly once.                              *)
THEOREM AnnouncementsExact == Spec => []AnnouncedOnce
<1>1. IInv => AnnouncedOnce
  BY DEF IInv
<1> QED
  BY Invariance, <1>1, PTL

-----------------------------------------------------------------------------
(* What a committing transaction may rely on.                              *)
LEMMA CommitGuards ==
  ASSUME TypeOK, IInv, NEW w \in Workers
  PROVE  /\ CommitEdit(w) => MayEdit(req[w].concern) /\ UNCHANGED assignment
         /\ CommitAssign(w) => MayAssign(req[w].concern)
         /\ CommitReview(w) => ~concern[req[w].concern].deleted
BY DEF CommitEdit, CommitAssign, CommitReview, InTransaction, IInv, ChecksStillHold

(* How each field of an existing concern row can change, and who does it.  *)
LEMMA FieldSteps ==
  ASSUME TypeOK, IInv, Next, NEW c \in ConcernIds, Exists(c)
  PROVE  /\ concern'[c].author = concern[c].author
         /\ \/ concern'[c].text = concern[c].text
            \/ \E w \in Workers : CommitEdit(w) /\ req[w].concern = c
         /\ \/ concern'[c].status = concern[c].status
            \/ /\ concern[c].status = "SUBMITTED" /\ concern'[c].status = "ASSIGNED"
               /\ \E w \in Workers : CommitAssign(w) /\ req[w].concern = c
            \/ concern[c].status = "ASSIGNED" /\ concern'[c].status = "SUBMITTED"
            \/ /\ concern[c].status = "ASSIGNED" /\ concern'[c].status = "ANSWERED"
               /\ \E w \in Workers : CommitReview(w) /\ req[w].concern = c
            \/ /\ concern[c].status = "ANSWERED" /\ concern'[c].status = "CLOSED"
               /\ ~concern[c].deleted
<1>1. concern[c] \in ConcernRow
  BY DEF Exists, TypeOK
<1>2. RowStep(c)
  BY RowStepCases
<1> USE <1>1 DEF ConcernRow
<1>3. CASE concern'[c] = concern[c]
  BY <1>3
<1>4. ASSUME NEW w \in Workers, CommitEdit(w), req[w].concern = c,
             concern'[c] = [concern[c] EXCEPT !.text = req[w].text]
      PROVE  /\ concern'[c].author = concern[c].author
             /\ concern'[c].status = concern[c].status
  BY <1>4
<1>5. ASSUME NEW s, concern'[c] = [concern[c] EXCEPT !.status = s]
      PROVE  /\ concern'[c].author = concern[c].author
             /\ concern'[c].text = concern[c].text
             /\ concern'[c].status = s
  BY <1>5
<1>6. ASSUME NEW b, concern'[c] = [concern[c] EXCEPT !.deleted = b]
      PROVE  /\ concern'[c].author = concern[c].author
             /\ concern'[c].text = concern[c].text
             /\ concern'[c].status = concern[c].status
  BY <1>6
<1> QED
  BY <1>2, <1>3, <1>4, <1>5, <1>6, Zenon DEF RowStep

(* No step alters the text of a concern an advisor has ever been given.    *)
THEOREM TextFrozen == Spec => TextFrozenOnceAssigned
<1>1. ASSUME TypeOK, IInv, Next, NEW c \in ConcernIds, Exists(c),
             concern'[c].text # concern[c].text
      PROVE  ~EverAssigned(c) /\ ~EverAssigned(c)'
  <2>2. PICK w \in Workers : CommitEdit(w) /\ req[w].concern = c
    BY <1>1, FieldSteps
  <2>3. MayEdit(c) /\ UNCHANGED assignment
    BY <1>1, <2>2, CommitGuards
  <2> QED
    BY <2>3 DEF MayEdit, EverAssigned, AssignmentsOf
<1>2. TypeOK /\ IInv /\ [Next]_vars =>
        [\A c \in ConcernIds :
           Exists(c) /\ concern'[c].text # concern[c].text
             => ~EverAssigned(c) /\ ~EverAssigned(c)']_vars
  BY <1>1
<1> QED
  BY Invariance, <1>2, PTL DEF Spec, TextFrozenOnceAssigned

(* The status of a concern moves along the edges of its state machine.     *)
THEOREM EdgesOnly == Spec => StatusFollowsEdges
<1>1. ASSUME TypeOK, IInv, Next, NEW c \in ConcernIds, Exists(c),
             concern'[c].status # concern[c].status
      PROVE  <<concern[c].status, concern'[c].status>> \in Edges
  BY <1>1, FieldSteps DEF Edges
<1>2. TypeOK /\ IInv /\ [Next]_vars =>
        [\A c \in ConcernIds :
           Exists(c) /\ concern'[c].status # concern[c].status
             => <<concern[c].status, concern'[c].status>> \in Edges]_vars
  BY <1>1
<1> QED
  BY Invariance, <1>2, PTL DEF Spec, StatusFollowsEdges

(* A withdrawn concern is touched by nothing but #25 and a restoration.    *)
THEOREM DeletedFrozen == Spec => DeletedIsFrozen
<1>1. ASSUME TypeOK, IInv, Next, NEW c \in ConcernIds, Exists(c), concern[c].deleted
      PROVE  /\ AssignmentsOf(c)' = AssignmentsOf(c)
             /\ concern'[c].text = concern[c].text
             /\ concern'[c].status \in {concern[c].status, "SUBMITTED"}
  <2>2. ASSUME NEW w \in Workers, req[w].concern = c
        PROVE  ~CommitEdit(w) /\ ~CommitAssign(w) /\ ~CommitReview(w)
    BY <1>1, <2>2, CommitGuards DEF MayEdit, IsLive, MayAssign
  <2>4. /\ concern'[c].text = concern[c].text
        /\ concern'[c].status \in {concern[c].status, "SUBMITTED"}
    BY <1>1, <2>2, FieldSteps
  <2>5. AssignmentsOf(c)' = AssignmentsOf(c)
    <3>1. ASSUME NEW w \in Workers, CommitAssign(w)
          PROVE  AssignmentsOf(c)' = AssignmentsOf(c)
      BY <1>1, <2>2, <3>1, CommitLocality DEF Commit
    <3>2. ASSUME NEW w \in Workers, CommitUnassign(w)
          PROVE  AssignmentsOf(c)' = AssignmentsOf(c)
      BY <1>1, <3>2, DeactivatedRow DEF AssignmentsOf, ActiveAssignments
    <3> QED
      BY <1>1, <3>1, <3>2, AssignmentWriters DEF AssignmentsOf
  <2> QED
    BY <2>4, <2>5
<1>2. TypeOK /\ IInv /\ [Next]_vars =>
        [\A c \in ConcernIds : Exists(c) /\ concern[c].deleted =>
             /\ AssignmentsOf(c)' = AssignmentsOf(c)
             /\ concern'[c].text = concern[c].text
             /\ concern'[c].status \in {concern[c].status, "SUBMITTED"}]_vars
  BY <1>1
<1> QED
  BY Invariance, <1>2, PTL DEF Spec, DeletedIsFrozen

-----------------------------------------------------------------------------
(* Refinement: every step is an indivisible step of ConcernLifecycle, or   *)
(* leaves what it describes as it was.                                     *)

(* A commit that leaves the assignments alone leaves both as they are.     *)
LEMMA SameAssignments ==
  ASSUME UNCHANGED assignment
  PROVE  AdvisorsNow' = AdvisorsNow /\ GivenAway' = GivenAway
BY DEF AdvisorsNow, GivenAway, ActiveAdvisors, EverAssigned, ActiveAssignments,
   AssignmentsOf

(* #24 gives the concern to one more advisor.                              *)
LEMMA AssignAdds ==
  ASSUME TypeOK, IInv, NEW w \in Workers, CommitAssign(w),
         NEW c \in ConcernIds, c = req[w].concern
  PROVE  /\ AdvisorsNow' = [AdvisorsNow EXCEPT ![c] = @ \cup {req[w].advisor}]
         /\ GivenAway' = GivenAway \cup {c}
<1>1. /\ \A a \in AssignmentIds : a # req[w].id => assignment'[a] = assignment[a]
      /\ req[w].id \in AssignmentIds /\ assignment[req[w].id] = None
      /\ assignment'[req[w].id] # None /\ assignment'[req[w].id].active
      /\ assignment'[req[w].id].concern = c
      /\ assignment'[req[w].id].advisor = req[w].advisor
  BY InsertedRow
<1>2. ActiveAdvisors(c)' = ActiveAdvisors(c) \cup {req[w].advisor}
  <2>1. ActiveAssignments(c)' = ActiveAssignments(c) \cup {req[w].id}
    BY <1>1 DEF ActiveAssignments, AssignmentsOf
  <2>2. \A a \in ActiveAssignments(c) : assignment'[a] = assignment[a]
    BY <1>1 DEF ActiveAssignments, AssignmentsOf
  <2> QED
    BY <1>1, <2>1, <2>2 DEF ActiveAdvisors
<1>3. EverAssigned(c)'
  BY <1>1 DEF EverAssigned, AssignmentsOf
<1>4. ASSUME NEW d \in ConcernIds, d # c
      PROVE  ActiveAdvisors(d)' = ActiveAdvisors(d) /\ (EverAssigned(d)' <=> EverAssigned(d))
  <2>1. ActiveAssignments(d)' = ActiveAssignments(d) /\ AssignmentsOf(d)' = AssignmentsOf(d)
    BY <1>1, <1>4 DEF ActiveAssignments, AssignmentsOf
  <2>2. \A a \in ActiveAssignments(d) : assignment'[a] = assignment[a]
    BY <1>1 DEF ActiveAssignments, AssignmentsOf
  <2> QED
    BY <2>1, <2>2 DEF ActiveAdvisors, EverAssigned
<1> QED
  BY <1>2, <1>3, <1>4 DEF AdvisorsNow, GivenAway

(* #25 takes it from one.                                                  *)
LEMMA UnassignRemoves ==
  ASSUME TypeOK, IInv, NEW w \in Workers, CommitUnassign(w),
         NEW c \in ConcernIds, c = req[w].concern,
         NEW v, v = assignment[req[w].id].advisor
  PROVE  /\ v \in Advisors /\ v \in ActiveAdvisors(c)
         /\ AdvisorsNow' = [AdvisorsNow EXCEPT ![c] = @ \ {v}]
         /\ GivenAway' = GivenAway
         /\ ActiveAssignments(c) \ {req[w].id} = {} <=> ActiveAdvisors(c) = {v}
<1>1. /\ req[w].id \in ActiveAssignments(c) /\ v \in Advisors
      /\ \A a \in AssignmentIds : a # req[w].id => assignment'[a] = assignment[a]
      /\ assignment'[req[w].id] # None /\ ~assignment'[req[w].id].active
      /\ assignment'[req[w].id].concern = assignment[req[w].id].concern
  BY DeactivatedRow DEF AssignmentRow
<1>2. /\ ActiveAssignments(c)' = ActiveAssignments(c) \ {req[w].id}
      /\ \A a \in ActiveAssignments(c)' : assignment'[a] = assignment[a]
  BY <1>1 DEF ActiveAssignments, AssignmentsOf
<1>3. \A a \in ActiveAssignments(c) : a # req[w].id => assignment[a].advisor # v
  BY <1>1 DEF IInv, ActiveUnique, ActiveAssignments, AssignmentsOf
<1>4. v \in ActiveAdvisors(c)
  BY <1>1 DEF ActiveAdvisors
<1>5. ActiveAdvisors(c)' = ActiveAdvisors(c) \ {v}
  BY <1>2, <1>3 DEF ActiveAdvisors
<1>6. ActiveAssignments(c) \ {req[w].id} = {} <=> ActiveAdvisors(c) = {v}
  BY <1>1, <1>3 DEF ActiveAdvisors
<1>7. \A d \in ConcernIds : EverAssigned(d)' <=> EverAssigned(d)
  BY <1>1 DEF EverAssigned, AssignmentsOf, ActiveAssignments
<1>8. ASSUME NEW d \in ConcernIds, d # c
      PROVE  ActiveAdvisors(d)' = ActiveAdvisors(d)
  <2>1. req[w].id \notin AssignmentsOf(d)
    BY <1>1, <1>8 DEF ActiveAssignments, AssignmentsOf
  <2>2. ActiveAssignments(d)' = ActiveAssignments(d)
    BY <1>1, <1>8 DEF ActiveAssignments, AssignmentsOf
  <2> QED
    BY <1>1, <2>1, <2>2 DEF ActiveAdvisors, ActiveAssignments, AssignmentsOf
<1> QED
  BY <1>1, <1>4, <1>5, <1>6, <1>7, <1>8 DEF AdvisorsNow, GivenAway

(* Each committing transaction is one step of the lifecycle, or none.      *)
LEMMA CommitRefines ==
  ASSUME TypeOK, IInv, NEW w \in Workers, Commit(w)
  PROVE  Lifecycle!Next \/ UNCHANGED <<concern, AdvisorsNow, GivenAway>>
<1> DEFINE c == req[w].concern
<1>1. /\ ~Idle(w) /\ c \in ConcernIds /\ Exists(c)
      /\ req[w].seen = concern[c].status
  BY CommitFacts
<1> HIDE DEF c
<1> USE DEF Lifecycle!Live, Lifecycle!Exists, Lifecycle!SetStatus
<1>2. CASE CommitEdit(w)
  <2>1. req[w].text \in Texts
    BY <1>1, <1>2, RequestFields DEF CommitEdit, InTransaction, EditRequest
  <2>2. MayEdit(c) /\ UNCHANGED assignment
    BY <1>2, CommitGuards DEF c
  <2>3. AdvisorsNow' = AdvisorsNow /\ GivenAway' = GivenAway
    BY <2>2, SameAssignments
  <2>4. Lifecycle!Edit(c, req[w].text)
    BY <1>2, <2>2, <2>3 DEF Lifecycle!Edit, CommitEdit, MayEdit, IsLive, Exists,
       GivenAway, c
  <2> QED
    BY <1>1, <2>1, <2>4 DEF Lifecycle!Next
<1>3. CASE CommitAssign(w)
  <2>1. req[w].advisor \in Advisors
    BY <1>1, <1>3, RequestFields DEF CommitAssign, InTransaction, AssignRequest
  <2>2. MayAssign(c) /\ req[w].advisor \notin ActiveAdvisors(c)
    BY <1>3, CommitGuards DEF CommitAssign, c
  <2>3. /\ AdvisorsNow' = [AdvisorsNow EXCEPT ![c] = @ \cup {req[w].advisor}]
        /\ GivenAway' = GivenAway \cup {c}
    BY <1>1, <1>3, AssignAdds DEF c
  <2>4. AdvisorsNow[c] = ActiveAdvisors(c)
    BY <1>1 DEF AdvisorsNow
  <2>5. IF concern[c].status = "SUBMITTED"
        THEN concern' = [concern EXCEPT ![c].status = "ASSIGNED"] ELSE UNCHANGED concern
    BY <1>1, <1>3 DEF CommitAssign, c
  <2>6. Lifecycle!Assign(c, req[w].advisor)
    BY <1>1, <2>2, <2>3, <2>4, <2>5 DEF Lifecycle!Assign, MayAssign, Exists
  <2> QED
    BY <1>1, <2>1, <2>6 DEF Lifecycle!Next
<1>4. CASE InsertConflict(w)
  BY <1>4, SameAssignments DEF InsertConflict
<1>5. CASE CommitUnassign(w)
  <2> DEFINE v == assignment[req[w].id].advisor
  <2>1. /\ v \in Advisors /\ v \in ActiveAdvisors(c)
        /\ AdvisorsNow' = [AdvisorsNow EXCEPT ![c] = @ \ {v}]
        /\ GivenAway' = GivenAway
        /\ ActiveAssignments(c) \ {req[w].id} = {} <=> ActiveAdvisors(c) = {v}
    BY <1>1, <1>5, UnassignRemoves DEF c
  <2> HIDE DEF v
  <2>2. AdvisorsNow[c] = ActiveAdvisors(c)
    BY <1>1 DEF AdvisorsNow
  <2>3. IF concern[c].status = "ASSIGNED" /\ ActiveAdvisors(c) = {v}
        THEN concern' = [concern EXCEPT ![c].status = "SUBMITTED"] ELSE UNCHANGED concern
    BY <1>1, <1>5, <2>1 DEF CommitUnassign, c
  <2>4. Lifecycle!Unassign(c, v)
    BY <1>1, <2>1, <2>2, <2>3 DEF Lifecycle!Unassign, Exists
  <2> QED
    BY <1>1, <2>1, <2>4 DEF Lifecycle!Next
<1>6. CASE CommitReview(w)
  <2>1. ~concern[c].deleted /\ UNCHANGED assignment
    BY <1>6, CommitGuards DEF CommitReview, c
  <2>2. AdvisorsNow' = AdvisorsNow /\ GivenAway' = GivenAway
    BY <2>1, SameAssignments
  <2>3. CASE concern' # concern
    <3>1. Lifecycle!Answer(c)
      BY <1>1, <1>6, <2>1, <2>2, <2>3 DEF Lifecycle!Answer, CommitReview, Exists, c
    <3> QED
      BY <1>1, <3>1 DEF Lifecycle!Next
  <2> QED
    BY <2>2, <2>3
<1> QED
  BY <1>2, <1>3, <1>4, <1>5, <1>6 DEF Commit

(* Concerns implements ConcernLifecycle: with requests, copies and locks   *)
(* hidden, overlapping transactions are indistinguishable from operations  *)
(* performed one at a time.                                                *)
THEOREM Refinement == Spec => LifecycleSpec
<1>1. Init => Lifecycle!Init
  BY DEF Init, Lifecycle!Init, AdvisorsNow, GivenAway, ActiveAdvisors, EverAssigned,
     ActiveAssignments, AssignmentsOf
<1>2. TypeOK /\ IInv /\ [Next]_vars => [Lifecycle!Next]_(Lifecycle!vars)
  <2> SUFFICES ASSUME TypeOK, IInv, [Next]_vars
               PROVE  Lifecycle!Next \/ UNCHANGED <<concern, AdvisorsNow, GivenAway>>
    BY DEF Lifecycle!vars
  <2> USE DEF Lifecycle!Live, Lifecycle!Exists, Lifecycle!SetStatus, Exists, IsLive
  <2>1. ASSUME NEW c \in ConcernIds, NEW u \in Authors, NEW t \in Texts,
               CreateConcern(c, u, t)
        PROVE  Lifecycle!Next
    <3>1. Lifecycle!Create(c, u, t)
      BY <2>1, SameAssignments DEF CreateConcern, Lifecycle!Create
    <3> QED
      BY <3>1 DEF Lifecycle!Next
  <2>2. ASSUME NEW w \in Workers, NEW c \in ConcernIds, BeginRequest(w, c)
        PROVE  UNCHANGED <<concern, AdvisorsNow, GivenAway>>
    BY <2>2, BegunRequestTyped, SameAssignments
  <2>3. ASSUME NEW w \in Workers, AtTheRow(w)
        PROVE  Lifecycle!Next \/ UNCHANGED <<concern, AdvisorsNow, GivenAway>>
    <3>1. CASE WriteDeleted(w)
      <4>1. Lifecycle!Withdraw(req[w].concern, TRUE)
        BY <2>3, <3>1, AtTheRowCases, SameAssignments DEF WriteDeleted, Lifecycle!Withdraw
      <4> QED
        BY <2>3, <4>1, AtTheRowCases DEF Lifecycle!Next
    <3>2. CASE UNCHANGED <<concern, assignment>>
      BY <3>2, SameAssignments
    <3> QED
      BY <2>3, <3>1, <3>2, AtTheRowCases
  <2>4. ASSUME NEW w \in Workers, Commit(w)
        PROVE  Lifecycle!Next \/ UNCHANGED <<concern, AdvisorsNow, GivenAway>>
    BY <2>4, CommitRefines
  <2>5. ASSUME NEW w \in Workers, Abort(w)
        PROVE  UNCHANGED <<concern, AdvisorsNow, GivenAway>>
    BY <2>5, SameAssignments DEF Abort
  <2>6. ASSUME NEW c \in ConcernIds, AdminAction(c)
        PROVE  Lifecycle!Next
    <3>1. \/ Lifecycle!Close(c)
          \/ \E gone \in BOOLEAN : Lifecycle!Withdraw(c, gone)
      BY <2>6, SameAssignments DEF AdminAction, CloseSelected, SoftDeleteSelected,
         RestoreSelected, Lifecycle!Close, Lifecycle!Withdraw
    <3> QED
      BY <3>1 DEF Lifecycle!Next
  <2>7. CASE UNCHANGED vars
    BY <2>7, SameAssignments DEF vars
  <2> QED
    BY <2>1, <2>2, <2>3, <2>4, <2>5, <2>6, <2>7 DEF Next
<1> QED
  BY Invariance, <1>1, <1>2, PTL DEF Spec, LifecycleSpec, Lifecycle!Spec
=============================================================================
