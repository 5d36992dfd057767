------------------------------ MODULE Concerns ------------------------------
(***************************************************************************)
(* The concerns application: the rows of Concern and Assignment, and the   *)
(* requests that read and write them (concerns/services.py, the actions of *)
(* concerns/admin.py, and the concern's share of advice review #33).       *)
(*                                                                         *)
(* PostgreSQL runs at READ COMMITTED with autocommit, and several gunicorn *)
(* workers serve requests at once.  A transaction of the services is two   *)
(* steps here, because nothing in between can be seen by another session:  *)
(*   Lock...    SELECT ... FOR UPDATE on the concern row is granted; the   *)
(*              service keeps a copy of the row in memory and runs its     *)
(*              checks.  A refusal (404, 409) rolls back on the spot.      *)
(*   Commit...  the writes computed from that copy become visible and the  *)
(*              row lock is released.                                      *)
(* Between the two, and before the first, other requests may do anything   *)
(* that does not need the row lock.  An operation with no transaction      *)
(* (#19) reads in one step and writes in a later one.                      *)
(***************************************************************************)
EXTENDS Naturals, FiniteSets

CONSTANTS
  ConcernIds,     \* primary keys of Concern
  AssignmentIds,  \* primary keys of Assignment (bounds how many are made)
  Advisors,       \* users who hold the ADVISOR role
  Authors,        \* users who write concerns
  Texts,          \* what a concern says: the fields #47 may change
  Workers,        \* gunicorn workers: each serves one request at a time
  None            \* no row, no holder, no request

VARIABLES
  concern,        \* the Concern table:    [ConcernIds -> ConcernRow or None]
  assignment,     \* the Assignment table: [AssignmentIds -> AssignmentRow or None]
  announced,      \* ASSIGNMENT_CREATED notifications sent, per assignment
  holder,         \* who holds FOR UPDATE on a concern row: [ConcernIds -> Workers or None]
  req             \* the request a worker is serving: [Workers -> Request or None]

vars == <<concern, assignment, announced, holder, req>>

-----------------------------------------------------------------------------
Status == {"SUBMITTED", "ASSIGNED", "ANSWERED", "CLOSED"}

ConcernRow ==
  [author : Authors, text : Texts, status : Status, deleted : BOOLEAN]

AssignmentRow ==
  [concern : ConcernIds, advisor : Advisors, active : BOOLEAN]

Stage == {"waiting", "locked"}

(* `seen` is the status in the service's in-memory copy of the row.        *)
EditRequest ==
  [op : {"edit"}, stage : Stage, concern : ConcernIds, seen : Status \cup {None},
   text : Texts]
DeleteRequest ==
  [op : {"delete"}, stage : {"waiting"}, concern : ConcernIds]
AssignRequest ==
  [op : {"assign"}, stage : Stage, concern : ConcernIds, seen : Status \cup {None},
   advisor : Advisors, id : AssignmentIds]
UnassignRequest ==
  [op : {"unassign"}, stage : Stage, concern : ConcernIds, seen : Status \cup {None},
   id : AssignmentIds]
ReviewRequest ==
  [op : {"review"}, stage : Stage, concern : ConcernIds, seen : Status \cup {None},
   approve : BOOLEAN]

Request == EditRequest \cup DeleteRequest \cup AssignRequest
             \cup UnassignRequest \cup ReviewRequest

ASSUME NoneAssumption ==
  /\ None \notin ConcernRow \cup AssignmentRow \cup Request
  /\ None \notin Workers \cup Status

-----------------------------------------------------------------------------
Exists(c) == concern[c] # None
IsLive(c) == Exists(c) /\ ~concern[c].deleted

AssignmentsOf(c) ==
  {a \in AssignmentIds : assignment[a] # None /\ assignment[a].concern = c}
ActiveAssignments(c) == {a \in AssignmentsOf(c) : assignment[a].active}
ActiveAdvisors(c) == {assignment[a].advisor : a \in ActiveAssignments(c)}
EverAssigned(c) == AssignmentsOf(c) # {}
WasAssigned(v, c) == \E a \in AssignmentsOf(c) : assignment[a].advisor = v

Idle(w) == req[w] = None
Waiting(w, op) == ~Idle(w) /\ req[w].op = op /\ req[w].stage = "waiting"
InTransaction(w, op) == ~Idle(w) /\ req[w].op = op /\ req[w].stage = "locked"

Begin(w, r) == Idle(w) /\ req' = [req EXCEPT ![w] = r]
RowFree(c) == holder[c] = None

(* The row lock is granted: keep a copy of the row, and hold the lock.     *)
TakeLock(w) ==
  /\ holder' = [holder EXCEPT ![req[w].concern] = w]
  /\ req' = [req EXCEPT ![w].stage = "locked",
                        ![w].seen = concern[req[w].concern].status]

(* The request is answered with an error and nothing it did stays.         *)
Refuse(w) ==
  /\ req' = [req EXCEPT ![w] = None]
  /\ UNCHANGED holder

(* Seeded defect: a plain SELECT, which waits for nobody.                  *)
ReadIf(w, accepted) ==
  /\ IF accepted THEN TakeLock(w) ELSE Refuse(w)
  /\ UNCHANGED <<concern, assignment, announced>>

(* Seeded defect: a refusal leaves its transaction, and the lock, open.    *)
LockEvenIfRefused(w, accepted) ==
  /\ RowFree(req[w].concern)
  /\ IF accepted THEN TakeLock(w)
     ELSE /\ req' = [req EXCEPT ![w] = None]
          /\ holder' = [holder EXCEPT ![req[w].concern] = w]
  /\ UNCHANGED <<concern, assignment, announced>>

LockIf(w, accepted) ==
  /\ RowFree(req[w].concern)
  /\ IF accepted THEN TakeLock(w) ELSE Refuse(w)
  /\ UNCHANGED <<concern, assignment, announced>>

EndTransaction(w) ==
  /\ holder' = [holder EXCEPT ![req[w].concern] = None]
  /\ req' = [req EXCEPT ![w] = None]

-----------------------------------------------------------------------------
(* Seeded defect: the model default of status is missing.                  *)
CreateWithoutStatus(c, u, t) ==
  /\ ~Exists(c)
  /\ concern' = [concern EXCEPT ![c] =
       [author |-> u, text |-> t, status |-> None, deleted |-> FALSE]]
  /\ UNCHANGED <<assignment, announced, holder, req>>

(* #16 create_concern: one autocommitted INSERT.                           *)
CreateConcern(c, u, t) ==
  /\ ~Exists(c)
  /\ concern' = [concern EXCEPT ![c] =
       [author |-> u, text |-> t, status |-> "SUBMITTED", deleted |-> FALSE]]
  /\ UNCHANGED <<assignment, announced, holder, req>>

(* #47 update_own_concern.  The query is scoped to the author's live rows  *)
(* (404 otherwise, with nothing to wait for), and its condition is         *)
(* evaluated again when the lock is granted.                               *)
BeginEdit(w, u, c, t) ==
  /\ IsLive(c) /\ concern[c].author = u
  /\ Begin(w, [op |-> "edit", stage |-> "waiting", concern |-> c, seen |-> None,
               text |-> t])
  /\ UNCHANGED <<concern, assignment, announced, holder>>

(* Seeded defect: SUBMITTED alone decides whether a text is still open.    *)
MayEditSubmitted(c) == IsLive(c) /\ concern[c].status = "SUBMITTED"

MayEdit(c) == IsLive(c) /\ concern[c].status = "SUBMITTED" /\ ~EverAssigned(c)

(* Seeded defect: #47 without select_for_update.                           *)
ReadForEdit(w) ==
  /\ Waiting(w, "edit")
  /\ ReadIf(w, MayEdit(req[w].concern))

LockForEdit(w) ==
  /\ Waiting(w, "edit")
  /\ LockIf(w, MayEdit(req[w].concern))

CommitEdit(w) ==
  /\ InTransaction(w, "edit")
  /\ concern' = [concern EXCEPT ![req[w].concern].text = req[w].text]
  /\ EndTransaction(w)
  /\ UNCHANGED <<assignment, announced>>

(* #19 soft_delete_concern: the row is read with no lock and no            *)
(* transaction, then one UPDATE of deleted_at waits for the row to be free.*)
BeginDelete(w, u, c) ==
  /\ IsLive(c) /\ concern[c].author = u
  /\ Begin(w, [op |-> "delete", stage |-> "waiting", concern |-> c])
  /\ UNCHANGED <<concern, assignment, announced, holder>>

(* Seeded defect: the write of #19 goes past a held row lock.              *)
WriteDeletedUnlocked(w) ==
  /\ Waiting(w, "delete")
  /\ concern' = [concern EXCEPT ![req[w].concern].deleted = TRUE]
  /\ req' = [req EXCEPT ![w] = None]
  /\ UNCHANGED <<assignment, announced, holder>>

WriteDeleted(w) ==
  /\ Waiting(w, "delete")
  /\ RowFree(req[w].concern)
  /\ concern' = [concern EXCEPT ![req[w].concern].deleted = TRUE]
  /\ req' = [req EXCEPT ![w] = None]
  /\ UNCHANGED <<assignment, announced, holder>>

-----------------------------------------------------------------------------
(* #24 assign_advisor.  The ADVISOR role is checked before the transaction *)
(* (a failed check is 422 and changes nothing); the new row's key is drawn *)
(* by the application (uuid7), so it is never one in use.                  *)
KeyInUse(a) ==
  \/ assignment[a] # None
  \/ \E w \in Workers : ~Idle(w) /\ req[w].op = "assign" /\ req[w].id = a

BeginAssign(w, c, v, a) ==
  /\ Exists(c)
  /\ ~KeyInUse(a)
  /\ Begin(w, [op |-> "assign", stage |-> "waiting", concern |-> c, seen |-> None,
               advisor |-> v, id |-> a])
  /\ UNCHANGED <<concern, assignment, announced, holder>>

(* Seeded defect: a closed concern is assigned again.                      *)
MayAssignClosed(c) == ~concern[c].deleted

MayAssign(c) == ~concern[c].deleted /\ concern[c].status # "CLOSED"

LockForAssign(w) ==
  /\ Waiting(w, "assign")
  /\ LockIf(w, MayAssign(req[w].concern))

(* Seeded defect: the notification is created first, outside the transaction.*)
InsertConflictAnnounced(w) ==
  /\ InTransaction(w, "assign")
  /\ req[w].advisor \in ActiveAdvisors(req[w].concern)
  /\ announced' = [announced EXCEPT ![req[w].id] = @ + 1]
  /\ EndTransaction(w)
  /\ UNCHANGED <<concern, assignment>>

(* The INSERT meets the partial unique index on active (concern, advisor)  *)
(* and is a 409, or all three effects are committed together.              *)
InsertConflict(w) ==
  /\ InTransaction(w, "assign")
  /\ req[w].advisor \in ActiveAdvisors(req[w].concern)
  /\ EndTransaction(w)
  /\ UNCHANGED <<concern, assignment, announced>>

CommitAssign(w) ==
  /\ InTransaction(w, "assign")
  /\ req[w].advisor \notin ActiveAdvisors(req[w].concern)
  /\ assignment' = [assignment EXCEPT ![req[w].id] =
       [concern |-> req[w].concern, advisor |-> req[w].advisor, active |-> TRUE]]
  /\ announced' = [announced EXCEPT ![req[w].id] = @ + 1]
  /\ concern' = IF req[w].seen = "SUBMITTED"
                THEN [concern EXCEPT ![req[w].concern].status = "ASSIGNED"]
                ELSE concern
  /\ EndTransaction(w)

-----------------------------------------------------------------------------
(* #25 unassign_advisor.  An assignment of another concern is 404, an      *)
(* inactive one 409.                                                       *)
BeginUnassign(w, c, a) ==
  /\ Exists(c)
  /\ Begin(w, [op |-> "unassign", stage |-> "waiting", concern |-> c,
               seen |-> None, id |-> a])
  /\ UNCHANGED <<concern, assignment, announced, holder>>

LockForUnassign(w) ==
  /\ Waiting(w, "unassign")
  /\ LockIf(w, req[w].id \in ActiveAssignments(req[w].concern))

(* Seeded defect: the assignments of every concern are counted.            *)
CommitUnassignCountingAll(w) ==
  LET c == req[w].concern
      stillAssigned == UNION {ActiveAssignments(d) : d \in ConcernIds} \ {req[w].id} # {}
  IN
  /\ InTransaction(w, "unassign")
  /\ assignment' = [assignment EXCEPT ![req[w].id].active = FALSE]
  /\ concern' = IF ~stillAssigned /\ req[w].seen = "ASSIGNED"
                THEN [concern EXCEPT ![c].status = "SUBMITTED"]
                ELSE concern
  /\ EndTransaction(w)
  /\ UNCHANGED announced

(* Seeded defect: the row is deleted instead of deactivated.               *)
CommitUnassignDeleting(w) ==
  LET c == req[w].concern
      stillAssigned == ActiveAssignments(c) \ {req[w].id} # {}
  IN
  /\ InTransaction(w, "unassign")
  /\ assignment' = [assignment EXCEPT ![req[w].id] = None]
  /\ concern' = IF ~stillAssigned /\ req[w].seen = "ASSIGNED"
                THEN [concern EXCEPT ![c].status = "SUBMITTED"]
                ELSE concern
  /\ EndTransaction(w)
  /\ UNCHANGED announced

(* Who is still assigned is asked after the row was deactivated.           *)
CommitUnassign(w) ==
  LET c == req[w].concern
      stillAssigned == ActiveAssignments(c) \ {req[w].id} # {}
  IN
  /\ InTransaction(w, "unassign")
  /\ assignment' = [assignment EXCEPT ![req[w].id].active = FALSE]
  /\ concern' = IF ~stillAssigned /\ req[w].seen = "ASSIGNED"
                THEN [concern EXCEPT ![c].status = "SUBMITTED"]
                ELSE concern
  /\ EndTransaction(w)
  /\ UNCHANGED announced

-----------------------------------------------------------------------------
(* #33 review_advice, the part that touches the concern: it is locked,     *)
(* deleted ones included, a deleted one is 409, and an approval moves it   *)
(* from ASSIGNED to ANSWERED and from nowhere else.                        *)
BeginReview(w, c, approve) ==
  /\ Exists(c)
  /\ Begin(w, [op |-> "review", stage |-> "waiting", concern |-> c,
               seen |-> None, approve |-> approve])
  /\ UNCHANGED <<concern, assignment, announced, holder>>

(* Seeded defect: a withdrawn concern is reviewed like any other.          *)
LockForReviewOfAny(w) ==
  /\ Waiting(w, "review")
  /\ LockIf(w, TRUE)

(* Seeded defect: #33 reads the concern without select_for_update.         *)
ReadForReview(w) ==
  /\ Waiting(w, "review")
  /\ ReadIf(w, ~concern[req[w].concern].deleted)

LockForReview(w) ==
  /\ Waiting(w, "review")
  /\ LockIf(w, ~concern[req[w].concern].deleted)

CommitReview(w) ==
  /\ InTransaction(w, "review")
  /\ concern' = IF req[w].approve /\ req[w].seen = "ASSIGNED"
                THEN [concern EXCEPT ![req[w].concern].status = "ANSWERED"]
                ELSE concern
  /\ EndTransaction(w)
  /\ UNCHANGED <<assignment, announced>>

-----------------------------------------------------------------------------
(* The actions of the administration site: each is one UPDATE with its     *)
(* condition in the WHERE clause, re-evaluated once the row is free.       *)
(* Seeded defect: the queryset is not narrowed to ANSWERED.                *)
CloseAnySelected(c) ==
  /\ RowFree(c) /\ IsLive(c)
  /\ concern' = [concern EXCEPT ![c].status = "CLOSED"]
  /\ UNCHANGED <<assignment, announced, holder, req>>

CloseSelected(c) ==
  /\ RowFree(c) /\ IsLive(c)
  /\ concern[c].status = "ANSWERED"
  /\ concern' = [concern EXCEPT ![c].status = "CLOSED"]
  /\ UNCHANGED <<assignment, announced, holder, req>>

SoftDeleteSelected(c) ==
  /\ RowFree(c) /\ IsLive(c)
  /\ concern' = [concern EXCEPT ![c].deleted = TRUE]
  /\ UNCHANGED <<assignment, announced, holder, req>>

RestoreSelected(c) ==
  /\ RowFree(c) /\ Exists(c) /\ concern[c].deleted
  /\ concern' = [concern EXCEPT ![c].deleted = FALSE]
  /\ UNCHANGED <<assignment, announced, holder, req>>

(* The worker is killed (gunicorn's 30 s timeout, a restart) or the        *)
(* database reports an error: the transaction is rolled back.              *)
Abort(w) ==
  /\ ~Idle(w)
  /\ holder' = [c \in ConcernIds |-> IF holder[c] = w THEN None ELSE holder[c]]
  /\ req' = [req EXCEPT ![w] = None]
  /\ UNCHANGED <<concern, assignment, announced>>

-----------------------------------------------------------------------------
Init ==
  /\ concern = [c \in ConcernIds |-> None]
  /\ assignment = [a \in AssignmentIds |-> None]
  /\ announced = [a \in AssignmentIds |-> 0]
  /\ holder = [c \in ConcernIds |-> None]
  /\ req = [w \in Workers |-> None]

BeginOwnRequest(w, c) ==
  \/ \E u \in Authors, t \in Texts : BeginEdit(w, u, c, t)
  \/ \E u \in Authors : BeginDelete(w, u, c)
  \/ \E v \in Advisors, a \in AssignmentIds : BeginAssign(w, c, v, a)
  \/ \E a \in AssignmentIds : BeginUnassign(w, c, a)

BeginRequest(w, c) ==
  BeginOwnRequest(w, c) \/ \E approve \in BOOLEAN : BeginReview(w, c, approve)

(* A statement that needs the row lock, and one that does not.             *)
AtTheRow(w) == \/ LockForEdit(w) \/ LockForAssign(w) \/ LockForUnassign(w)
               \/ LockForReview(w) \/ WriteDeleted(w)
Commit(w) == \/ CommitEdit(w) \/ CommitAssign(w) \/ InsertConflict(w)
             \/ CommitUnassign(w) \/ CommitReview(w)

AdminAction(c) == CloseSelected(c) \/ SoftDeleteSelected(c) \/ RestoreSelected(c)

Next ==
  \/ \E c \in ConcernIds, u \in Authors, t \in Texts : CreateConcern(c, u, t)
  \/ \E w \in Workers, c \in ConcernIds : BeginRequest(w, c)
  \/ \E w \in Workers : AtTheRow(w) \/ Commit(w) \/ Abort(w)
  \/ \E c \in ConcernIds : AdminAction(c)

Spec == Init /\ [][Next]_vars

(* A service runs to its end without waiting for anything but row locks,   *)
(* and PostgreSQL queues the sessions waiting for a row, so one that keeps *)
(* being free is in the end granted to each of them.                       *)
Fairness == \A w \in Workers : SF_vars(AtTheRow(w)) /\ WF_vars(Commit(w))
FairSpec == Spec /\ Fairness

-----------------------------------------------------------------------------
(* Types.                                                                  *)

(* Every table, lock and request holds what its column or variable may.    *)
TypeOK ==
  /\ concern \in [ConcernIds -> ConcernRow \cup {None}]
  /\ assignment \in [AssignmentIds -> AssignmentRow \cup {None}]
  /\ announced \in [AssignmentIds -> Nat]
  /\ holder \in [ConcernIds -> Workers \cup {None}]
  /\ req \in [Workers -> Request \cup {None}]

(* Safety.                                                                 *)

(* A concern's status and its assignment rows, written by different        *)
(* requests from copies read earlier, agree in every committed state: a    *)
(* SUBMITTED concern has no active assignment, an ASSIGNED one has at      *)
(* least one (#24 and #25 are read-modify-writes of both).                 *)
StatusMatchesAssignments ==
  \A c \in ConcernIds : Exists(c) =>
    /\ concern[c].status = "SUBMITTED" => ActiveAssignments(c) = {}
    /\ concern[c].status = "ASSIGNED" => ActiveAssignments(c) # {}

(* Each assignment was announced to its advisor exactly once, and no       *)
(* notification speaks of an assignment that was refused or rolled back    *)
(* (#24: "a failure can never leave an assignment without ... its          *)
(* notification").                                                         *)
AnnouncedOnce ==
  \A a \in AssignmentIds : announced[a] = IF assignment[a] = None THEN 0 ELSE 1

(* An advisor never answers a text that changes afterwards: no step alters *)
(* the text of a concern that has, or in the same step gets, an assignment *)
(* row, active or not (#47 against #24, also after #25).                   *)
TextFrozenOnceAssigned ==
  [][\A c \in ConcernIds :
       Exists(c) /\ concern'[c].text # concern[c].text
         => ~EverAssigned(c) /\ ~EverAssigned(c)']_vars

(* The state machine of Concern has these edges and no other, whichever    *)
(* requests and administration actions meet on the row.                    *)
Edges == {<<"SUBMITTED", "ASSIGNED">>, <<"ASSIGNED", "SUBMITTED">>,
          <<"ASSIGNED", "ANSWERED">>, <<"ANSWERED", "CLOSED">>}

StatusFollowsEdges ==
  [][\A c \in ConcernIds :
       Exists(c) /\ concern'[c].status # concern[c].status
         => <<concern[c].status, concern'[c].status>> \in Edges]_vars

(* A withdrawn concern is out of the process: it gets no new assignment,   *)
(* is neither answered, closed nor edited, and only #25 may still touch it.*)
(* The withdrawal can fall between any two steps of another request.       *)
DeletedIsFrozen ==
  [][\A c \in ConcernIds :
       Exists(c) /\ concern[c].deleted =>
         /\ AssignmentsOf(c)' = AssignmentsOf(c)
         /\ concern'[c].text = concern[c].text
         /\ concern'[c].status \in {concern[c].status, "SUBMITTED"}]_vars

(* The inductive invariant.  Whoever holds a row is the one transaction    *)
(* that works on it; its copy of the row, and every check it made when it  *)
(* was granted the lock, are still true of the tables when it commits.     *)
LockTableOK ==
  \A c \in ConcernIds, w \in Workers :
    holder[c] = w <=> ~Idle(w) /\ req[w].stage = "locked" /\ req[w].concern = c

ChecksStillHold ==
  \A w \in Workers : ~Idle(w) =>
    LET c == req[w].concern IN
    /\ Exists(c)
    /\ req[w].stage = "locked" => req[w].seen = concern[c].status
    /\ InTransaction(w, "edit") => MayEdit(c)
    /\ InTransaction(w, "assign") => MayAssign(c)
    /\ InTransaction(w, "unassign") => req[w].id \in ActiveAssignments(c)
    /\ InTransaction(w, "review") => ~concern[c].deleted

KeysReserved ==
  \A w \in Workers : ~Idle(w) /\ req[w].op = "assign" =>
    /\ assignment[req[w].id] = None
    /\ \A x \in Workers : ~Idle(x) /\ req[x].op = "assign" /\ req[x].id = req[w].id
                          => x = w

AssignmentsOfRows ==
  \A a \in AssignmentIds : assignment[a] # None => Exists(assignment[a].concern)

ActiveUnique ==
  \A a, b \in AssignmentIds :
    /\ assignment[a] # None /\ assignment[a].active
    /\ assignment[b] # None /\ assignment[b].active
    /\ assignment[a].concern = assignment[b].concern
    /\ assignment[a].advisor = assignment[b].advisor
    => a = b

IInv == LockTableOK /\ ChecksStillHold /\ KeysReserved /\ AssignmentsOfRows
          /\ ActiveUnique /\ StatusMatchesAssignments /\ AnnouncedOnce

(* Liveness.                                                               *)

(* A request that is being served is in the end answered, although it may  *)
(* have to wait for the row behind the others.                             *)
RequestsFinish == \A w \in Workers : ~Idle(w) ~> Idle(w)

(* Refinement: with requests and locks hidden, the tables behave like the  *)
(* indivisible operations of ConcernLifecycle.                             *)
AdvisorsNow == [c \in ConcernIds |-> ActiveAdvisors(c)]
GivenAway == {c \in ConcernIds : EverAssigned(c)}

Lifecycle == INSTANCE ConcernLifecycle
               WITH advisors <- AdvisorsNow, everAssigned <- GivenAway
LifecycleSpec == Lifecycle!Spec
=============================================================================
