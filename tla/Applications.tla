---------------------------- MODULE Applications ----------------------------
(***************************************************************************)
(* Applications to become an advisor (advisors/services.py): #11           *)
(* create_application, which takes no lock, and #15 review_application,    *)
(* which locks the application and, when it approves, grants the ADVISOR   *)
(* role.  Composed with RoleTransactions: #42 and #43 change the same      *)
(* UserRole row under the lock of the User row, which #15 does not take.   *)
(***************************************************************************)
EXTENDS RoleTransactions

CONSTANTS
  AppIds,         \* primary keys of AdvisorApplication (bounds how many are made)
  Names           \* values of display_name

VARIABLES
  application,    \* the AdvisorApplication table: [AppIds -> AppRow or None]
  told,           \* notifications sent about an application, by the decision
                  \* that sent them: [AppIds -> [Decision -> how many]]
  appHolder,      \* FOR UPDATE on an application row
  areq            \* the application request a worker serves

appVars == <<application, told, appHolder, areq>>
allVars == <<vars, appVars>>

-----------------------------------------------------------------------------
AppStatus == {"PENDING", "REVIEWING", "APPROVED", "REJECTED"}
InProgress == {"PENDING", "REVIEWING", "APPROVED"}
Decision == {"REVIEWING", "APPROVED", "REJECTED"}

Target(status) == CASE status = "PENDING" -> {"REVIEWING"}
                    [] status = "REVIEWING" -> {"APPROVED", "REJECTED"}
                    [] OTHER -> {}

(* The type of the notification that a decision sends (if / else).         *)
NoticeOf(decision) == IF decision = "APPROVED" THEN "APPROVED" ELSE "REJECTED"

AppRow == [applicant : Users, name : Names, status : AppStatus]

(* `holder` is what #11 read of the applicant's ADVISOR role.  `insert` is *)
(* whether #15 inserts the UserRole row or found it.                       *)
ApplyRequest ==
  [op : {"apply"}, stage : {"read", "checked"}, applicant : Users, name : Names,
   holder : BOOLEAN, id : AppIds]
DecideRequest ==
  [op : {"decide"}, stage : {"waiting", "locked", "missing", "ready"}, app : AppIds,
   actor : Users, target : Decision, reason : BOOLEAN, insert : BOOLEAN]
AppRequest == ApplyRequest \cup DecideRequest

ASSUME ApplicationsAssumption == None \notin AppRow \cup AppRequest

-----------------------------------------------------------------------------
Submitted(p) == application[p] # None
AppsOf(u) == {p \in AppIds : Submitted(p) /\ application[p].applicant = u}
Serving(w, op, stage) == areq[w] # None /\ areq[w].op = op /\ areq[w].stage = stage
ApplicantOf(w) == application[areq[w].app].applicant

Start(w, r) ==
  /\ Idle(w) /\ areq[w] = None
  /\ areq' = [areq EXCEPT ![w] = r]
  /\ UNCHANGED <<vars, application, told, appHolder>>

Step(w, stage) == areq' = [areq EXCEPT ![w].stage = stage]

(* Commit or rollback of a request of this application: every lock goes.   *)
Close(w) ==
  /\ Finish(w)
  /\ appHolder' = [p \in AppIds |-> IF appHolder[p] = w THEN None ELSE appHolder[p]]
  /\ areq' = [areq EXCEPT ![w] = None]

Undo(w) == Close(w) /\ UNCHANGED <<roleVars, order, application, told>>

-----------------------------------------------------------------------------
(* #11.  Three queries, each in its own autocommit: whether the applicant  *)
(* is an advisor, whether an application is in progress (409), the INSERT, *)
(* which a display_name in use makes a 409 and a lock on the applicant's   *)
(* User row holds up (foreign key).                                        *)
AppKeyInUse(p) ==
  Submitted(p) \/ \E w \in Workers : areq[w] # None /\ areq[w].op = "apply" /\ areq[w].id = p

BeginApply(w, u, n, p) ==
  /\ active[u] /\ ~AppKeyInUse(p)
  /\ Start(w, [op |-> "apply", stage |-> "read", applicant |-> u, name |-> n,
               holder |-> "ADVISOR" \in holds[u], id |-> p])

Blocking(u, holder) ==
  {p \in AppsOf(u) : application[p].status \in
     IF holder THEN InProgress ELSE InProgress \ {"APPROVED"}}

CheckBlocking(w) ==
  /\ Serving(w, "apply", "read")
  /\ IF Blocking(areq[w].applicant, areq[w].holder) = {}
     THEN Step(w, "checked") ELSE areq' = [areq EXCEPT ![w] = None]
  /\ UNCHANGED <<vars, application, told, appHolder>>

NameTaken(n) ==
  \E p \in AppIds : Submitted(p) /\ application[p].name = n
                      /\ application[p].status \in InProgress

(* Seeded defect: the model default of status is missing.                  *)
InsertWithoutStatus(w) ==
  LET r == areq[w] IN
  /\ Serving(w, "apply", "checked") /\ ~NameTaken(r.name)
  /\ application' = [application EXCEPT ![r.id] =
       [applicant |-> r.applicant, name |-> r.name, status |-> None]]
  /\ areq' = [areq EXCEPT ![w] = None]
  /\ UNCHANGED <<vars, told, appHolder>>

InsertApplication(w) ==
  LET r == areq[w] IN
  /\ Serving(w, "apply", "checked")
  /\ \/ NameTaken(r.name) /\ UNCHANGED application
     \/ /\ ~NameTaken(r.name) /\ UserFree(w, r.applicant)
        /\ application' = [application EXCEPT ![r.id] =
             [applicant |-> r.applicant, name |-> r.name, status |-> "PENDING"]]
  /\ areq' = [areq EXCEPT ![w] = None]
  /\ UNCHANGED <<vars, told, appHolder>>

-----------------------------------------------------------------------------
(* #15, past IsAdmin.  Lock the application; a transition that is not      *)
(* allowed is 409, a rejection without a reason 422.                       *)
BeginDecide(w, a, p, target, reason) ==
  /\ IsActiveAdmin(a) /\ Submitted(p)
  /\ Start(w, [op |-> "decide", stage |-> "waiting", app |-> p, actor |-> a,
               target |-> target, reason |-> reason, insert |-> FALSE])

MayDecide(r) ==
  /\ r.target \in Target(application[r.app].status)
  /\ r.target = "REJECTED" => r.reason

(* Seeded defect: #15 decides on a row it did not lock.                    *)
ReadForDecide(w) ==
  /\ Serving(w, "decide", "waiting")
  /\ IF MayDecide(areq[w])
     THEN /\ Step(w, IF areq[w].target = "APPROVED" THEN "locked" ELSE "ready")
          /\ UNCHANGED <<vars, application, told, appHolder>>
     ELSE Undo(w)

(* Seeded defect: a refusal leaves its transaction, and the lock, open.    *)
LockForDecideOpen(w) ==
  /\ Serving(w, "decide", "waiting")
  /\ appHolder[areq[w].app] = None
  /\ appHolder' = [appHolder EXCEPT ![areq[w].app] = w]
  /\ IF MayDecide(areq[w])
     THEN Step(w, IF areq[w].target = "APPROVED" THEN "locked" ELSE "ready")
     ELSE areq' = [areq EXCEPT ![w] = None]
  /\ UNCHANGED <<vars, application, told>>

LockForDecide(w) ==
  /\ Serving(w, "decide", "waiting")
  /\ appHolder[areq[w].app] = None
  /\ IF MayDecide(areq[w])
     THEN /\ appHolder' = [appHolder EXCEPT ![areq[w].app] = w]
          /\ Step(w, IF areq[w].target = "APPROVED" THEN "locked" ELSE "ready")
          /\ UNCHANGED <<vars, application, told>>
     ELSE Undo(w)

(* get_or_create: a SELECT, and if it finds no row an INSERT, which waits  *)
(* for an INSERT of the same row and finds that row once it is committed.  *)
FindRole(w) ==
  /\ Serving(w, "decide", "locked")
  /\ Step(w, IF "ADVISOR" \in holds[ApplicantOf(w)] THEN "ready" ELSE "missing")
  /\ UNCHANGED <<vars, application, told, appHolder>>

CreateRole(w) ==
  LET u == ApplicantOf(w) IN
  /\ Serving(w, "decide", "missing")
  /\ RoleFree(w, u, "ADVISOR")
  /\ IF "ADVISOR" \in holds[u] THEN Step(w, "ready") /\ UNCHANGED roleHolder
     ELSE /\ LockRole(w, u, "ADVISOR")
          /\ areq' = [areq EXCEPT ![w].stage = "ready", ![w].insert = TRUE]
  /\ UNCHANGED <<roleVars, order, userHolder, req, application, told, appHolder>>

(* The deferred foreign keys need the rows of the applicant and the actor. *)
KeysFree(w) ==
  /\ Serving(w, "decide", "ready")
  /\ UserFree(w, ApplicantOf(w)) /\ UserFree(w, areq[w].actor)

(* Seeded defect: the approval leaves no audit row.                        *)
CommitApprovalUnaudited(w) ==
  LET r == areq[w]  u == ApplicantOf(w) IN
  /\ KeysFree(w) /\ r.target = "APPROVED"
  /\ application' = [application EXCEPT ![r.app].status = "APPROVED"]
  /\ holds' = [holds EXCEPT ![u] = @ \cup {"ADVISOR"}]
  /\ told' = [told EXCEPT ![r.app][r.target] = @ + 1]
  /\ Close(w)
  /\ UNCHANGED <<worn, active, order, audit>>

(* Role, audit row (whether or not the role was new) and notification.     *)
CommitApproval(w) ==
  LET r == areq[w]  u == ApplicantOf(w) IN
  /\ KeysFree(w) /\ r.target = "APPROVED"
  /\ application' = [application EXCEPT ![r.app].status = "APPROVED"]
  /\ holds' = IF r.insert THEN [holds EXCEPT ![u] = @ \cup {"ADVISOR"}] ELSE holds
  /\ Record(u, "ADVISOR", "GRANT")
  /\ told' = [told EXCEPT ![r.app][r.target] = @ + 1]
  /\ Close(w)
  /\ UNCHANGED <<worn, active, order>>

(* Every other decision, with a notification too.                          *)
CommitOther(w) ==
  /\ KeysFree(w) /\ areq[w].target # "APPROVED"
  /\ application' = [application EXCEPT ![areq[w].app].status = areq[w].target]
  /\ told' = [told EXCEPT ![areq[w].app][areq[w].target] = @ + 1]
  /\ Close(w)
  /\ UNCHANGED <<roleVars, order>>

-----------------------------------------------------------------------------
AbortApplication(w) == areq[w] # None /\ Undo(w)

(* Waiting, with the requests of both applications.                        *)
AppWaitsFor(w, v) ==
  /\ v # w
  /\ \/ WaitsFor(w, v)
     \/ Serving(w, "apply", "checked") /\ userHolder[areq[w].applicant] = v
     \/ Serving(w, "decide", "waiting") /\ appHolder[areq[w].app] = v
     \/ Serving(w, "decide", "missing") /\ roleHolder[ApplicantOf(w)]["ADVISOR"] = v
     \/ /\ Serving(w, "decide", "ready")
        /\ v \in {userHolder[ApplicantOf(w)], userHolder[areq[w].actor]}

AppWaits == {e \in Workers \X Workers : AppWaitsFor(e[1], e[2])}

AppDeadlockAbort(w) == OnCycle(w, AppWaits) /\ Undo(w)

-----------------------------------------------------------------------------
RoleStep(w) ==
  /\ areq[w] = None
  /\ BeginRequest(w) \/ AtALock(w) \/ Advance(w) \/ Abort(w)
  /\ UNCHANGED appVars

BeginAppRequest(w) ==
  \E u \in Users, p \in AppIds :
    \/ \E n \in Names : BeginApply(w, u, n, p)
    \/ \E t \in Decision, reason \in BOOLEAN : BeginDecide(w, u, p, t, reason)

AtAnAppLock(w) == \/ InsertApplication(w) \/ LockForDecide(w) \/ CreateRole(w)
                  \/ CommitApproval(w) \/ CommitOther(w)
AppAdvance(w) == CheckBlocking(w) \/ FindRole(w)

AppInit ==
  /\ Init
  /\ application = [p \in AppIds |-> None]
  /\ told = [p \in AppIds |-> [d \in Decision |-> 0]]
  /\ appHolder = [p \in AppIds |-> None]
  /\ areq = [w \in Workers |-> None]

AppNext ==
  \/ \E w \in Workers : \/ RoleStep(w) \/ BeginAppRequest(w) \/ AtAnAppLock(w)
                        \/ AppAdvance(w) \/ AbortApplication(w) \/ AppDeadlockAbort(w)
  \/ SiteAction /\ UNCHANGED appVars

AppSpec == AppInit /\ [][AppNext]_allVars

(* As in RoleTransactions.                                                 *)
AppFairness ==
  \A w \in Workers :
    /\ SF_allVars(areq[w] = None /\ AtALock(w) /\ UNCHANGED appVars)
    /\ WF_allVars(areq[w] = None /\ Advance(w) /\ UNCHANGED appVars)
    /\ SF_allVars(AtAnAppLock(w)) /\ WF_allVars(AppAdvance(w))
    /\ WF_allVars(AppDeadlockAbort(w))

FairAppSpec == AppSpec /\ AppFairness

-----------------------------------------------------------------------------
(* Types.                                                                  *)

(* Every table, lock and request of both applications is well formed.      *)
AppTypeOK ==
  /\ TypeOK
  /\ application \in [AppIds -> AppRow \cup {None}]
  /\ told \in [AppIds -> [Decision -> Nat]]
  /\ appHolder \in [AppIds -> Workers \cup {None}]
  /\ areq \in [Workers -> AppRequest \cup {None}]

(* Safety.                                                                 *)

(* Whoever else reviews, or was killed while reviewing, an applicant has   *)
(* been told once of the approval or the rejection that stands, and of none*)
(* that does not (#15; api.md: a notification for APPROVED and REJECTED).  *)
(* What is sent when an application is taken up, RejectionNoticeIsTrue says.*)
NoticesFollowDecisions ==
  \A p \in AppIds, decision \in {"APPROVED", "REJECTED"} :
    told[p][decision] =
      IF Submitted(p) /\ application[p].status = decision THEN 1 ELSE 0

(* Applications only move forward, whatever two administrators decide at   *)
(* once: no decision is overwritten, and the audit trail of the applicant  *)
(* grows with an approval and with nothing else of #15.                    *)
DecisionStands ==
  [][\A p \in AppIds : Submitted(p) /\ application'[p] # application[p] =>
       /\ <<application[p].status, application'[p].status>> \in
            {<<"PENDING", "REVIEWING">>, <<"REVIEWING", "APPROVED">>, <<"REVIEWING", "REJECTED">>}
       /\ Len(audit'[application[p].applicant]["ADVISOR"])
            = Len(audit[application[p].applicant]["ADVISOR"])
              + IF application'[p].status = "APPROVED" THEN 1 ELSE 0]_allVars

(* Whoever is an advisor has a trail that says so: three operations grant  *)
(* and revoke the role under different locks, and the last audit row of a  *)
(* role that is held is a grant (#15, #42, #43).                           *)
HeldRoleIsAudited ==
  \A u \in Users : "ADVISOR" \in holds[u] =>
    audit[u]["ADVISOR"] # <<>> /\ audit[u]["ADVISOR"][Len(audit[u]["ADVISOR"])] = "GRANT"

(* #15 next to #10, #42 and #43 still does what Roles promises, operation  *)
(* for operation, but for one thing: an approval that found the role in    *)
(* place when it looked leaves its audit row with no change of roles, once *)
(* per approval.                                                           *)
ApprovesHolder(w) ==
  /\ Serving(w, "decide", "ready") /\ ~areq[w].insert
  /\ application[areq[w].app].status # "APPROVED"
  /\ application'[areq[w].app].status = "APPROVED"

RolesPromiseWithApprovals ==
  RolesInit /\ [][RolesNext \/ \E w \in Workers :
                     /\ ApprovesHolder(w) /\ Record(ApplicantOf(w), "ADVISOR", "GRANT")
                     /\ UNCHANGED <<holds, worn, active>>]_roleVars

(* Of the inductive invariant behind these (ApplicationProofs): a worker   *)
(* serves one request of either application, every #11 has a key of its    *)
(* own, and a decision past its lock holds it and is still allowed.        *)
ServesOne == \A w \in Workers : Idle(w) \/ areq[w] = None

KeysOfTheirOwn ==
  \A w \in Workers : areq[w] # None /\ areq[w].op = "apply" =>
    /\ ~Submitted(areq[w].id)
    /\ \A v \in Workers \ {w} :
         areq[v] # None /\ areq[v].op = "apply" => areq[v].id # areq[w].id

DecisionsLocked ==
  \A w \in Workers : areq[w] # None /\ areq[w].op = "decide" =>
    /\ Submitted(areq[w].app)
    /\ areq[w].stage # "waiting" => appHolder[areq[w].app] = w /\ MayDecide(areq[w])
    /\ areq[w].stage \in {"locked", "missing"} => areq[w].target = "APPROVED"

AppIInv ==
  /\ RoleIInv /\ ServesOne /\ KeysOfTheirOwn /\ DecisionsLocked
  /\ NoticesFollowDecisions

(* get_or_create inserts the role once: the place that an approval holds   *)
(* in the index keeps it from everybody else until the commit, so neither  *)
(* a grant nor another approval gets there first (#15, #42).               *)
ApprovalMeetsNoDuplicate ==
  \A w \in Workers : areq[w] # None /\ areq[w].op = "decide" /\ areq[w].insert =>
    /\ areq[w].stage = "ready"
    /\ "ADVISOR" \notin holds[ApplicantOf(w)] /\ roleHolder[ApplicantOf(w)]["ADVISOR"] = w

(* Three statements of the documents that are not so (see the README).     *)

(* One application in progress per user.                                   *)
OneInProgress ==
  \A u \in Users :
    Cardinality({p \in AppsOf(u) : application[p].status \in {"PENDING", "REVIEWING"}}) <= 1

(* Only a rejection is announced as one (docs/api.md:479).                 *)
RejectionNoticeIsTrue ==
  \A p \in AppIds, decision \in Decision :
    told[p][decision] > 0 /\ NoticeOf(decision) = "REJECTED"
      => application[p].status = "REJECTED"

(* An application that is approved leaves its applicant with the role.     *)
ApprovalGrantsRole ==
  [][\A p \in AppIds :
       Submitted(p) /\ application[p].status # "APPROVED" /\ application'[p].status = "APPROVED"
         => "ADVISOR" \in holds'[application[p].applicant]]_allVars

(* Liveness.                                                               *)

(* Every request of the two applications is answered, although an approval *)
(* and a grant to the same user can deadlock.                              *)
AppRequestsFinish ==
  \A w \in Workers : ~(Idle(w) /\ areq[w] = None) ~> Idle(w) /\ areq[w] = None
=============================================================================
