------------------------- MODULE ApplicationProofs --------------------------
(***************************************************************************)
(* Machine-checked proofs about Applications, for every finite set of      *)
(* accounts and every set of workers, applications and names.              *)
(***************************************************************************)
EXTENDS Applications, RoleProofs

(* What the fields of a request hold, by the kind of request.              *)
LEMMA AppRequestFields ==
  ASSUME AppTypeOK, NEW w \in Workers, areq[w] # None
  PROVE  /\ areq[w] \in AppRequest /\ areq[w].op \in {"apply", "decide"}
         /\ areq[w].op = "apply" =>
              /\ areq[w] \in ApplyRequest /\ areq[w].id \in AppIds
              /\ areq[w].applicant \in Users /\ areq[w].name \in Names
         /\ areq[w].op = "decide" =>
              /\ areq[w] \in DecideRequest /\ areq[w].app \in AppIds
              /\ areq[w].actor \in Users /\ areq[w].target \in Decision
<1>1. areq[w] \in AppRequest
  BY DEF AppTypeOK
<1> QED
  BY <1>1 DEF AppRequest, ApplyRequest, DecideRequest

(* What the fields of an application hold.                                 *)
LEMMA AppFields ==
  ASSUME AppTypeOK, NEW p \in AppIds, Submitted(p)
  PROVE  /\ application[p] \in AppRow /\ application[p].applicant \in Users
         /\ application[p].status \in AppStatus
BY DEF AppTypeOK, Submitted, AppRow

(* A request that goes on differs in its stage.                            *)
LEMMA DecideMoved ==
  ASSUME NEW r \in DecideRequest, NEW s \in {"waiting", "locked", "missing", "ready"}
  PROVE  LET h == [r EXCEPT !.stage = s] IN
         /\ h \in AppRequest
         /\ h.op = r.op /\ h.app = r.app /\ h.stage = s /\ h.target = r.target
         /\ h.reason = r.reason
BY DEF DecideRequest, AppRequest

(* So does one that has inserted the role.                                 *)
LEMMA DecideInserted ==
  ASSUME NEW r \in DecideRequest
  PROVE  LET h == [r EXCEPT !.stage = "ready", !.insert = TRUE] IN
         /\ h \in AppRequest
         /\ h.op = r.op /\ h.app = r.app /\ h.stage = "ready" /\ h.target = r.target
         /\ h.reason = r.reason
BY DEF DecideRequest, AppRequest

(* The marker for no row is nothing else.                                  *)
LEMMA NoneIsNoRow ==
  /\ \A r \in AppRow : r # None
  /\ \A r \in AppRequest : r # None
BY ApplicationsAssumption

-----------------------------------------------------------------------------
(* What AppIInv says of one worker.                                        *)
AppWorkerOK(w) ==
  /\ Idle(w) \/ areq[w] = None
  /\ areq[w] # None /\ areq[w].op = "apply" => ~Submitted(areq[w].id)
  /\ areq[w] # None /\ areq[w].op = "decide" =>
       /\ Submitted(areq[w].app)
       /\ areq[w].stage # "waiting" => appHolder[areq[w].app] = w /\ MayDecide(areq[w])
       /\ areq[w].stage \in {"locked", "missing"} => areq[w].target = "APPROVED"

KeysApart ==
  \A v, w \in Workers :
    /\ v # w
    /\ areq[v] # None /\ areq[v].op = "apply"
    /\ areq[w] # None /\ areq[w].op = "apply"
    => areq[v].id # areq[w].id

(* The invariant is about one worker at a time, beside what it says of the *)
(* tables alone.                                                           *)
LEMMA AppIInvByWorker ==
  /\ AppIInv <=> /\ RoleIInv /\ KeysApart /\ NoticesFollowDecisions
                 /\ \A w \in Workers : AppWorkerOK(w)
  /\ AppIInv' <=> /\ RoleIInv' /\ KeysApart' /\ NoticesFollowDecisions'
                  /\ \A w \in Workers : AppWorkerOK(w)'
BY DEF AppIInv, ServesOne, KeysOfTheirOwn, DecisionsLocked, AppWorkerOK, KeysApart

(* What a step of w leaves to another worker.                              *)
LEMMA AppOthersRely ==
  ASSUME AppTypeOK, NEW v \in Workers, AppWorkerOK(v),
         req'[v] = req[v], areq'[v] = areq[v],
         \A p \in AppIds : Submitted(p) => application'[p] # None,
         \A p \in AppIds : Submitted(p) /\ appHolder[p] = v =>
           appHolder'[p] = v /\ application'[p] = application[p],
         areq[v] # None /\ areq[v].op = "apply" => application'[areq[v].id] = None
  PROVE  AppWorkerOK(v)'
<1>1. CASE areq[v] = None
  BY <1>1 DEF AppWorkerOK, Idle
<1>2. CASE areq[v] # None /\ areq[v].op = "apply"
  BY <1>2 DEF AppWorkerOK, Idle, Submitted
<1>3. CASE areq[v] # None /\ areq[v].op = "decide"
  <2> DEFINE p == areq[v].app
  <2>1. p \in AppIds
    BY <1>3, AppRequestFields
  <2>2. /\ Idle(v) /\ Submitted(p)
        /\ areq[v].stage # "waiting" => appHolder[p] = v /\ MayDecide(areq[v])
        /\ areq[v].stage \in {"locked", "missing"} => areq[v].target = "APPROVED"
    BY <1>3 DEF AppWorkerOK
  <2>3. application'[p] # None
    BY <2>1, <2>2
  <2>4. areq[v].stage # "waiting" => appHolder'[p] = v /\ application'[p] = application[p]
    BY <2>1, <2>2
  <2>5. areq[v].stage # "waiting" =>
          /\ areq[v].target \in Target(application'[p].status)
          /\ areq[v].target = "REJECTED" => areq[v].reason
    BY <2>2, <2>4 DEF MayDecide
  <2> QED
    BY <1>3, <2>2, <2>3, <2>4, <2>5 DEF AppWorkerOK, Idle, Submitted, MayDecide, Target
<1> QED
  BY <1>1, <1>2, <1>3, AppRequestFields

(* A step of w that leaves the rows locked by others alone, and makes no   *)
(* row but with the key it has.                                            *)
LEMMA AppStepOfOne ==
  ASSUME AppTypeOK, AppIInv, RoleIInv', NEW w \in Workers, AppWorkerOK(w)',
         \A v \in Workers : v # w => req'[v] = req[v] /\ areq'[v] = areq[v],
         \A p \in AppIds : Submitted(p) => application'[p] # None,
         \A p \in AppIds : Submitted(p) /\ appHolder[p] \in Workers \ {w} =>
           appHolder'[p] = appHolder[p] /\ application'[p] = application[p],
         \A p \in AppIds : ~Submitted(p) /\ application'[p] # None =>
           areq[w] # None /\ areq[w].op = "apply" /\ areq[w].id = p,
         areq'[w] # None /\ areq'[w].op = "apply" =>
           \A v \in Workers : v # w /\ areq[v] # None /\ areq[v].op = "apply"
                                => areq[v].id # areq'[w].id,
         NoticesFollowDecisions'
  PROVE  AppIInv'
<1>1. /\ KeysApart /\ \A v \in Workers : AppWorkerOK(v)
  BY AppIInvByWorker
<1>2. ASSUME NEW v \in Workers, v # w PROVE AppWorkerOK(v)'
  <2>1. /\ req'[v] = req[v] /\ areq'[v] = areq[v] /\ AppWorkerOK(v)
        /\ \A p \in AppIds : Submitted(p) /\ appHolder[p] = v =>
             appHolder'[p] = v /\ application'[p] = application[p]
    BY <1>1, <1>2
  <2>2. ASSUME areq[v] # None, areq[v].op = "apply" PROVE application'[areq[v].id] = None
    <3>1. areq[v].id \in AppIds /\ ~Submitted(areq[v].id)
      BY <2>1, <2>2, AppRequestFields DEF AppWorkerOK
    <3>2. ~(areq[w] # None /\ areq[w].op = "apply" /\ areq[w].id = areq[v].id)
      BY <1>1, <1>2, <2>2 DEF KeysApart
    <3> QED
      BY <3>1, <3>2
  <2> QED
    BY <2>1, <2>2, AppOthersRely
<1>3. KeysApart'
  BY <1>1 DEF KeysApart
<1> QED
  BY <1>2, <1>3, AppIInvByWorker

(* A step that changes no application and no notice.                       *)
LEMMA AppQuietStep ==
  ASSUME AppTypeOK, AppIInv, RoleIInv', NEW w \in Workers, AppWorkerOK(w)',
         UNCHANGED <<application, told>>,
         \A v \in Workers : v # w => req'[v] = req[v] /\ areq'[v] = areq[v],
         \A p \in AppIds : appHolder[p] \in Workers \ {w} => appHolder'[p] = appHolder[p],
         areq'[w] # None /\ areq'[w].op = "apply" =>
           \A v \in Workers : v # w /\ areq[v] # None /\ areq[v].op = "apply"
                                => areq[v].id # areq'[w].id
  PROVE  AppIInv'
<1>1. /\ NoticesFollowDecisions'
      /\ \A p \in AppIds : Submitted(p) => application'[p] # None
  BY DEF AppIInv, NoticesFollowDecisions, Submitted
<1>2. /\ \A p \in AppIds : Submitted(p) /\ appHolder[p] \in Workers \ {w} =>
           appHolder'[p] = appHolder[p] /\ application'[p] = application[p]
      /\ \A p \in AppIds : ~Submitted(p) /\ application'[p] # None =>
           areq[w] # None /\ areq[w].op = "apply" /\ areq[w].id = p
  BY DEF Submitted
<1> QED
  BY <1>1, <1>2, AppStepOfOne

-----------------------------------------------------------------------------
(* The requests of RoleTransactions, and the site.                         *)
LEMMA RoleStepFrame ==
  ASSUME TypeOK, RoleIInv, NEW w \in Workers,
         BeginRequest(w) \/ AtALock(w) \/ Advance(w) \/ Abort(w) \/ DeadlockAbort(w)
  PROVE  \A v \in Workers : v # w => req'[v] = req[v]
<1>1. CASE CommitGrant(w) \/ CommitRevoke(w) \/ CommitSwitch(w) \/ Rollback(w)
  <2>1. Finish(w)
    BY <1>1 DEF CommitGrant, CommitRevoke, CommitSwitch, Rollback
  <2> QED
    BY <2>1, FinishFacts
<1>2. CASE BeginRequest(w)
  BY <1>2 DEF BeginRequest, BeginSwitch, BeginChange, TypeOK
<1>3. CASE ~Rollback(w) /\ (LockForSwitch(w) \/ LockForGrant(w) \/ LockForRevoke(w))
  BY <1>3 DEF LockForSwitch, LockForGrant, LockForRevoke, GoTo, TypeOK
<1>4. CASE InsertRole(w) \/ StartCounting(w) \/ CountedRole(w) \/ CountedUser(w)
  BY <1>4 DEF InsertRole, StartCounting, CountedRole, CountedUser, GoTo, TypeOK
<1> QED
  BY <1>1, <1>2, <1>3, <1>4, WorkerStepCases

(* A step of #10, #42 or #43 leaves the applications alone and touches the *)
(* roles of others only as RoleProofs allows.                              *)
LEMMA RoleStepKeeps ==
  ASSUME AppTypeOK, AppIInv, NEW w \in Workers, RoleStep(w)
  PROVE  AppTypeOK' /\ AppIInv'
<1>1. /\ areq[w] = None /\ UNCHANGED appVars
      /\ BeginRequest(w) \/ AtALock(w) \/ Advance(w) \/ Abort(w)
  BY DEF RoleStep
<1>2. TypeOK /\ RoleIInv
  BY DEF AppTypeOK, AppIInv
<1>3. TypeOK' /\ RoleIInv' /\ \A v \in Workers : v # w => req'[v] = req[v]
  BY <1>1, <1>2, WorkerStepKeeps, RoleStepFrame
<1>4. AppTypeOK'
  BY <1>1, <1>3 DEF AppTypeOK, appVars
<1>5. AppWorkerOK(w)'
  BY <1>1 DEF AppWorkerOK, appVars
<1>6. /\ UNCHANGED <<application, told>>
      /\ \A v \in Workers : v # w => req'[v] = req[v] /\ areq'[v] = areq[v]
      /\ \A p \in AppIds : appHolder[p] \in Workers \ {w} => appHolder'[p] = appHolder[p]
      /\ areq'[w] = None
  BY <1>1, <1>3 DEF appVars
<1> QED
  BY <1>3, <1>4, <1>5, <1>6, AppQuietStep

(* A step that leaves the applications and the requests alone.             *)
LEMMA AppStillKeeps ==
  ASSUME AppTypeOK, AppIInv, UNCHANGED <<appVars, req>>, TypeOK', RoleIInv'
  PROVE  AppTypeOK' /\ AppIInv'
<1>1. UNCHANGED <<application, told, appHolder, areq, req>>
  BY DEF appVars
<1>2. AppTypeOK'
  BY <1>1 DEF AppTypeOK
<1>3. AppIInv'
  BY <1>1 DEF AppIInv, ServesOne, KeysOfTheirOwn, DecisionsLocked,
     NoticesFollowDecisions, Submitted, Idle, MayDecide
<1> QED
  BY <1>2, <1>3

(* The site freezes, thaws and dresses accounts that nobody holds.         *)
LEMMA AppSiteKeeps ==
  ASSUME AppTypeOK, AppIInv, SiteAction, UNCHANGED appVars
  PROVE  AppTypeOK' /\ AppIInv'
<1>1. TypeOK' /\ RoleIInv'
  BY SiteKeeps DEF AppTypeOK, AppIInv
<1>2. UNCHANGED req
  BY DEF SiteAction, SiteSetActive, SiteSetWorn
<1> QED
  BY <1>1, <1>2, AppStillKeeps

-----------------------------------------------------------------------------
(* A new request.                                                          *)
LEMMA AppStartKeeps ==
  ASSUME AppTypeOK, AppIInv, NEW w \in Workers, NEW r \in AppRequest, Start(w, r),
         r.op = "apply" =>
           /\ ~Submitted(r.id)
           /\ \A v \in Workers : areq[v] # None /\ areq[v].op = "apply" => areq[v].id # r.id,
         r.op = "decide" => Submitted(r.app) /\ r.stage = "waiting"
  PROVE  AppTypeOK' /\ AppIInv'
<1>1. /\ Idle(w) /\ areq' = [areq EXCEPT ![w] = r]
      /\ UNCHANGED <<vars, application, told, appHolder>>
  BY DEF Start
<1>2. TypeOK' /\ RoleIInv' /\ UNCHANGED req
  BY <1>1, RoleStutterKeeps DEF AppTypeOK, AppIInv, vars
<1>3. AppTypeOK'
  BY <1>1, <1>2 DEF AppTypeOK
<1>4. areq'[w] = r /\ \A v \in Workers : v # w => areq'[v] = areq[v]
  BY <1>1 DEF AppTypeOK
<1>5. AppWorkerOK(w)'
  BY <1>1, <1>2, <1>4 DEF AppWorkerOK, Idle, Submitted
<1>6. /\ UNCHANGED <<application, told>>
      /\ \A v \in Workers : v # w => req'[v] = req[v] /\ areq'[v] = areq[v]
      /\ \A p \in AppIds : appHolder[p] \in Workers \ {w} => appHolder'[p] = appHolder[p]
      /\ areq'[w] # None /\ areq'[w].op = "apply" =>
           \A v \in Workers : v # w /\ areq[v] # None /\ areq[v].op = "apply"
                                => areq[v].id # areq'[w].id
  BY <1>1, <1>2, <1>4
<1> QED
  BY <1>2, <1>3, <1>5, <1>6, AppQuietStep

(* #11 draws a key that no other request has.                              *)
LEMMA BeginApplyKeeps ==
  ASSUME AppTypeOK, AppIInv, NEW w \in Workers, NEW u \in Users, NEW n \in Names,
         NEW p \in AppIds, BeginApply(w, u, n, p)
  PROVE  AppTypeOK' /\ AppIInv'
<1> DEFINE r == [op |-> "apply", stage |-> "read", applicant |-> u, name |-> n,
                 holder |-> "ADVISOR" \in holds[u], id |-> p]
<1>1. Start(w, r) /\ ~AppKeyInUse(p)
  BY DEF BeginApply
<1>2. r \in AppRequest /\ r.op = "apply" /\ r.id = p
  BY DEF AppRequest, ApplyRequest
<1> HIDE DEF r
<1> QED
  BY <1>1, <1>2, AppStartKeeps DEF AppKeyInUse

(* #15 begins without a lock and without a claim.                          *)
LEMMA BeginDecideKeeps ==
  ASSUME AppTypeOK, AppIInv, NEW w \in Workers, NEW a \in Users, NEW p \in AppIds,
         NEW target \in Decision, NEW reason \in BOOLEAN,
         BeginDecide(w, a, p, target, reason)
  PROVE  AppTypeOK' /\ AppIInv'
<1> DEFINE r == [op |-> "decide", stage |-> "waiting", app |-> p, actor |-> a,
                 target |-> target, reason |-> reason, insert |-> FALSE]
<1>1. Start(w, r) /\ Submitted(p)
  BY DEF BeginDecide
<1>2. r \in AppRequest /\ r.op = "decide" /\ r.app = p /\ r.stage = "waiting"
  BY DEF AppRequest, DecideRequest
<1> HIDE DEF r
<1> QED
  BY <1>1, <1>2, AppStartKeeps

-----------------------------------------------------------------------------
(* A request that ends leaves nothing behind.                              *)
LEMMA CloseFacts ==
  ASSUME AppTypeOK, NEW w \in Workers, Close(w)
  PROVE  /\ Finish(w) /\ AppWorkerOK(w)'
         /\ appHolder' \in [AppIds -> Workers \cup {None}]
         /\ areq' \in [Workers -> AppRequest \cup {None}]
         /\ areq'[w] = None
         /\ \A v \in Workers : v # w => req'[v] = req[v] /\ areq'[v] = areq[v]
         /\ \A p \in AppIds : appHolder[p] \in Workers \ {w} => appHolder'[p] = appHolder[p]
<1>1. /\ Finish(w) /\ areq' = [areq EXCEPT ![w] = None]
      /\ appHolder' = [p \in AppIds |-> IF appHolder[p] = w THEN None ELSE appHolder[p]]
  BY DEF Close
<1>2. req'[w] = None /\ \A v \in Workers : v # w => req'[v] = req[v]
  BY <1>1, FinishFacts DEF AppTypeOK
<1>3. areq'[w] = None /\ \A v \in Workers : v # w => areq'[v] = areq[v]
  BY <1>1 DEF AppTypeOK
<1>4. AppWorkerOK(w)'
  BY <1>2, <1>3 DEF AppWorkerOK, Idle
<1> QED
  BY <1>1, <1>2, <1>3, <1>4 DEF AppTypeOK

(* Whatever ends a request early writes nothing and gives back its own     *)
(* locks.                                                                  *)
LEMMA UndoKeeps ==
  ASSUME AppTypeOK, AppIInv, NEW w \in Workers, Undo(w)
  PROVE  AppTypeOK' /\ AppIInv'
<1>1. Close(w) /\ UNCHANGED <<roleVars, order, application, told>>
  BY DEF Undo
<1>2. TypeOK' /\ RoleIInv'
  BY <1>1, RollbackKeeps DEF Close, Rollback, AppTypeOK, AppIInv
<1>3. AppTypeOK'
  BY <1>1, <1>2, CloseFacts DEF AppTypeOK
<1>4. AppIInv'
  BY <1>1, <1>2, CloseFacts, AppQuietStep
<1> QED
  BY <1>3, <1>4

(* A request for an application that is refused, or has made its row.      *)
LEMMA CheckBlockingKeeps ==
  ASSUME AppTypeOK, AppIInv, NEW w \in Workers, CheckBlocking(w)
  PROVE  AppTypeOK' /\ AppIInv'
<1> DEFINE h == [areq[w] EXCEPT !.stage = "checked"]
<1>1. /\ areq[w] # None /\ areq[w].op = "apply"
      /\ UNCHANGED <<vars, application, told, appHolder>>
      /\ areq' = [areq EXCEPT ![w] = h] \/ areq' = [areq EXCEPT ![w] = None]
  BY DEF CheckBlocking, Serving, Step
<1>2. areq[w] \in ApplyRequest
  BY <1>1, AppRequestFields
<1>3. h \in AppRequest /\ h.op = "apply" /\ h.id = areq[w].id
  BY <1>2 DEF ApplyRequest, AppRequest
<1> HIDE DEF h
<1>4. TypeOK' /\ RoleIInv' /\ UNCHANGED req
  BY <1>1, RoleStutterKeeps DEF AppTypeOK, AppIInv, vars
<1>5. AppTypeOK'
  BY <1>1, <1>3, <1>4 DEF AppTypeOK
<1>6. (areq'[w] = h \/ areq'[w] = None) /\ \A v \in Workers : v # w => areq'[v] = areq[v]
  BY <1>1 DEF AppTypeOK
<1>7. AppWorkerOK(w) /\ KeysApart
  BY AppIInvByWorker
<1>8. AppWorkerOK(w)'
  BY <1>1, <1>3, <1>4, <1>6, <1>7, NoneIsNoRow DEF AppWorkerOK, Idle, Submitted
<1>9. /\ UNCHANGED <<application, told>>
      /\ \A v \in Workers : v # w => req'[v] = req[v] /\ areq'[v] = areq[v]
      /\ \A p \in AppIds : appHolder[p] \in Workers \ {w} => appHolder'[p] = appHolder[p]
      /\ areq'[w] # None /\ areq'[w].op = "apply" =>
           \A v \in Workers : v # w /\ areq[v] # None /\ areq[v].op = "apply"
                                => areq[v].id # areq'[w].id
  BY <1>1, <1>3, <1>4, <1>6, <1>7 DEF KeysApart
<1> QED
  BY <1>4, <1>5, <1>8, <1>9, AppQuietStep

(* #11 inserts under its own key: nobody has been told of that application *)
(* yet.                                                                    *)
LEMMA InsertApplicationKeeps ==
  ASSUME AppTypeOK, AppIInv, NEW w \in Workers, InsertApplication(w)
  PROVE  AppTypeOK' /\ AppIInv'
<1> DEFINE q == areq[w].id
           row == [applicant |-> areq[w].applicant, name |-> areq[w].name,
                   status |-> "PENDING"]
<1>1. /\ areq[w] # None /\ areq[w].op = "apply"
      /\ UNCHANGED application \/ application' = [application EXCEPT ![q] = row]
      /\ areq' = [areq EXCEPT ![w] = None]
      /\ UNCHANGED <<vars, told, appHolder>>
  BY DEF InsertApplication, Serving
<1>2. /\ q \in AppIds /\ row \in AppRow /\ row # None /\ row.status = "PENDING"
  BY <1>1, AppRequestFields, NoneIsNoRow DEF AppRow, AppStatus
<1>3. application[q] = None
  BY <1>1, AppIInvByWorker DEF AppWorkerOK, Submitted
<1> HIDE DEF q, row
<1>4. TypeOK' /\ RoleIInv' /\ UNCHANGED req
  BY <1>1, RoleStutterKeeps DEF AppTypeOK, AppIInv, vars
<1>5. AppTypeOK'
  BY <1>1, <1>2, <1>4 DEF AppTypeOK
<1>6. areq'[w] = None /\ \A v \in Workers : v # w => areq'[v] = areq[v]
  BY <1>1 DEF AppTypeOK
<1>7. AppWorkerOK(w)'
  BY <1>6 DEF AppWorkerOK
<1>8. /\ \A p \in AppIds : application[p] # None => application'[p] = application[p]
      /\ \A p \in AppIds : application[p] = None /\ application'[p] # None =>
           p = q /\ application'[p] = row
  BY <1>1, <1>2, <1>3 DEF AppTypeOK
<1>9. NoticesFollowDecisions'
  BY <1>1, <1>2, <1>8 DEF AppIInv, NoticesFollowDecisions, Submitted
<1> QED
  BY <1>1, <1>4, <1>5, <1>6, <1>7, <1>8, <1>9, AppStepOfOne DEF Submitted, q

-----------------------------------------------------------------------------
(* A decision that goes on, with the application locked and allowed.       *)
LEMMA DecisionGoesOn ==
  ASSUME AppTypeOK, AppIInv, NEW w \in Workers, areq[w] # None, areq[w].op = "decide",
         NEW h \in AppRequest, areq' = [areq EXCEPT ![w] = h],
         h.op = "decide", h.app = areq[w].app, h.target = areq[w].target,
         h.reason = areq[w].reason,
         h.stage \in {"locked", "missing"} => h.target = "APPROVED",
         MayDecide(areq[w]), appHolder'[h.app] = w,
         appHolder' \in [AppIds -> Workers \cup {None}],
         \A p \in AppIds : appHolder[p] \in Workers \ {w} => appHolder'[p] = appHolder[p],
         UNCHANGED <<application, told, req>>, TypeOK', RoleIInv'
  PROVE  AppTypeOK' /\ AppIInv'
<1>1. AppTypeOK'
  BY DEF AppTypeOK
<1>2. areq'[w] = h /\ h # None /\ \A v \in Workers : v # w => areq'[v] = areq[v]
  BY NoneIsNoRow DEF AppTypeOK
<1>3. AppWorkerOK(w)
  BY AppIInvByWorker
<1>4. AppWorkerOK(w)'
  <2>1. /\ req'[w] = None
        /\ application'[h.app] # None
    BY <1>3 DEF AppWorkerOK, Idle, Submitted
  <2>2. /\ h.target \in Target(application'[h.app].status)
        /\ h.target = "REJECTED" => h.reason
    BY DEF MayDecide
  <2> QED
    BY <1>2, <2>1, <2>2 DEF AppWorkerOK, Idle, Submitted, MayDecide, Target
<1> QED
  BY <1>1, <1>2, <1>4, AppQuietStep

(* #15 checks under the lock that the application may still be decided.    *)
LEMMA LockForDecideKeeps ==
  ASSUME AppTypeOK, AppIInv, NEW w \in Workers, LockForDecide(w)
  PROVE  AppTypeOK' /\ AppIInv'
<1> DEFINE p == areq[w].app
           going == IF areq[w].target = "APPROVED" THEN "locked" ELSE "ready"
           h == [areq[w] EXCEPT !.stage = going]
<1>1. CASE Undo(w)
  BY <1>1, UndoKeeps
<1>2. CASE ~Undo(w)
  <2>1. /\ areq[w] # None /\ areq[w].op = "decide" /\ MayDecide(areq[w])
        /\ appHolder[p] = None /\ appHolder' = [appHolder EXCEPT ![p] = w]
        /\ areq' = [areq EXCEPT ![w] = h]
        /\ UNCHANGED <<vars, application, told>>
    BY <1>2 DEF LockForDecide, Serving, Step
  <2>2. areq[w] \in DecideRequest /\ p \in AppIds
    BY <2>1, AppRequestFields
  <2>3. /\ h \in AppRequest /\ h.op = "decide" /\ h.app = p /\ h.stage = going
        /\ h.target = areq[w].target /\ h.reason = areq[w].reason
    <3>1. going \in {"waiting", "locked", "missing", "ready"}
      OBVIOUS
    <3> HIDE DEF going
    <3>2. areq[w].op = "decide"
      BY <2>1
    <3> QED
      BY <2>2, <3>1, <3>2, DecideMoved
  <2>4. h.stage \in {"locked", "missing"} => h.target = "APPROVED"
    BY <2>3
  <2>5. TypeOK' /\ RoleIInv' /\ UNCHANGED req
    BY <2>1, RoleStutterKeeps DEF AppTypeOK, AppIInv, vars
  <2>6. /\ appHolder'[p] = w /\ appHolder' \in [AppIds -> Workers \cup {None}]
        /\ \A q \in AppIds : appHolder[q] \in Workers \ {w} => appHolder'[q] = appHolder[q]
    BY <2>1, <2>2, NoneIsNoWorker DEF AppTypeOK
  <2> HIDE DEF h, going, p
  <2> QED
    BY <2>1, <2>3, <2>4, <2>5, <2>6, DecisionGoesOn DEF p
<1> QED
  BY <1>1, <1>2

(* get_or_create finds the role, without locking it, or finds it missing.  *)
LEMMA FindRoleKeeps ==
  ASSUME AppTypeOK, AppIInv, NEW w \in Workers, FindRole(w)
  PROVE  AppTypeOK' /\ AppIInv'
<1> DEFINE going == IF "ADVISOR" \in holds[ApplicantOf(w)] THEN "ready" ELSE "missing"
           h == [areq[w] EXCEPT !.stage = going]
<1>1. /\ areq[w] # None /\ areq[w].op = "decide" /\ areq[w].stage = "locked"
      /\ areq' = [areq EXCEPT ![w] = h]
      /\ UNCHANGED <<vars, application, told, appHolder>>
  BY DEF FindRole, Serving, Step
<1>2. areq[w] \in DecideRequest /\ areq[w].app \in AppIds
  BY <1>1, AppRequestFields
<1>3. /\ MayDecide(areq[w]) /\ appHolder[areq[w].app] = w
      /\ areq[w].target = "APPROVED"
  BY <1>1, AppIInvByWorker DEF AppWorkerOK
<1>4. /\ h \in AppRequest /\ h.op = "decide" /\ h.app = areq[w].app
      /\ h.target = areq[w].target /\ h.reason = areq[w].reason
  <2>1. going \in {"waiting", "locked", "missing", "ready"}
    OBVIOUS
  <2> HIDE DEF going
  <2>2. areq[w].op = "decide"
    BY <1>1
  <2> QED
    BY <1>2, <2>1, <2>2, DecideMoved
<1>5. TypeOK' /\ RoleIInv' /\ UNCHANGED req
  BY <1>1, RoleStutterKeeps DEF AppTypeOK, AppIInv, vars
<1>6. appHolder' = appHolder /\ appHolder' \in [AppIds -> Workers \cup {None}]
  BY <1>1 DEF AppTypeOK
<1> HIDE DEF h, going
<1> QED
  BY <1>1, <1>3, <1>4, <1>5, <1>6, DecisionGoesOn

(* get_or_create inserts the role that it did not find, or waits for who   *)
(* else is inserting it.                                                   *)
LEMMA CreateRoleKeeps ==
  ASSUME AppTypeOK, AppIInv, NEW w \in Workers, CreateRole(w)
  PROVE  AppTypeOK' /\ AppIInv'
<1> DEFINE u == ApplicantOf(w)
           g == [areq[w] EXCEPT !.stage = "ready"]
           i == [areq[w] EXCEPT !.stage = "ready", !.insert = TRUE]
<1>1. /\ areq[w] # None /\ areq[w].op = "decide" /\ areq[w].stage = "missing"
      /\ RoleFree(w, u, "ADVISOR")
      /\ \/ UNCHANGED roleHolder /\ areq' = [areq EXCEPT ![w] = g]
         \/ LockRole(w, u, "ADVISOR") /\ areq' = [areq EXCEPT ![w] = i]
      /\ UNCHANGED <<roleVars, order, userHolder, req, application, told, appHolder>>
  BY DEF CreateRole, Serving, Step
<1>2. areq[w] \in DecideRequest /\ areq[w].app \in AppIds
  BY <1>1, AppRequestFields
<1>3. /\ MayDecide(areq[w]) /\ appHolder[areq[w].app] = w /\ Submitted(areq[w].app)
      /\ areq[w].target = "APPROVED" /\ Idle(w)
  BY <1>1, AppIInvByWorker DEF AppWorkerOK
<1>4. u \in Users
  BY <1>2, <1>3, AppFields DEF ApplicantOf
<1>5. PICK h \in AppRequest :
        /\ h.op = "decide" /\ h.app = areq[w].app /\ h.stage = "ready"
        /\ h.target = areq[w].target /\ h.reason = areq[w].reason
        /\ areq' = [areq EXCEPT ![w] = h]
  <2>1. /\ g \in AppRequest /\ g.op = "decide" /\ g.app = areq[w].app /\ g.stage = "ready"
        /\ g.target = areq[w].target /\ g.reason = areq[w].reason
        /\ i \in AppRequest /\ i.op = "decide" /\ i.app = areq[w].app /\ i.stage = "ready"
        /\ i.target = areq[w].target /\ i.reason = areq[w].reason
    BY <1>1, <1>2, DecideMoved, DecideInserted
  <2> HIDE DEF g, i
  <2> QED
    BY <1>1, <2>1
<1> HIDE DEF u, g, i
<1>6. /\ roleHolder' \in [Users -> [Grantable -> Workers \cup {None}]]
      /\ \A x \in Users, r \in Grantable :
           roleHolder[x][r] \in Workers \ {w} => roleHolder'[x][r] = roleHolder[x][r]
  <2>1. CASE UNCHANGED roleHolder
    BY <2>1 DEF AppTypeOK, TypeOK
  <2>2. CASE LockRole(w, u, "ADVISOR")
    <3>1. TypeOK /\ "ADVISOR" \in Grantable
      BY DEF AppTypeOK, Grantable
    <3> QED
      BY <1>1, <1>4, <2>2, <3>1, LockRoleFacts
  <2> QED
    BY <1>1, <2>1, <2>2
<1>7. TypeOK'
  BY <1>1, <1>6 DEF AppTypeOK, TypeOK, roleVars
<1>8. RoleIInv'
  <2>1. WorkerOK(w)'
    BY <1>1, <1>3 DEF WorkerOK, Idle
  <2>2. TypeOK /\ RoleIInv
    BY DEF AppTypeOK, AppIInv
  <2>3. /\ \A v \in Workers : v # w => req'[v] = req[v]
        /\ \A x \in Users : userHolder[x] \in Workers \ {w} => userHolder'[x] = userHolder[x]
        /\ \A x \in Users : userHolder[x] \in Workers \ {w}
                              => holds'[x] = holds[x] /\ active'[x] = active[x]
    BY <1>1 DEF roleVars
  <2> QED
    BY <1>6, <2>1, <2>2, <2>3, StepOfOne
<1>9. appHolder' = appHolder /\ appHolder' \in [AppIds -> Workers \cup {None}]
  BY <1>1 DEF AppTypeOK
<1> QED
  BY <1>1, <1>3, <1>5, <1>7, <1>8, <1>9, DecisionGoesOn

-----------------------------------------------------------------------------
(* The decision itself, and what it makes of the application.              *)
LEMMA ReadyFacts ==
  ASSUME AppTypeOK, AppIInv, NEW w \in Workers, KeysFree(w)
  PROVE  LET r == areq[w]  p == r.app IN
         /\ r # None /\ r.op = "decide" /\ p \in AppIds /\ Submitted(p)
         /\ appHolder[p] = w /\ Idle(w)
         /\ application[p] \in AppRow /\ ApplicantOf(w) \in Users /\ r.actor \in Users
         /\ UserFree(w, ApplicantOf(w))
         /\ <<application[p].status, r.target>> \in
              {<<"PENDING", "REVIEWING">>, <<"REVIEWING", "APPROVED">>, <<"REVIEWING", "REJECTED">>}
<1>1. /\ areq[w] # None /\ areq[w].op = "decide" /\ areq[w].stage = "ready"
      /\ UserFree(w, ApplicantOf(w))
  BY DEF KeysFree, Serving
<1>2. /\ areq[w].app \in AppIds /\ areq[w].actor \in Users
      /\ areq[w].target \in Decision
  BY <1>1, AppRequestFields
<1>3. /\ Submitted(areq[w].app) /\ appHolder[areq[w].app] = w /\ Idle(w)
      /\ areq[w].target \in Target(application[areq[w].app].status)
  BY <1>1, AppIInvByWorker DEF AppWorkerOK, MayDecide
<1>4. /\ application[areq[w].app] \in AppRow /\ ApplicantOf(w) \in Users
      /\ application[areq[w].app].status \in AppStatus
  BY <1>2, <1>3, AppFields DEF ApplicantOf
<1> QED
  BY <1>1, <1>2, <1>3, <1>4 DEF Target, AppStatus

(* A decision changes the status of the application and nothing else of    *)
(* it.                                                                     *)
LEMMA StatusSet ==
  ASSUME NEW row \in AppRow, NEW s \in AppStatus
  PROVE  LET after == [row EXCEPT !.status = s] IN
         after \in AppRow /\ after.status = s /\ after.applicant = row.applicant
BY DEF AppRow

(* A decision on an application it holds is the first, so its notice is    *)
(* too.                                                                    *)
LEMMA DecisionKeeps ==
  ASSUME AppTypeOK, AppIInv, NEW w \in Workers, KeysFree(w), Close(w),
         application' = [application EXCEPT ![areq[w].app].status = areq[w].target],
         told' = [told EXCEPT ![areq[w].app][areq[w].target] = @ + 1],
         TypeOK', RoleIInv'
  PROVE  AppTypeOK' /\ AppIInv'
<1> DEFINE p == areq[w].app
           t == areq[w].target
           row == [application[p] EXCEPT !.status = t]
<1>1. /\ p \in AppIds /\ Submitted(p) /\ appHolder[p] = w /\ application[p] \in AppRow
      /\ <<application[p].status, t>> \in
           {<<"PENDING", "REVIEWING">>, <<"REVIEWING", "APPROVED">>, <<"REVIEWING", "REJECTED">>}
  BY ReadyFacts
<1>2. application' = [application EXCEPT ![p] = row]
  OBVIOUS
<1>3. row \in AppRow /\ row.status = t /\ row # None
  <2>1. t \in AppStatus
    BY <1>1 DEF AppStatus
  <2> HIDE DEF t, p
  <2> QED
    BY <1>1, <2>1, StatusSet, NoneIsNoRow
<1>4. /\ t \in Decision /\ told[p] \in [Decision -> Nat]
      /\ \A d \in {"APPROVED", "REJECTED"} :
           told[p][d] = IF application[p].status = d THEN 1 ELSE 0
  BY <1>1 DEF AppTypeOK, AppIInv, NoticesFollowDecisions, Decision
<1>5. /\ told' \in [AppIds -> [Decision -> Nat]]
      /\ \A q \in AppIds : q # p => told'[q] = told[q]
      /\ \A d \in Decision : told'[p][d] = IF d = t THEN told[p][d] + 1 ELSE told[p][d]
  <2>1. told \in [AppIds -> [Decision -> Nat]]
    BY DEF AppTypeOK
  <2>2. told' = [told EXCEPT ![p][t] = @ + 1]
    OBVIOUS
  <2> HIDE DEF p, t
  <2> QED
    BY <1>1, <1>4, <2>1, <2>2
<1> HIDE DEF p, t, row
<1>6. /\ application' \in [AppIds -> AppRow \cup {None}] /\ application'[p] = row
      /\ \A q \in AppIds : q # p => application'[q] = application[q]
  BY <1>1, <1>2, <1>3 DEF AppTypeOK
<1>7. AppTypeOK'
  BY <1>5, <1>6, CloseFacts DEF AppTypeOK
<1>8. \A d \in {"APPROVED", "REJECTED"} :
        told'[p][d] = IF application'[p].status = d THEN 1 ELSE 0
  <2>1. application'[p].status = t /\ application[p].status \in {"PENDING", "REVIEWING"}
    BY <1>1, <1>3, <1>6
  <2>2. ASSUME NEW d \in {"APPROVED", "REJECTED"}
        PROVE  told[p][d] = 0 /\ d \in Decision
    BY <1>4, <2>1 DEF Decision
  <2> QED
    BY <1>5, <2>1, <2>2
<1>9. NoticesFollowDecisions'
  BY <1>3, <1>5, <1>6, <1>8 DEF AppIInv, NoticesFollowDecisions, Submitted
<1>10. /\ \A q \in AppIds : Submitted(q) => application'[q] # None
       /\ \A q \in AppIds : Submitted(q) /\ appHolder[q] \in Workers \ {w} =>
            appHolder'[q] = appHolder[q] /\ application'[q] = application[q]
       /\ \A q \in AppIds : ~Submitted(q) /\ application'[q] # None =>
            areq[w] # None /\ areq[w].op = "apply" /\ areq[w].id = q
  BY <1>1, <1>3, <1>6, CloseFacts DEF Submitted
<1>11. /\ AppWorkerOK(w)' /\ areq'[w] = None
       /\ \A v \in Workers : v # w => req'[v] = req[v] /\ areq'[v] = areq[v]
  BY CloseFacts
<1>12. AppIInv'
  BY <1>9, <1>10, <1>11, AppStepOfOne
<1> QED
  BY <1>7, <1>12

(* An approval commits the application, the role and the audit row at      *)
(* once.                                                                   *)
LEMMA CommitApprovalKeeps ==
  ASSUME AppTypeOK, AppIInv, NEW w \in Workers, CommitApproval(w)
  PROVE  AppTypeOK' /\ AppIInv'
<1> DEFINE u == ApplicantOf(w)
<1>1. /\ KeysFree(w) /\ areq[w].target = "APPROVED" /\ Close(w)
      /\ application' = [application EXCEPT ![areq[w].app].status = areq[w].target]
      /\ told' = [told EXCEPT ![areq[w].app][areq[w].target] = @ + 1]
      /\ holds' = holds \/ holds' = [holds EXCEPT ![u] = @ \cup {"ADVISOR"}]
      /\ Record(u, "ADVISOR", "GRANT") /\ UNCHANGED <<worn, active, order>>
  BY DEF CommitApproval
<1>2. /\ u \in Users /\ userHolder[u] \in {None, w} /\ "ADVISOR" \in Grantable
      /\ TypeOK /\ RoleIInv /\ Finish(w) /\ "GRANT" \in Change
  BY <1>1, ReadyFacts DEF UserFree, Grantable, Change, Close, AppTypeOK, AppIInv
<1> HIDE DEF u
<1>3. audit' \in [Users -> [Grantable -> Seq(Change)]]
  BY <1>1, <1>2, RecordFacts
<1>4. /\ holds' \in [Users -> SUBSET Grantable]
      /\ \A x \in Users : x # u => holds'[x] = holds[x]
  <2>1. holds \in [Users -> SUBSET Grantable]
    BY <1>2 DEF TypeOK
  <2>2. holds[u] \cup {"ADVISOR"} \in SUBSET Grantable
    BY <1>2, <2>1
  <2>3. holds' = holds \/ holds' = [holds EXCEPT ![u] = holds[u] \cup {"ADVISOR"}]
    BY <1>1
  <2> QED
    BY <1>2, <2>1, <2>2, <2>3
<1>5. TypeOK'
  BY <1>1, <1>2, <1>3, <1>4, FinishFacts DEF TypeOK
<1>6. \A x \in Users : userHolder[x] \in Workers \ {w}
                         => holds'[x] = holds[x] /\ active'[x] = active[x]
  BY <1>1, <1>2, <1>4, NoneIsNoWorker
<1>7. RoleIInv'
  BY <1>2, <1>6, EndKeepsInvariant
<1> QED
  BY <1>1, <1>5, <1>7, DecisionKeeps

(* So does any other decision, without a role.                             *)
LEMMA CommitOtherKeeps ==
  ASSUME AppTypeOK, AppIInv, NEW w \in Workers, CommitOther(w)
  PROVE  AppTypeOK' /\ AppIInv'
<1>1. /\ KeysFree(w) /\ areq[w].target # "APPROVED" /\ Close(w)
      /\ application' = [application EXCEPT ![areq[w].app].status = areq[w].target]
      /\ told' = [told EXCEPT ![areq[w].app][areq[w].target] = @ + 1]
      /\ UNCHANGED <<roleVars, order>>
  BY DEF CommitOther
<1>2. TypeOK' /\ RoleIInv'
  BY <1>1, RollbackKeeps DEF Close, Rollback, AppTypeOK, AppIInv
<1> QED
  BY <1>1, <1>2, DecisionKeeps

-----------------------------------------------------------------------------
(* The beginnings of the two requests.                                     *)
LEMMA BeginAppRequestKeeps ==
  ASSUME AppTypeOK, AppIInv, NEW w \in Workers, BeginAppRequest(w)
  PROVE  AppTypeOK' /\ AppIInv'
<1>1. PICK u \in Users, p \in AppIds :
        \/ \E n \in Names : BeginApply(w, u, n, p)
        \/ \E t \in Decision, reason \in BOOLEAN : BeginDecide(w, u, p, t, reason)
  BY DEF BeginAppRequest
<1> QED
  BY <1>1, BeginApplyKeeps, BeginDecideKeeps

(* Every step keeps the invariant.                                         *)
LEMMA AppInvariantStep ==
  ASSUME AppTypeOK, AppIInv, [AppNext]_allVars
  PROVE  AppTypeOK' /\ AppIInv'
<1>1. ASSUME NEW w \in Workers,
             RoleStep(w) \/ BeginAppRequest(w) \/ AtAnAppLock(w) \/ AppAdvance(w)
               \/ AbortApplication(w) \/ AppDeadlockAbort(w)
      PROVE  AppTypeOK' /\ AppIInv'
  <2>1. CASE RoleStep(w)
    BY <2>1, RoleStepKeeps
  <2>2. CASE BeginAppRequest(w)
    BY <2>2, BeginAppRequestKeeps
  <2>3. CASE AtAnAppLock(w)
    BY <2>3, InsertApplicationKeeps, LockForDecideKeeps, CreateRoleKeeps,
       CommitApprovalKeeps, CommitOtherKeeps DEF AtAnAppLock
  <2>4. CASE AppAdvance(w)
    BY <2>4, CheckBlockingKeeps, FindRoleKeeps DEF AppAdvance
  <2>5. CASE AbortApplication(w) \/ AppDeadlockAbort(w)
    BY <2>5, UndoKeeps DEF AbortApplication, AppDeadlockAbort
  <2> QED
    BY <1>1, <2>1, <2>2, <2>3, <2>4, <2>5
<1>2. CASE SiteAction /\ UNCHANGED appVars
  BY <1>2, AppSiteKeeps
<1>3. CASE UNCHANGED allVars
  <2>1. UNCHANGED <<vars, appVars, req>>
    BY <1>3 DEF allVars, vars
  <2>2. TypeOK' /\ RoleIInv'
    BY <2>1, RoleStutterKeeps DEF AppTypeOK, AppIInv
  <2> QED
    BY <2>1, <2>2, AppStillKeeps
<1> QED
  BY <1>1, <1>2, <1>3 DEF AppNext

(* Empty tables and idle workers satisfy the invariant.                    *)
LEMMA AppInvariantInit ==
  ASSUME AppInit
  PROVE  AppTypeOK /\ AppIInv
<1>1. TypeOK /\ RoleIInv
  BY RoleInvariantInit DEF AppInit
<1>2. AppTypeOK
  BY <1>1 DEF AppInit, AppTypeOK
<1>3. AppIInv
  BY <1>1 DEF AppInit, AppIInv, ServesOne, KeysOfTheirOwn, DecisionsLocked,
     NoticesFollowDecisions, Submitted, Decision
<1> QED
  BY <1>2, <1>3

(* A decision past its lock holds the application, which is still as it    *)
(* was found to be; every application has a key of its own, and has been   *)
(* told of the decisions that were made and of nothing else.               *)
THEOREM AppInvariance == AppSpec => [](AppTypeOK /\ AppIInv)
<1>1. AppInit => AppTypeOK /\ AppIInv
  BY AppInvariantInit
<1>2. AppTypeOK /\ AppIInv /\ [AppNext]_allVars => (AppTypeOK /\ AppIInv)'
  BY AppInvariantStep
<1> QED
  BY <1>1, <1>2, PTL DEF AppSpec

(* Every table, lock and request of both applications is well formed.      *)
THEOREM AppTypeCorrect == AppSpec => []AppTypeOK
BY AppInvariance, PTL

(* An applicant has been told once of the approval or the rejection that   *)
(* stands, and of none that does not (NoticesFollowDecisions).             *)
THEOREM NoticesAreDecisions == AppSpec => []NoticesFollowDecisions
<1>1. AppIInv => NoticesFollowDecisions
  BY DEF AppIInv
<1> QED
  BY <1>1, AppInvariance, PTL

-----------------------------------------------------------------------------
(* What a step can do, for the tables: an operation of RoleTransactions, a *)
(* decision, or nothing to the roles and at most a new application.        *)
LEMMA AppStepEffect ==
  ASSUME AppTypeOK, AppIInv, [AppNext]_allVars
  PROVE  \/ (RoleOperation \/ SiteAction) /\ UNCHANGED appVars
         \/ \E w \in Workers : CommitApproval(w) \/ CommitOther(w)
         \/ UNCHANGED roleVars /\ \A p \in AppIds : Submitted(p) => application'[p] = application[p]
<1> DEFINE Quiet == /\ UNCHANGED roleVars
                    /\ \A p \in AppIds : Submitted(p) => application'[p] = application[p]
<1>1. ASSUME NEW w \in Workers, RoleStep(w)
      PROVE  ((RoleOperation \/ SiteAction) /\ UNCHANGED appVars) \/ Quiet
  <2>1. UNCHANGED appVars /\ (RoleOperation \/ UNCHANGED roleVars)
    BY <1>1, WorkerEffect DEF RoleStep, AppTypeOK, AppIInv
  <2> QED
    BY <2>1 DEF appVars
<1>2. ASSUME NEW w \in Workers, BeginAppRequest(w) PROVE Quiet
  BY <1>2 DEF BeginAppRequest, BeginApply, BeginDecide, Start, vars
<1>3. ASSUME NEW w \in Workers, InsertApplication(w) PROVE Quiet
  <2>1. /\ areq[w] # None /\ areq[w].op = "apply" /\ UNCHANGED vars
        /\ \/ UNCHANGED application
           \/ \E row : application' = [application EXCEPT ![areq[w].id] = row]
    BY <1>3 DEF InsertApplication, Serving
  <2>2. ~Submitted(areq[w].id)
    BY <2>1, AppIInvByWorker DEF AppWorkerOK
  <2> QED
    BY <2>1, <2>2 DEF vars, AppTypeOK
<1>4. ASSUME NEW w \in Workers, LockForDecide(w) \/ CreateRole(w) \/ AppAdvance(w) \/ Undo(w)
      PROVE  Quiet
  BY <1>4 DEF LockForDecide, CreateRole, AppAdvance, CheckBlocking, FindRole, Undo, vars
<1>5. CASE UNCHANGED allVars
  BY <1>5 DEF allVars, vars, appVars
<1>6. ASSUME NEW w \in Workers, BeginAppRequest(w) \/ AtAnAppLock(w) \/ AppAdvance(w)
                                  \/ AbortApplication(w) \/ AppDeadlockAbort(w)
      PROVE  CommitApproval(w) \/ CommitOther(w) \/ Quiet
  BY <1>2, <1>3, <1>4, <1>6 DEF AtAnAppLock, AbortApplication, AppDeadlockAbort
<1> QED
  BY <1>1, <1>5, <1>6 DEF AppNext

(* An approval gives the applicant the role, or leaves it as it was, and   *)
(* records it; any other decision touches no role.                         *)
LEMMA ApprovalFacts ==
  ASSUME AppTypeOK, AppIInv, NEW w \in Workers, CommitApproval(w)
  PROVE  LET u == ApplicantOf(w) IN
         /\ u \in Users /\ Record(u, "ADVISOR", "GRANT") /\ UNCHANGED <<worn, active>>
         /\ holds' = holds \/ holds' = [holds EXCEPT ![u] = @ \cup {"ADVISOR"}]
         /\ audit' \in [Users -> [Grantable -> Seq(Change)]]
         /\ audit'[u]["ADVISOR"] = Append(audit[u]["ADVISOR"], "GRANT")
         /\ \A x \in Users, r \in Grantable :
              x # u \/ r # "ADVISOR" => audit'[x][r] = audit[x][r]
<1> DEFINE u == ApplicantOf(w)
<1>1. /\ KeysFree(w) /\ Record(u, "ADVISOR", "GRANT") /\ UNCHANGED <<worn, active>>
      /\ holds' = holds \/ holds' = [holds EXCEPT ![u] = @ \cup {"ADVISOR"}]
  BY DEF CommitApproval
<1>2. /\ u \in Users /\ TypeOK /\ "ADVISOR" \in Grantable /\ "GRANT" \in Change
  BY <1>1, ReadyFacts DEF AppTypeOK, Grantable, Change
<1> HIDE DEF u
<1> QED
  BY <1>1, <1>2, RecordFacts DEF u

(* A decision follows from the one before it, is never overwritten, and    *)
(* only an approval is added to the trail (DecisionStands).                *)
THEOREM DecisionsStand == AppSpec => DecisionStands
<1> DEFINE Stands(p) ==
             /\ <<application[p].status, application'[p].status>> \in
                  {<<"PENDING", "REVIEWING">>, <<"REVIEWING", "APPROVED">>,
                   <<"REVIEWING", "REJECTED">>}
             /\ Len(audit'[application[p].applicant]["ADVISOR"])
                  = Len(audit[application[p].applicant]["ADVISOR"])
                    + IF application'[p].status = "APPROVED" THEN 1 ELSE 0
<1>1. ASSUME AppTypeOK, AppIInv, [AppNext]_allVars, NEW p \in AppIds, Submitted(p),
             application'[p] # application[p]
      PROVE  Stands(p)
  <2>1. PICK w \in Workers : CommitApproval(w) \/ CommitOther(w)
    BY <1>1, AppStepEffect DEF appVars
  <2>2. /\ KeysFree(w)
        /\ application' = [application EXCEPT ![areq[w].app].status = areq[w].target]
    BY <2>1 DEF CommitApproval, CommitOther
  <2>3. /\ areq[w].app \in AppIds /\ application[areq[w].app] \in AppRow
        /\ <<application[areq[w].app].status, areq[w].target>> \in
             {<<"PENDING", "REVIEWING">>, <<"REVIEWING", "APPROVED">>,
              <<"REVIEWING", "REJECTED">>}
    BY <1>1, <2>2, ReadyFacts
  <2>4. /\ p = areq[w].app /\ application'[p] = [application[p] EXCEPT !.status = areq[w].target]
    BY <1>1, <2>2, <2>3 DEF AppTypeOK
  <2>5. application'[p].status = areq[w].target
    <3>1. areq[w].target \in AppStatus
      BY <2>3 DEF AppStatus
    <3> QED
      BY <2>3, <2>4, <3>1, StatusSet
  <2>6. application[p].applicant = ApplicantOf(w) /\ ApplicantOf(w) \in Users
    BY <1>1, <2>2, <2>4, ReadyFacts DEF ApplicantOf
  <2>7. audit[ApplicantOf(w)]["ADVISOR"] \in Seq(Change)
    BY <1>1, <2>6 DEF AppTypeOK, TypeOK, Grantable
  <2> DEFINE trail == audit[ApplicantOf(w)]["ADVISOR"]
             after == audit'[ApplicantOf(w)]["ADVISOR"]
  <2>8. Len(after) = Len(trail) + IF areq[w].target = "APPROVED" THEN 1 ELSE 0
    <3>1. Len(trail) \in Nat
      BY <2>7, LenProperties
    <3>2. CASE CommitApproval(w)
      <4>1. areq[w].target = "APPROVED" /\ after = Append(trail, "GRANT") /\ "GRANT" \in Change
        BY <1>1, <3>2, ApprovalFacts DEF CommitApproval, Change
      <4>2. Len(Append(trail, "GRANT")) = Len(trail) + 1
        BY <2>7, <4>1, AppendProperties
      <4> QED
        BY <4>1, <4>2
    <3>3. CASE CommitOther(w)
      <4>1. areq[w].target # "APPROVED" /\ audit' = audit
        BY <3>3 DEF CommitOther, roleVars
      <4> QED
        BY <3>1, <4>1
    <3> QED
      BY <2>1, <3>2, <3>3
  <2> QED
    BY <2>3, <2>4, <2>5, <2>6, <2>8
<1>2. AppTypeOK /\ AppIInv /\ [AppNext]_allVars =>
        [\A p \in AppIds : Submitted(p) /\ application'[p] # application[p] => Stands(p)]_allVars
  BY <1>1
<1> QED
  BY <1>2, AppInvariance, PTL DEF AppSpec, DecisionStands

-----------------------------------------------------------------------------
(* The trail of one account and role after an operation of Roles.          *)
LEMMA LastOfLonger ==
  ASSUME NEW trail \in Seq(Change), NEW change \in Change
  PROVE  LET longer == Append(trail, change) IN
         longer # <<>> /\ longer[Len(longer)] = change
<1>1. /\ Append(trail, change) \in Seq(Change) /\ Len(trail) \in Nat
      /\ Len(Append(trail, change)) = Len(trail) + 1
      /\ Append(trail, change)[Len(trail) + 1] = change
  BY AppendProperties, LenProperties
<1> QED
  BY <1>1, EmptySeq

(* The operations of Roles keep HeldRoleIsAudited.                         *)
LEMMA OperationAudits ==
  ASSUME AppTypeOK, HeldRoleIsAudited, RoleOperation \/ SiteAction
  PROVE  HeldRoleIsAudited'
<1>1. ASSUME NEW u \in Users, "ADVISOR" \in holds'[u]
      PROVE  /\ audit'[u]["ADVISOR"] # <<>>
             /\ audit'[u]["ADVISOR"][Len(audit'[u]["ADVISOR"])] = "GRANT"
  <2>1. TypeOK /\ "ADVISOR" \in Grantable /\ "GRANT" \in Change /\ "REVOKE" \in Change
    BY DEF AppTypeOK, Grantable, Change
  <2>2. CASE UNCHANGED <<holds, audit>>
    BY <1>1, <2>2 DEF HeldRoleIsAudited
  <2>3. ASSUME NEW x \in Users, NEW r \in Grantable, Grant(x, r)
        PROVE  /\ audit'[u]["ADVISOR"] # <<>>
               /\ audit'[u]["ADVISOR"][Len(audit'[u]["ADVISOR"])] = "GRANT"
    <3>1. /\ audit'[x][r] = Append(audit[x][r], "GRANT") /\ audit[x][r] \in Seq(Change)
          /\ \A y \in Users, s \in Grantable : y # x \/ s # r => audit'[y][s] = audit[y][s]
      BY <2>1, <2>3, RecordFacts DEF Grant, TypeOK
    <3>2. CASE x = u /\ r = "ADVISOR"
      BY <2>1, <3>1, <3>2, LastOfLonger
    <3>3. CASE x # u \/ r # "ADVISOR"
      <4>1. "ADVISOR" \in holds[u]
        BY <1>1, <2>1, <2>3, <3>3 DEF Grant, TypeOK
      <4> QED
        BY <2>1, <3>1, <3>3, <4>1 DEF HeldRoleIsAudited
    <3> QED
      BY <3>2, <3>3
  <2>4. ASSUME NEW x \in Users, NEW r \in Grantable, Revoke(x, r)
        PROVE  /\ audit'[u]["ADVISOR"] # <<>>
               /\ audit'[u]["ADVISOR"][Len(audit'[u]["ADVISOR"])] = "GRANT"
    <3>1. \A y \in Users, s \in Grantable : y # x \/ s # r => audit'[y][s] = audit[y][s]
      BY <2>1, <2>4, RecordFacts DEF Revoke
    <3>2. "ADVISOR" \in holds[u] /\ (x # u \/ r # "ADVISOR")
      BY <1>1, <2>1, <2>4 DEF Revoke, TypeOK
    <3> QED
      BY <2>1, <3>1, <3>2 DEF HeldRoleIsAudited
  <2>5. UNCHANGED <<holds, audit>> \/ \E x \in Users, r \in Grantable : Grant(x, r) \/ Revoke(x, r)
    BY SiteEffect DEF RoleOperation, Switch, SetActive, SetWorn
  <2> QED
    BY <2>2, <2>3, <2>4, <2>5
<1> QED
  BY <1>1 DEF HeldRoleIsAudited

(* An approval adds its GRANT last, whether it found the role or not.      *)
LEMMA ApprovalAudits ==
  ASSUME AppTypeOK, AppIInv, HeldRoleIsAudited, NEW w \in Workers, CommitApproval(w)
  PROVE  HeldRoleIsAudited'
<1> DEFINE u == ApplicantOf(w)
<1>1. /\ u \in Users
      /\ holds' = holds \/ holds' = [holds EXCEPT ![u] = @ \cup {"ADVISOR"}]
      /\ audit'[u]["ADVISOR"] = Append(audit[u]["ADVISOR"], "GRANT")
      /\ \A x \in Users : x # u => audit'[x]["ADVISOR"] = audit[x]["ADVISOR"]
  BY ApprovalFacts DEF Grantable
<1>2. /\ audit[u]["ADVISOR"] \in Seq(Change) /\ holds \in [Users -> SUBSET Grantable]
      /\ "GRANT" \in Change
  BY <1>1 DEF AppTypeOK, TypeOK, Grantable, Change
<1> HIDE DEF u
<1>3. ASSUME NEW x \in Users, "ADVISOR" \in holds'[x]
      PROVE  /\ audit'[x]["ADVISOR"] # <<>>
             /\ audit'[x]["ADVISOR"][Len(audit'[x]["ADVISOR"])] = "GRANT"
  <2>1. CASE x = u
    BY <1>1, <1>2, <2>1, LastOfLonger
  <2>2. CASE x # u
    <3>1. holds'[x] = holds[x]
      BY <1>1, <1>2, <2>2
    <3> QED
      BY <1>1, <1>3, <2>2, <3>1 DEF HeldRoleIsAudited
  <2> QED
    BY <2>1, <2>2
<1> QED
  BY <1>3 DEF HeldRoleIsAudited

(* Three operations grant and revoke the role under different locks, and   *)
(* the last audit row of a role that is held is a grant (HeldRoleIsAudited).*)
THEOREM HeldIsAudited == AppSpec => []HeldRoleIsAudited
<1>1. AppInit => HeldRoleIsAudited
  <2>1. AppInit => \A u \in Users : holds[u] = {} \/ holds[u] = {"ADMIN"}
    BY DEF AppInit, Init, RolesInit
  <2> QED
    BY <2>1 DEF HeldRoleIsAudited
<1>2. AppTypeOK /\ AppIInv /\ HeldRoleIsAudited /\ [AppNext]_allVars => HeldRoleIsAudited'
  <2> SUFFICES ASSUME AppTypeOK, AppIInv, HeldRoleIsAudited, [AppNext]_allVars
               PROVE  HeldRoleIsAudited'
    OBVIOUS
  <2>1. CASE UNCHANGED roleVars
    BY <2>1 DEF roleVars, HeldRoleIsAudited
  <2>2. ASSUME NEW w \in Workers, CommitOther(w) PROVE UNCHANGED roleVars
    BY <2>2 DEF CommitOther
  <2> QED
    BY <2>1, <2>2, AppStepEffect, OperationAudits, ApprovalAudits
<1> QED
  BY <1>1, <1>2, AppInvariance, PTL DEF AppSpec

-----------------------------------------------------------------------------
(* An approval dresses nobody.                                             *)
LEMMA ApprovalDresses ==
  ASSUME AppTypeOK, AppIInv, NEW w \in Workers, CommitApproval(w)
  PROVE  Misdressed' \subseteq Misdressed
<1>1. PICK u \in Users :
        /\ UNCHANGED worn
        /\ holds' = holds \/ holds' = [holds EXCEPT ![u] = @ \cup {"ADVISOR"}]
  BY ApprovalFacts
<1>2. \A x \in Users : holds[x] \subseteq holds'[x]
  BY <1>1 DEF AppTypeOK, TypeOK
<1> QED
  BY <1>1, <1>2 DEF Misdressed

(* With approvals as well, whoever wears ADVISOR without holding it was    *)
(* dressed by the site (OnlyTheSiteMisdresses).                            *)
THEOREM ApprovalsDressRight == AppSpec => OnlyTheSiteMisdresses
<1>1. ASSUME AppTypeOK, AppIInv, [AppNext]_allVars
      PROVE  [Misdressed' \subseteq Misdressed \/ SiteAction]_vars
  <2>1. TypeOK
    BY <1>1 DEF AppTypeOK
  <2>2. CASE RoleOperation \/ UNCHANGED roleVars
    BY <2>1, <2>2, OperationDresses
  <2>3. ASSUME NEW w \in Workers, CommitOther(w) PROVE UNCHANGED roleVars
    BY <2>3 DEF CommitOther
  <2> QED
    BY <1>1, <2>2, <2>3, AppStepEffect, ApprovalDresses
<1> QED
  BY <1>1, AppInvariance, PTL DEF AppSpec, OnlyTheSiteMisdresses

-----------------------------------------------------------------------------
(* A place in the index that another worker holds is kept, and the role is *)
(* granted by nobody else meanwhile.                                       *)
LEMMA RoleStepKeepsPlaces ==
  ASSUME TypeOK, RoleIInv, NEW w \in Workers,
         BeginRequest(w) \/ AtALock(w) \/ Advance(w) \/ Abort(w) \/ DeadlockAbort(w),
         NEW u \in Users, NEW r \in Grantable, roleHolder[u][r] \in Workers \ {w}
  PROVE  roleHolder'[u][r] = roleHolder[u][r] /\ (r \notin holds[u] => r \notin holds'[u])
<1>1. CASE CommitSwitch(w) \/ Rollback(w)
  BY <1>1, FinishFacts DEF CommitSwitch, Rollback, roleVars
<1>2. CASE CommitGrant(w)
  <2>1. /\ Finish(w) /\ req[w].user \in Users /\ req[w].role \in Grantable
        /\ holds' = [holds EXCEPT ![req[w].user] = @ \cup {req[w].role}]
    BY <1>2, GrantFacts DEF Grant
  <2>2. roleHolder[req[w].user][req[w].role] = w
    BY <1>2, RoleIInvByWorker DEF CommitGrant, At, WorkerOK
  <2> QED
    BY <2>1, <2>2, FinishFacts DEF TypeOK
<1>3. CASE CommitRevoke(w)
  <2>1. Finish(w) /\ holds' = [holds EXCEPT ![req[w].user] = @ \ {req[w].role}]
    BY <1>3 DEF CommitRevoke
  <2> QED
    BY <2>1, FinishFacts DEF TypeOK
<1>4. CASE BeginRequest(w)
  BY <1>4 DEF BeginRequest, BeginSwitch, BeginChange, roleVars, lockVars
<1>5. CASE ~Rollback(w) /\ (LockForSwitch(w) \/ LockForGrant(w) \/ LockForRevoke(w))
  BY <1>5 DEF LockForSwitch, LockForGrant, LockForRevoke, roleVars
<1>6. ASSUME NEW x, NEW s, RoleFree(w, x, s), LockRole(w, x, s)
      PROVE  roleHolder'[u][r] = roleHolder[u][r]
  BY <1>6, NoneIsNoWorker DEF RoleFree, LockRole, TypeOK
<1>7. CASE InsertRole(w) \/ StartCounting(w) \/ CountedRole(w) \/ CountedUser(w)
  <2>1. UNCHANGED roleVars
    BY <1>7 DEF InsertRole, StartCounting, CountedRole, CountedUser
  <2>2. UNCHANGED roleHolder \/ \E x, s : RoleFree(w, x, s) /\ LockRole(w, x, s)
    BY <1>7 DEF InsertRole, StartCounting, CountedRole, CountedUser, lockVars
  <2> QED
    BY <1>6, <2>1, <2>2 DEF roleVars
<1> QED
  BY <1>1, <1>2, <1>3, <1>4, <1>5, <1>7, WorkerStepCases

(* The same of a worker that serves an application.                        *)
LEMMA AppStepKeepsPlaces ==
  ASSUME AppTypeOK, AppIInv, ApprovalMeetsNoDuplicate, NEW w \in Workers,
         BeginAppRequest(w) \/ AtAnAppLock(w) \/ AppAdvance(w)
           \/ AbortApplication(w) \/ AppDeadlockAbort(w),
         NEW u \in Users, roleHolder[u]["ADVISOR"] \in Workers \ {w}
  PROVE  /\ roleHolder'[u]["ADVISOR"] = roleHolder[u]["ADVISOR"]
         /\ "ADVISOR" \notin holds[u] => "ADVISOR" \notin holds'[u]
<1>1. TypeOK /\ "ADVISOR" \in Grantable
  BY DEF AppTypeOK, Grantable
<1>2. CASE Undo(w) \/ CommitOther(w)
  <2>1. Finish(w) /\ UNCHANGED holds
    BY <1>2 DEF Undo, CommitOther, Close, roleVars
  <2> QED
    BY <1>1, <2>1, FinishFacts
<1>3. CASE CommitApproval(w)
  <2>1. Finish(w)
    BY <1>3 DEF CommitApproval, Close
  <2>2. areq[w].insert => u # ApplicantOf(w)
    <3>1. areq[w] # None /\ areq[w].op = "decide"
      BY <1>3, ReadyFacts DEF CommitApproval
    <3> QED
      BY <3>1 DEF ApprovalMeetsNoDuplicate
  <2>3. holds' = IF areq[w].insert THEN [holds EXCEPT ![ApplicantOf(w)] = @ \cup {"ADVISOR"}]
                                   ELSE holds
    BY <1>3 DEF CommitApproval
  <2> QED
    BY <1>1, <2>1, <2>2, <2>3, FinishFacts DEF TypeOK
<1>4. CASE CreateRole(w)
  <2>1. /\ RoleFree(w, ApplicantOf(w), "ADVISOR") /\ UNCHANGED holds
        /\ UNCHANGED roleHolder \/ LockRole(w, ApplicantOf(w), "ADVISOR")
    BY <1>4 DEF CreateRole, roleVars
  <2> QED
    BY <1>1, <2>1, NoneIsNoWorker DEF RoleFree, LockRole, TypeOK
<1>5. CASE ~Undo(w) /\ (BeginAppRequest(w) \/ InsertApplication(w) \/ LockForDecide(w)
                          \/ AppAdvance(w))
  BY <1>5 DEF BeginAppRequest, BeginApply, BeginDecide, Start, InsertApplication,
     LockForDecide, AppAdvance, CheckBlocking, FindRole, vars, roleVars, lockVars
<1> QED
  BY <1>2, <1>3, <1>4, <1>5 DEF AtAnAppLock, AbortApplication, AppDeadlockAbort

(* What another worker serves is left alone.                               *)
LEMMA AppStepFrame ==
  ASSUME AppTypeOK, NEW w \in Workers,
         BeginAppRequest(w) \/ AtAnAppLock(w) \/ AppAdvance(w)
           \/ AbortApplication(w) \/ AppDeadlockAbort(w),
         NEW v \in Workers, v # w
  PROVE  areq'[v] = areq[v]
<1>1. CASE Undo(w) \/ CommitOther(w) \/ CommitApproval(w)
  <2>1. Close(w)
    BY <1>1 DEF Undo, CommitOther, CommitApproval
  <2> QED
    BY <2>1, CloseFacts
<1>2. CASE BeginAppRequest(w)
  BY <1>2 DEF BeginAppRequest, BeginApply, BeginDecide, Start, AppTypeOK
<1>3. CASE ~Undo(w) /\ (InsertApplication(w) \/ LockForDecide(w) \/ CreateRole(w)
                          \/ AppAdvance(w))
  BY <1>3 DEF InsertApplication, LockForDecide, CreateRole, AppAdvance, CheckBlocking,
     FindRole, Step, AppTypeOK
<1> QED
  BY <1>1, <1>2, <1>3 DEF AtAnAppLock, AbortApplication, AppDeadlockAbort

(* What ApprovalMeetsNoDuplicate says of one worker.                       *)
PlaceHeld(w) ==
  areq[w] # None /\ areq[w].op = "decide" /\ areq[w].insert =>
    /\ areq[w].stage = "ready"
    /\ "ADVISOR" \notin holds[ApplicantOf(w)] /\ roleHolder[ApplicantOf(w)]["ADVISOR"] = w

(* Of the worker that takes the step.                                      *)
LEMMA OwnPlaceHeld ==
  ASSUME AppTypeOK, AppIInv, NEW w \in Workers, PlaceHeld(w),
         BeginAppRequest(w) \/ AtAnAppLock(w) \/ AppAdvance(w)
           \/ AbortApplication(w) \/ AppDeadlockAbort(w)
  PROVE  PlaceHeld(w)'
<1> DEFINE r == areq[w]
<1>1. CASE areq'[w] = None
  BY <1>1 DEF PlaceHeld
<1>2. CASE areq'[w] # None /\ areq'[w].op = "apply"
  BY <1>2 DEF PlaceHeld
<1>3. CASE BeginAppRequest(w)
  <2>1. PICK q \in AppRequest : areq' = [areq EXCEPT ![w] = q] /\ (q.op = "decide" => ~q.insert)
    <3>1. PICK u \in Users, p \in AppIds :
            \/ \E n \in Names : BeginApply(w, u, n, p)
            \/ \E t \in Decision, reason \in BOOLEAN : BeginDecide(w, u, p, t, reason)
      BY <1>3 DEF BeginAppRequest
    <3>2. CASE \E n \in Names : BeginApply(w, u, n, p)
      <4>1. PICK n \in Names : BeginApply(w, u, n, p)
        BY <3>2
      <4> DEFINE a == [op |-> "apply", stage |-> "read", applicant |-> u, name |-> n,
                       holder |-> "ADVISOR" \in holds[u], id |-> p]
      <4>2. a \in AppRequest /\ a.op = "apply" /\ areq' = [areq EXCEPT ![w] = a]
        BY <4>1 DEF BeginApply, Start, AppRequest, ApplyRequest
      <4> HIDE DEF a
      <4> QED
        BY <4>2
    <3>3. CASE \E t \in Decision, reason \in BOOLEAN : BeginDecide(w, u, p, t, reason)
      <4>1. PICK t \in Decision, reason \in BOOLEAN : BeginDecide(w, u, p, t, reason)
        BY <3>3
      <4> DEFINE d == [op |-> "decide", stage |-> "waiting", app |-> p, actor |-> u,
                       target |-> t, reason |-> reason, insert |-> FALSE]
      <4>2. d \in AppRequest /\ ~d.insert /\ areq' = [areq EXCEPT ![w] = d]
        BY <4>1 DEF BeginDecide, Start, AppRequest, DecideRequest
      <4> HIDE DEF d
      <4> QED
        BY <4>2
    <3> QED
      BY <3>1, <3>2, <3>3
  <2>2. areq'[w] = q
    BY <2>1 DEF AppTypeOK
  <2> QED
    BY <2>1, <2>2 DEF PlaceHeld
<1>4. CASE ~Undo(w) /\ (LockForDecide(w) \/ FindRole(w))
  <2>1. PICK to : /\ areq' = [areq EXCEPT ![w] = [areq[w] EXCEPT !.stage = to]]
                  /\ r # None /\ r.op = "decide" /\ r.stage \in {"waiting", "locked"}
    BY <1>4 DEF LockForDecide, FindRole, Step, Serving
  <2>2. r \in DecideRequest
    BY <2>1, AppRequestFields
  <2>3. ~r.insert
    BY <2>1 DEF PlaceHeld
  <2>4. areq'[w].insert = r.insert
    BY <2>1, <2>2 DEF AppTypeOK, DecideRequest
  <2> QED
    BY <2>3, <2>4 DEF PlaceHeld
<1>5. CASE CreateRole(w)
  <2> DEFINE u == ApplicantOf(w)
             g == [areq[w] EXCEPT !.stage = "ready"]
             i == [areq[w] EXCEPT !.stage = "ready", !.insert = TRUE]
  <2>1. /\ r # None /\ r.op = "decide" /\ r.stage = "missing" /\ RoleFree(w, u, "ADVISOR")
        /\ \/ areq' = [areq EXCEPT ![w] = g]
           \/ /\ "ADVISOR" \notin holds[u] /\ LockRole(w, u, "ADVISOR")
              /\ areq' = [areq EXCEPT ![w] = i]
        /\ UNCHANGED <<roleVars, application>>
    BY <1>5 DEF CreateRole, Serving, Step
  <2>2. r \in DecideRequest /\ r.app \in AppIds
    BY <2>1, AppRequestFields
  <2>3. ~r.insert
    BY <2>1 DEF PlaceHeld
  <2>4. CASE areq' = [areq EXCEPT ![w] = g]
    <3>1. areq'[w].insert = r.insert
      BY <2>2, <2>4 DEF AppTypeOK, DecideRequest
    <3> QED
      BY <2>3, <3>1 DEF PlaceHeld
  <2>5. CASE /\ "ADVISOR" \notin holds[u] /\ LockRole(w, u, "ADVISOR")
             /\ areq' = [areq EXCEPT ![w] = i]
    <3>1. u \in Users /\ "ADVISOR" \in Grantable /\ TypeOK
      <4>1. Submitted(r.app)
        BY <2>1, AppIInvByWorker DEF AppWorkerOK
      <4> QED
        BY <2>2, <4>1, AppFields DEF ApplicantOf, Grantable, AppTypeOK
    <3>2. areq'[w].stage = "ready" /\ areq'[w].app = r.app
      BY <2>2, <2>5 DEF AppTypeOK, DecideRequest
    <3>3. application'[areq'[w].app].applicant = u
      BY <2>1, <3>2 DEF ApplicantOf
    <3>4. roleHolder'[u]["ADVISOR"] = w
      BY <2>1, <2>5, <3>1, LockRoleFacts
    <3>5. "ADVISOR" \notin holds'[u]
      BY <2>1, <2>5 DEF roleVars
    <3> HIDE DEF u
    <3> QED
      BY <3>2, <3>3, <3>4, <3>5 DEF PlaceHeld, ApplicantOf
  <2> QED
    BY <2>1, <2>4, <2>5
<1>6. CASE CheckBlocking(w)
  <2>1. areq[w] # None /\ areq[w].op = "apply"
    BY <1>6 DEF CheckBlocking, Serving
  <2>2. areq[w] \in ApplyRequest
    BY <2>1, AppRequestFields
  <2>3. areq' = [areq EXCEPT ![w].stage = "checked"] \/ areq' = [areq EXCEPT ![w] = None]
    BY <1>6 DEF CheckBlocking, Step
  <2>4. areq'[w] = None \/ areq'[w].op = "apply"
    BY <2>1, <2>2, <2>3 DEF AppTypeOK, ApplyRequest
  <2> QED
    BY <1>1, <1>2, <2>4
<1>7. CASE InsertApplication(w)
  BY <1>1, <1>7 DEF InsertApplication, AppTypeOK
<1>8. CASE Undo(w) \/ CommitOther(w) \/ CommitApproval(w)
  <2>1. Close(w)
    BY <1>8 DEF Undo, CommitOther, CommitApproval
  <2> QED
    BY <1>1, <2>1, CloseFacts
<1> QED
  BY <1>3, <1>4, <1>5, <1>6, <1>7, <1>8
     DEF AtAnAppLock, AppAdvance, AbortApplication, AppDeadlockAbort

(* Of a worker that leaves the step to another.                            *)
LEMMA OthersPlaceHeld ==
  ASSUME AppTypeOK, AppIInv, NEW v \in Workers, PlaceHeld(v),
         areq'[v] = areq[v],
         \A p \in AppIds : Submitted(p) /\ appHolder[p] = v => application'[p] = application[p],
         \A u \in Users : roleHolder[u]["ADVISOR"] = v =>
           /\ roleHolder'[u]["ADVISOR"] = v
           /\ "ADVISOR" \notin holds[u] => "ADVISOR" \notin holds'[u]
  PROVE  PlaceHeld(v)'
<1> SUFFICES ASSUME areq[v] # None, areq[v].op = "decide", areq[v].insert
             PROVE  PlaceHeld(v)'
  BY DEF PlaceHeld
<1>1. /\ areq[v].stage = "ready" /\ "ADVISOR" \notin holds[ApplicantOf(v)]
      /\ roleHolder[ApplicantOf(v)]["ADVISOR"] = v
  BY DEF PlaceHeld
<1>2. /\ areq[v].app \in AppIds /\ Submitted(areq[v].app) /\ appHolder[areq[v].app] = v
  BY <1>1, AppRequestFields, AppIInvByWorker DEF AppWorkerOK
<1>3. application'[areq[v].app] = application[areq[v].app] /\ ApplicantOf(v) \in Users
  BY <1>2, AppFields DEF ApplicantOf
<1> QED
  BY <1>1, <1>3 DEF PlaceHeld, ApplicantOf

(* A step of a worker leaves alone every application that it does not      *)
(* hold.                                                                   *)
LEMMA AppRowFrame ==
  ASSUME AppTypeOK, AppIInv, NEW w \in Workers,
         BeginAppRequest(w) \/ AtAnAppLock(w) \/ AppAdvance(w)
           \/ AbortApplication(w) \/ AppDeadlockAbort(w),
         NEW p \in AppIds, Submitted(p), appHolder[p] # w
  PROVE  application'[p] = application[p]
<1>1. CASE CommitApproval(w) \/ CommitOther(w)
  <2>1. KeysFree(w) /\ \E s : application' = [application EXCEPT ![areq[w].app].status = s]
    BY <1>1 DEF CommitApproval, CommitOther
  <2>2. areq[w].app # p
    BY <2>1, ReadyFacts
  <2> QED
    BY <2>1, <2>2 DEF AppTypeOK
<1>2. CASE InsertApplication(w)
  <2>1. /\ areq[w] # None /\ areq[w].op = "apply"
        /\ \/ UNCHANGED application
           \/ \E row : application' = [application EXCEPT ![areq[w].id] = row]
    BY <1>2 DEF InsertApplication, Serving
  <2>2. ~Submitted(areq[w].id)
    BY <2>1, AppIInvByWorker DEF AppWorkerOK
  <2> QED
    BY <2>1, <2>2 DEF AppTypeOK
<1>3. CASE BeginAppRequest(w) \/ LockForDecide(w) \/ CreateRole(w) \/ AppAdvance(w) \/ Undo(w)
  BY <1>3 DEF BeginAppRequest, BeginApply, BeginDecide, Start, LockForDecide, CreateRole,
     AppAdvance, CheckBlocking, FindRole, Undo
<1> QED
  BY <1>1, <1>2, <1>3 DEF AtAnAppLock, AbortApplication, AppDeadlockAbort

(* No approval of #15 inserts a role that is there, whoever grants it at   *)
(* the same time (ApprovalMeetsNoDuplicate).                               *)
THEOREM ApprovalsAreNew == AppSpec => []ApprovalMeetsNoDuplicate
<1>1. AppInit => ApprovalMeetsNoDuplicate
  BY DEF AppInit, ApprovalMeetsNoDuplicate
<1>2. ASSUME AppTypeOK, AppIInv, ApprovalMeetsNoDuplicate, [AppNext]_allVars
      PROVE  ApprovalMeetsNoDuplicate'
  <2>1. (\A v \in Workers : PlaceHeld(v))
        /\ ((\A v \in Workers : PlaceHeld(v)') => ApprovalMeetsNoDuplicate')
    BY <1>2 DEF ApprovalMeetsNoDuplicate, PlaceHeld
  <2>2. ASSUME NEW w \in Workers, RoleStep(w), NEW v \in Workers
        PROVE  PlaceHeld(v)'
    <3>1. /\ areq[w] = None /\ UNCHANGED appVars /\ TypeOK /\ RoleIInv
          /\ BeginRequest(w) \/ AtALock(w) \/ Advance(w) \/ Abort(w)
      BY <1>2, <2>2 DEF RoleStep, AppTypeOK, AppIInv
    <3>2. CASE v = w
      BY <3>1, <3>2 DEF PlaceHeld, appVars
    <3>3. CASE v # w
      <4>1. \A u \in Users : roleHolder[u]["ADVISOR"] = v =>
              /\ roleHolder'[u]["ADVISOR"] = v
              /\ "ADVISOR" \notin holds[u] => "ADVISOR" \notin holds'[u]
        BY <3>1, <3>3, RoleStepKeepsPlaces DEF Grantable
      <4> QED
        BY <1>2, <2>1, <3>1, <4>1, OthersPlaceHeld DEF appVars
    <3> QED
      BY <3>2, <3>3
  <2>3. ASSUME NEW w \in Workers,
               BeginAppRequest(w) \/ AtAnAppLock(w) \/ AppAdvance(w)
                 \/ AbortApplication(w) \/ AppDeadlockAbort(w),
               NEW v \in Workers
        PROVE  PlaceHeld(v)'
    <3>1. CASE v = w
      BY <1>2, <2>1, <2>3, <3>1, OwnPlaceHeld
    <3>2. CASE v # w
      <4>1. areq'[v] = areq[v]
        BY <1>2, <2>3, <3>2, AppStepFrame
      <4>2. \A p \in AppIds : Submitted(p) /\ appHolder[p] = v => application'[p] = application[p]
        BY <1>2, <2>3, <3>2, AppRowFrame
      <4>3. \A u \in Users : roleHolder[u]["ADVISOR"] = v =>
              /\ roleHolder'[u]["ADVISOR"] = v
              /\ "ADVISOR" \notin holds[u] => "ADVISOR" \notin holds'[u]
        BY <1>2, <2>3, <3>2, AppStepKeepsPlaces
      <4> QED
        BY <1>2, <2>1, <4>1, <4>2, <4>3, OthersPlaceHeld
    <3> QED
      BY <3>1, <3>2
  <2>4. CASE (SiteAction /\ UNCHANGED appVars) \/ UNCHANGED allVars
    <3>1. UNCHANGED <<holds, roleHolder, application, areq>>
      BY <2>4 DEF SiteAction, SiteSetActive, SiteSetWorn, SetActive, SetWorn, lockVars,
         appVars, allVars, vars, roleVars
    <3> QED
      BY <1>2, <3>1 DEF ApprovalMeetsNoDuplicate, ApplicantOf
  <2> QED
    BY <1>2, <2>1, <2>2, <2>3, <2>4 DEF AppNext
<1> QED
  BY <1>1, <1>2, AppInvariance, PTL DEF AppSpec

(* With approvals as well, no grant of #42 inserts a role that is there:   *)
(* an approval of the same user waits for the User row (deferred key).     *)
THEOREM GrantsStayNew == AppSpec => []GrantMeetsNoDuplicate
<1>1. AppIInv => GrantMeetsNoDuplicate
  BY DEF AppIInv, RoleIInv
<1> QED
  BY <1>1, AppInvariance, PTL

-----------------------------------------------------------------------------
(* An approval that did not insert the role had found it when it looked.   *)
LEMMA ApprovalOfHolder ==
  ASSUME AppTypeOK, AppIInv, NEW w \in Workers, CommitApproval(w), ~areq[w].insert
  PROVE  ApprovesHolder(w)
<1> DEFINE p == areq[w].app
<1>1. /\ KeysFree(w) /\ areq[w].target = "APPROVED"
      /\ application' = [application EXCEPT ![p].status = "APPROVED"]
  BY DEF CommitApproval
<1>2. /\ p \in AppIds /\ application[p] \in AppRow /\ application[p].status = "REVIEWING"
  BY <1>1, ReadyFacts
<1>3. application'[p] = [application[p] EXCEPT !.status = "APPROVED"]
  BY <1>1, <1>2 DEF AppTypeOK
<1>4. application'[p].status = "APPROVED"
  BY <1>2, <1>3, StatusSet DEF AppStatus
<1> QED
  BY <1>1, <1>2, <1>4 DEF ApprovesHolder, KeysFree

(* #15 next to #10, #42 and #43 does what Roles promises, operation for    *)
(* operation, but for an approval that found the role in place when it     *)
(* looked (RolesPromiseWithApprovals).                                     *)
THEOREM ApprovalsKeepPromise == AppSpec => RolesPromiseWithApprovals
<1> DEFINE AuditOnly == \E w \in Workers :
             /\ ApprovesHolder(w) /\ Record(ApplicantOf(w), "ADVISOR", "GRANT")
             /\ UNCHANGED <<holds, worn, active>>
<1>1. AppInit => RolesInit
  BY DEF AppInit, Init
<1>2. ASSUME AppTypeOK, AppIInv, ApprovalMeetsNoDuplicate, NEW w \in Workers,
             CommitApproval(w)
      PROVE  RolesNext \/ AuditOnly
  <2> DEFINE u == ApplicantOf(w)
  <2>1. /\ u \in Users /\ areq[w] # None /\ areq[w].op = "decide"
        /\ Record(u, "ADVISOR", "GRANT") /\ UNCHANGED <<worn, active>>
        /\ holds' = IF areq[w].insert THEN [holds EXCEPT ![u] = @ \cup {"ADVISOR"}] ELSE holds
    BY <1>2, ApprovalFacts DEF CommitApproval, KeysFree, Serving
  <2>2. CASE ~areq[w].insert
    BY <1>2, <2>1, <2>2, ApprovalOfHolder
  <2>3. CASE areq[w].insert
    <3>1. "ADVISOR" \notin holds[u]
      BY <1>2, <2>1, <2>3 DEF ApprovalMeetsNoDuplicate
    <3>2. Grant(u, "ADVISOR") /\ "ADVISOR" \in Grantable
      BY <2>1, <2>3, <3>1 DEF Grant, Grantable
    <3> QED
      BY <2>1, <3>2 DEF RolesNext
  <2> QED
    BY <2>2, <2>3
<1>3. ASSUME AppTypeOK, AppIInv, ApprovalMeetsNoDuplicate, [AppNext]_allVars
      PROVE  [RolesNext \/ AuditOnly]_roleVars
  <2>1. CASE RoleOperation
    BY <2>1 DEF RoleOperation, RolesNext
  <2>2. CASE SiteAction
    BY <2>2, SiteEffect DEF RolesNext
  <2>3. ASSUME NEW w \in Workers, CommitOther(w) PROVE UNCHANGED roleVars
    BY <2>3 DEF CommitOther
  <2> QED
    BY <1>2, <1>3, <2>1, <2>2, <2>3, AppStepEffect
<1> QED
  BY <1>1, <1>3, AppInvariance, ApprovalsAreNew, PTL DEF AppSpec, RolesPromiseWithApprovals
=============================================================================
