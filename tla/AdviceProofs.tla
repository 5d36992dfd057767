---------------------------- MODULE AdviceProofs ----------------------------
(***************************************************************************)
(* Machine-checked proofs about Advice, for every number of concerns,      *)
(* advices, advisors, bodies and workers.                                  *)
(***************************************************************************)
EXTENDS Advice, ConcernsProofs, FiniteSetTheorems

(* The steps of a worker in an advice request.                             *)
AdviceMove(w) ==
  BeginAdviceRequest(w) \/ AtAnAdviceLock(w) \/ CommitAdvice(w) \/ AbortAdvice(w)

(* What the fields of an advice request hold, by the kind of request.      *)
LEMMA AdviceRequestFields ==
  ASSUME AdviceTypeOK, NEW w \in Workers, areq[w] # None
  PROVE  /\ areq[w] \in AdviceRequest
         /\ areq[w].op \in {"create", "update", "withdraw", "decide"}
         /\ areq[w].op = "create" => areq[w] \in CreateRequest
         /\ areq[w].op = "update" => areq[w] \in UpdateRequest
         /\ areq[w].op = "withdraw" => areq[w] \in WithdrawRequest
         /\ areq[w].op = "decide" => areq[w] \in DecideRequest
         /\ areq[w].op # "create" =>
              areq[w].advice \in AdviceIds /\ areq[w].stage \in Stage
<1>1. areq[w] \in AdviceRequest
  BY DEF AdviceTypeOK
<1> QED
  BY <1>1 DEF AdviceRequest, CreateRequest, UpdateRequest, WithdrawRequest,
     DecideRequest, Stage

(* A request that is granted its lock differs in its stage and its copy.   *)
LEMMA HeldRequest ==
  ASSUME NEW r \in AdviceRequest, r.op # "create", NEW s \in AdviceRow
  PROVE  LET h == [r EXCEPT !.stage = "locked", !.seen = s] IN
         /\ h \in AdviceRequest
         /\ h.op = r.op /\ h.advice = r.advice /\ h.stage = "locked" /\ h.seen = s
         /\ r.op = "decide" => /\ h.version = r.version /\ h.read = r.read
                               /\ h.approve = r.approve /\ h.reason = r.reason
<1> USE DEF Stage
<1>1. r \in UpdateRequest \/ r \in WithdrawRequest \/ r \in DecideRequest
  BY DEF AdviceRequest, CreateRequest
<1>2. CASE r \in UpdateRequest
  BY <1>2 DEF AdviceRequest, UpdateRequest
<1>3. CASE r \in WithdrawRequest
  BY <1>3 DEF AdviceRequest, WithdrawRequest
<1>4. CASE r \in DecideRequest
  BY <1>4 DEF AdviceRequest, DecideRequest
<1> QED
  BY <1>1, <1>2, <1>3, <1>4

-----------------------------------------------------------------------------
(* Refinement: every step is a step of Concerns or leaves it alone.        *)

(* A step of the concerns application moves no worker that serves an       *)
(* advice request, and begins no review.                                   *)
LEMMA ConcernStepFrame ==
  ASSUME TypeOK, IInv, ConcernStep
  PROVE  /\ Next /\ UNCHANGED adviceVars
         /\ \A x \in Workers :
              /\ areq[x] # None => req'[x] = req[x]
              /\ req'[x] # None /\ req'[x].op = "review"
                   => req[x] # None /\ req[x].op = "review"
<1> SUFFICES ASSUME NEW x \in Workers
             PROVE  /\ areq[x] # None => req'[x] = req[x]
                    /\ req'[x] # None /\ req'[x].op = "review"
                         => req[x] # None /\ req[x].op = "review"
  BY DEF ConcernStep, Next, BeginRequest
<1>1. ASSUME NEW c \in ConcernIds, NEW u \in Authors, NEW t \in Texts,
             CreateConcern(c, u, t)
      PROVE  req'[x] = req[x]
  BY <1>1 DEF CreateConcern
<1>2. ASSUME NEW w \in Workers, NEW c \in ConcernIds, BeginOwnRequest(w, c)
      PROVE  /\ x # w => req'[x] = req[x]
             /\ req'[w] # None => req'[w].op # "review"
  BY <1>2 DEF BeginOwnRequest, BeginEdit, BeginDelete, BeginAssign, BeginUnassign,
     Begin, TypeOK
<1>3. ASSUME NEW w \in Workers, AtTheRow(w)
      PROVE  /\ x # w => req'[x] = req[x]
             /\ req'[w] # None => req'[w].op = req[w].op /\ req[w] # None
  <2>1. /\ ~Idle(w) /\ req[w] \in Request /\ concern[req[w].concern] \in ConcernRow
    BY <1>3, AtTheRowCases, RequestFields
  <2>2. \/ req' = [req EXCEPT ![w] = None]
        \/ TakeLock(w) /\ req[w].op # "delete"
    BY <1>3, AtTheRowCases DEF WriteDeleted, Refuse
  <2>3. CASE req' = [req EXCEPT ![w] = None]
    BY <2>3 DEF TypeOK
  <2>4. CASE TakeLock(w) /\ req[w].op # "delete"
    <3> DEFINE s == concern[req[w].concern].status
    <3>1. /\ req'[w] = [req[w] EXCEPT !.stage = "locked", !.seen = s]
          /\ x # w => req'[x] = req[x]
      BY <2>4 DEF TakeLock, TypeOK
    <3> HIDE DEF s
    <3>2. [req[w] EXCEPT !.stage = "locked", !.seen = s].op = req[w].op
      BY <2>1, <2>4 DEF Request, EditRequest, AssignRequest, UnassignRequest,
         ReviewRequest, DeleteRequest
    <3> QED
      BY <2>1, <3>1, <3>2 DEF Idle
  <2> QED
    BY <2>2, <2>3, <2>4
<1>4. ASSUME NEW w \in Workers, Commit(w) \/ Abort(w)
      PROVE  /\ x # w => req'[x] = req[x]
             /\ req'[w] = None
  <2>1. req' = [req EXCEPT ![w] = None]
    BY <1>4, CommitFacts DEF EndTransaction, Abort
  <2> QED
    BY <2>1 DEF TypeOK
<1>5. ASSUME NEW c \in ConcernIds, AdminAction(c)
      PROVE  req'[x] = req[x]
  BY <1>5 DEF AdminAction, CloseSelected, SoftDeleteSelected, RestoreSelected
<1> QED
  BY <1>1, <1>2, <1>3, <1>4, <1>5 DEF ConcernStep

(* What #33 does to the concerns is what Concerns calls a review.          *)
LEMMA MoveRefines ==
  ASSUME AdviceTypeOK, IInv, AdviceIInv, NEW w \in Workers, AdviceMove(w)
  PROVE  Next \/ UNCHANGED vars
<1>1. CASE BeginAdviceRequest(w)
  BY <1>1 DEF BeginAdviceRequest, BeginCreate, BeginUpdate, BeginWithdraw, BeginDecide,
     BeginAdvice
<1>2. CASE LockForDecide(w)
  <2>1. areq[w] \in DecideRequest /\ areq[w].advice \in AdviceIds
    BY <1>2, AdviceRequestFields DEF LockForDecide, Serving
  <2>2. Written(areq[w].advice)
    BY <1>2, <2>1 DEF AdviceIInv, CopiesCurrent, LockForDecide, Serving
  <2>3. advice[areq[w].advice].concern \in ConcernIds /\ areq[w].approve \in BOOLEAN
    BY <2>1, <2>2 DEF AdviceTypeOK, Written, AdviceRow, DecideRequest
  <2>4. \/ UNCHANGED vars
        \/ BeginReview(w, advice[areq[w].advice].concern, areq[w].approve)
    BY <1>2 DEF LockForDecide
  <2> QED
    BY <2>3, <2>4 DEF Next, BeginRequest
<1>3. CASE InsertAdvice(w) \/ LockForUpdate(w) \/ LockForWithdraw(w)
  BY <1>3 DEF InsertAdvice, LockForUpdate, LockForWithdraw, LockOwn
<1>4. CASE LockConcernForDecide(w)
  BY <1>4 DEF LockConcernForDecide, AtTheRow, Next
<1>5. CASE CommitUpdate(w) \/ CommitWithdraw(w)
  BY <1>5 DEF CommitUpdate, CommitWithdraw
<1>6. CASE CommitDecide(w)
  BY <1>6 DEF CommitDecide, Commit, Next
<1>7. CASE AbortAdvice(w)
  BY <1>7 DEF AbortAdvice, Next
<1> QED
  BY <1>1, <1>2, <1>3, <1>4, <1>5, <1>6, <1>7 DEF AdviceMove, AtAnAdviceLock,
     CommitAdvice

(* A step of the two applications is a step of Concerns, or none to it.    *)
LEMMA StepRefines ==
  ASSUME AdviceTypeOK, IInv, AdviceIInv, [AdviceNext]_allVars
  PROVE  [Next]_vars
<1>1. TypeOK
  BY DEF AdviceTypeOK
<1> QED
  BY <1>1, ConcernStepFrame, MoveRefines DEF AdviceNext, AdviceMove, allVars

-----------------------------------------------------------------------------
(* The advice requests a worker can start, and what holds when it does.    *)
LEMMA BegunAdvice ==
  ASSUME AdviceTypeOK, AdviceIInv, NEW w \in Workers, BeginAdviceRequest(w)
  PROVE  \E r \in AdviceRequest :
           /\ BeginAdvice(w, r)
           /\ r.op # "create" => r.stage = "waiting" /\ Written(r.advice)
           /\ r.op = "decide" => <<r.version, r.read>> \in shown[r.advice]
           /\ r.op = "create" => /\ ~AdviceKeyInUse(r.id)
                                 /\ Exists(r.concern)
                                 /\ WasAssigned(r.advisor, r.concern)
<1> USE DEF Stage
<1>1. ASSUME NEW c \in ConcernIds, NEW v \in Advisors, NEW b \in Bodies,
             NEW submit \in BOOLEAN, NEW ad \in AdviceIds,
             BeginCreate(w, c, v, b, submit, ad)
      PROVE  \E r \in AdviceRequest :
               /\ BeginAdvice(w, r) /\ r.op = "create"
               /\ ~AdviceKeyInUse(r.id) /\ Exists(r.concern)
                                        /\ WasAssigned(r.advisor, r.concern)
  <2> DEFINE r == [op |-> "create", concern |-> c, advisor |-> v, body |-> b,
                   submitted |-> submit, id |-> ad]
  <2>1. r \in AdviceRequest
    BY DEF AdviceRequest, CreateRequest
  <2>2. Exists(c) /\ WasAssigned(v, c)
    BY <1>1 DEF BeginCreate, IsLive, WasAssigned, ActiveAdvisors, ActiveAssignments
  <2> QED
    BY <1>1, <2>1, <2>2 DEF BeginCreate
<1>2. ASSUME NEW v \in Advisors, NEW ad \in AdviceIds, NEW b \in Bodies \cup {None},
             NEW submit \in BOOLEAN \cup {None}, BeginUpdate(w, v, ad, b, submit)
      PROVE  \E r \in AdviceRequest :
               /\ BeginAdvice(w, r) /\ r.op = "update"
               /\ r.stage = "waiting" /\ Written(r.advice)
  <2> DEFINE r == [op |-> "update", stage |-> "waiting", advice |-> ad, seen |-> None,
                   actor |-> v, body |-> b, submitted |-> submit]
  <2>1. r \in AdviceRequest
    BY DEF AdviceRequest, UpdateRequest
  <2> QED
    BY <1>2, <2>1 DEF BeginUpdate
<1>3. ASSUME NEW v \in Advisors, NEW ad \in AdviceIds, BeginWithdraw(w, v, ad)
      PROVE  \E r \in AdviceRequest :
               /\ BeginAdvice(w, r) /\ r.op = "withdraw"
               /\ r.stage = "waiting" /\ Written(r.advice)
  <2> DEFINE r == [op |-> "withdraw", stage |-> "waiting", advice |-> ad,
                   seen |-> None, actor |-> v]
  <2>1. r \in AdviceRequest
    BY DEF AdviceRequest, WithdrawRequest
  <2> QED
    BY <1>3, <2>1 DEF BeginWithdraw
<1>4. ASSUME NEW ad \in AdviceIds, NEW approve \in BOOLEAN, NEW reason \in BOOLEAN,
             NEW page \in shown[ad], BeginDecide(w, ad, approve, reason, page)
      PROVE  \E r \in AdviceRequest :
               /\ BeginAdvice(w, r) /\ r.op = "decide"
               /\ r.stage = "waiting" /\ Written(r.advice)
               /\ <<r.version, r.read>> \in shown[r.advice]
  <2> DEFINE r == [op |-> "decide", stage |-> "waiting", advice |-> ad, seen |-> None,
                   approve |-> approve, reason |-> reason,
                   version |-> page[1], read |-> page[2]]
  <2>1. page = <<page[1], page[2]>> /\ page[1] \in Nat /\ page[2] \in Bodies
    BY DEF AdviceTypeOK
  <2>2. r \in AdviceRequest
    BY <2>1 DEF AdviceRequest, DecideRequest
  <2>3. Written(ad)
    BY DEF AdviceIInv, HistoryOfRows
  <2> QED
    BY <1>4, <2>1, <2>2, <2>3 DEF BeginDecide
<1> QED
  BY <1>1, <1>2, <1>3, <1>4 DEF BeginAdviceRequest

-----------------------------------------------------------------------------
(* A worker in an advice request begins one, is granted the lock on its    *)
(* advice, is granted the one on its concern, or is done.                  *)
Granted(w) ==
  LET r == areq[w] IN
  /\ r # None /\ r.op # "create" /\ r.stage = "waiting"
  /\ AdviceFree(r.advice)
  /\ HoldAdvice(w) /\ UNCHANGED <<advice, history, told, shown>>
  /\ r.op = "update" => advice[r.advice].status \in Editable /\ UNCHANGED vars
  /\ r.op = "withdraw" => advice[r.advice].status \in Deletable /\ UNCHANGED vars
  /\ r.op = "decide" => /\ MayDecide(r, advice[r.advice])
                        /\ BeginReview(w, advice[r.advice].concern, r.approve)

GrantedConcern(w) ==
  /\ Serving(w, "decide") /\ LockForReview(w)
  /\ req'[w] # None /\ UNCHANGED adviceVars

Done(w) ==
  /\ areq[w] # None /\ areq' = [areq EXCEPT ![w] = None]
  /\ adviceHolder' = [ad \in AdviceIds |->
                        IF adviceHolder[ad] = w THEN None ELSE adviceHolder[ad]]
  /\ req' = [req EXCEPT ![w] = None]

(* The four ways in which a request is done and has written an advice.     *)
Writes(w) == InsertAdvice(w) \/ CommitUpdate(w) \/ CommitWithdraw(w) \/ CommitDecide(w)

(* A request that has no lock yet ends without giving one back.            *)
LEMMA NoLockNoHolder ==
  ASSUME AdviceTypeOK, AdviceIInv, NEW w \in Workers, areq[w] # None,
         areq[w].op = "create" \/ areq[w].stage = "waiting",
         EndAdvice(w), Idle(w), UNCHANGED req
  PROVE  Done(w)
<1>1. \A ad \in AdviceIds : adviceHolder[ad] # w
  BY DEF AdviceIInv, AdviceLocksOK
<1>2. req = [req EXCEPT ![w] = None]
  BY DEF Idle, AdviceTypeOK, TypeOK
<1> QED
  BY <1>1, <1>2 DEF Done, EndAdvice, AdviceTypeOK

(* What a step of a worker comes to: a beginning, a lock granted, an end   *)
(* that writes or one that does not.                                       *)
LEMMA MoveCases ==
  ASSUME AdviceTypeOK, IInv, AdviceIInv, NEW w \in Workers, AdviceMove(w)
  PROVE  \/ BeginAdviceRequest(w)
         \/ Granted(w)
         \/ GrantedConcern(w)
         \/ Done(w) /\ Writes(w)
         \/ Done(w) /\ UNCHANGED <<advice, history, told, shown, concern, assignment>>
<1>0. areq[w] # None => /\ areq[w].op = "decide" => (areq[w].stage = "locked" <=> ~Idle(w))
                        /\ areq[w].op # "decide" => Idle(w)
  BY DEF AdviceIInv, ReviewsAreDecisions, Serving
<1>1. CASE InsertAdvice(w)
  <2>1. areq[w] # None /\ areq[w].op = "create" /\ EndAdvice(w) /\ UNCHANGED req
    BY <1>1 DEF InsertAdvice, Serving, vars
  <2> QED
    BY <1>0, <1>1, <2>1, NoLockNoHolder DEF Writes
<1>2. CASE LockForUpdate(w)
  <2>1. LockOwn(w, Editable) /\ areq[w] # None /\ areq[w].op = "update"
    BY <1>2 DEF LockForUpdate, Serving
  <2>2. CASE EndAdvice(w)
    BY <1>0, <2>1, <2>2, NoLockNoHolder DEF LockOwn, vars
  <2>3. CASE ~EndAdvice(w)
    BY <2>1, <2>3 DEF LockOwn, Granted, AdviceFree
  <2> QED
    BY <2>2, <2>3
<1>3. CASE LockForWithdraw(w)
  <2>1. LockOwn(w, Deletable) /\ areq[w] # None /\ areq[w].op = "withdraw"
    BY <1>3 DEF LockForWithdraw, Serving
  <2>2. CASE EndAdvice(w)
    BY <1>0, <2>1, <2>2, NoLockNoHolder DEF LockOwn, vars
  <2>3. CASE ~EndAdvice(w)
    BY <2>1, <2>3 DEF LockOwn, Granted, AdviceFree
  <2> QED
    BY <2>2, <2>3
<1>4. CASE LockForDecide(w)
  <2>1. areq[w] # None /\ areq[w].op = "decide" /\ areq[w].stage = "waiting"
    BY <1>4 DEF LockForDecide, Serving
  <2>2. CASE EndAdvice(w) /\ UNCHANGED vars
    BY <1>0, <1>4, <2>1, <2>2, NoLockNoHolder DEF LockForDecide, vars
  <2>3. CASE ~(EndAdvice(w) /\ UNCHANGED vars)
    BY <1>4, <2>1, <2>3 DEF LockForDecide, Granted
  <2> QED
    BY <2>2, <2>3
<1>5. CASE LockConcernForDecide(w)
  <2>1. CASE req'[w] # None
    BY <1>5, <2>1 DEF LockConcernForDecide, GrantedConcern, adviceVars
  <2>2. CASE req'[w] = None
    <3>1. Refuse(w) \/ (TakeLock(w) /\ ~Idle(w))
      BY <1>5 DEF LockConcernForDecide, LockForReview, LockIf, Waiting
    <3>2. /\ UNCHANGED <<concern, assignment, advice, history, told, shown>>
          /\ ReleaseAdvice(w) /\ areq[w] # None
      BY <1>5, <2>2 DEF LockConcernForDecide, LockForReview, LockIf, Serving
    <3>3. req' = [req EXCEPT ![w] = None]
      BY <2>2, <3>1 DEF Refuse, TakeLock, AdviceTypeOK, TypeOK
    <3> QED
      BY <3>2, <3>3 DEF Done, ReleaseAdvice
  <2> QED
    BY <2>1, <2>2
<1>6. CASE CommitUpdate(w) \/ CommitWithdraw(w)
  <2>1. ReleaseAdvice(w) /\ areq[w] # None /\ Idle(w) /\ UNCHANGED req
    BY <1>0, <1>6 DEF CommitUpdate, CommitWithdraw, Serving, vars
  <2>2. req = [req EXCEPT ![w] = None]
    BY <2>1 DEF Idle, AdviceTypeOK, TypeOK
  <2> QED
    BY <1>6, <2>1, <2>2 DEF Done, ReleaseAdvice, Writes
<1>7. CASE CommitDecide(w)
  BY <1>7 DEF CommitDecide, CommitReview, EndTransaction, ReleaseAdvice, Done, Writes,
     Serving
<1>8. CASE AbortAdvice(w)
  <2>1. ReleaseAdvice(w) /\ areq[w] # None
    BY <1>8 DEF AbortAdvice
  <2>2. req' = [req EXCEPT ![w] = None]
    BY <1>8 DEF AbortAdvice, Abort, vars, Idle, AdviceTypeOK, TypeOK
  <2>3. UNCHANGED <<concern, assignment, advice, history, told, shown>>
    BY <1>8 DEF AbortAdvice, Abort, vars
  <2> QED
    BY <2>1, <2>2, <2>3 DEF Done, ReleaseAdvice
<1> QED
  BY <1>1, <1>2, <1>3, <1>4, <1>5, <1>6, <1>7, <1>8
     DEF AdviceMove, AtAnAdviceLock, CommitAdvice

-----------------------------------------------------------------------------
(* What a step does to one advice: nothing, or one of the four writes.     *)
Kept(ad) ==
  /\ advice'[ad] = advice[ad] /\ history'[ad] = history[ad]
  /\ shown'[ad] = shown[ad] /\ told'[ad] = told[ad]

Rewritten(ad) ==
  /\ Written(ad) /\ advice[ad] \in AdviceRow
  /\ advice'[ad] \in AdviceRow
  /\ advice'[ad].concern = advice[ad].concern /\ advice'[ad].advisor = advice[ad].advisor

Inserted(w, ad) ==
  LET r == areq[w] IN
  /\ InsertAdvice(w) /\ r \in CreateRequest /\ r.id = ad
  /\ ~Written(ad) /\ ~HasLiveAdvice(r.concern, r.advisor)
  /\ advice'[ad] = [concern |-> r.concern, advisor |-> r.advisor, body |-> r.body,
                    version |-> 1, submitted |-> r.submitted, status |-> "PENDING",
                    reviewed |-> FALSE]
  /\ advice'[ad] \in AdviceRow
  /\ shown'[ad] = shown[ad] \cup {<<1, r.body>>}
  /\ history'[ad] = history[ad] /\ told'[ad] = told[ad]

Updated(w, ad) ==
  LET row == advice[ad]  next == advice'[ad] IN
  /\ CommitUpdate(w) /\ areq[w].advice = ad
  /\ Rewritten(ad) /\ row.status \in Editable
  /\ next.status = row.status /\ next.reviewed = row.reviewed
  /\ shown'[ad] = shown[ad] \cup {<<next.version, next.body>>}
  /\ told'[ad] = told[ad]
  /\ \/ /\ next.version = row.version /\ next.body = row.body
        /\ history'[ad] = history[ad]
     \/ /\ next.version = row.version + 1
        /\ history'[ad] = history[ad] \cup {<<row.version, row.body>>}

Withdrawn(w, ad) ==
  LET row == advice[ad]  next == advice'[ad] IN
  /\ CommitWithdraw(w) /\ areq[w].advice = ad
  /\ Rewritten(ad) /\ row.status \in Deletable
  /\ next = [row EXCEPT !.status = "DELETED"] /\ next.status = "DELETED"
  /\ next.version = row.version /\ next.body = row.body /\ next.reviewed = row.reviewed
  /\ shown'[ad] = shown[ad] \cup {<<row.version, row.body>>}
  /\ history'[ad] = history[ad] /\ told'[ad] = told[ad]

DecidedOn(w, ad) ==
  LET r == areq[w]  row == advice[ad]  next == advice'[ad] IN
  /\ CommitDecide(w) /\ r \in DecideRequest /\ r.advice = ad
  /\ Rewritten(ad) /\ MayDecide(r, row) /\ <<r.version, r.read>> \in shown[ad]
  /\ next.status = IF r.approve THEN "APPROVED" ELSE "REJECTED"
  /\ next.version = row.version /\ next.body = row.body /\ next.reviewed
  /\ next.submitted = row.submitted
  /\ req[w] # None /\ req[w].concern = row.concern /\ req[w].approve = r.approve
  /\ shown'[ad] = shown[ad] \cup {<<row.version, row.body>>}
  /\ history'[ad] = history[ad]
  /\ told'[ad] = IF r.approve THEN [told[ad] EXCEPT !.approved = @ + 1]
                              ELSE [told[ad] EXCEPT !.rejected = @ + 1]

(* A request that commits holds its advice, and its copy is the row.       *)
LEMMA HeldFacts ==
  ASSUME AdviceTypeOK, AdviceIInv, NEW w \in Workers, areq[w] # None,
         areq[w].op # "create", areq[w].stage = "locked"
  PROVE  LET ad == areq[w].advice IN
         /\ ad \in AdviceIds /\ Written(ad) /\ advice[ad] \in AdviceRow
         /\ areq[w].seen = advice[ad] /\ adviceHolder[ad] = w
         /\ areq[w].op = "update" => advice[ad].status \in Editable
         /\ areq[w].op = "withdraw" => advice[ad].status \in Deletable
         /\ areq[w].op = "decide" => /\ MayDecide(areq[w], advice[ad])
                                     /\ <<areq[w].version, areq[w].read>> \in shown[ad]
<1>1. areq[w].advice \in AdviceIds
  BY AdviceRequestFields
<1>2. Written(areq[w].advice)
  BY DEF AdviceIInv, CopiesCurrent
<1>3. advice[areq[w].advice] \in AdviceRow
  BY <1>1, <1>2 DEF AdviceTypeOK, Written
<1>4. adviceHolder[areq[w].advice] = w
  BY <1>1 DEF AdviceIInv, AdviceLocksOK
<1> QED
  BY <1>1, <1>2, <1>3, <1>4 DEF AdviceIInv, CopiesCurrent

(* #28 inserts one advice.                                                 *)
LEMMA InsertEffect ==
  ASSUME AdviceTypeOK, AdviceIInv, NEW w \in Workers, InsertAdvice(w),
         NEW ad \in AdviceIds
  PROVE  Kept(ad) \/ Inserted(w, ad)
<1>1. areq[w] # None /\ areq[w].op = "create" /\ areq[w] \in CreateRequest
  BY AdviceRequestFields DEF InsertAdvice, Serving
<1>2. areq[w].id \in AdviceIds /\ ~Written(areq[w].id)
  BY <1>1 DEF AdviceIInv, AdviceKeysReserved, Serving, CreateRequest
<1>3. [concern |-> areq[w].concern, advisor |-> areq[w].advisor, body |-> areq[w].body,
       version |-> 1, submitted |-> areq[w].submitted, status |-> "PENDING",
       reviewed |-> FALSE] \in AdviceRow
  BY <1>1 DEF CreateRequest, AdviceRow, AdviceStatus
<1> QED
  BY <1>1, <1>2, <1>3 DEF InsertAdvice, Kept, Inserted, WriteAdvice, AdviceTypeOK

(* #29 writes the advice it holds and adds the version before to the       *)
(* history.                                                                *)
LEMMA UpdateEffect ==
  ASSUME AdviceTypeOK, AdviceIInv, NEW w \in Workers, CommitUpdate(w),
         NEW ad \in AdviceIds
  PROVE  Kept(ad) \/ Updated(w, ad)
<1> DEFINE r == areq[w]
           row == advice[r.advice]
           changed == r.body # None /\ r.body # row.body
           newBody == IF changed THEN r.body ELSE row.body
           newVersion == IF changed THEN row.version + 1 ELSE row.version
           newSubmitted == IF r.submitted # None THEN r.submitted ELSE row.submitted
           next == [row EXCEPT !.body = newBody, !.version = newVersion,
                               !.submitted = newSubmitted]
<1>1. r # None /\ r.op = "update" /\ r.stage = "locked" /\ r \in UpdateRequest
  BY AdviceRequestFields DEF CommitUpdate, Serving
<1>2. /\ r.advice \in AdviceIds /\ Written(r.advice) /\ row \in AdviceRow
      /\ r.seen = row /\ row.status \in Editable
  BY <1>1, HeldFacts
<1>3. newBody \in Bodies /\ newVersion \in Nat /\ newSubmitted \in BOOLEAN
  BY <1>1, <1>2 DEF UpdateRequest, AdviceRow
<1>4. /\ next \in AdviceRow
      /\ next.concern = row.concern /\ next.advisor = row.advisor
      /\ next.status = row.status /\ next.reviewed = row.reviewed
      /\ next.body = newBody /\ next.version = newVersion
  BY <1>2, <1>3 DEF AdviceRow
<1>5. /\ advice' = [advice EXCEPT ![r.advice] = next]
      /\ shown' = [shown EXCEPT ![r.advice] = @ \cup {<<next.version, next.body>>}]
      /\ history' = IF changed
                    THEN [history EXCEPT ![r.advice] = @ \cup {<<row.version, row.body>>}]
                    ELSE history
      /\ told' = told
  BY <1>2 DEF CommitUpdate, WriteAdvice
<1> HIDE DEF next
<1> QED
  BY <1>1, <1>2, <1>4, <1>5 DEF Kept, Updated, Rewritten, AdviceTypeOK

(* #30 withdraws the advice it holds.                                      *)
LEMMA WithdrawEffect ==
  ASSUME AdviceTypeOK, AdviceIInv, NEW w \in Workers, CommitWithdraw(w),
         NEW ad \in AdviceIds
  PROVE  Kept(ad) \/ Withdrawn(w, ad)
<1> DEFINE row == advice[areq[w].advice]
           next == [row EXCEPT !.status = "DELETED"]
<1>1. areq[w] # None /\ areq[w].op = "withdraw" /\ areq[w].stage = "locked"
  BY DEF CommitWithdraw, Serving
<1>2. /\ areq[w].advice \in AdviceIds /\ Written(areq[w].advice) /\ row \in AdviceRow
      /\ row.status \in Deletable
  BY <1>1, HeldFacts
<1>3. /\ next \in AdviceRow
      /\ next.concern = row.concern /\ next.advisor = row.advisor
      /\ next.status = "DELETED" /\ next.reviewed = row.reviewed
      /\ next.body = row.body /\ next.version = row.version
  BY <1>2 DEF AdviceRow, AdviceStatus
<1>4. /\ advice' = [advice EXCEPT ![areq[w].advice] = next]
      /\ shown' = [shown EXCEPT ![areq[w].advice] = @ \cup {<<next.version, next.body>>}]
      /\ history' = history /\ told' = told
  BY DEF CommitWithdraw, WriteAdvice
<1>5. ad = areq[w].advice => next = [advice[ad] EXCEPT !.status = "DELETED"]
  OBVIOUS
<1> HIDE DEF next
<1> QED
  BY <1>2, <1>3, <1>4, <1>5 DEF Kept, Withdrawn, Rewritten, AdviceTypeOK

(* #33 decides the advice it holds, and no other.                          *)
LEMMA DecideEffect ==
  ASSUME AdviceTypeOK, AdviceIInv, NEW w \in Workers, CommitDecide(w),
         NEW ad \in AdviceIds
  PROVE  IF ad = areq[w].advice THEN DecidedOn(w, ad) ELSE Kept(ad)
<1> DEFINE r == areq[w]
           row == advice[r.advice]
           next == [row EXCEPT !.reviewed = TRUE,
                               !.status = IF r.approve THEN "APPROVED" ELSE "REJECTED"]
<1>1. r # None /\ r.op = "decide" /\ r \in DecideRequest /\ req[w] # None
  BY AdviceRequestFields
     DEF CommitDecide, Serving, CommitReview, InTransaction, Idle
<1>2. /\ r.stage = "locked" /\ req[w].concern = row.concern
      /\ req[w].approve = r.approve
  BY <1>1 DEF AdviceIInv, ReviewsAreDecisions, Serving, Idle
<1>3. /\ r.advice \in AdviceIds /\ Written(r.advice) /\ row \in AdviceRow
      /\ r.seen = row /\ MayDecide(r, row)
      /\ <<r.version, r.read>> \in shown[r.advice]
  BY <1>1, <1>2, HeldFacts
<1>4. /\ next \in AdviceRow
      /\ next.concern = row.concern /\ next.advisor = row.advisor
      /\ next.status = IF r.approve THEN "APPROVED" ELSE "REJECTED"
      /\ next.reviewed /\ next.submitted = row.submitted
      /\ next.body = row.body /\ next.version = row.version
  BY <1>3 DEF AdviceRow, AdviceStatus
<1>5. /\ advice' = [advice EXCEPT ![r.advice] = next]
      /\ shown' = [shown EXCEPT ![r.advice] = @ \cup {<<next.version, next.body>>}]
      /\ history' = history
      /\ told' = IF r.approve THEN [told EXCEPT ![r.advice].approved = @ + 1]
                              ELSE [told EXCEPT ![r.advice].rejected = @ + 1]
  BY <1>3 DEF CommitDecide, WriteAdvice
<1> HIDE DEF next
<1> QED
  BY <1>1, <1>2, <1>3, <1>4, <1>5 DEF Kept, DecidedOn, Rewritten, AdviceTypeOK

(* What a row can undergo in a step: one of these, by one worker.          *)
Changed(w, ad) ==
  Inserted(w, ad) \/ Updated(w, ad) \/ Withdrawn(w, ad) \/ DecidedOn(w, ad)

(* A step of a worker leaves an advice alone or is one of the four         *)
(* operations on it.                                                       *)
LEMMA MoveEffect ==
  ASSUME AdviceTypeOK, IInv, AdviceIInv, NEW w \in Workers, AdviceMove(w),
         NEW ad \in AdviceIds
  PROVE  Kept(ad) \/ Changed(w, ad)
<1>1. CASE BeginAdviceRequest(w)
  BY <1>1, BegunAdvice DEF BeginAdvice, Kept
<1>2. CASE Granted(w) \/ GrantedConcern(w)
  BY <1>2 DEF Granted, GrantedConcern, adviceVars, Kept
<1>3. CASE Writes(w)
  BY <1>3, InsertEffect, UpdateEffect, WithdrawEffect, DecideEffect DEF Writes, Changed
<1>4. CASE UNCHANGED <<advice, history, told, shown>>
  BY <1>4 DEF Kept
<1> QED
  BY <1>1, <1>2, <1>3, <1>4, MoveCases

(* Any step does the same.                                                 *)
LEMMA AdviceRowStep ==
  ASSUME AdviceTypeOK, IInv, AdviceIInv, AdviceNext, NEW ad \in AdviceIds
  PROVE  Kept(ad) \/ \E w \in Workers : Changed(w, ad)
<1>1. CASE ConcernStep
  BY <1>1 DEF ConcernStep, adviceVars, Kept
<1>2. CASE \E w \in Workers : AdviceMove(w)
  BY <1>2, MoveEffect
<1> QED
  BY <1>1, <1>2 DEF AdviceNext, AdviceMove

(* A worker's move leaves the requests and locks of the others alone.      *)
Untouched(x) ==
  /\ areq'[x] = areq[x] /\ req'[x] = req[x]
  /\ \A ad \in AdviceIds : adviceHolder'[ad] = x <=> adviceHolder[ad] = x

(* A step of one worker leaves the requests, the locks and the locked rows *)
(* of the others alone.                                                    *)
LEMMA OthersStay ==
  ASSUME AdviceTypeOK, IInv, AdviceIInv, NEW w \in Workers, AdviceMove(w),
         NEW x \in Workers, x # w
  PROVE  Untouched(x)
<1>0. None \notin Workers
  BY NoneAssumption
<1>1. CASE BeginAdviceRequest(w)
  BY <1>1, BegunAdvice DEF BeginAdvice, vars, AdviceTypeOK, Untouched
<1>2. CASE Granted(w)
  <2>1. areq[w].advice \in AdviceIds
    BY <1>2, AdviceRequestFields DEF Granted
  <2>2. areq'[x] = areq[x]
    BY <1>2 DEF Granted, HoldAdvice, AdviceTypeOK
  <2>3. req'[x] = req[x]
    BY <1>2, AdviceRequestFields
       DEF Granted, BeginReview, Begin, vars, AdviceTypeOK, TypeOK
  <2>4. ASSUME NEW ad \in AdviceIds
        PROVE  adviceHolder'[ad] = x <=> adviceHolder[ad] = x
    BY <1>0, <1>2, <2>1 DEF Granted, HoldAdvice, AdviceFree, AdviceTypeOK
  <2> QED
    BY <2>2, <2>3, <2>4 DEF Untouched
<1>3. CASE GrantedConcern(w)
  <2>1. req'[x] = req[x]
    BY <1>3 DEF GrantedConcern, LockForReview, LockIf, TakeLock, Refuse,
       AdviceTypeOK, TypeOK
  <2> QED
    BY <1>3, <2>1 DEF GrantedConcern, adviceVars, Untouched
<1>4. CASE Done(w)
  BY <1>0, <1>4 DEF Done, AdviceTypeOK, TypeOK, Untouched
<1> QED
  BY <1>1, <1>2, <1>3, <1>4, MoveCases

(* How the request of a worker can look after a step, if there is one.     *)
LEMMA AdviceRequestStep ==
  ASSUME AdviceTypeOK, IInv, AdviceIInv, AdviceNext, NEW x \in Workers, areq'[x] # None
  PROVE  \/ /\ areq'[x] = areq[x]
            /\ \A ad \in AdviceIds : adviceHolder'[ad] = x <=> adviceHolder[ad] = x
            /\ req'[x] = req[x] \/ GrantedConcern(x)
         \/ BeginAdviceRequest(x)
         \/ Granted(x)
<1>1. CASE ConcernStep
  BY <1>1, ConcernStepFrame DEF adviceVars, AdviceTypeOK
<1>2. CASE \E w \in Workers : x # w /\ AdviceMove(w)
  BY <1>2, OthersStay DEF Untouched
<1>3. CASE AdviceMove(x)
  BY <1>3, MoveCases DEF Done, AdviceTypeOK, GrantedConcern, adviceVars
<1> QED
  BY <1>1, <1>2, <1>3 DEF AdviceNext, AdviceMove

(* A worker that is in no advice request holds no advice and reviews none. *)
LEMMA NoAdviceRequestStep ==
  ASSUME AdviceTypeOK, IInv, AdviceIInv, AdviceNext, NEW x \in Workers, areq'[x] = None
  PROVE  /\ \A ad \in AdviceIds : adviceHolder'[ad] # x
         /\ req'[x] # None => req'[x].op # "review"
<1>0. x # None
  BY NoneAssumption
<1>1. areq[x] = None => /\ \A ad \in AdviceIds : adviceHolder[ad] # x
                        /\ req[x] # None => req[x].op # "review"
  BY DEF AdviceIInv, AdviceLocksOK, ReviewsAreDecisions, Idle
<1>2. CASE ConcernStep
  BY <1>1, <1>2, ConcernStepFrame DEF adviceVars, AdviceTypeOK
<1>3. CASE \E w \in Workers : x # w /\ AdviceMove(w)
  BY <1>1, <1>3, OthersStay DEF Untouched
<1>4. CASE AdviceMove(x)
  <2>1. CASE BeginAdviceRequest(x)
    <3>1. PICK r \in AdviceRequest : BeginAdvice(x, r)
      BY <2>1, BegunAdvice
    <3>2. areq'[x] = r /\ r # None
      BY <3>1, AdviceAssumption DEF BeginAdvice, AdviceTypeOK
    <3> QED
      BY <3>2
  <2>2. CASE Granted(x)
    <3>1. areq[x] \in AdviceRequest /\ areq[x].advice \in AdviceIds
      BY <2>2, AdviceRequestFields DEF Granted
    <3>2. advice[areq[x].advice] \in AdviceRow
      BY <2>2, <3>1 DEF Granted, AdviceIInv, CopiesCurrent, Written, AdviceTypeOK
    <3>3. areq'[x] \in AdviceRequest
      BY <2>2, <3>1, <3>2, HeldRequest DEF Granted, HoldAdvice, AdviceTypeOK
    <3> QED
      BY <3>3, AdviceAssumption
  <2>3. CASE GrantedConcern(x)
    BY <2>3 DEF GrantedConcern, Serving, adviceVars
  <2>4. CASE Done(x)
    BY <1>0, <2>4 DEF Done, TypeOK, AdviceTypeOK
  <2> QED
    BY <1>4, <2>1, <2>2, <2>3, <2>4, MoveCases
<1> QED
  BY <1>2, <1>3, <1>4 DEF AdviceNext, AdviceMove

(* Only the holder of an advice writes it, so a held copy stays true.      *)
LEMMA HeldRowKept ==
  ASSUME AdviceTypeOK, IInv, AdviceIInv, AdviceNext, NEW x \in Workers,
         areq[x] # None, areq'[x] # None, areq[x].op # "create",
         areq[x].stage = "locked"
  PROVE  Kept(areq[x].advice)
<1> DEFINE ad == areq[x].advice
<1>1. ad \in AdviceIds /\ Written(ad) /\ adviceHolder[ad] = x
  BY HeldFacts
<1>2. ASSUME NEW w \in Workers, Changed(w, ad)
      PROVE  FALSE
  <2>1. /\ areq[w] # None /\ areq[w].op # "create"
        /\ areq[w].stage = "locked" /\ areq[w].advice = ad
        /\ areq' = [areq EXCEPT ![w] = None]
    <3>1. CASE Updated(w, ad)
      BY <3>1 DEF Updated, CommitUpdate, Serving, ReleaseAdvice
    <3>2. CASE Withdrawn(w, ad)
      BY <3>2 DEF Withdrawn, CommitWithdraw, Serving, ReleaseAdvice
    <3>3. CASE DecidedOn(w, ad)
      BY <3>3, AdviceRequestFields DEF DecidedOn, CommitDecide, Serving, ReleaseAdvice,
         CommitReview, InTransaction, AdviceIInv, ReviewsAreDecisions
    <3> QED
      BY <1>1, <1>2, <3>1, <3>2, <3>3 DEF Changed, Inserted
  <2>2. adviceHolder[ad] = w
    BY <1>1, <2>1 DEF AdviceIInv, AdviceLocksOK
  <2> QED
    BY <1>1, <2>1, <2>2 DEF AdviceTypeOK
<1> QED
  BY <1>1, <1>2, AdviceRowStep

(* An advice once written stays, on its concern and by its advisor, and    *)
(* what was shown of it stays shown.                                       *)
LEMMA AdviceStays ==
  ASSUME AdviceTypeOK, IInv, AdviceIInv, AdviceNext, NEW ad \in AdviceIds, Written(ad)
  PROVE  /\ Written(ad)' /\ advice[ad] \in AdviceRow /\ advice'[ad] \in AdviceRow
         /\ advice'[ad].concern = advice[ad].concern
         /\ advice'[ad].advisor = advice[ad].advisor
         /\ advice[ad].status = "DELETED" => advice'[ad] = advice[ad]
         /\ advice[ad].status = "APPROVED" => advice'[ad] = advice[ad]
<1>1. advice[ad] \in AdviceRow /\ None \notin AdviceRow
  BY AdviceAssumption DEF AdviceTypeOK, Written
<1>2. CASE Kept(ad)
  BY <1>1, <1>2 DEF Kept, Written
<1>3. ASSUME NEW w \in Workers, Changed(w, ad)
      PROVE  Rewritten(ad) /\ advice[ad].status \notin {"DELETED", "APPROVED"}
  BY <1>3 DEF Changed, Inserted, Updated, Withdrawn, DecidedOn, MayDecide, Editable,
     Deletable, Reviewable
<1> QED
  BY <1>1, <1>2, <1>3, AdviceRowStep DEF Rewritten, Written

(* Nothing that was shown is taken back.                                   *)
LEMMA ShownStays ==
  ASSUME AdviceTypeOK, IInv, AdviceIInv, AdviceNext, NEW ad \in AdviceIds
  PROVE  shown[ad] \subseteq shown'[ad]
<1>1. Kept(ad) => shown'[ad] = shown[ad]
  BY DEF Kept
<1>2. ASSUME NEW w \in Workers, Changed(w, ad)
      PROVE  shown[ad] \subseteq shown'[ad]
  BY <1>2 DEF Changed, Inserted, Updated, Withdrawn, DecidedOn
<1> QED
  BY <1>1, <1>2, AdviceRowStep

(* What a request is when it has just been granted the lock on its advice. *)
LEMMA GrantedRequest ==
  ASSUME AdviceTypeOK, AdviceIInv, NEW w \in Workers, Granted(w)
  PROVE  LET r == areq[w]  h == areq'[w] IN
         /\ r \in AdviceRequest /\ r # None /\ r.op # "create" /\ r.stage = "waiting"
         /\ r.advice \in AdviceIds /\ Written(r.advice)
         /\ advice[r.advice] \in AdviceRow
         /\ h \in AdviceRequest /\ h # None
         /\ h.op = r.op /\ h.advice = r.advice /\ h.stage = "locked"
         /\ h.seen = advice[r.advice]
         /\ adviceHolder[r.advice] = None
         /\ adviceHolder' = [adviceHolder EXCEPT ![r.advice] = w]
         /\ r.op = "decide" => /\ h.version = r.version /\ h.read = r.read
                               /\ h.approve = r.approve /\ h.reason = r.reason
<1>1. /\ areq[w] \in AdviceRequest /\ areq[w] # None /\ areq[w].op # "create"
      /\ areq[w].advice \in AdviceIds
  BY AdviceRequestFields DEF Granted
<1>2. Written(areq[w].advice) /\ advice[areq[w].advice] \in AdviceRow
  BY <1>1 DEF AdviceIInv, CopiesCurrent, Written, AdviceTypeOK
<1> DEFINE h == [areq[w] EXCEPT !.stage = "locked", !.seen = advice[areq[w].advice]]
<1>3. areq'[w] = h
  BY DEF Granted, HoldAdvice, AdviceTypeOK
<1>4. /\ h \in AdviceRequest /\ h.op = areq[w].op /\ h.advice = areq[w].advice
      /\ h.stage = "locked" /\ h.seen = advice[areq[w].advice]
      /\ areq[w].op = "decide" =>
           /\ h.version = areq[w].version /\ h.read = areq[w].read
           /\ h.approve = areq[w].approve /\ h.reason = areq[w].reason
  BY <1>1, <1>2, HeldRequest
<1> HIDE DEF h
<1>5. h # None
  BY <1>4, AdviceAssumption
<1> QED
  BY <1>1, <1>2, <1>3, <1>4, <1>5 DEF Granted, HoldAdvice, AdviceFree

(* What a request is when it has just begun.                               *)
LEMMA BegunRequest ==
  ASSUME AdviceTypeOK, AdviceIInv, NEW w \in Workers, BeginAdviceRequest(w)
  PROVE  LET r == areq'[w] IN
         /\ r \in AdviceRequest /\ r # None /\ BeginAdvice(w, r)
         /\ r.op # "create" => r.stage = "waiting" /\ Written(r.advice)
         /\ r.op = "decide" => <<r.version, r.read>> \in shown[r.advice]
         /\ r.op = "create" => /\ ~AdviceKeyInUse(r.id)
                               /\ Exists(r.concern)
                               /\ WasAssigned(r.advisor, r.concern)
<1>1. PICK r \in AdviceRequest :
        /\ BeginAdvice(w, r)
        /\ r.op # "create" => r.stage = "waiting" /\ Written(r.advice)
        /\ r.op = "decide" => <<r.version, r.read>> \in shown[r.advice]
        /\ r.op = "create" => /\ ~AdviceKeyInUse(r.id)
                              /\ Exists(r.concern)
                              /\ WasAssigned(r.advisor, r.concern)
  BY BegunAdvice
<1>2. areq'[w] = r /\ r # None
  BY <1>1, AdviceAssumption DEF BeginAdvice, AdviceTypeOK
<1> QED
  BY <1>1, <1>2

-----------------------------------------------------------------------------
(* The inductive invariant is preserved, conjunct by conjunct.             *)

(* A row lock is held by the request that was granted it, and by no other. *)
LEMMA AdviceLocksStep ==
  ASSUME AdviceTypeOK, IInv, AdviceIInv, AdviceNext
  PROVE  AdviceLocksOK'
<1> SUFFICES ASSUME NEW ad \in AdviceIds, NEW x \in Workers
             PROVE  adviceHolder'[ad] = x <=>
                      /\ areq'[x] # None /\ areq'[x].op # "create"
                      /\ areq'[x].stage = "locked" /\ areq'[x].advice = ad
  BY DEF AdviceLocksOK
<1>0. adviceHolder[ad] = x <=>
        /\ areq[x] # None /\ areq[x].op # "create"
        /\ areq[x].stage = "locked" /\ areq[x].advice = ad
  BY DEF AdviceIInv, AdviceLocksOK
<1>1. CASE areq'[x] = None
  BY <1>1, NoAdviceRequestStep
<1>2. CASE BeginAdviceRequest(x)
  <2>1. areq[x] = None /\ adviceHolder' = adviceHolder
    BY <1>2, BegunRequest DEF BeginAdvice, Unoccupied
  <2> QED
    BY <1>0, <1>2, <2>1, BegunRequest
<1>3. CASE Granted(x)
  BY <1>0, <1>3, GrantedRequest DEF AdviceTypeOK
<1> QED
  BY <1>0, <1>1, <1>2, <1>3, AdviceRequestStep

(* The copy of a request, and the page an administrator decides on, are of *)
(* an advice that exists, and a held copy is the row.                      *)
LEMMA CopiesStep ==
  ASSUME AdviceTypeOK, IInv, AdviceIInv, AdviceNext
  PROVE  CopiesCurrent'
<1> SUFFICES ASSUME NEW x \in Workers, areq'[x] # None, areq'[x].op # "create"
             PROVE  LET r == areq'[x]  row == advice'[areq'[x].advice] IN
                    /\ row # None
                    /\ r.op = "decide" => <<r.version, r.read>> \in shown'[r.advice]
                    /\ r.stage = "locked" =>
                         /\ r.seen = row
                         /\ r.op = "update" => row.status \in Editable
                         /\ r.op = "withdraw" => row.status \in Deletable
                         /\ r.op = "decide" => MayDecide(r, row)
  BY DEF CopiesCurrent, Written, MayDecide
<1>1. CASE areq'[x] = areq[x]
  <2>1. /\ areq[x].advice \in AdviceIds /\ Written(areq[x].advice)
        /\ areq[x].op = "decide" => <<areq[x].version, areq[x].read>> \in shown[areq[x].advice]
    BY <1>1, AdviceRequestFields DEF AdviceIInv, CopiesCurrent
  <2>2. advice'[areq[x].advice] # None
    BY <2>1, AdviceStays DEF Written
  <2>3. shown[areq[x].advice] \subseteq shown'[areq[x].advice]
    BY <2>1, ShownStays
  <2>4. ASSUME areq[x].stage = "locked"
        PROVE  advice'[areq[x].advice] = advice[areq[x].advice]
    BY <1>1, <2>4, HeldRowKept DEF Kept
  <2> QED
    BY <1>1, <2>1, <2>2, <2>3, <2>4 DEF AdviceIInv, CopiesCurrent, Written
<1>2. CASE BeginAdviceRequest(x)
  BY <1>2, BegunRequest DEF BeginAdvice, Written
<1>3. CASE Granted(x)
  <2> DEFINE r == areq[x]  h == areq'[x]  row == advice[r.advice]
  <2>1. /\ UNCHANGED <<advice, shown>> /\ h.advice = r.advice /\ h.op = r.op
        /\ Written(r.advice) /\ h.seen = row
        /\ r.op = "decide" => /\ h.version = r.version /\ h.read = r.read
                              /\ h.approve = r.approve /\ h.reason = r.reason
    BY <1>3, GrantedRequest DEF Granted
  <2>2. r.op = "decide" => <<r.version, r.read>> \in shown[r.advice]
    BY <1>3 DEF Granted, AdviceIInv, CopiesCurrent
  <2>3. /\ r.op = "update" => row.status \in Editable
        /\ r.op = "withdraw" => row.status \in Deletable
        /\ r.op = "decide" => MayDecide(r, row)
    BY <1>3 DEF Granted
  <2>4. r.op = "decide" => MayDecide(h, row)
    BY <2>1, <2>3 DEF MayDecide
  <2> QED
    BY <2>1, <2>2, <2>3, <2>4 DEF Written
<1> QED
  BY <1>1, <1>2, <1>3, AdviceRequestStep

(* A review of a concern is the second half of one #33 and of nothing else.*)
LEMMA ReviewsStep ==
  ASSUME AdviceTypeOK, IInv, AdviceIInv, AdviceNext
  PROVE  ReviewsAreDecisions'
<1> SUFFICES ASSUME NEW x \in Workers
             PROVE  LET h == areq'[x]  q == req'[x] IN
                    /\ q # None /\ h = None => q.op # "review"
                    /\ q # None /\ h # None =>
                         /\ h.op = "decide" /\ q.op = "review"
                         /\ q.concern = advice'[h.advice].concern
                         /\ q.approve = h.approve
                    /\ h # None /\ h.op = "decide" => (h.stage = "locked" <=> q # None)
  BY DEF ReviewsAreDecisions, Idle, Serving
<1> DEFINE r == areq[x]
<1>0. /\ req[x] # None /\ r # None =>
           /\ r.op = "decide" /\ req[x].op = "review"
           /\ req[x].concern = advice[r.advice].concern
           /\ req[x].approve = r.approve
      /\ r # None /\ r.op = "decide" => (r.stage = "locked" <=> req[x] # None)
  BY DEF AdviceIInv, ReviewsAreDecisions, Idle, Serving
<1>1. CASE areq'[x] = None
  BY <1>1, NoAdviceRequestStep
<1>2. ASSUME r # None, r.op = "decide"
      PROVE  advice'[r.advice].concern = advice[r.advice].concern
  BY <1>2, AdviceRequestFields, AdviceStays DEF AdviceIInv, CopiesCurrent
<1>3. CASE r # None /\ areq'[x] = r /\ req'[x] = req[x]
  BY <1>0, <1>2, <1>3
<1>4. CASE r # None /\ areq'[x] = r /\ GrantedConcern(x)
  <2>1. /\ r.op = "decide" /\ req[x] # None /\ req[x] \in ReviewRequest /\ TakeLock(x)
        /\ concern[req[x].concern] \in ConcernRow
    <3>1. /\ r.op = "decide" /\ req[x] # None /\ req[x].op = "review"
          /\ req'[x] # None /\ (TakeLock(x) \/ Refuse(x))
      BY <1>4 DEF GrantedConcern, LockForReview, LockIf, Waiting, Idle, Serving
    <3>2. req[x] \in ReviewRequest /\ req[x].concern \in ConcernIds
      BY <3>1, RequestFields DEF AdviceTypeOK, Idle
    <3>3. concern[req[x].concern] \in ConcernRow
      BY <3>1, <3>2 DEF IInv, ChecksStillHold, Exists, Idle, AdviceTypeOK, TypeOK
    <3> QED
      BY <3>1, <3>2, <3>3 DEF Refuse, AdviceTypeOK, TypeOK
  <2> DEFINE q == [req[x] EXCEPT !.stage = "locked",
                                 !.seen = concern[req[x].concern].status]
  <2>2. req'[x] = q
    BY <2>1 DEF TakeLock, AdviceTypeOK, TypeOK
  <2>3. q.op = req[x].op /\ q.concern = req[x].concern /\ q.approve = req[x].approve
    BY <2>1 DEF ReviewRequest
  <2>4. req'[x] # None
    BY <1>4 DEF GrantedConcern
  <2> HIDE DEF q
  <2> QED
    BY <1>0, <1>2, <1>4, <2>1, <2>2, <2>3, <2>4
<1>5. CASE BeginAdviceRequest(x)
  BY <1>5, BegunRequest DEF BeginAdvice, vars, Unoccupied, Idle
<1>6. CASE Granted(x)
  <2> DEFINE h == areq'[x]
  <2>1. /\ h # None /\ h.op = r.op /\ h.advice = r.advice /\ h.stage = "locked"
        /\ (r.op = "decide" => h.approve = r.approve) /\ UNCHANGED advice
        /\ r # None /\ r.op \in {"update", "withdraw", "decide"}
    BY <1>6, GrantedRequest, AdviceRequestFields DEF Granted
  <2>2. CASE r.op = "decide"
    <3> DEFINE c == advice[r.advice].concern
               q == [op |-> "review", stage |-> "waiting", concern |-> c,
                     seen |-> None, approve |-> r.approve]
    <3>1. req' = [req EXCEPT ![x] = q]
      BY <1>6, <2>2 DEF Granted, BeginReview, Begin
    <3>2. req'[x] = q
      BY <3>1 DEF AdviceTypeOK, TypeOK
    <3>3. q \in Request
      <4>1. c \in ConcernIds
        BY <1>6, GrantedRequest DEF AdviceRow
      <4>2. r.approve \in BOOLEAN
        BY <2>1, <2>2, AdviceRequestFields DEF DecideRequest
      <4> QED
        BY <4>1, <4>2 DEF Request, ReviewRequest, Stage
    <3>4. q # None
      BY <3>3, NoneAssumption
    <3> QED
      BY <2>1, <2>2, <3>2, <3>4
  <2>3. CASE r.op # "decide"
    <3>1. req[x] = None /\ req'[x] = None
      BY <1>0, <1>6, <2>1, <2>3 DEF Granted, vars
    <3> QED
      BY <2>1, <2>3, <3>1
  <2> QED
    BY <2>2, <2>3
<1> QED
  BY <1>1, <1>3, <1>4, <1>5, <1>6, AdviceRequestStep

(* Who writes a new advice drew a key nobody else has.                     *)
LEMMA AdviceKeysStep ==
  ASSUME AdviceTypeOK, IInv, AdviceIInv, AdviceNext
  PROVE  AdviceKeysReserved'
<1> DEFINE Drew(x, id) == areq[x] # None /\ areq[x].op = "create" /\ areq[x].id = id
<1>0. \A x \in Workers : areq[x] # None /\ areq[x].op = "create" =>
        areq[x].id \in AdviceIds /\ ~Written(areq[x].id)
  BY AdviceRequestFields DEF AdviceIInv, AdviceKeysReserved, Serving, CreateRequest
<1>00. \A x, y \in Workers : \A id : Drew(x, id) /\ Drew(y, id) => x = y
  BY DEF AdviceIInv, AdviceKeysReserved, Serving
<1>1. ASSUME NEW x \in Workers, areq'[x] # None, areq'[x].op = "create"
      PROVE  \/ areq'[x] = areq[x]
             \/ BeginAdviceRequest(x) /\ ~AdviceKeyInUse(areq'[x].id)
  <2>1. ~Granted(x)
    BY <1>1, GrantedRequest
  <2>2. BeginAdviceRequest(x) => ~AdviceKeyInUse(areq'[x].id)
    BY <1>1, BegunRequest
  <2> QED
    BY <1>1, <2>1, <2>2, AdviceRequestStep
<1>2. ASSUME NEW x \in Workers, areq'[x] # None, areq'[x].op = "create"
      PROVE  advice'[areq'[x].id] = None
  <2>1. CASE areq'[x] = areq[x]
    <3> DEFINE id == areq[x].id
    <3>1. id \in AdviceIds /\ ~Written(id)
      BY <1>0, <1>2, <2>1
    <3>2. ASSUME NEW w \in Workers, Changed(w, id)
          PROVE  FALSE
      <4>1. Inserted(w, id)
        BY <3>1, <3>2 DEF Changed, Updated, Withdrawn, DecidedOn, Rewritten
      <4>2. /\ Drew(w, id) /\ areq' = [areq EXCEPT ![w] = None]
        BY <4>1 DEF Inserted, InsertAdvice, Serving, EndAdvice
      <4>3. w = x
        BY <1>00, <1>2, <2>1, <4>2
      <4> QED
        BY <1>2, <4>2, <4>3 DEF AdviceTypeOK
    <3>3. Kept(id)
      BY <3>1, <3>2, AdviceRowStep
    <3> QED
      BY <2>1, <3>1, <3>3 DEF Kept, Written
  <2>2. CASE BeginAdviceRequest(x) /\ ~AdviceKeyInUse(areq'[x].id)
    BY <2>2, BegunRequest DEF BeginAdvice, AdviceKeyInUse, Written
  <2> QED
    BY <1>1, <1>2, <2>1, <2>2
<1>3. ASSUME NEW x \in Workers, NEW y \in Workers,
             areq'[x] # None, areq'[x].op = "create",
             areq'[y] # None, areq'[y].op = "create", areq'[y].id = areq'[x].id
      PROVE  y = x
  <2>1. CASE areq'[x] = areq[x] /\ areq'[y] = areq[y]
    BY <1>00, <1>3, <2>1
  <2>2. ASSUME NEW u \in Workers, NEW v \in Workers, areq'[u] = areq[u],
               areq'[u] # None, areq'[u].op = "create", areq'[u].id = areq'[v].id,
               ~AdviceKeyInUse(areq'[v].id)
        PROVE  FALSE
    BY <2>2 DEF AdviceKeyInUse, Serving
  <2>3. ASSUME BeginAdviceRequest(x), BeginAdviceRequest(y), x # y
        PROVE  FALSE
    BY <1>3, <2>3, BegunRequest DEF BeginAdvice, Unoccupied, AdviceTypeOK
  <2> QED
    BY <1>1, <1>3, <2>1, <2>2, <2>3
<1> QED
  BY <1>2, <1>3 DEF AdviceKeysReserved, Serving, Written

(* A concern that exists, and was ever given to an advisor, stays so.      *)
LEMMA AssignedStays ==
  ASSUME AdviceTypeOK, IInv, AdviceIInv, [AdviceNext]_allVars, NEW c \in ConcernIds,
         NEW v \in Advisors
  PROVE  /\ Exists(c) => Exists(c)'
         /\ WasAssigned(v, c) => WasAssigned(v, c)'
<1>1. TypeOK /\ (Next \/ UNCHANGED vars)
  BY StepRefines DEF AdviceTypeOK
<1>2. CASE UNCHANGED vars
  BY <1>2 DEF vars, Exists, WasAssigned, AssignmentsOf
<1>3. CASE Next
  <2> DEFINE SameGiven(a) == /\ assignment'[a] # None
                             /\ assignment'[a].concern = assignment[a].concern
                             /\ assignment'[a].advisor = assignment[a].advisor
  <2>1. Exists(c) => Exists(c)'
    BY <1>1, <1>3, RowsStay
  <2>2. ASSUME NEW a \in AssignmentIds, assignment[a] # None
        PROVE  SameGiven(a)
    <3>1. CASE UNCHANGED <<assignment, announced>>
      BY <2>2, <3>1
    <3>2. ASSUME NEW w \in Workers, CommitAssign(w)
          PROVE  assignment'[a] = assignment[a]
      BY <1>1, <2>2, <3>2, InsertedRow
    <3>3. ASSUME NEW w \in Workers, CommitUnassign(w)
          PROVE  SameGiven(a)
      BY <1>1, <2>2, <3>3, DeactivatedRow
    <3> QED
      BY <1>1, <1>3, <2>2, <3>1, <3>2, <3>3, AssignmentWriters
  <2> QED
    BY <2>1, <2>2 DEF WasAssigned, AssignmentsOf
<1> QED
  BY <1>1, <1>2, <1>3

(* No advice is, or is about to be, from an advisor the concern was never  *)
(* given to.                                                               *)
LEMMA UnderAssignmentStep ==
  ASSUME AdviceTypeOK, IInv, AdviceIInv, AdviceNext
  PROVE  AdviceUnderAssignment'
<1> DEFINE Given(v, c) == Exists(c) /\ WasAssigned(v, c)
<1>1. ASSUME NEW c \in ConcernIds, NEW v \in Advisors, Given(v, c)
      PROVE  Given(v, c)'
  BY <1>1, AssignedStays
<1>2. ASSUME NEW w \in Workers, areq[w] # None, areq[w].op = "create"
      PROVE  /\ areq[w].concern \in ConcernIds /\ areq[w].advisor \in Advisors
             /\ Given(areq[w].advisor, areq[w].concern)
  BY <1>2, AdviceRequestFields DEF AdviceIInv, AdviceUnderAssignment, Serving,
     CreateRequest
<1>3. ASSUME NEW ad \in AdviceIds, Written(ad)'
      PROVE  Given(advice[ad].advisor, advice[ad].concern)'
  <2>1. CASE Written(ad)
    <3> DEFINE c == advice[ad].concern
               v == advice[ad].advisor
    <3>1. c \in ConcernIds /\ v \in Advisors /\ Given(v, c)
      BY <2>1, AdviceStays DEF AdviceIInv, AdviceUnderAssignment, AdviceRow
    <3>2. advice'[ad].concern = c /\ advice'[ad].advisor = v
      BY <2>1, AdviceStays
    <3> HIDE DEF c, v
    <3> QED
      BY <1>1, <3>1, <3>2 DEF Exists, WasAssigned, AssignmentsOf
  <2>2. CASE ~Written(ad)
    <3>1. PICK w \in Workers : Inserted(w, ad)
      BY <1>3, <2>2, AdviceRowStep
         DEF Kept, Changed, Updated, Withdrawn, DecidedOn, Rewritten, Written
    <3>2. /\ areq[w] # None /\ areq[w].op = "create"
          /\ advice'[ad].concern = areq[w].concern
          /\ advice'[ad].advisor = areq[w].advisor
          /\ UNCHANGED vars
      BY <3>1 DEF Inserted, InsertAdvice, Serving
    <3> QED
      BY <1>2, <3>2 DEF vars, Exists, WasAssigned, AssignmentsOf
  <2> QED
    BY <2>1, <2>2
<1>4. ASSUME NEW w \in Workers, areq'[w] # None, areq'[w].op = "create"
      PROVE  Given(areq[w].advisor, areq[w].concern)'
  <2>1. ~Granted(w)
    BY <1>4, GrantedRequest
  <2>2. CASE areq'[w] = areq[w]
    <3> DEFINE c == areq[w].concern
               v == areq[w].advisor
    <3>1. /\ c \in ConcernIds /\ v \in Advisors /\ Given(v, c)
          /\ areq'[w].concern = c /\ areq'[w].advisor = v
      BY <1>2, <1>4, <2>2
    <3> HIDE DEF c, v
    <3> QED
      BY <1>1, <3>1 DEF Exists, WasAssigned, AssignmentsOf
  <2>3. CASE BeginAdviceRequest(w)
    <3>1. /\ Exists(areq'[w].concern) /\ WasAssigned(areq'[w].advisor, areq'[w].concern)
          /\ UNCHANGED vars
      BY <1>4, <2>3, BegunRequest DEF BeginAdvice
    <3> QED
      BY <3>1 DEF vars, Exists, WasAssigned, AssignmentsOf
  <2> QED
    BY <1>4, <2>1, <2>2, <2>3, AdviceRequestStep
<1> QED
  BY <1>3, <1>4 DEF AdviceUnderAssignment, Serving

(* An advisor has one advice on a concern that is not withdrawn: what the  *)
(* partial unique index refuses is not inserted.                           *)
LEMMA OneLiveStep ==
  ASSUME AdviceTypeOK, IInv, AdviceIInv, AdviceNext
  PROVE  OneLiveAdvice'
<1> DEFINE Live(ad) == Written(ad) /\ advice[ad].status # "DELETED"
           New(ad) == \E w \in Workers : Inserted(w, ad)
<1> SUFFICES ASSUME NEW ad \in AdviceIds, NEW other \in AdviceIds,
                    Live(ad)', Live(other)',
                    advice'[ad].concern = advice'[other].concern,
                    advice'[ad].advisor = advice'[other].advisor
             PROVE  ad = other
  BY DEF OneLiveAdvice
<1>1. ASSUME NEW x \in AdviceIds, Live(x)'
      PROVE  \/ New(x)
             \/ /\ Live(x) /\ advice'[x].concern = advice[x].concern
                /\ advice'[x].advisor = advice[x].advisor
  <2>1. CASE Written(x)
    BY <1>1, <2>1, AdviceStays
  <2>2. CASE ~Written(x)
    BY <1>1, <2>2, AdviceRowStep
       DEF Kept, Changed, Updated, Withdrawn, DecidedOn, Rewritten, Written
  <2> QED
    BY <2>1, <2>2
<1>2. CASE New(ad) /\ New(other)
  <2>1. PICK w \in Workers : Inserted(w, ad)
    BY <1>2
  <2>2. PICK v \in Workers : Inserted(v, other)
    BY <1>2
  <2>3. /\ areq[w].id = ad /\ areq[w] # None /\ areq' = [areq EXCEPT ![w] = None]
        /\ areq[v].id = other /\ areq[v] # None /\ areq' = [areq EXCEPT ![v] = None]
    BY <2>1, <2>2 DEF Inserted, InsertAdvice, Serving, EndAdvice
  <2> QED
    BY <2>3 DEF AdviceTypeOK
<1>3. ASSUME NEW x \in AdviceIds, NEW y \in AdviceIds, New(x), Live(y),
             advice'[y].concern = advice[y].concern,
             advice'[y].advisor = advice[y].advisor,
             advice'[x].concern = advice'[y].concern,
             advice'[x].advisor = advice'[y].advisor
      PROVE  FALSE
  <2>1. PICK w \in Workers : Inserted(w, x)
    BY <1>3
  <2>2. /\ advice'[x].concern = areq[w].concern /\ advice'[x].advisor = areq[w].advisor
        /\ ~HasLiveAdvice(areq[w].concern, areq[w].advisor)
    BY <2>1 DEF Inserted
  <2> QED
    BY <1>3, <2>2 DEF HasLiveAdvice, AdvicesOn
<1>4. CASE Live(ad) /\ Live(other)
  BY <1>1, <1>4, AdviceStays DEF AdviceIInv, OneLiveAdvice
<1> QED
  BY <1>1, <1>2, <1>3, <1>4

(* ReviewedRows is kept: a decision and the mark of who made it are one    *)
(* write, and only what is undecided is decided.                           *)
LEMMA ReviewedStep ==
  ASSUME AdviceTypeOK, IInv, AdviceIInv, AdviceNext
  PROVE  ReviewedRows'
<1> SUFFICES ASSUME NEW ad \in AdviceIds, Written(ad)'
             PROVE  /\ advice'[ad].status \in Decided => advice'[ad].reviewed
                    /\ advice'[ad].status \in Reviewable => ~advice'[ad].reviewed
  BY DEF ReviewedRows
<1>0. Written(ad) => /\ advice[ad].status \in Decided => advice[ad].reviewed
                     /\ advice[ad].status \in Reviewable => ~advice[ad].reviewed
  BY DEF AdviceIInv, ReviewedRows
<1> USE DEF Decided, Reviewable, Editable, Deletable
<1>1. CASE Kept(ad)
  BY <1>0, <1>1 DEF Kept, Written
<1>2. ASSUME NEW w \in Workers, Inserted(w, ad)
      PROVE  advice'[ad].status = "PENDING" /\ ~advice'[ad].reviewed
  BY <1>2 DEF Inserted
<1>3. ASSUME NEW w \in Workers, Updated(w, ad)
      PROVE  /\ Written(ad) /\ advice'[ad].status = advice[ad].status
             /\ advice'[ad].reviewed = advice[ad].reviewed
  BY <1>3 DEF Updated, Rewritten
<1>4. ASSUME NEW w \in Workers, Withdrawn(w, ad)
      PROVE  advice'[ad].status = "DELETED"
  BY <1>4 DEF Withdrawn
<1>5. ASSUME NEW w \in Workers, DecidedOn(w, ad)
      PROVE  advice'[ad].status \in Decided /\ advice'[ad].reviewed
  BY <1>5 DEF DecidedOn
<1> QED
  BY <1>0, <1>1, <1>2, <1>3, <1>4, <1>5, AdviceRowStep DEF Changed

(* The history of an advice is finite, and there is none before the advice.*)
LEMMA HistoryRowsStep ==
  ASSUME AdviceTypeOK, IInv, AdviceIInv, AdviceNext
  PROVE  HistoryOfRows'
<1> SUFFICES ASSUME NEW ad \in AdviceIds
             PROVE  /\ IsFiniteSet(history'[ad])
                    /\ advice'[ad] = None => history'[ad] = {} /\ shown'[ad] = {}
                    /\ advice'[ad] # None => advice'[ad].version > 0
  BY DEF HistoryOfRows, Written
<1>0. /\ IsFiniteSet(history[ad])
      /\ advice[ad] = None => history[ad] = {} /\ shown[ad] = {}
      /\ advice[ad] # None => advice[ad].version > 0
  BY DEF AdviceIInv, HistoryOfRows, Written
<1>1. CASE Kept(ad)
  BY <1>0, <1>1 DEF Kept
<1>2. ASSUME NEW w \in Workers, Changed(w, ad)
      PROVE  advice'[ad] \in AdviceRow /\ advice'[ad] # None
  BY <1>2, AdviceAssumption DEF Changed, Inserted, Updated, Withdrawn, DecidedOn, Rewritten
<1>3. ASSUME NEW w \in Workers, Inserted(w, ad)
      PROVE  advice'[ad].version = 1 /\ history'[ad] = history[ad]
  BY <1>3 DEF Inserted
<1>4. ASSUME NEW w \in Workers, Withdrawn(w, ad) \/ DecidedOn(w, ad)
      PROVE  /\ Written(ad) /\ advice'[ad].version = advice[ad].version
             /\ history'[ad] = history[ad]
  BY <1>4 DEF Withdrawn, DecidedOn, Rewritten
<1>5. ASSUME NEW w \in Workers, Updated(w, ad)
      PROVE  advice'[ad].version > 0 /\ IsFiniteSet(history'[ad])
  <2>1. /\ advice[ad] # None /\ advice[ad] \in AdviceRow
        /\ advice[ad].version > 0 /\ advice[ad].version \in Nat
    BY <1>0, <1>5 DEF Updated, Rewritten, Written, AdviceRow
  <2>2. IsFiniteSet(history[ad] \cup {<<advice[ad].version, advice[ad].body>>})
    BY <1>0, FS_AddElement
  <2>3. advice'[ad].version \in {advice[ad].version, advice[ad].version + 1}
    BY <1>5 DEF Updated
  <2>4. history'[ad] \in {history[ad],
                          history[ad] \cup {<<advice[ad].version, advice[ad].body>>}}
    BY <1>5 DEF Updated
  <2>5. IsFiniteSet(history'[ad])
    BY <1>0, <2>2, <2>4, Zenon
  <2> QED
    BY <2>1, <2>3, <2>5
<1> QED
  BY <1>0, <1>1, <1>2, <1>3, <1>4, <1>5, AdviceRowStep DEF Changed, Written

(* A version is one body, and the history keeps all but the current one.   *)
LEMMA HistoryStep ==
  ASSUME AdviceTypeOK, IInv, AdviceIInv, AdviceNext
  PROVE  HistoryComplete'
<1> SUFFICES ASSUME NEW ad \in AdviceIds, advice'[ad] # None
             PROVE  /\ shown'[ad] = history'[ad] \cup {<<advice'[ad].version, advice'[ad].body>>}
                    /\ {h[1] : h \in history'[ad]} = 1 .. advice'[ad].version - 1
                    /\ Cardinality(history'[ad]) = advice'[ad].version - 1
  BY DEF HistoryComplete, Written
<1>0. Written(ad) =>
        /\ shown[ad] = history[ad] \cup {<<advice[ad].version, advice[ad].body>>}
        /\ {h[1] : h \in history[ad]} = 1 .. advice[ad].version - 1
        /\ Cardinality(history[ad]) = advice[ad].version - 1
  BY DEF AdviceIInv, HistoryComplete
<1>1. CASE Kept(ad)
  BY <1>0, <1>1 DEF Kept, Written
<1>2. ASSUME NEW w \in Workers, Inserted(w, ad)
      PROVE  /\ history'[ad] = {} /\ advice'[ad].version = 1
             /\ shown'[ad] = {<<1, advice'[ad].body>>}
  BY <1>2 DEF Inserted, AdviceIInv, HistoryOfRows
<1>3. ASSUME Written(ad), advice'[ad].version = advice[ad].version,
             advice'[ad].body = advice[ad].body, history'[ad] = history[ad],
             shown'[ad] = shown[ad] \cup {<<advice[ad].version, advice[ad].body>>}
      PROVE  /\ shown'[ad] = history'[ad] \cup {<<advice'[ad].version, advice'[ad].body>>}
             /\ {h[1] : h \in history'[ad]} = 1 .. advice'[ad].version - 1
             /\ Cardinality(history'[ad]) = advice'[ad].version - 1
  BY <1>0, <1>3
<1>4. ASSUME Written(ad), advice[ad] \in AdviceRow,
             advice'[ad].version = advice[ad].version + 1,
             history'[ad] = history[ad] \cup {<<advice[ad].version, advice[ad].body>>},
             shown'[ad] = shown[ad] \cup {<<advice'[ad].version, advice'[ad].body>>}
      PROVE  /\ shown'[ad] = history'[ad] \cup {<<advice'[ad].version, advice'[ad].body>>}
             /\ {h[1] : h \in history'[ad]} = 1 .. advice'[ad].version - 1
             /\ Cardinality(history'[ad]) = advice'[ad].version - 1
  <2> DEFINE v == advice[ad].version
             snapshot == <<v, advice[ad].body>>
  <2>1. v \in Nat /\ v > 0 /\ IsFiniteSet(history[ad])
    BY <1>4 DEF AdviceRow, AdviceIInv, HistoryOfRows
  <2>2. snapshot \notin history[ad] /\ snapshot[1] = v
    BY <1>0, <1>4, <2>1
  <2>3. Cardinality(history'[ad]) = v
    <3>1. Cardinality(history[ad] \cup {snapshot}) = Cardinality(history[ad]) + 1
      BY <2>1, <2>2, FS_AddElement
    <3> QED
      BY <1>0, <1>4, <2>1, <3>1
  <2>4. {h[1] : h \in history'[ad]} = {h[1] : h \in history[ad]} \cup {v}
    BY <1>4, <2>2
  <2>5. (1 .. v - 1) \cup {v} = 1 .. v
    BY <2>1
  <2> QED
    BY <1>0, <1>4, <2>1, <2>3, <2>4, <2>5
<1>5. ASSUME NEW w \in Workers, Updated(w, ad)
      PROVE  /\ Written(ad) /\ advice[ad] \in AdviceRow
             /\ shown'[ad] = shown[ad] \cup {<<advice'[ad].version, advice'[ad].body>>}
             /\ \/ /\ advice'[ad].version = advice[ad].version
                   /\ advice'[ad].body = advice[ad].body
                   /\ history'[ad] = history[ad]
                \/ /\ advice'[ad].version = advice[ad].version + 1
                   /\ history'[ad] = history[ad] \cup {<<advice[ad].version, advice[ad].body>>}
  BY <1>5 DEF Updated, Rewritten
<1>6. ASSUME NEW w \in Workers, Withdrawn(w, ad) \/ DecidedOn(w, ad)
      PROVE  /\ Written(ad) /\ advice'[ad].version = advice[ad].version
             /\ advice'[ad].body = advice[ad].body /\ history'[ad] = history[ad]
             /\ shown'[ad] = shown[ad] \cup {<<advice[ad].version, advice[ad].body>>}
  BY <1>6 DEF Withdrawn, DecidedOn, Rewritten
<1>7. CASE \E w \in Workers : Inserted(w, ad)
  <2>1. Cardinality({}) = 0
    BY FS_EmptySet
  <2> QED
    BY <1>2, <1>7, <2>1
<1>8. CASE \E w \in Workers : Updated(w, ad)
  BY <1>3, <1>4, <1>5, <1>8
<1>9. CASE \E w \in Workers : Withdrawn(w, ad) \/ DecidedOn(w, ad)
  BY <1>3, <1>6, <1>9
<1> QED
  BY <1>1, <1>7, <1>8, <1>9, AdviceRowStep DEF Changed

(* A decision is told once, and nothing else is.                           *)
LEMMA NoticeStep ==
  ASSUME AdviceTypeOK, IInv, AdviceIInv, AdviceNext
  PROVE  NoticePerDecision'
<1> DEFINE Due(row) == [approved |-> IF row # None /\ row.reviewed /\ row.status = "APPROVED"
                                     THEN 1 ELSE 0,
                        rejected |-> IF row # None /\ row.reviewed /\ row.status # "APPROVED"
                                     THEN 1 ELSE 0]
<1> SUFFICES ASSUME NEW ad \in AdviceIds
             PROVE  told'[ad] = Due(advice'[ad])
  BY DEF NoticePerDecision, Written
<1>0. told[ad] = Due(advice[ad])
  BY DEF AdviceIInv, NoticePerDecision, Written
<1>1. CASE Kept(ad)
  BY <1>0, <1>1 DEF Kept
<1>2. ASSUME NEW w \in Workers, Inserted(w, ad)
      PROVE  ~Written(ad) /\ ~advice'[ad].reviewed /\ told'[ad] = told[ad]
  BY <1>2 DEF Inserted
<1>3. ASSUME NEW w \in Workers, Updated(w, ad)
      PROVE  /\ advice[ad] # None /\ advice'[ad] # None
             /\ advice'[ad].status = advice[ad].status
             /\ advice'[ad].reviewed = advice[ad].reviewed /\ told'[ad] = told[ad]
  BY <1>3, AdviceAssumption DEF Updated, Rewritten, Written
<1>4. ASSUME NEW w \in Workers, Withdrawn(w, ad)
      PROVE  /\ advice[ad] # None /\ advice'[ad] # None
             /\ advice[ad].status # "APPROVED" /\ advice'[ad].status # "APPROVED"
             /\ advice'[ad].reviewed = advice[ad].reviewed /\ told'[ad] = told[ad]
  BY <1>4, AdviceAssumption DEF Withdrawn, Rewritten, Written, Deletable
<1>5. ASSUME NEW w \in Workers, DecidedOn(w, ad)
      PROVE  told'[ad] = Due(advice'[ad])
  <2>1. /\ advice[ad] # None /\ advice'[ad] # None
        /\ ~advice[ad].reviewed /\ advice'[ad].reviewed
    BY <1>5, AdviceAssumption
       DEF DecidedOn, Rewritten, Written, MayDecide, AdviceIInv, ReviewedRows
  <2>2. told[ad] = [approved |-> 0, rejected |-> 0]
    BY <1>0, <2>1
  <2>3. /\ advice'[ad].status = IF areq[w].approve THEN "APPROVED" ELSE "REJECTED"
        /\ told'[ad] = IF areq[w].approve THEN [told[ad] EXCEPT !.approved = @ + 1]
                                          ELSE [told[ad] EXCEPT !.rejected = @ + 1]
    BY <1>5 DEF DecidedOn
  <2> QED
    BY <2>1, <2>2, <2>3
<1> QED
  BY <1>0, <1>1, <1>2, <1>3, <1>4, <1>5, AdviceRowStep DEF Changed, Written

(* A concern that appears was submitted.                                   *)
LEMMA CreatedConcern ==
  ASSUME TypeOK, IInv, Next, NEW c \in ConcernIds, ~Exists(c), Exists(c)'
  PROVE  concern'[c].status = "SUBMITTED"
<1>1. ASSUME NEW d \in ConcernIds, NEW u \in Authors, NEW t \in Texts,
             CreateConcern(d, u, t)
      PROVE  concern'[c].status = "SUBMITTED"
  BY <1>1 DEF CreateConcern, Exists, TypeOK
<1>2. ASSUME NEW w \in Workers, NEW d \in ConcernIds, BeginRequest(w, d)
      PROVE  FALSE
  BY <1>2, BegunRequestTyped DEF Exists
<1>3. ASSUME NEW w \in Workers, ~Idle(w)
      PROVE  req[w].concern \in ConcernIds /\ req[w].concern # c
  BY <1>3, RequestFields DEF IInv, ChecksStillHold, Exists
<1>4. ASSUME NEW w \in Workers, AtTheRow(w)
      PROVE  FALSE
  BY <1>3, <1>4, AtTheRowCases DEF Refuse, TakeLock, WriteDeleted, Exists, TypeOK
<1>5. ASSUME NEW w \in Workers, Commit(w)
      PROVE  FALSE
  BY <1>3, <1>5, CommitFacts, CommitLocality DEF Exists
<1>6. ASSUME NEW w \in Workers, Abort(w)
      PROVE  FALSE
  BY <1>6 DEF Abort, Exists
<1>7. ASSUME NEW d \in ConcernIds, AdminAction(d)
      PROVE  FALSE
  BY <1>7 DEF AdminAction, CloseSelected, SoftDeleteSelected, RestoreSelected, IsLive,
     Exists, TypeOK
<1> QED
  BY <1>1, <1>2, <1>4, <1>5, <1>6, <1>7 DEF Next

(* A concern is answered by #33, which approves its advice with it.        *)
LEMMA ReviewCommit ==
  ASSUME AdviceTypeOK, IInv, AdviceIInv, AdviceNext, NEW w \in Workers,
         CommitReview(w), concern' # concern
  PROVE  CommitDecide(w)
<1>1. req[w] # None /\ req[w].op = "review" /\ req'[w] = None
  BY DEF CommitReview, InTransaction, Idle, EndTransaction, AdviceTypeOK, TypeOK
<1>2. areq[w] # None
  BY <1>1 DEF AdviceIInv, ReviewsAreDecisions, Idle
<1>3. ~ConcernStep
  BY <1>1, <1>2, ConcernStepFrame DEF AdviceTypeOK
<1>4. AdviceMove(w)
  BY <1>1, <1>3, OthersStay DEF AdviceNext, AdviceMove, Untouched
<1>5. ~(InsertAdvice(w) \/ CommitUpdate(w) \/ CommitWithdraw(w))
  BY DEF InsertAdvice, CommitUpdate, CommitWithdraw, vars
<1>6. ~BeginAdviceRequest(w)
  BY BegunAdvice DEF BeginAdvice, vars
<1>7. ~Granted(w) /\ ~GrantedConcern(w)
  BY <1>1, AdviceRequestFields DEF Granted, vars, BeginReview, Begin, Idle, GrantedConcern
<1> QED
  BY <1>4, <1>5, <1>6, <1>7, MoveCases DEF Writes

(* AnsweredHasApproval is kept: a concern becomes ANSWERED by a decision   *)
(* that approves, and approvals are for good.                              *)
LEMMA AnsweredStep ==
  ASSUME AdviceTypeOK, IInv, AdviceIInv, AdviceNext
  PROVE  AnsweredHasApproval'
<1> SUFFICES ASSUME NEW c \in ConcernIds, concern'[c] # None,
                    concern'[c].status \in {"ANSWERED", "CLOSED"}
             PROVE  \E ad \in AdviceIds : /\ advice'[ad] # None
                                          /\ advice'[ad].concern = c
                                          /\ advice'[ad].status = "APPROVED"
  BY DEF AnsweredHasApproval, Exists, AdvicesOn, Written
<1>1. TypeOK /\ (Next \/ UNCHANGED vars)
  BY StepRefines DEF AdviceTypeOK
<1>2. Exists(c) 
  <2>1. CASE UNCHANGED vars
    BY <2>1 DEF vars, Exists
  <2>2. CASE ~Exists(c) /\ Next
    BY <1>1, <2>2, CreatedConcern DEF Exists
  <2> QED
    BY <1>1, <2>1, <2>2
<1>3. CASE concern[c].status \in {"ANSWERED", "CLOSED"}
  <2>1. PICK ad \in AdvicesOn(c) : advice[ad].status = "APPROVED"
    BY <1>2, <1>3 DEF AdviceIInv, AnsweredHasApproval
  <2>2. ad \in AdviceIds /\ Written(ad) /\ advice[ad].concern = c
    BY DEF AdvicesOn
  <2> QED
    BY <2>1, <2>2, AdviceStays DEF Written
<1>4. CASE concern[c].status \notin {"ANSWERED", "CLOSED"}
  <2>1. /\ concern[c].status = "ASSIGNED" /\ concern'[c].status = "ANSWERED"
        /\ \E w \in Workers : CommitReview(w) /\ req[w].concern = c
    BY <1>1, <1>2, <1>4, FieldSteps DEF vars
  <2>2. PICK w \in Workers : CommitReview(w) /\ req[w].concern = c
    BY <2>1
  <2>3. req[w].approve
    BY <2>1, <2>2 DEF CommitReview
  <2>4. CommitDecide(w)
    BY <2>1, <2>2, ReviewCommit
  <2> DEFINE ad == areq[w].advice
  <2>5. areq[w] # None /\ areq[w].op = "decide" /\ areq[w].advice \in AdviceIds
    BY <2>4, AdviceRequestFields DEF CommitDecide, Serving
  <2>6. /\ req[w] # None /\ req[w].concern = advice[ad].concern
        /\ req[w].approve = areq[w].approve /\ Written(ad)
    BY <2>2, <2>5 DEF AdviceIInv, ReviewsAreDecisions, CopiesCurrent, CommitReview,
       InTransaction, Idle
  <2>7. DecidedOn(w, ad)
    BY <2>4, <2>5, DecideEffect
  <2>8. advice'[ad].status = "APPROVED"
    BY <2>3, <2>6, <2>7 DEF DecidedOn
  <2> QED
    BY <2>2, <2>5, <2>6, <2>8, AdviceStays DEF Written
<1> QED
  BY <1>3, <1>4

(* Every step writes whole tables of the same keys.                        *)
IsTable(f, S) == f = [x \in S |-> f[x]]

(* Tables stay functions over their keys.                                  *)
LEMMA TablesStay ==
  ASSUME AdviceTypeOK, IInv, AdviceIInv, AdviceNext
  PROVE  /\ IsTable(advice, AdviceIds)' /\ IsTable(history, AdviceIds)'
         /\ IsTable(told, AdviceIds)' /\ IsTable(shown, AdviceIds)'
         /\ IsTable(adviceHolder, AdviceIds)' /\ IsTable(areq, Workers)'
<1> USE DEF IsTable
<1>0. /\ IsTable(advice, AdviceIds) /\ IsTable(history, AdviceIds)
      /\ IsTable(told, AdviceIds) /\ IsTable(shown, AdviceIds)
      /\ IsTable(adviceHolder, AdviceIds) /\ IsTable(areq, Workers)
  BY DEF AdviceTypeOK
<1>1. CASE ConcernStep
  BY <1>0, <1>1 DEF ConcernStep, adviceVars
<1>2. ASSUME NEW w \in Workers, BeginAdviceRequest(w)
      PROVE  UNCHANGED <<advice, history, told, shown, adviceHolder>> /\ IsTable(areq, Workers)'
  BY <1>0, <1>2, BegunAdvice DEF BeginAdvice
<1>3. ASSUME NEW w \in Workers, Granted(w)
      PROVE  /\ UNCHANGED <<advice, history, told, shown>>
             /\ IsTable(areq, Workers)' /\ IsTable(adviceHolder, AdviceIds)'
  BY <1>0, <1>3 DEF Granted, HoldAdvice
<1>4. ASSUME NEW w \in Workers, Done(w)
      PROVE  IsTable(areq, Workers)' /\ IsTable(adviceHolder, AdviceIds)'
  BY <1>0, <1>4 DEF Done
<1>5. ASSUME NEW w \in Workers, Writes(w)
      PROVE  /\ IsTable(advice, AdviceIds)' /\ IsTable(history, AdviceIds)'
             /\ IsTable(told, AdviceIds)' /\ IsTable(shown, AdviceIds)'
  <2>1. CASE InsertAdvice(w)
    BY <1>0, <2>1 DEF InsertAdvice, WriteAdvice
  <2>2. CASE CommitUpdate(w)
    BY <1>0, <2>2 DEF CommitUpdate, WriteAdvice
  <2>3. CASE CommitWithdraw(w)
    BY <1>0, <2>3 DEF CommitWithdraw, WriteAdvice
  <2>4. CASE CommitDecide(w)
    BY <1>0, <2>4 DEF CommitDecide, WriteAdvice
  <2> QED
    BY <1>5, <2>1, <2>2, <2>3, <2>4 DEF Writes
<1>6. ASSUME NEW w \in Workers, GrantedConcern(w)
      PROVE  UNCHANGED adviceVars
  BY <1>6 DEF GrantedConcern
<1>7. ASSUME NEW w \in Workers, AdviceMove(w)
      PROVE  /\ IsTable(advice, AdviceIds)' /\ IsTable(history, AdviceIds)'
             /\ IsTable(told, AdviceIds)' /\ IsTable(shown, AdviceIds)'
             /\ IsTable(adviceHolder, AdviceIds)' /\ IsTable(areq, Workers)'
  <2>1. CASE BeginAdviceRequest(w)
    BY <1>0, <1>2, <2>1
  <2>2. CASE Granted(w)
    BY <1>0, <1>3, <2>2
  <2>3. CASE GrantedConcern(w)
    BY <1>0, <1>6, <2>3 DEF adviceVars
  <2>4. CASE Done(w) /\ Writes(w)
    BY <1>4, <1>5, <2>4
  <2>5. CASE Done(w) /\ UNCHANGED <<advice, history, told, shown, concern, assignment>>
    BY <1>0, <1>4, <2>5
  <2> HIDE DEF IsTable
  <2> QED
    BY <1>7, <2>1, <2>2, <2>3, <2>4, <2>5, MoveCases
<1> HIDE DEF IsTable
<1> QED
  BY <1>1, <1>7 DEF AdviceNext, AdviceMove

(* A function over the keys whose values are rows is a table.              *)
LEMMA TableOf ==
  ASSUME NEW S, NEW T, NEW f, IsTable(f, S), \A x \in S : f[x] \in T
  PROVE  f \in [S -> T]
BY DEF IsTable

(* A row, and what is kept beside it, has its type after every step.       *)
LEMMA RowTyped ==
  ASSUME AdviceTypeOK, IInv, AdviceIInv, AdviceNext, NEW ad \in AdviceIds
  PROVE  /\ advice'[ad] \in AdviceRow \cup {None}
         /\ history'[ad] \in SUBSET (Nat \X Bodies)
         /\ shown'[ad] \in SUBSET (Nat \X Bodies)
         /\ told'[ad] \in Notices
<1>0. /\ advice[ad] \in AdviceRow \cup {None}
      /\ history[ad] \in SUBSET (Nat \X Bodies)
      /\ shown[ad] \in SUBSET (Nat \X Bodies)
      /\ told[ad] \in Notices
  BY DEF AdviceTypeOK
<1>1. CASE Kept(ad)
  BY <1>0, <1>1 DEF Kept
<1>2. ASSUME NEW w \in Workers, Changed(w, ad)
      PROVE  /\ advice'[ad] \in AdviceRow
             /\ shown'[ad] = shown[ad] \cup {<<advice'[ad].version, advice'[ad].body>>}
             /\ \/ history'[ad] = history[ad]
                \/ /\ history'[ad] = history[ad] \cup {<<advice[ad].version, advice[ad].body>>}
                   /\ advice[ad] \in AdviceRow
             /\ \/ told'[ad] = told[ad]
                \/ told'[ad] = [told[ad] EXCEPT !.approved = @ + 1]
                \/ told'[ad] = [told[ad] EXCEPT !.rejected = @ + 1]
  <2>1. CASE Inserted(w, ad)
    BY <2>1 DEF Inserted
  <2>2. CASE Updated(w, ad)
    BY <2>2 DEF Updated, Rewritten
  <2>3. CASE Withdrawn(w, ad)
    BY <2>3 DEF Withdrawn, Rewritten
  <2>4. CASE DecidedOn(w, ad)
    BY <2>4 DEF DecidedOn, Rewritten
  <2> QED
    BY <1>2, <2>1, <2>2, <2>3, <2>4 DEF Changed
<1>3. \A row \in AdviceRow : <<row.version, row.body>> \in Nat \X Bodies
  BY DEF AdviceRow
<1>4. /\ [told[ad] EXCEPT !.approved = @ + 1] \in Notices
      /\ [told[ad] EXCEPT !.rejected = @ + 1] \in Notices
  BY <1>0 DEF Notices
<1> QED
  BY <1>0, <1>1, <1>2, <1>3, <1>4, AdviceRowStep

(* Every step keeps the types.                                             *)
LEMMA AdviceTypeStep ==
  ASSUME AdviceTypeOK, IInv, AdviceIInv, AdviceNext
  PROVE  AdviceTypeOK'
<1>1. TypeOK'
  BY StepRefines, TypeStep DEF AdviceTypeOK
<1>2. ASSUME NEW x \in Workers
      PROVE  areq'[x] \in AdviceRequest \cup {None}
  BY AdviceRequestStep, AdviceRequestFields, BegunRequest, GrantedRequest
<1>3. ASSUME NEW ad \in AdviceIds
      PROVE  adviceHolder'[ad] \in Workers \cup {None}
  <2>0. adviceHolder[ad] \in Workers \cup {None}
    BY DEF AdviceTypeOK
  <2>1. CASE ConcernStep
    BY <2>0, <2>1 DEF ConcernStep, adviceVars
  <2>2. ASSUME NEW w \in Workers, AdviceMove(w)
        PROVE  adviceHolder'[ad] \in Workers \cup {None}
    BY <2>0, <2>2, MoveCases, BegunAdvice
       DEF BeginAdvice, Granted, HoldAdvice, AdviceTypeOK, GrantedConcern, adviceVars, Done
  <2> QED
    BY <2>1, <2>2 DEF AdviceNext, AdviceMove
<1>4. advice' \in [AdviceIds -> AdviceRow \cup {None}]
  BY TablesStay, RowTyped, TableOf
<1>5. /\ history' \in [AdviceIds -> SUBSET (Nat \X Bodies)]
      /\ shown' \in [AdviceIds -> SUBSET (Nat \X Bodies)]
  BY TablesStay, RowTyped, TableOf
<1>6. told' \in [AdviceIds -> Notices]
  BY TablesStay, RowTyped, TableOf
<1>7. /\ adviceHolder' \in [AdviceIds -> Workers \cup {None}]
      /\ areq' \in [Workers -> AdviceRequest \cup {None}]
  BY <1>2, <1>3, TablesStay, TableOf
<1> QED
  BY <1>1, <1>4, <1>5, <1>6, <1>7 DEF AdviceTypeOK

(* A step of nobody.                                                       *)
LEMMA AdviceStutter ==
  ASSUME AdviceTypeOK, AdviceIInv, UNCHANGED allVars
  PROVE  AdviceTypeOK' /\ AdviceIInv'
<1> USE DEF allVars, vars, adviceVars
<1>1. AdviceTypeOK'
  BY DEF AdviceTypeOK, TypeOK
<1>2. AdviceLocksOK' /\ AdviceKeysReserved' /\ OneLiveAdvice'
  BY DEF AdviceIInv, AdviceLocksOK, AdviceKeysReserved, OneLiveAdvice, Serving, Written
<1>3. CopiesCurrent' /\ ReviewsAreDecisions'
  BY DEF AdviceIInv, CopiesCurrent, ReviewsAreDecisions, Serving, Written, Idle, MayDecide
<1>4. AdviceUnderAssignment' /\ AnsweredHasApproval'
  BY DEF AdviceIInv, AdviceUnderAssignment, AnsweredHasApproval, AdvicesOn, Written,
     Serving, Exists, WasAssigned, AssignmentsOf
<1>5. ReviewedRows' /\ HistoryOfRows' /\ HistoryComplete' /\ NoticePerDecision'
  BY DEF AdviceIInv, ReviewedRows, HistoryOfRows, HistoryComplete, NoticePerDecision,
     Written
<1> QED
  BY <1>1, <1>2, <1>3, <1>4, <1>5 DEF AdviceIInv

-----------------------------------------------------------------------------
(* The initial state.                                                      *)
LEMMA AdviceInitInvariant == AdviceInit => AdviceTypeOK /\ IInv /\ AdviceIInv
<1> SUFFICES ASSUME AdviceInit
             PROVE  AdviceTypeOK /\ IInv /\ AdviceIInv
  OBVIOUS
<1> USE DEF AdviceInit
<1>1. TypeOK /\ IInv
  BY InitInvariant
<1>2. AdviceTypeOK
  BY <1>1 DEF AdviceTypeOK, Notices
<1>3. \A w \in Workers : areq[w] = None /\ req[w] = None
  BY DEF Init
<1>4. \A ad \in AdviceIds : advice[ad] = None /\ \A w \in Workers : adviceHolder[ad] # w
  BY NoneAssumption
<1>5. AdviceLocksOK /\ CopiesCurrent /\ ReviewsAreDecisions /\ AdviceKeysReserved
  BY <1>3, <1>4 DEF AdviceLocksOK, CopiesCurrent, ReviewsAreDecisions,
     AdviceKeysReserved, Serving, Idle
<1>6. AdviceUnderAssignment /\ OneLiveAdvice /\ ReviewedRows /\ HistoryComplete
  BY <1>3, <1>4 DEF AdviceUnderAssignment, OneLiveAdvice, ReviewedRows, HistoryComplete,
     Written, Serving
<1>7. HistoryOfRows
  BY <1>4, FS_EmptySet DEF HistoryOfRows, Written
<1>8. NoticePerDecision
  BY <1>4 DEF NoticePerDecision, Written
<1>9. AnsweredHasApproval
  BY DEF AnsweredHasApproval, Init, Exists
<1> QED
  BY <1>1, <1>2, <1>5, <1>6, <1>7, <1>8, <1>9 DEF AdviceIInv

(* Every step keeps the invariant of the composition.                      *)
LEMMA AdviceInvariantStep ==
  AdviceTypeOK /\ IInv /\ AdviceIInv /\ [AdviceNext]_allVars
    => (AdviceTypeOK /\ IInv /\ AdviceIInv)'
<1> SUFFICES ASSUME AdviceTypeOK, IInv, AdviceIInv, [AdviceNext]_allVars
             PROVE  AdviceTypeOK' /\ IInv' /\ AdviceIInv'
  OBVIOUS
<1>1. IInv'
  BY StepRefines, ConcernInvariantStep DEF AdviceTypeOK
<1>2. CASE AdviceNext
  BY <1>1, <1>2, AdviceTypeStep, AdviceLocksStep, CopiesStep, ReviewsStep,
     AdviceKeysStep, UnderAssignmentStep, OneLiveStep, ReviewedStep, HistoryRowsStep,
     HistoryStep, NoticeStep, AnsweredStep DEF AdviceIInv
<1>3. CASE UNCHANGED allVars
  BY <1>1, <1>3, AdviceStutter
<1> QED
  BY <1>2, <1>3

(* In every reachable state of both applications together the tables keep  *)
(* their types, and whatever a transaction read or checked under a row     *)
(* lock is still true of the tables when it commits.                       *)
THEOREM AdviceInvariance == AdviceSpec => [](AdviceTypeOK /\ IInv /\ AdviceIInv)
BY AdviceInitInvariant, AdviceInvariantStep, PTL DEF AdviceSpec

AdviceInvariant == AdviceTypeOK /\ IInv /\ AdviceIInv

(* The invariant of the composition, which the theorems below start from.  *)
LEMMA AdviceInvariantHolds == AdviceSpec => []AdviceInvariant
BY AdviceInvariance DEF AdviceInvariant

(* Every advice table, lock and request holds what its column may.         *)
THEOREM AdviceTypeCorrect == AdviceSpec => []AdviceTypeOK
BY AdviceInvariance, PTL

(* Refinement: the two applications together do to the concerns what       *)
(* Concerns specifies, so its theorems hold of them as well.               *)
THEOREM AdviceRefinesConcerns == AdviceSpec => ConcernsSpec
<1>1. AdviceInit => Init
  BY DEF AdviceInit
<1>2. AdviceTypeOK /\ IInv /\ AdviceIInv /\ [AdviceNext]_allVars => [Next]_vars
  BY StepRefines
<1> QED
  BY AdviceInvariance, <1>1, <1>2, PTL DEF AdviceSpec, ConcernsSpec, Spec

(* A concern that counts as answered has an approved advice.               *)
THEOREM AnsweredIsApproved == AdviceSpec => []AnsweredHasApproval
<1>1. AdviceIInv => AnsweredHasApproval
  BY DEF AdviceIInv
<1> QED
  BY AdviceInvariance, <1>1, PTL

(* A version number stands for one body, and every earlier one is kept.    *)
THEOREM HistoryIsComplete == AdviceSpec => []HistoryComplete
<1>1. AdviceIInv => HistoryComplete
  BY DEF AdviceIInv
<1> QED
  BY AdviceInvariance, <1>1, PTL

(* Each decision was notified once, and nothing else was.                  *)
THEOREM NoticesExact == AdviceSpec => []NoticePerDecision
<1>1. AdviceIInv => NoticePerDecision
  BY DEF AdviceIInv
<1> QED
  BY AdviceInvariance, <1>1, PTL

(* Nothing but #33 decides an advice.                                      *)
LEMMA DecisionsByReview ==
  ASSUME AdviceTypeOK, IInv, AdviceIInv, AdviceNext, NEW ad \in AdviceIds,
         Written(ad), advice[ad].status \notin Decided, advice'[ad].status \in Decided
  PROVE  \E w \in Workers : DecidedOn(w, ad)
<1>1. ~Kept(ad)
  BY DEF Kept
<1>2. ASSUME NEW w \in Workers
      PROVE  ~(Inserted(w, ad) \/ Updated(w, ad) \/ Withdrawn(w, ad))
  BY DEF Inserted, Updated, Withdrawn, Decided
<1> QED
  BY <1>1, <1>2, AdviceRowStep DEF Changed

(* A decision falls on the body the administrator had read.                *)
THEOREM DecisionAsRead == AdviceSpec => DecidedAsRead
<1>1. ASSUME AdviceTypeOK, IInv, AdviceIInv, AdviceNext, NEW ad \in AdviceIds,
             Written(ad), advice[ad].status \notin Decided, advice'[ad].status \in Decided
      PROVE  /\ advice'[ad].submitted /\ IsLive(advice[ad].concern)
             /\ \E w \in Workers :
                  /\ Serving(w, "decide") /\ areq[w].advice = ad /\ areq'[w] = None
                  /\ areq[w].read = advice'[ad].body
                  /\ areq[w].approve <=> advice'[ad].status = "APPROVED"
  <2>1. PICK w \in Workers : DecidedOn(w, ad)
    BY <1>1, DecisionsByReview
  <2> DEFINE r == areq[w]
  <2>2. /\ CommitDecide(w) /\ r.advice = ad /\ MayDecide(r, advice[ad])
        /\ <<r.version, r.read>> \in shown[ad]
        /\ advice[ad] \in AdviceRow /\ advice'[ad].body = advice[ad].body
        /\ advice'[ad].submitted = advice[ad].submitted
        /\ advice'[ad].status = IF r.approve THEN "APPROVED" ELSE "REJECTED"
        /\ req[w] # None /\ req[w].concern = advice[ad].concern
    BY <2>1 DEF DecidedOn, Rewritten
  <2>3. Serving(w, "decide") /\ areq'[w] = None
    BY <1>1, <2>2 DEF CommitDecide, ReleaseAdvice, AdviceTypeOK
  <2>4. r.read = advice[ad].body
    <3>1. /\ shown[ad] = history[ad] \cup {<<advice[ad].version, advice[ad].body>>}
          /\ {h[1] : h \in history[ad]} = 1 .. advice[ad].version - 1
      BY <1>1 DEF AdviceIInv, HistoryComplete
    <3>2. r.version = advice[ad].version /\ advice[ad].version \in Nat
      BY <2>2 DEF MayDecide, AdviceRow
    <3>3. <<r.version, r.read>> \notin history[ad]
      <4>1. ASSUME <<r.version, r.read>> \in history[ad]
            PROVE  r.version \in 1 .. advice[ad].version - 1
        BY <3>1, <4>1
      <4> QED
        BY <3>2, <4>1
    <3> QED
      BY <2>2, <3>1, <3>3
  <2>5. IsLive(advice[ad].concern)
    <3>1. CommitReview(w)
      BY <2>2 DEF CommitDecide
    <3>2. ~concern[req[w].concern].deleted
      BY <1>1, <3>1, CommitGuards DEF AdviceTypeOK
    <3> QED
      BY <1>1, <2>2, <3>2 DEF IsLive, AdviceIInv, AdviceUnderAssignment
  <2> QED
    BY <2>2, <2>3, <2>4, <2>5 DEF MayDecide
<1>2. AdviceTypeOK /\ IInv /\ AdviceIInv /\ [AdviceNext]_allVars =>
        [\A ad \in AdviceIds :
           Written(ad) /\ advice[ad].status \notin Decided /\ advice'[ad].status \in Decided
             => /\ advice'[ad].submitted /\ IsLive(advice[ad].concern)
                /\ \E w \in Workers :
                     /\ Serving(w, "decide") /\ areq[w].advice = ad /\ areq'[w] = None
                     /\ areq[w].read = advice'[ad].body
                     /\ areq[w].approve <=> advice'[ad].status = "APPROVED"]_allVars
  BY <1>1
<1> QED
  BY AdviceInvariance, <1>2, PTL DEF AdviceSpec, DecidedAsRead

(* A decision stands: no edit or second review changes a decided advice.   *)
THEOREM DecisionStays == AdviceSpec => DecisionFinal
<1>1. ASSUME AdviceTypeOK, IInv, AdviceIInv, AdviceNext, NEW ad \in AdviceIds, Written(ad)
      PROVE  LET row == advice[ad]  next == advice'[ad] IN
             /\ row.status \in {"APPROVED", "DELETED"} => next = row
             /\ row.status = "REJECTED" => next \in {row, [row EXCEPT !.status = "DELETED"]}
  <2>1. advice[ad].status \in {"APPROVED", "DELETED"} => advice'[ad] = advice[ad]
    BY <1>1, AdviceStays
  <2>2. ASSUME advice[ad].status = "REJECTED"
        PROVE  advice'[ad] \in {advice[ad], [advice[ad] EXCEPT !.status = "DELETED"]}
    <3>1. ASSUME NEW w \in Workers
          PROVE  ~(Inserted(w, ad) \/ Updated(w, ad) \/ DecidedOn(w, ad))
      BY <1>1, <2>2 DEF Inserted, Updated, DecidedOn, MayDecide, Editable, Reviewable
    <3> QED
      BY <1>1, <3>1, AdviceRowStep DEF Changed, Kept, Withdrawn
  <2> QED
    BY <2>1, <2>2
<1>2. AdviceTypeOK /\ IInv /\ AdviceIInv /\ [AdviceNext]_allVars =>
        [\A ad \in AdviceIds : Written(ad) =>
           LET row == advice[ad]  next == advice'[ad] IN
           /\ row.status \in {"APPROVED", "DELETED"} => next = row
           /\ row.status = "REJECTED" =>
                next \in {row, [row EXCEPT !.status = "DELETED"]}]_allVars
  BY <1>1
<1> QED
  BY AdviceInvariance, <1>2, PTL DEF AdviceSpec, DecisionFinal

(* The text of a concern never changes under an advice, written or on its  *)
(* way: a concern with an advice has an assignment row, which #47 refuses. *)
THEOREM TextUnderAdviceFrozen == AdviceSpec => TextUnderAdviceStays
<1>1. ASSUME AdviceTypeOK, IInv, AdviceIInv, AdviceNext,
             NEW c \in ConcernIds, Exists(c), concern'[c].text # concern[c].text
      PROVE  /\ AdvicesOn(c)' = {}
             /\ ~\E w \in Workers : Serving(w, "create") /\ areq[w].concern = c
  <2>1. TypeOK /\ Next
    BY <1>1, StepRefines DEF AdviceTypeOK, vars
  <2>2. PICK w \in Workers : CommitEdit(w) /\ req[w].concern = c
    BY <1>1, <2>1, FieldSteps
  <2>3. ~EverAssigned(c) /\ UNCHANGED assignment
    BY <1>1, <2>1, <2>2, CommitGuards DEF MayEdit
  <2>4. ~EverAssigned(c)'
    BY <2>3 DEF EverAssigned, AssignmentsOf
  <2>5. ASSUME NEW ad \in AdviceIds, Written(ad)'
        PROVE  EverAssigned(advice[ad].concern)'
    BY <1>1, <2>5, AdviceInvariantStep DEF AdviceIInv, AdviceUnderAssignment,
       WasAssigned, EverAssigned, AssignmentsOf
  <2>6. AdvicesOn(c)' = {}
    BY <2>4, <2>5 DEF AdvicesOn, EverAssigned, AssignmentsOf
  <2> QED
    BY <1>1, <2>3, <2>6 DEF AdviceIInv, AdviceUnderAssignment, WasAssigned,
       EverAssigned, AssignmentsOf
<1>2. AdviceTypeOK /\ IInv /\ AdviceIInv /\ [AdviceNext]_allVars =>
        [\A c \in ConcernIds :
           Exists(c) /\ concern'[c].text # concern[c].text
             => /\ AdvicesOn(c)' = {}
                /\ ~\E w \in Workers : Serving(w, "create") /\ areq[w].concern = c]_allVars
  BY <1>1
<1> QED
  BY AdviceInvariance, <1>2, PTL DEF AdviceSpec, TextUnderAdviceStays

(* The assignment rows of a concern name every advisor who has an advice on*)
(* it or is about to insert one, ended assignments included.               *)
THEOREM WritersWereAssigned == AdviceSpec => []AdviceUnderAssignment
<1>1. AdviceIInv => AdviceUnderAssignment
  BY DEF AdviceIInv
<1> QED
  BY AdviceInvariance, <1>1, PTL

(* What the commit of a #33 makes of the status of the concern.            *)
LEMMA DecisionAnswers ==
  ASSUME AdviceTypeOK, IInv, AdviceIInv, NEW w \in Workers, NEW ad \in AdviceIds,
         DecidedOn(w, ad)
  PROVE  LET c == advice[ad].concern IN
         concern'[c].status = IF areq[w].approve /\ concern[c].status = "ASSIGNED"
                              THEN "ANSWERED" ELSE concern[c].status
<1> DEFINE c == req[w].concern
<1>1. /\ CommitReview(w) /\ InTransaction(w, "review") /\ ~Idle(w)
      /\ req[w].approve = areq[w].approve /\ advice[ad].concern = c
  BY DEF DecidedOn, CommitDecide, CommitReview, InTransaction
<1>2. c \in ConcernIds /\ Exists(c) /\ req[w].seen = concern[c].status
  BY <1>1, RequestFields DEF IInv, ChecksStillHold, InTransaction, AdviceTypeOK
<1>3. concern[c] \in ConcernRow
  BY <1>2 DEF AdviceTypeOK, TypeOK, Exists
<1>4. CASE areq[w].approve /\ concern[c].status = "ASSIGNED"
  <2>1. concern' = [concern EXCEPT ![c].status = "ANSWERED"]
    BY <1>1, <1>2, <1>4 DEF CommitReview
  <2> QED
    BY <1>1, <1>2, <1>3, <1>4, <2>1 DEF AdviceTypeOK, TypeOK, ConcernRow
<1>5. CASE ~(areq[w].approve /\ concern[c].status = "ASSIGNED")
  BY <1>1, <1>2, <1>5 DEF CommitReview
<1> QED
  BY <1>1, <1>4, <1>5

(* An approval answers the concern if it finds it assigned, a decision     *)
(* moves it in no other case, and nothing but an approval answers it.      *)
THEOREM ApprovalsAnswerAssigned == AdviceSpec => ApprovalAnswersAssigned
<1>1. ASSUME AdviceTypeOK, IInv, AdviceIInv, AdviceNext, NEW ad \in AdviceIds,
             Written(ad), advice[ad].status \notin Decided, advice'[ad].status \in Decided
      PROVE  LET c == advice[ad].concern
                 answers == /\ advice'[ad].status = "APPROVED"
                            /\ concern[c].status \notin {"ANSWERED", "CLOSED"}
                            /\ ActiveAssignments(c) # {}
             IN concern'[c].status = IF answers THEN "ANSWERED" ELSE concern[c].status
  <2>1. PICK w \in Workers : DecidedOn(w, ad)
    BY <1>1, DecisionsByReview
  <2> DEFINE c == advice[ad].concern
  <2>2. /\ concern'[c].status = IF areq[w].approve /\ concern[c].status = "ASSIGNED"
                                THEN "ANSWERED" ELSE concern[c].status
        /\ advice'[ad].status = "APPROVED" <=> areq[w].approve
    BY <1>1, <2>1, DecisionAnswers DEF DecidedOn
  <2>3. c \in ConcernIds /\ Exists(c) /\ concern[c].status \in Status
    BY <1>1 DEF AdviceIInv, AdviceUnderAssignment, AdviceTypeOK, TypeOK, Exists, Written,
       AdviceRow, ConcernRow
  <2>4. concern[c].status = "ASSIGNED" <=>
          concern[c].status \notin {"ANSWERED", "CLOSED"} /\ ActiveAssignments(c) # {}
    BY <1>1, <2>3 DEF IInv, StatusMatchesAssignments, Status
  <2> QED
    BY <2>2, <2>4
<1>2. ASSUME AdviceTypeOK, IInv, AdviceIInv, AdviceNext, NEW c \in ConcernIds,
             Exists(c), concern[c].status # "ANSWERED", concern'[c].status = "ANSWERED"
      PROVE  \E ad \in AdvicesOn(c) :
               advice[ad].status # "APPROVED" /\ advice'[ad].status = "APPROVED"
  <2>1. TypeOK /\ (Next \/ UNCHANGED vars)
    BY <1>2, StepRefines DEF AdviceTypeOK
  <2>2. PICK w \in Workers : CommitReview(w) /\ req[w].concern = c
    BY <1>2, <2>1, FieldSteps DEF vars
  <2>3. CommitDecide(w) /\ req[w].approve
    BY <1>2, <2>2, ReviewCommit DEF CommitReview
  <2> DEFINE ad == areq[w].advice
  <2>4. DecidedOn(w, ad) /\ ad \in AdviceIds
    BY <1>2, <2>3, AdviceRequestFields, DecideEffect DEF CommitDecide, Serving
  <2>5. /\ ad \in AdvicesOn(c) /\ advice'[ad].status = "APPROVED"
        /\ advice[ad].status # "APPROVED"
    BY <2>2, <2>3, <2>4 DEF DecidedOn, Rewritten, MayDecide, Reviewable, AdvicesOn
  <2> QED
    BY <2>5
<1>3. AdviceTypeOK /\ IInv /\ AdviceIInv /\ [AdviceNext]_allVars =>
        [/\ \A ad \in AdviceIds :
             Written(ad) /\ advice[ad].status \notin Decided
               /\ advice'[ad].status \in Decided
               => LET c == advice[ad].concern
                      answers == /\ advice'[ad].status = "APPROVED"
                                 /\ concern[c].status \notin {"ANSWERED", "CLOSED"}
                                 /\ ActiveAssignments(c) # {}
                  IN concern'[c].status = IF answers THEN "ANSWERED" ELSE concern[c].status
         /\ \A c \in ConcernIds :
             Exists(c) /\ concern[c].status # "ANSWERED" /\ concern'[c].status = "ANSWERED"
               => \E ad \in AdvicesOn(c) :
                    advice[ad].status # "APPROVED" /\ advice'[ad].status = "APPROVED"]_allVars
  BY <1>1, <1>2
<1> QED
  BY AdviceInvariance, <1>3, PTL DEF AdviceSpec, ApprovalAnswersAssigned
=============================================================================
