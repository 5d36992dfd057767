------------------------------- MODULE Advice -------------------------------
(***************************************************************************)
(* The advice application on top of the concerns application: writing,     *)
(* editing, withdrawing and reviewing an advice (advice/services.py #28,   *)
(* #29, #30, #33).  A review holds the row lock of the advice while it     *)
(* waits for the one of the concern, and commits its effects on both       *)
(* tables together; the concern's share of it is the "review" request of   *)
(* Concerns.                                                               *)
(***************************************************************************)
EXTENDS Concerns

CONSTANTS
  AdviceIds,      \* primary keys of Advice (bounds how many are written)
  Bodies,         \* the four body fields, taken together
  MaxVersion      \* bound: no edit starts that could pass this version

VARIABLES
  advice,         \* the Advice table:        [AdviceIds -> AdviceRow or None]
  history,        \* the AdviceHistory table: [AdviceIds -> set of <<version, body>>]
  told,           \* review notifications:    [AdviceIds -> how many of each kind]
  shown,          \* every <<version, body>> a GET of the advice can have returned
  adviceHolder,   \* who holds FOR UPDATE on an advice row
  areq            \* the advice request a worker is serving

adviceVars == <<advice, history, told, shown, adviceHolder, areq>>
allVars == <<vars, adviceVars>>

ASSUME MaxVersionAssumption == MaxVersion \in Nat \ {0}

-----------------------------------------------------------------------------
AdviceStatus == {"PENDING", "REVIEWING", "APPROVED", "REJECTED", "DELETED"}
Editable == {"PENDING", "REVIEWING"}
(* Seeded defect: an approved advice can be withdrawn.                     *)
DeletableAlways == {"PENDING", "REVIEWING", "APPROVED", "REJECTED"}
Deletable == {"PENDING", "REVIEWING", "REJECTED"}
(* Seeded defect: a rejected advice can be reviewed again.                 *)
ReviewableAgain == {"PENDING", "REVIEWING", "REJECTED"}
Reviewable == {"PENDING", "REVIEWING"}
Decided == {"APPROVED", "REJECTED"}

AdviceRow ==
  [concern : ConcernIds, advisor : Advisors, body : Bodies, version : Nat,
   submitted : BOOLEAN, status : AdviceStatus, reviewed : BOOLEAN]

Notices == [approved : Nat, rejected : Nat]

(* `seen` is the service's in-memory copy of the advice row.  A field that *)
(* a PATCH does not send is None.                                          *)
CreateRequest ==
  [op : {"create"}, concern : ConcernIds, advisor : Advisors, body : Bodies,
   submitted : BOOLEAN, id : AdviceIds]
UpdateRequest ==
  [op : {"update"}, stage : Stage, advice : AdviceIds, seen : AdviceRow \cup {None},
   actor : Advisors, body : Bodies \cup {None}, submitted : BOOLEAN \cup {None}]
WithdrawRequest ==
  [op : {"withdraw"}, stage : Stage, advice : AdviceIds, seen : AdviceRow \cup {None},
   actor : Advisors]
DecideRequest ==
  [op : {"decide"}, stage : Stage, advice : AdviceIds, seen : AdviceRow \cup {None},
   approve : BOOLEAN, reason : BOOLEAN, version : Nat, read : Bodies]

AdviceRequest == CreateRequest \cup UpdateRequest \cup WithdrawRequest \cup DecideRequest

ASSUME AdviceAssumption == None \notin AdviceRow \cup AdviceRequest

-----------------------------------------------------------------------------
Written(ad) == advice[ad] # None
AdvicesOn(c) == {ad \in AdviceIds : Written(ad) /\ advice[ad].concern = c}

Unoccupied(w) == Idle(w) /\ areq[w] = None
Serving(w, op) == areq[w] # None /\ areq[w].op = op
AdviceFree(ad) == adviceHolder[ad] = None

BeginAdvice(w, r) ==
  /\ Unoccupied(w)
  /\ areq' = [areq EXCEPT ![w] = r]
  /\ UNCHANGED <<vars, advice, history, told, shown, adviceHolder>>

HoldAdvice(w) ==
  /\ adviceHolder' = [adviceHolder EXCEPT ![areq[w].advice] = w]
  /\ areq' = [areq EXCEPT ![w].stage = "locked", ![w].seen = advice[areq[w].advice]]

(* Commit or rollback of the transaction that holds the advice.            *)
ReleaseAdvice(w) ==
  /\ adviceHolder' = [ad \in AdviceIds |->
                        IF adviceHolder[ad] = w THEN None ELSE adviceHolder[ad]]
  /\ areq' = [areq EXCEPT ![w] = None]

(* The request is answered, and it held no lock.                           *)
EndAdvice(w) == areq' = [areq EXCEPT ![w] = None] /\ UNCHANGED adviceHolder

(* Every committed row can be read by a GET from then on.                  *)
WriteAdvice(ad, row) ==
  /\ advice' = [advice EXCEPT ![ad] = row]
  /\ shown' = [shown EXCEPT ![ad] = @ \cup {<<row.version, row.body>>}]

-----------------------------------------------------------------------------
(* #28 create_advice: no transaction.  The concern and the assignment are  *)
(* read first.  The INSERT comes later: it is a 409 when it meets the      *)
(* partial unique index on (concern, advisor) of advices not DELETED, and  *)
(* otherwise it waits until nobody holds the concern row (its foreign key  *)
(* is checked with a lock that FOR UPDATE excludes).                       *)
AdviceKeyInUse(ad) ==
  Written(ad) \/ \E w \in Workers : Serving(w, "create") /\ areq[w].id = ad

BeginCreate(w, c, v, b, submit, ad) ==
  /\ IsLive(c)
  /\ v \in ActiveAdvisors(c)
  /\ ~AdviceKeyInUse(ad)
  /\ BeginAdvice(w, [op |-> "create", concern |-> c, advisor |-> v, body |-> b,
                     submitted |-> submit, id |-> ad])

HasLiveAdvice(c, v) ==
  \E ad \in AdvicesOn(c) : advice[ad].advisor = v /\ advice[ad].status # "DELETED"

InsertAdvice(w) ==
  LET r == areq[w] IN
  /\ Serving(w, "create")
  /\ \/ /\ HasLiveAdvice(r.concern, r.advisor)
        /\ UNCHANGED <<advice, shown>>
     \/ /\ ~HasLiveAdvice(r.concern, r.advisor)
        /\ RowFree(r.concern)
        /\ WriteAdvice(r.id, [concern |-> r.concern, advisor |-> r.advisor,
                              body |-> r.body, version |-> 1, submitted |-> r.submitted,
                              status |-> "PENDING", reviewed |-> FALSE])
  /\ EndAdvice(w)
  /\ UNCHANGED <<vars, history, told>>

-----------------------------------------------------------------------------
(* Seeded defect: _lock_own_advice without select_for_update.              *)
ReadOwn(w, allowed) ==
  LET row == advice[areq[w].advice] IN
  /\ areq[w].stage = "waiting"
  /\ IF row.advisor = areq[w].actor /\ row.status \in allowed
     THEN HoldAdvice(w) ELSE EndAdvice(w)
  /\ UNCHANGED <<vars, advice, history, told, shown>>

(* _lock_own_advice, for #29 and #30.                                      *)
LockOwn(w, allowed) ==
  LET row == advice[areq[w].advice] IN
  /\ areq[w].stage = "waiting"
  /\ AdviceFree(areq[w].advice)
  /\ IF row.advisor = areq[w].actor /\ row.status \in allowed
     THEN HoldAdvice(w) ELSE EndAdvice(w)
  /\ UNCHANGED <<vars, advice, history, told, shown>>

(* #29 update_advice.                                                      *)
UpdatesOf(ad) == {w \in Workers : Serving(w, "update") /\ areq[w].advice = ad}

BeginUpdate(w, v, ad, b, submit) ==
  /\ Written(ad)
  /\ advice[ad].version + Cardinality(UpdatesOf(ad)) < MaxVersion
  /\ BeginAdvice(w, [op |-> "update", stage |-> "waiting", advice |-> ad, seen |-> None,
                     actor |-> v, body |-> b, submitted |-> submit])

LockForUpdate(w) == Serving(w, "update") /\ LockOwn(w, Editable)

(* Seeded defect: is_submitted is copied although the PATCH did not send it.*)
CommitUpdateOfAllFields(w) ==
  LET r == areq[w] IN
  /\ Serving(w, "update") /\ r.stage = "locked"
  /\ WriteAdvice(r.advice, [advice[r.advice] EXCEPT !.submitted = r.submitted])
  /\ ReleaseAdvice(w)
  /\ UNCHANGED <<vars, history, told>>

(* A changed body is a new version, and the old one goes to the history;   *)
(* only the columns #29 owns are written.                                  *)
CommitUpdate(w) ==
  LET r == areq[w]
      changed == r.body # None /\ r.body # r.seen.body
      newBody == IF changed THEN r.body ELSE r.seen.body
      newVersion == IF changed THEN r.seen.version + 1 ELSE r.seen.version
      newSubmitted == IF r.submitted # None THEN r.submitted ELSE r.seen.submitted
  IN
  /\ Serving(w, "update") /\ r.stage = "locked"
  /\ history' = IF changed
                THEN [history EXCEPT ![r.advice] = @ \cup {<<r.seen.version, r.seen.body>>}]
                ELSE history
  /\ WriteAdvice(r.advice, [advice[r.advice] EXCEPT !.body = newBody,
                              !.version = newVersion, !.submitted = newSubmitted])
  /\ ReleaseAdvice(w)
  /\ UNCHANGED <<vars, told>>

(* #30 delete_advice.                                                      *)
BeginWithdraw(w, v, ad) ==
  /\ Written(ad)
  /\ BeginAdvice(w, [op |-> "withdraw", stage |-> "waiting", advice |-> ad,
                     seen |-> None, actor |-> v])

LockForWithdraw(w) == Serving(w, "withdraw") /\ LockOwn(w, Deletable)

CommitWithdraw(w) ==
  /\ Serving(w, "withdraw") /\ areq[w].stage = "locked"
  /\ WriteAdvice(areq[w].advice, [advice[areq[w].advice] EXCEPT !.status = "DELETED"])
  /\ ReleaseAdvice(w)
  /\ UNCHANGED <<vars, history, told>>

-----------------------------------------------------------------------------
(* #33 review_advice.  The administrator decides on a version and body     *)
(* read some time ago; expected_version says which.                        *)
BeginDecide(w, ad, approve, reason, page) ==
  /\ page \in shown[ad]
  /\ BeginAdvice(w, [op |-> "decide", stage |-> "waiting", advice |-> ad, seen |-> None,
                     approve |-> approve, reason |-> reason,
                     version |-> page[1], read |-> page[2]])

(* Seeded defect: expected_version is not compared.                        *)
MayDecideAnyVersion(r, row) ==
  /\ row.submitted
  /\ row.status \in Reviewable
  /\ r.approve \/ r.reason

(* Lock the advice, check (409, 409, 412, 422), then go for the concern.   *)
MayDecide(r, row) ==
  /\ row.submitted
  /\ row.status \in Reviewable
  /\ row.version = r.version
  /\ r.approve \/ r.reason

(* Seeded defect: #33 reads the advice without select_for_update.          *)
ReadForDecide(w) ==
  LET row == advice[areq[w].advice] IN
  /\ Serving(w, "decide") /\ areq[w].stage = "waiting"
  /\ IF MayDecide(areq[w], row)
     THEN HoldAdvice(w) /\ BeginReview(w, row.concern, areq[w].approve)
     ELSE EndAdvice(w) /\ UNCHANGED vars
  /\ UNCHANGED <<advice, history, told, shown>>

LockForDecide(w) ==
  LET row == advice[areq[w].advice] IN
  /\ Serving(w, "decide") /\ areq[w].stage = "waiting"
  /\ AdviceFree(areq[w].advice)
  /\ IF MayDecide(areq[w], row)
     THEN HoldAdvice(w) /\ BeginReview(w, row.concern, areq[w].approve)
     ELSE EndAdvice(w) /\ UNCHANGED vars
  /\ UNCHANGED <<advice, history, told, shown>>

(* Seeded defect: the 409 for a deleted concern keeps the advice locked.   *)
LockConcernKeepingAdvice(w) ==
  /\ Serving(w, "decide")
  /\ LockForReview(w)
  /\ IF req'[w] = None THEN EndAdvice(w) ELSE UNCHANGED <<adviceHolder, areq>>
  /\ UNCHANGED <<advice, history, told, shown>>

(* A deleted concern is 409: both locks go.                                *)
LockConcernForDecide(w) ==
  /\ Serving(w, "decide")
  /\ LockForReview(w)
  /\ IF req'[w] = None THEN ReleaseAdvice(w) ELSE UNCHANGED <<adviceHolder, areq>>
  /\ UNCHANGED <<advice, history, told, shown>>

(* Seeded defect: the concern is answered from whatever status it is in.   *)
CommitDecideFromAnywhere(w) ==
  LET r == areq[w] IN
  /\ Serving(w, "decide") /\ InTransaction(w, "review")
  /\ concern' = [concern EXCEPT ![req[w].concern].status =
                    IF r.approve THEN "ANSWERED" ELSE @]
  /\ EndTransaction(w)
  /\ WriteAdvice(r.advice, [r.seen EXCEPT !.reviewed = TRUE,
                              !.status = IF r.approve THEN "APPROVED" ELSE "REJECTED"])
  /\ ReleaseAdvice(w)
  /\ UNCHANGED <<assignment, announced, history, told>>

(* advice.save() writes the whole copy back; the author of the concern or  *)
(* the advisor is told.                                                    *)
CommitDecide(w) ==
  LET r == areq[w] IN
  /\ Serving(w, "decide")
  /\ CommitReview(w)
  /\ WriteAdvice(r.advice, [r.seen EXCEPT !.reviewed = TRUE,
                              !.status = IF r.approve THEN "APPROVED" ELSE "REJECTED"])
  /\ told' = IF r.approve THEN [told EXCEPT ![r.advice].approved = @ + 1]
                          ELSE [told EXCEPT ![r.advice].rejected = @ + 1]
  /\ ReleaseAdvice(w)
  /\ UNCHANGED history

(* A worker killed in an advice request rolls back on both tables.         *)
AbortAdvice(w) ==
  /\ areq[w] # None
  /\ ReleaseAdvice(w)
  /\ IF Idle(w) THEN UNCHANGED vars ELSE Abort(w)
  /\ UNCHANGED <<advice, history, told, shown>>

-----------------------------------------------------------------------------
(* The operations of Concerns, by workers that serve no advice request.    *)
ConcernStep ==
  /\ \/ \E c \in ConcernIds, u \in Authors, t \in Texts : CreateConcern(c, u, t)
     \/ \E w \in Workers, c \in ConcernIds : areq[w] = None /\ BeginOwnRequest(w, c)
     \/ \E w \in Workers : /\ areq[w] = None
                           /\ AtTheRow(w) \/ Commit(w) \/ Abort(w)
     \/ \E c \in ConcernIds : AdminAction(c)
  /\ UNCHANGED adviceVars

BeginAdviceRequest(w) ==
  \/ \E c \in ConcernIds, v \in Advisors, b \in Bodies, submit \in BOOLEAN, ad \in AdviceIds :
       BeginCreate(w, c, v, b, submit, ad)
  \/ \E v \in Advisors, ad \in AdviceIds, b \in Bodies \cup {None},
        submit \in BOOLEAN \cup {None} : BeginUpdate(w, v, ad, b, submit)
  \/ \E v \in Advisors, ad \in AdviceIds : BeginWithdraw(w, v, ad)
  \/ \E ad \in AdviceIds, approve, reason \in BOOLEAN : \E page \in shown[ad] :
       BeginDecide(w, ad, approve, reason, page)

AtAnAdviceLock(w) == \/ InsertAdvice(w) \/ LockForUpdate(w) \/ LockForWithdraw(w)
                     \/ LockForDecide(w) \/ LockConcernForDecide(w)
CommitAdvice(w) == CommitUpdate(w) \/ CommitWithdraw(w) \/ CommitDecide(w)

AdviceInit ==
  /\ Init
  /\ advice = [ad \in AdviceIds |-> None]
  /\ history = [ad \in AdviceIds |-> {}]
  /\ told = [ad \in AdviceIds |-> [approved |-> 0, rejected |-> 0]]
  /\ shown = [ad \in AdviceIds |-> {}]
  /\ adviceHolder = [ad \in AdviceIds |-> None]
  /\ areq = [w \in Workers |-> None]

AdviceNext ==
  \/ ConcernStep
  \/ \E w \in Workers : \/ BeginAdviceRequest(w) \/ AtAnAdviceLock(w)
                        \/ CommitAdvice(w) \/ AbortAdvice(w)

AdviceSpec == AdviceInit /\ [][AdviceNext]_allVars

(* As in Concerns: lock queues are served, and a service runs to its end.  *)
AdviceFairness ==
  \A w \in Workers :
    /\ SF_allVars(areq[w] = None /\ AtTheRow(w) /\ UNCHANGED adviceVars)
    /\ WF_allVars(areq[w] = None /\ Commit(w) /\ UNCHANGED adviceVars)
    /\ SF_allVars(AtAnAdviceLock(w))
    /\ WF_allVars(CommitAdvice(w))

FairAdviceSpec == AdviceSpec /\ AdviceFairness

-----------------------------------------------------------------------------
(* Types.                                                                  *)

(* Every advice table, lock and request holds what its column may.         *)
AdviceTypeOK ==
  /\ TypeOK
  /\ advice \in [AdviceIds -> AdviceRow \cup {None}]
  /\ history \in [AdviceIds -> SUBSET (Nat \X Bodies)]
  /\ told \in [AdviceIds -> Notices]
  /\ shown \in [AdviceIds -> SUBSET (Nat \X Bodies)]
  /\ adviceHolder \in [AdviceIds -> Workers \cup {None}]
  /\ areq \in [Workers -> AdviceRequest \cup {None}]

(* Safety.                                                                 *)

(* A concern that counts as answered has an approved advice, whatever is   *)
(* edited, withdrawn or re-assigned around the review (#33 and #30 write   *)
(* the advice, #33, #24, #25 and the site the status of its concern).      *)
AnsweredHasApproval ==
  \A c \in ConcernIds :
    Exists(c) /\ concern[c].status \in {"ANSWERED", "CLOSED"}
      => \E ad \in AdvicesOn(c) : advice[ad].status = "APPROVED"

(* A version number stands for one body: whatever anybody was ever shown   *)
(* is the current row or a snapshot in the history, which has exactly one  *)
(* body for each earlier version (#29; #33's expected_version relies on it)*)
HistoryComplete ==
  \A ad \in AdviceIds : Written(ad) =>
    /\ shown[ad] = history[ad] \cup {<<advice[ad].version, advice[ad].body>>}
    /\ {h[1] : h \in history[ad]} = 1 .. advice[ad].version - 1
    /\ Cardinality(history[ad]) = advice[ad].version - 1

(* A decision falls on the submitted body the administrator had read, in   *)
(* the direction asked for and on a concern not withdrawn, although edits, *)
(* other reviews and the withdrawal (#19, which never locks beforehand) may*)
(* come between the reading and the decision (#33, expected_version).      *)
DecidedAsRead ==
  [][\A ad \in AdviceIds :
       Written(ad) /\ advice[ad].status \notin Decided /\ advice'[ad].status \in Decided
         => /\ advice'[ad].submitted /\ IsLive(advice[ad].concern)
            /\ \E w \in Workers :
                 /\ Serving(w, "decide") /\ areq[w].advice = ad /\ areq'[w] = None
                 /\ areq[w].read = advice'[ad].body
                 /\ areq[w].approve <=> advice'[ad].status = "APPROVED"]_allVars

(* Each decision was notified once, to the one it concerns, and nothing    *)
(* else was: a failure part-way leaves no decision without its notice.     *)
NoticePerDecision ==
  \A ad \in AdviceIds :
    LET decided == Written(ad) /\ advice[ad].reviewed
        approved == decided /\ advice[ad].status = "APPROVED"
    IN told[ad] = [approved |-> IF approved THEN 1 ELSE 0,
                   rejected |-> IF decided /\ ~approved THEN 1 ELSE 0]

(* A decision stands: an approved advice never changes again, a rejected   *)
(* one can only be withdrawn, a withdrawn one is not reviewed or edited.   *)
DecisionFinal ==
  [][\A ad \in AdviceIds : Written(ad) =>
       LET row == advice[ad]  next == advice'[ad] IN
       /\ row.status \in {"APPROVED", "DELETED"} => next = row
       /\ row.status = "REJECTED" => next \in {row, [row EXCEPT !.status = "DELETED"]}]_allVars

(* An advice answers the text its concern still has: the text never        *)
(* changes once an advice is written on it or being written (#47 relies on *)
(* "an advice cannot exist without" an assignment row).                    *)
TextUnderAdviceStays ==
  [][\A c \in ConcernIds :
       Exists(c) /\ concern'[c].text # concern[c].text
         => /\ AdvicesOn(c)' = {}
            /\ ~\E w \in Workers : Serving(w, "create") /\ areq[w].concern = c]_allVars

(* An approval answers the concern if somebody is assigned to it at that   *)
(* moment and moves it in no other case, a rejection moves nothing, and    *)
(* only an approval answers (#33: "only when ASSIGNED"; #24 and #25 change *)
(* the assignments and the status between the two locks of a review).      *)
ApprovalAnswersAssigned ==
  [][/\ \A ad \in AdviceIds :
          Written(ad) /\ advice[ad].status \notin Decided /\ advice'[ad].status \in Decided
            => LET c == advice[ad].concern
                   answers == /\ advice'[ad].status = "APPROVED"
                              /\ concern[c].status \notin {"ANSWERED", "CLOSED"}
                              /\ ActiveAssignments(c) # {}
               IN concern'[c].status = IF answers THEN "ANSWERED" ELSE concern[c].status
     /\ \A c \in ConcernIds :
          Exists(c) /\ concern[c].status # "ANSWERED" /\ concern'[c].status = "ANSWERED"
            => \E ad \in AdvicesOn(c) :
                 advice[ad].status # "APPROVED" /\ advice'[ad].status = "APPROVED"]_allVars

(* #28 checks the assignment and inserts later, without a lock: the advice *)
(* may land after #25 and after the withdrawal, but never from somebody    *)
(* the concern was not given to.  The assignment rows of the concern, ended*)
(* ones included, name every advisor with an advice on it or on its way,   *)
(* which is what #47 relies on when it looks at them alone.                *)
AdviceUnderAssignment ==
  /\ \A ad \in AdviceIds : Written(ad) =>
       /\ Exists(advice[ad].concern)
       /\ WasAssigned(advice[ad].advisor, advice[ad].concern)
  /\ \A w \in Workers : Serving(w, "create") =>
       Exists(areq[w].concern) /\ WasAssigned(areq[w].advisor, areq[w].concern)

(* The inductive invariant.  As for concerns, whoever holds an advice has a*)
(* copy of the row, and made checks on it, that are still true of it.      *)
AdviceLocksOK ==
  \A ad \in AdviceIds, w \in Workers :
    adviceHolder[ad] = w <=>
      /\ areq[w] # None /\ areq[w].op # "create"
      /\ areq[w].stage = "locked" /\ areq[w].advice = ad

CopiesCurrent ==
  \A w \in Workers : areq[w] # None /\ areq[w].op # "create" =>
    LET r == areq[w]  row == advice[areq[w].advice] IN
    /\ Written(r.advice)
    /\ r.op = "decide" => <<r.version, r.read>> \in shown[r.advice]
    /\ r.stage = "locked" =>
         /\ r.seen = row
         /\ r.op = "update" => row.status \in Editable
         /\ r.op = "withdraw" => row.status \in Deletable
         /\ r.op = "decide" => MayDecide(r, row)

(* The "review" request of Concerns is the second half of a #33 that holds *)
(* its advice, on the concern of that advice, and of nothing else.         *)
ReviewsAreDecisions ==
  \A w \in Workers :
    /\ ~Idle(w) /\ areq[w] = None => req[w].op # "review"
    /\ ~Idle(w) /\ areq[w] # None =>
         /\ areq[w].op = "decide" /\ req[w].op = "review"
         /\ req[w].concern = advice[areq[w].advice].concern
         /\ req[w].approve = areq[w].approve
    /\ Serving(w, "decide") => (areq[w].stage = "locked" <=> ~Idle(w))

AdviceKeysReserved ==
  \A w \in Workers : Serving(w, "create") =>
    /\ ~Written(areq[w].id)
    /\ \A x \in Workers : Serving(x, "create") /\ areq[x].id = areq[w].id => x = w

OneLiveAdvice ==
  \A ad, other \in AdviceIds :
    /\ Written(ad) /\ advice[ad].status # "DELETED"
    /\ Written(other) /\ advice[other].status # "DELETED"
    /\ advice[ad].concern = advice[other].concern
    /\ advice[ad].advisor = advice[other].advisor
    => ad = other

ReviewedRows ==
  \A ad \in AdviceIds : Written(ad) =>
    /\ advice[ad].status \in Decided => advice[ad].reviewed
    /\ advice[ad].status \in Reviewable => ~advice[ad].reviewed

HistoryOfRows ==
  \A ad \in AdviceIds :
    /\ IsFiniteSet(history[ad])
    /\ ~Written(ad) => history[ad] = {} /\ shown[ad] = {}
    /\ Written(ad) => advice[ad].version > 0

AdviceIInv ==
  /\ AdviceLocksOK /\ CopiesCurrent /\ ReviewsAreDecisions /\ AdviceKeysReserved
  /\ AdviceUnderAssignment /\ OneLiveAdvice /\ ReviewedRows /\ HistoryOfRows
  /\ HistoryComplete /\ NoticePerDecision /\ AnsweredHasApproval

(* Refinement: what the two applications do together to the concerns is    *)
(* what Concerns specifies, so everything shown of Concerns holds here.    *)
ConcernsSpec == Spec

(* A statement of the documents that is not so (see the README): nobody    *)
(* writes an advice without an assignment that is active (docs/api.md:998).*)
WrittenWhileAssigned ==
  [][\A ad \in AdviceIds :
       ~Written(ad) /\ advice'[ad] # None
         => advice'[ad].advisor \in ActiveAdvisors(advice'[ad].concern)]_allVars

(* Liveness.                                                               *)

(* Every request is in the end answered, the review that waits for one row *)
(* lock while it holds another included.                                   *)
AdviceRequestsFinish == \A w \in Workers : ~Unoccupied(w) ~> Unoccupied(w)
=============================================================================
