------------------------------ MODULE Feedback ------------------------------
(***************************************************************************)
(* Feedback on an approved advice (advice/services.py #34 and #38), on top *)
(* of Advice, with the change form of the site for the memo of a feedback  *)
(* (advice/admin.py).  None of the three takes a lock.                     *)
(*                                                                         *)
(* FeedbackSpec is what the API does; FeedbackSiteSpec adds the form.      *)
(***************************************************************************)
EXTENDS Advice

CONSTANT Admins   \* administrators who review feedback

VARIABLES
  feedback,       \* the Feedback table, OneToOne: [AdviceIds -> FeedbackRow or None]
  freq            \* the feedback request a worker serves

feedbackVars == <<feedback, freq>>
everyVar == <<allVars, feedbackVars>>

-----------------------------------------------------------------------------
FeedbackStatus == {"SUBMITTED", "REVIEWED", "ARCHIVED"}

FeedbackTarget(status) == CASE status = "SUBMITTED" -> {"REVIEWED"}
                            [] status = "REVIEWED" -> {"ARCHIVED"}
                            [] status = "ARCHIVED" -> {}

(* The author of a feedback is the author of the concern.                  *)
FeedbackRow == [status : FeedbackStatus, reviewer : Admins \cup {None}]

FeedbackRequest ==
  [op : {"give"}, advice : AdviceIds]
    \cup [op : {"move"}, advice : AdviceIds, actor : Admins, target : FeedbackStatus]
    \cup [op : {"memo"}, advice : AdviceIds, seen : FeedbackRow]

ASSUME FeedbackAssumption == None \notin FeedbackRow \cup FeedbackRequest \cup Admins

-----------------------------------------------------------------------------
Given(ad) == feedback[ad] # None
Handling(w, op) == freq[w] # None /\ freq[w].op = op

Take(w, r) ==
  /\ Unoccupied(w) /\ freq[w] = None
  /\ freq' = [freq EXCEPT ![w] = r]
  /\ UNCHANGED <<allVars, feedback>>

Answer(w) == freq' = [freq EXCEPT ![w] = None] /\ UNCHANGED allVars

(* #34 create_feedback: the owner of a concern that is not withdrawn, on   *)
(* an approved advice (403 otherwise); the INSERT comes later.  A second   *)
(* one meets the unique index (409), and the row waits for the advice's    *)
(* (foreign key).                                                          *)
MayGive(ad, u) ==
  /\ Written(ad) /\ concern[advice[ad].concern].author = u
  /\ IsLive(advice[ad].concern) /\ advice[ad].status = "APPROVED"

BeginGive(w, u, ad) == MayGive(ad, u) /\ Take(w, [op |-> "give", advice |-> ad])

(* Seeded defect: the model default of status is missing.                  *)
InsertFeedbackWithoutStatus(w) ==
  /\ Handling(w, "give") /\ ~Given(freq[w].advice)
  /\ feedback' = [feedback EXCEPT ![freq[w].advice] = [status |-> None, reviewer |-> None]]
  /\ Answer(w)

InsertFeedback(w) ==
  LET ad == freq[w].advice IN
  /\ Handling(w, "give")
  /\ \/ Given(ad) /\ UNCHANGED feedback
     \/ /\ ~Given(ad) /\ AdviceFree(ad)
        /\ feedback' = [feedback EXCEPT ![ad] = [status |-> "SUBMITTED", reviewer |-> None]]
  /\ Answer(w)

(* #38 transition_feedback: the row is read and its transition checked     *)
(* (409); the UPDATE comes later and writes the status, and on a review    *)
(* the reviewer, whatever the row says by then.                            *)
BeginMove(w, a, ad, target) ==
  /\ Given(ad) /\ target \in FeedbackTarget(feedback[ad].status)
  /\ Take(w, [op |-> "move", advice |-> ad, actor |-> a, target |-> target])

(* Seeded defect: the reviewer is stamped when the feedback is archived.   *)
WriteMoveStampingLate(w) ==
  LET r == freq[w] IN
  /\ Handling(w, "move")
  /\ feedback' = [feedback EXCEPT
       ![r.advice].status = r.target,
       ![r.advice].reviewer = IF r.target = "ARCHIVED" THEN r.actor ELSE @]
  /\ Answer(w)

WriteMove(w) ==
  LET r == freq[w] IN
  /\ Handling(w, "move")
  /\ feedback' = [feedback EXCEPT
       ![r.advice].status = r.target,
       ![r.advice].reviewer = IF r.target = "REVIEWED" THEN r.actor ELSE @]
  /\ Answer(w)

(* The memo form: status and reviewer are read-only in it, but the row it  *)
(* read is saved whole.                                                    *)
OpenMemo(w, ad) == Given(ad) /\ Take(w, [op |-> "memo", advice |-> ad, seen |-> feedback[ad]])

SaveMemo(w) ==
  /\ Handling(w, "memo")
  /\ feedback' = [feedback EXCEPT ![freq[w].advice] = freq[w].seen]
  /\ Answer(w)

AbortFeedback(w) == freq[w] # None /\ Answer(w) /\ UNCHANGED feedback

-----------------------------------------------------------------------------
(* The other operations, by workers that serve no feedback request.        *)
AdviceStep ==
  /\ AdviceNext
  /\ \A w \in Workers : freq[w] # None => Unoccupied(w)'
  /\ UNCHANGED feedbackVars

FeedbackStep(w) ==
  \/ \E ad \in AdviceIds, u \in Authors : BeginGive(w, u, ad)
  \/ \E ad \in AdviceIds, a \in Admins, t \in FeedbackStatus : BeginMove(w, a, ad, t)
  \/ InsertFeedback(w) \/ WriteMove(w) \/ AbortFeedback(w)

FeedbackInit ==
  /\ AdviceInit
  /\ feedback = [ad \in AdviceIds |-> None]
  /\ freq = [w \in Workers |-> None]

FeedbackNext == AdviceStep \/ \E w \in Workers : FeedbackStep(w)

FeedbackSiteNext ==
  \/ FeedbackNext
  \/ \E w \in Workers : SaveMemo(w) \/ \E ad \in AdviceIds : OpenMemo(w, ad)

FeedbackSpec == FeedbackInit /\ [][FeedbackNext]_everyVar
FeedbackSiteSpec == FeedbackInit /\ [][FeedbackSiteNext]_everyVar

-----------------------------------------------------------------------------
(* Types.                                                                  *)

(* Feedback rows and requests, and all of Advice's, are well formed.       *)
FeedbackTypeOK ==
  /\ AdviceTypeOK
  /\ feedback \in [AdviceIds -> FeedbackRow \cup {None}]
  /\ freq \in [Workers -> FeedbackRequest \cup {None}]

(* Safety.                                                                 *)

(* A feedback stands on an approved advice, although #34 checks without a  *)
(* lock and inserts later: nothing can take an approval back (#30, #33).   *)
FeedbackUnderApproval == \A ad \in AdviceIds : Given(ad) => advice[ad].status = "APPROVED"

(* No feedback is past its review without somebody who reviewed it, in     *)
(* whatever order the reads and writes of two administrators fall (#38).   *)
ReviewRecorded ==
  \A ad \in AdviceIds : Given(ad) =>
    (feedback[ad].status = "SUBMITTED") <=> (feedback[ad].reviewer = None)

(* The inductive invariant: what #34 and #38 checked without a lock is     *)
(* still true when they write, since approvals and reviews are for good.   *)
GivesUnderApproval ==
  /\ \A ad \in AdviceIds : Given(ad) => Written(ad)
  /\ \A w \in Workers : Handling(w, "give") =>
       Written(freq[w].advice) /\ advice[freq[w].advice].status = "APPROVED"

MovesOfGiven ==
  \A w \in Workers : Handling(w, "move") =>
    /\ Given(freq[w].advice) /\ freq[w].target \in {"REVIEWED", "ARCHIVED"}
    /\ freq[w].target = "ARCHIVED" => feedback[freq[w].advice].reviewer # None

FeedbackIInv == /\ FeedbackUnderApproval /\ ReviewRecorded
                /\ GivesUnderApproval /\ MovesOfGiven

(* Two statements of the code's comments that are not so (see the README). *)

(* One step at a time and never backwards.                                 *)
FeedbackMovesForward ==
  [][\A ad \in AdviceIds : Given(ad) /\ feedback'[ad].status # feedback[ad].status
       => feedback'[ad].status \in FeedbackTarget(feedback[ad].status)]_everyVar

(* The transitions are #38's alone: the site changes no status.            *)
OnlyReviewMovesFeedback ==
  [][\A ad \in AdviceIds : Given(ad) /\ feedback'[ad].status # feedback[ad].status
       => \E w \in Workers : Handling(w, "move") /\ freq'[w] = None]_everyVar
=============================================================================
