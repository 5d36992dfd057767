--------------------------- MODULE FeedbackProofs ---------------------------
(***************************************************************************)
(* Machine-checked proofs about Feedback, as its API is specified          *)
(* (FeedbackSpec), for every number of advices, workers and administrators.*)
(***************************************************************************)
EXTENDS Feedback, AdviceProofs

(* The three steps that end a feedback request, and the two that begin one.*)
LEMMA FeedbackStepCases ==
  ASSUME NEW w \in Workers, FeedbackStep(w)
  PROVE  /\ UNCHANGED allVars
         /\ \/ \E ad \in AdviceIds, u \in Authors : BeginGive(w, u, ad)
            \/ \E ad \in AdviceIds, a \in Admins, t \in FeedbackStatus : BeginMove(w, a, ad, t)
            \/ InsertFeedback(w)
            \/ WriteMove(w)
            \/ freq' = [freq EXCEPT ![w] = None] /\ UNCHANGED feedback
BY DEF FeedbackStep, BeginGive, BeginMove, Take, InsertFeedback, WriteMove,
   AbortFeedback, Answer

(* A step of feedback leaves the tables of Advice alone.                   *)
LEMMA FeedbackStepRefines ==
  ASSUME [FeedbackNext]_everyVar
  PROVE  [AdviceNext]_allVars
BY FeedbackStepCases DEF FeedbackNext, AdviceStep, everyVar

(* #34 and #38 read the advices and write none: with them the advice       *)
(* application goes on as specified.                                       *)
THEOREM FeedbackRefinesAdvice == FeedbackSpec => AdviceSpec
<1>1. FeedbackInit => AdviceInit
  BY DEF FeedbackInit
<1>2. [FeedbackNext]_everyVar => [AdviceNext]_allVars
  BY FeedbackStepRefines
<1> QED
  BY <1>1, <1>2, PTL DEF FeedbackSpec, AdviceSpec

(* What the fields of a feedback request hold.                             *)
LEMMA FeedbackFields ==
  ASSUME FeedbackTypeOK, NEW w \in Workers, freq[w] # None
  PROVE  /\ freq[w] \in FeedbackRequest /\ freq[w].advice \in AdviceIds
         /\ freq[w].op = "move" =>
              freq[w].actor \in Admins /\ freq[w].target \in FeedbackStatus
         /\ freq[w].op \in {"give", "move", "memo"}
<1>1. freq[w] \in FeedbackRequest
  BY DEF FeedbackTypeOK
<1> QED
  BY <1>1 DEF FeedbackRequest

-----------------------------------------------------------------------------
(* The four kinds of step.                                                 *)
LEMMA GiveBegins ==
  ASSUME FeedbackTypeOK, FeedbackIInv,
         NEW w \in Workers, NEW ad \in AdviceIds, NEW u \in Authors, BeginGive(w, u, ad)
  PROVE  FeedbackTypeOK' /\ FeedbackIInv'
<1> DEFINE r == [op |-> "give", advice |-> ad]
<1>1. r \in FeedbackRequest /\ r # None
  BY FeedbackAssumption DEF FeedbackRequest
<1>2. /\ freq' = [freq EXCEPT ![w] = r] /\ UNCHANGED <<allVars, feedback>>
      /\ Written(ad) /\ advice[ad].status = "APPROVED"
  BY DEF BeginGive, Take, MayGive
<1>3. FeedbackTypeOK'
  BY <1>1, <1>2 DEF FeedbackTypeOK, AdviceTypeOK, TypeOK, allVars, vars, adviceVars
<1>4. \A x \in Workers : freq'[x] = IF x = w THEN r ELSE freq[x]
  BY <1>2 DEF FeedbackTypeOK
<1>5. FeedbackUnderApproval' /\ ReviewRecorded'
  BY <1>2 DEF FeedbackIInv, FeedbackUnderApproval, ReviewRecorded, Given, allVars, adviceVars
<1>6. GivesUnderApproval' /\ MovesOfGiven'
  BY <1>2, <1>4 DEF FeedbackIInv, GivesUnderApproval, MovesOfGiven, Handling, Given,
     Written, allVars, adviceVars
<1> QED
  BY <1>3, <1>5, <1>6 DEF FeedbackIInv

(* #38 begins with a feedback that is there.                               *)
LEMMA MoveBegins ==
  ASSUME FeedbackTypeOK, FeedbackIInv, NEW w \in Workers, NEW ad \in AdviceIds,
         NEW a \in Admins, NEW t \in FeedbackStatus, BeginMove(w, a, ad, t)
  PROVE  FeedbackTypeOK' /\ FeedbackIInv'
<1> DEFINE r == [op |-> "move", advice |-> ad, actor |-> a, target |-> t]
<1>1. r \in FeedbackRequest /\ r # None
  BY FeedbackAssumption DEF FeedbackRequest
<1>2. /\ freq' = [freq EXCEPT ![w] = r] /\ UNCHANGED <<allVars, feedback>>
      /\ Given(ad) /\ t \in FeedbackTarget(feedback[ad].status)
  BY DEF BeginMove, Take
<1>3. FeedbackTypeOK'
  BY <1>1, <1>2 DEF FeedbackTypeOK, AdviceTypeOK, TypeOK, allVars, vars, adviceVars
<1>4. \A x \in Workers : freq'[x] = IF x = w THEN r ELSE freq[x]
  BY <1>2 DEF FeedbackTypeOK
<1>5. FeedbackUnderApproval' /\ ReviewRecorded'
  BY <1>2 DEF FeedbackIInv, FeedbackUnderApproval, ReviewRecorded, Given, allVars, adviceVars
<1>6. t \in {"REVIEWED", "ARCHIVED"} /\ (t = "ARCHIVED" => feedback[ad].reviewer # None)
  <2>1. feedback[ad].status \in FeedbackStatus
    BY <1>2 DEF Given, FeedbackTypeOK, FeedbackRow
  <2>2. feedback[ad].status = "SUBMITTED" <=> feedback[ad].reviewer = None
    BY <1>2 DEF FeedbackIInv, ReviewRecorded
  <2> QED
    BY <1>2, <2>1, <2>2 DEF FeedbackStatus, FeedbackTarget
<1>7. GivesUnderApproval' /\ MovesOfGiven'
  BY <1>2, <1>4, <1>6 DEF FeedbackIInv, GivesUnderApproval, MovesOfGiven, Handling,
     Given, Written, allVars, adviceVars
<1> QED
  BY <1>3, <1>5, <1>7 DEF FeedbackIInv

(* #34 inserts under the approval it read without a lock.                  *)
LEMMA FeedbackInserted ==
  ASSUME FeedbackTypeOK, FeedbackIInv, NEW w \in Workers, InsertFeedback(w)
  PROVE  FeedbackTypeOK' /\ FeedbackIInv'
<1> DEFINE ad == freq[w].advice
           row == [status |-> "SUBMITTED", reviewer |-> None]
<1>1. /\ ad \in AdviceIds /\ Written(ad) /\ advice[ad].status = "APPROVED"
      /\ row \in FeedbackRow /\ row # None
  BY FeedbackFields, FeedbackAssumption
     DEF InsertFeedback, Handling, FeedbackIInv, GivesUnderApproval, FeedbackRow,
         FeedbackStatus
<1>2. /\ freq' = [freq EXCEPT ![w] = None] /\ UNCHANGED allVars
      /\ \/ UNCHANGED feedback
         \/ ~Given(ad) /\ feedback' = [feedback EXCEPT ![ad] = row]
  BY DEF InsertFeedback, Answer
<1>3. FeedbackTypeOK'
  BY <1>1, <1>2 DEF FeedbackTypeOK, AdviceTypeOK, TypeOK, allVars, vars, adviceVars
<1>4. \A x \in Workers : freq'[x] = IF x = w THEN None ELSE freq[x]
  BY <1>2 DEF FeedbackTypeOK
<1>5. \A x \in AdviceIds : \/ feedback'[x] = feedback[x]
                           \/ x = ad /\ ~Given(ad) /\ feedback'[x] = row
  BY <1>1, <1>2 DEF FeedbackTypeOK
<1>6. row.status = "SUBMITTED" /\ row.reviewer = None
  OBVIOUS
<1> HIDE DEF row
<1>7. FeedbackUnderApproval' /\ ReviewRecorded'
  BY <1>1, <1>2, <1>5, <1>6
     DEF FeedbackIInv, FeedbackUnderApproval, ReviewRecorded, Given, allVars, adviceVars
<1>8. GivesUnderApproval'
  BY <1>1, <1>2, <1>4, <1>5 DEF FeedbackIInv, GivesUnderApproval, Handling,
     Given, Written, allVars, adviceVars
<1>9. MovesOfGiven'
  <2> SUFFICES ASSUME NEW x \in Workers, freq'[x] # None, freq'[x].op = "move"
               PROVE  /\ feedback'[freq'[x].advice] # None
                      /\ freq'[x].target \in {"REVIEWED", "ARCHIVED"}
                      /\ freq'[x].target = "ARCHIVED" =>
                           feedback'[freq'[x].advice].reviewer # None
    BY DEF MovesOfGiven, Handling, Given
  <2>1. freq'[x] = freq[x] /\ freq[x].advice \in AdviceIds /\ Given(freq[x].advice)
    BY <1>4, FeedbackFields DEF FeedbackIInv, MovesOfGiven, Handling
  <2>2. feedback'[freq[x].advice] = feedback[freq[x].advice]
    BY <1>5, <2>1
  <2> QED
    BY <2>1, <2>2 DEF FeedbackIInv, MovesOfGiven, Handling, Given
<1> QED
  BY <1>3, <1>7, <1>8, <1>9 DEF FeedbackIInv

(* #38 writes over whatever is there; a review comes with its reviewer,    *)
(* who stays.                                                              *)
LEMMA FeedbackMoved ==
  ASSUME FeedbackTypeOK, FeedbackIInv, NEW w \in Workers, WriteMove(w)
  PROVE  FeedbackTypeOK' /\ FeedbackIInv'
<1> DEFINE r == freq[w]
           row == feedback[r.advice]
           next == [row EXCEPT !.status = r.target,
                               !.reviewer = IF r.target = "REVIEWED" THEN r.actor ELSE @]
<1>1. /\ r.advice \in AdviceIds /\ r.actor \in Admins /\ Given(r.advice)
      /\ r.target \in {"REVIEWED", "ARCHIVED"}
      /\ r.target = "ARCHIVED" => row.reviewer # None
      /\ row \in FeedbackRow
  BY FeedbackFields DEF WriteMove, Handling, FeedbackIInv, MovesOfGiven, FeedbackTypeOK,
     Given
<1>2. /\ freq' = [freq EXCEPT ![w] = None] /\ UNCHANGED allVars
      /\ feedback' = [feedback EXCEPT ![r.advice] = next]
  BY DEF WriteMove, Answer
<1>3. /\ next \in FeedbackRow /\ next.status # "SUBMITTED" /\ next.reviewer # None
  BY <1>1, FeedbackAssumption DEF FeedbackRow, FeedbackStatus
<1>4. next # None
  BY <1>3, FeedbackAssumption
<1> HIDE DEF next
<1>5. FeedbackTypeOK'
  BY <1>1, <1>2, <1>3 DEF FeedbackTypeOK, AdviceTypeOK, TypeOK, allVars, vars, adviceVars
<1>6. \A x \in Workers : freq'[x] = IF x = w THEN None ELSE freq[x]
  BY <1>2 DEF FeedbackTypeOK
<1>7. \A x \in AdviceIds : \/ feedback'[x] = feedback[x]
                           \/ x = r.advice /\ feedback'[x] = next
  BY <1>1, <1>2 DEF FeedbackTypeOK
<1>8. FeedbackUnderApproval' /\ ReviewRecorded'
  BY <1>1, <1>2, <1>3, <1>7
     DEF FeedbackIInv, FeedbackUnderApproval, ReviewRecorded, Given, allVars, adviceVars
<1>9. GivesUnderApproval'
  BY <1>1, <1>2, <1>6, <1>7 DEF FeedbackIInv, GivesUnderApproval, Handling,
     Given, Written, allVars, adviceVars
<1>10. MovesOfGiven'
  <2> SUFFICES ASSUME NEW x \in Workers, freq'[x] # None, freq'[x].op = "move"
               PROVE  /\ feedback'[freq'[x].advice] # None
                      /\ freq'[x].target \in {"REVIEWED", "ARCHIVED"}
                      /\ freq'[x].target = "ARCHIVED" =>
                           feedback'[freq'[x].advice].reviewer # None
    BY DEF MovesOfGiven, Handling, Given
  <2>1. /\ freq'[x] = freq[x] /\ freq[x].advice \in AdviceIds
        /\ feedback[freq[x].advice] # None
        /\ freq[x].target \in {"REVIEWED", "ARCHIVED"}
        /\ freq[x].target = "ARCHIVED" => feedback[freq[x].advice].reviewer # None
    BY <1>6, FeedbackFields DEF FeedbackIInv, MovesOfGiven, Handling, Given
  <2> QED
    BY <1>3, <1>4, <1>7, <2>1
<1> QED
  BY <1>5, <1>8, <1>9, <1>10 DEF FeedbackIInv

(* An advice step changes no approved advice.                              *)
LEMMA AdviceStepKeeps ==
  ASSUME AdviceInvariant, FeedbackTypeOK, FeedbackIInv, AdviceStep
  PROVE  FeedbackTypeOK' /\ FeedbackIInv'
<1>1. AdviceNext /\ UNCHANGED <<feedback, freq>>
  BY DEF AdviceStep, feedbackVars
<1>2. FeedbackTypeOK'
  BY <1>1, AdviceTypeStep DEF AdviceInvariant, FeedbackTypeOK
<1>3. ASSUME NEW ad \in AdviceIds, Written(ad), advice[ad].status = "APPROVED"
      PROVE  advice'[ad] # None /\ advice'[ad].status = "APPROVED"
  BY <1>1, <1>3, AdviceStays DEF AdviceInvariant, Written
<1>4. FeedbackUnderApproval' /\ ReviewRecorded'
  BY <1>1, <1>3 DEF FeedbackIInv, FeedbackUnderApproval, ReviewRecorded,
     GivesUnderApproval, Given
<1>5. MovesOfGiven'
  BY <1>1 DEF FeedbackIInv, MovesOfGiven, Handling, Given
<1>6. \A w \in Workers : freq[w] # None => freq[w].advice \in AdviceIds
  BY FeedbackFields
<1>7. GivesUnderApproval'
  BY <1>1, <1>3, <1>6 DEF FeedbackIInv, FeedbackUnderApproval, GivesUnderApproval,
     Handling, Given, Written
<1> QED
  BY <1>2, <1>4, <1>5, <1>7 DEF FeedbackIInv

(* A request that ends without a write.                                    *)
LEMMA FeedbackStays ==
  ASSUME FeedbackTypeOK, FeedbackIInv, NEW w \in Workers,
         freq' = [freq EXCEPT ![w] = None] \/ UNCHANGED freq,
         UNCHANGED <<allVars, feedback>>
  PROVE  FeedbackTypeOK' /\ FeedbackIInv'
<1>1. FeedbackTypeOK'
  BY DEF FeedbackTypeOK, AdviceTypeOK, TypeOK, allVars, vars, adviceVars
<1>2. \A x \in Workers : freq'[x] = None \/ freq'[x] = freq[x]
  BY DEF FeedbackTypeOK
<1>3. FeedbackUnderApproval' /\ ReviewRecorded'
  BY DEF FeedbackIInv, FeedbackUnderApproval, ReviewRecorded, Given, allVars, adviceVars
<1>4. GivesUnderApproval' /\ MovesOfGiven'
  BY <1>2 DEF FeedbackIInv, GivesUnderApproval, MovesOfGiven, Handling, Given, Written,
     allVars, adviceVars
<1> QED
  BY <1>1, <1>3, <1>4 DEF FeedbackIInv

-----------------------------------------------------------------------------
(* Every step keeps the invariant, the steps of Advice by what             *)
(* AdviceProofs says of approvals.                                         *)
LEMMA FeedbackInvariantStep ==
  AdviceInvariant /\ FeedbackTypeOK /\ FeedbackIInv /\ [FeedbackNext]_everyVar
    => FeedbackTypeOK' /\ FeedbackIInv'
<1> SUFFICES ASSUME AdviceInvariant, FeedbackTypeOK, FeedbackIInv, [FeedbackNext]_everyVar
             PROVE  FeedbackTypeOK' /\ FeedbackIInv'
  OBVIOUS
<1>1. CASE AdviceStep
  BY <1>1, AdviceStepKeeps
<1>2. ASSUME NEW w \in Workers, FeedbackStep(w)
      PROVE  FeedbackTypeOK' /\ FeedbackIInv'
  BY <1>2, FeedbackStepCases, GiveBegins, MoveBegins, FeedbackInserted, FeedbackMoved,
     FeedbackStays
<1>3. CASE UNCHANGED everyVar
  <2>1. FeedbackTypeOK'
    BY <1>3 DEF everyVar, feedbackVars, FeedbackTypeOK, AdviceTypeOK, TypeOK, allVars,
       vars, adviceVars
  <2>2. FeedbackIInv'
    BY <1>3 DEF everyVar, feedbackVars, allVars, adviceVars, FeedbackIInv,
       FeedbackUnderApproval, ReviewRecorded, GivesUnderApproval, MovesOfGiven,
       Handling, Given, Written
  <2> QED
    BY <2>1, <2>2
<1> QED
  BY <1>1, <1>2, <1>3 DEF FeedbackNext

(* No feedback and idle workers satisfy the invariant.                     *)
LEMMA FeedbackInitInvariant == FeedbackInit => FeedbackTypeOK /\ FeedbackIInv
BY AdviceInitInvariant DEF FeedbackInit, FeedbackTypeOK, FeedbackIInv,
   FeedbackUnderApproval, ReviewRecorded, GivesUnderApproval, MovesOfGiven, Given, Handling

(* What #34 and #38 check without a lock is still so when they write: with *)
(* what is known of advices, in every reachable state.                     *)
THEOREM FeedbackInvariance == FeedbackSpec => [](FeedbackTypeOK /\ FeedbackIInv)
BY AdviceInvariantHolds, FeedbackRefinesAdvice, FeedbackInitInvariant, FeedbackInvariantStep, PTL
     DEF FeedbackSpec

(* Feedback rows and requests, and all of Advice's, are well formed.       *)
THEOREM FeedbackTypeCorrect == FeedbackSpec => []FeedbackTypeOK
BY FeedbackInvariance, PTL

(* So all that is proved of advices holds with feedback: the history, what *)
(* a decision falls on and that it is final, the text under an advice, and *)
(* the concerns application as specified (run "advice").                   *)
THEOREM FeedbackKeepsAdvice ==
  FeedbackSpec => /\ []HistoryComplete /\ DecidedAsRead /\ DecisionFinal
                  /\ TextUnderAdviceStays /\ ConcernsSpec
BY FeedbackRefinesAdvice, HistoryIsComplete, DecisionAsRead, DecisionStays,
   TextUnderAdviceFrozen, AdviceRefinesConcerns

(* What the API promises about concerns, with assignments, reviews, advices*)
(* and feedback under way all at once: the whole chain of refinements.     *)
THEOREM FeedbackKeepsLifecycle == FeedbackSpec => LifecycleSpec
<1>1. ConcernsSpec => LifecycleSpec
  BY Refinement DEF ConcernsSpec
<1> QED
  BY <1>1, FeedbackRefinesAdvice, AdviceRefinesConcerns

(* A feedback stands on an approved advice.                                *)
THEOREM FeedbackIsUnderApproval == FeedbackSpec => []FeedbackUnderApproval
<1>1. FeedbackIInv => FeedbackUnderApproval
  BY DEF FeedbackIInv
<1> QED
  BY FeedbackInvariance, <1>1, PTL

(* No feedback is past its review without somebody who reviewed it.        *)
THEOREM ReviewIsRecorded == FeedbackSpec => []ReviewRecorded
<1>1. FeedbackIInv => ReviewRecorded
  BY DEF FeedbackIInv
<1> QED
  BY FeedbackInvariance, <1>1, PTL
=============================================================================
