-------------------------- MODULE VisibilityProofs --------------------------
(***************************************************************************)
(* Machine-checked proofs about Visibility: what the queries of the        *)
(* advisors and of the administrators' queue promise, in every state the   *)
(* writers of Advice can reach.                                            *)
(***************************************************************************)
EXTENDS Visibility, AdviceProofs

(* No code sets REVIEWING, which #33 would take and the review queue does  *)
(* not list.                                                               *)
LEMMA NeverReviewingHolds == AdviceSpec => []NeverReviewing
<1>1. AdviceInit => NeverReviewing
  BY DEF AdviceInit, NeverReviewing, Written
<1>2. ASSUME AdviceInvariant, NeverReviewing, AdviceNext, NEW ad \in AdviceIds,
             advice'[ad] # None
      PROVE  advice'[ad].status # "REVIEWING"
  <2>0. advice[ad] # None => advice[ad].status # "REVIEWING"
    BY <1>2 DEF NeverReviewing, Written
  <2>1. CASE Kept(ad)
    BY <1>2, <2>0, <2>1 DEF Kept
  <2>2. ASSUME NEW w \in Workers, Inserted(w, ad) \/ Withdrawn(w, ad) \/ DecidedOn(w, ad)
        PROVE  advice'[ad].status \in {"PENDING", "DELETED", "APPROVED", "REJECTED"}
    BY <2>2 DEF Inserted, Withdrawn, DecidedOn
  <2>3. ASSUME NEW w \in Workers, Updated(w, ad)
        PROVE  advice[ad] # None /\ advice'[ad].status = advice[ad].status
    BY <2>3 DEF Updated, Rewritten, Written
  <2> QED
    BY <1>2, <2>0, <2>1, <2>2, <2>3, AdviceRowStep DEF AdviceInvariant, Changed
<1>3. AdviceInvariant /\ NeverReviewing /\ [AdviceNext]_allVars => NeverReviewing'
  <2> SUFFICES ASSUME AdviceInvariant, NeverReviewing, [AdviceNext]_allVars
               PROVE  NeverReviewing'
    OBVIOUS
  <2>1. CASE AdviceNext
    BY <1>2, <2>1 DEF NeverReviewing, Written
  <2>2. CASE UNCHANGED allVars
    BY <2>2 DEF NeverReviewing, Written, allVars, adviceVars
  <2> QED
    BY <2>1, <2>2
<1> QED
  BY <1>1, <1>3, AdviceInvariantHolds, PTL DEF AdviceSpec

(* What the administrators' queue lists is what #33 would take.            *)
THEOREM QueueIsExact == AdviceSpec => []QueueIsTheWork
<1>1. ASSUME NeverReviewing, NEW ad \in AdviceIds
      PROVE  ad \in ReviewQueue <=> Acceptable(ad)
  <2> DEFINE r == [approve |-> TRUE, reason |-> TRUE, version |-> advice[ad].version]
  <2>1. r.approve /\ r.version = advice[ad].version
    OBVIOUS
  <2> HIDE DEF r
  <2>2. MayDecide(r, advice[ad]) <=> advice[ad].submitted /\ advice[ad].status \in Reviewable
    BY <2>1 DEF MayDecide
  <2>3. Acceptable(ad) <=> /\ Written(ad) /\ IsLive(advice[ad].concern)
                           /\ MayDecide(r, advice[ad])
    BY DEF Acceptable, r
  <2> QED
    BY <1>1, <2>2, <2>3 DEF ReviewQueue, NeverReviewing, Reviewable
<1>2. NeverReviewing => QueueIsTheWork
  BY <1>1 DEF QueueIsTheWork, ReviewQueue
<1> QED
  BY NeverReviewingHolds, <1>2, PTL

-----------------------------------------------------------------------------
(* What the code fetches as one row is one row.                            *)
THEOREM LookupsAreUnique == AdviceSpec => []LookupsFindOne
<1>1. ASSUME AdviceInvariant, NEW v \in Advisors, NEW c \in ConcernIds,
             OpensAsAssignee(v, c)
      PROVE  Cardinality({a \in Queue(v) : assignment[a].concern = c}) = 1
  <2>1. PICK a \in Queue(v) : assignment[a].concern = c
    BY <1>1 DEF OpensAsAssignee
  <2>2. \A b \in Queue(v) : assignment[b].concern = c => b = a
    BY <1>1, <2>1 DEF Queue, AdviceInvariant, IInv, ActiveUnique
  <2>3. {b \in Queue(v) : assignment[b].concern = c} = {a}
    BY <2>1, <2>2
  <2> QED
    BY <2>3, FS_Singleton
<1>2. ASSUME AdviceInvariant, NEW v \in Advisors, NEW c \in ConcernIds
      PROVE  Cardinality(OwnAdvices(v, c)) <= 1
  <2>1. CASE OwnAdvices(v, c) = {}
    BY <2>1, FS_EmptySet
  <2>2. CASE \E ad : ad \in OwnAdvices(v, c)
    <3>1. PICK ad : ad \in OwnAdvices(v, c)
      BY <2>2
    <3>2. \A other \in OwnAdvices(v, c) : other = ad
      BY <1>2, <3>1 DEF OwnAdvices, AdvicesOn, AdviceInvariant, AdviceIInv, OneLiveAdvice
    <3>3. OwnAdvices(v, c) = {ad}
      BY <3>1, <3>2
    <3>4. Cardinality(OwnAdvices(v, c)) = 1
      BY <3>3, FS_Singleton
    <3> QED
      BY <3>4
  <2> QED
    BY <2>1, <2>2
<1>3. AdviceInvariant => LookupsFindOne
  BY <1>1, <1>2 DEF LookupsFindOne
<1> QED
  BY AdviceInvariantHolds, <1>3, PTL
=============================================================================
