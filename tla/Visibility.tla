----------------------------- MODULE Visibility -----------------------------
(***************************************************************************)
(* What the lists and details of the concerns and advice applications show *)
(* to an advisor and an administrator (concerns/services.py #20 to #22,    *)
(* advice/services.py #32), as queries over the tables of Advice.  Each is *)
(* written out on its own in the code, with its own filter on status and   *)
(* withdrawal; here they meet what the writers of Advice make of the       *)
(* tables: the queue with what #33 accepts, a lookup of one row with the   *)
(* rows that repeated assigning and rewriting leave behind.                *)
(***************************************************************************)
EXTENDS Advice

-----------------------------------------------------------------------------
(* The advisor's side.                                                     *)

(* Seeded defect: assignments taken back are listed too.                   *)
QueueOfAll(v) ==
  {a \in AssignmentIds : assignment[a] # None /\ assignment[a].advisor = v}

(* #20: the active assignments.  The join to the concern goes through the  *)
(* unfiltered manager.                                                     *)
Queue(v) ==
  {a \in AssignmentIds :
     assignment[a] # None /\ assignment[a].advisor = v /\ assignment[a].active}

(* Seeded defect: withdrawn advices count as the advisor's own.            *)
OwnAdvicesDeletedToo(v, c) == {ad \in AdvicesOn(c) : advice[ad].advisor = v}

(* advice_status in #20, my_advice in #21: the newest of these.            *)
OwnAdvices(v, c) ==
  {ad \in AdvicesOn(c) : advice[ad].advisor = v /\ advice[ad].status # "DELETED"}

(* #21 get_assigned_concern: 404 outside this.                             *)
OpensAsAssignee(v, c) ==
  IsLive(c) /\ \E a \in Queue(v) : assignment[a].concern = c

-----------------------------------------------------------------------------
(* The administrator's side.                                               *)

(* #22: withdrawn concerns on request; #23 opens any.                      *)
ListedForAdmin(includeDeleted) ==
  {c \in ConcernIds : Exists(c) /\ (includeDeleted \/ IsLive(c))}

(* Seeded defect: drafts are in the queue.                                 *)
ReviewQueueWithDrafts ==
  {ad \in AdviceIds : /\ Written(ad) /\ advice[ad].status = "PENDING"
                      /\ IsLive(advice[ad].concern)}

(* #32, with no status filter.                                             *)
ReviewQueue ==
  {ad \in AdviceIds : /\ Written(ad) /\ advice[ad].status = "PENDING"
                      /\ advice[ad].submitted /\ IsLive(advice[ad].concern)}

-----------------------------------------------------------------------------
(* The advices #33 would accept from somebody who has just read them.      *)
Acceptable(ad) ==
  /\ Written(ad) /\ IsLive(advice[ad].concern)
  /\ MayDecide([approve |-> TRUE, reason |-> TRUE, version |-> advice[ad].version],
               advice[ad])

(* Safety.                                                                 *)

(* The queue of the administrators is the work there is: whatever it lists *)
(* #33 would take, and nothing #33 would take is missing from it.          *)
QueueIsTheWork == ReviewQueue = {ad \in AdviceIds : Acceptable(ad)}

(* The inductive part of it: nothing ever sets the status REVIEWING.       *)
NeverReviewing == \A ad \in AdviceIds : Written(ad) => advice[ad].status # "REVIEWING"

(* What the code fetches as one row is one row, and more would be a server *)
(* error (#21): however often an advisor was assigned and unassigned, one  *)
(* assignment on the list (#20) answers for the concern; and "the newest"  *)
(* of the advisor's advices on it (#20, #21) is the only one, whatever was *)
(* withdrawn, rejected and written again before.                           *)
LookupsFindOne ==
  \A v \in Advisors, c \in ConcernIds :
    /\ OpensAsAssignee(v, c)
         => Cardinality({a \in Queue(v) : assignment[a].concern = c}) = 1
    /\ Cardinality(OwnAdvices(v, c)) <= 1

(* A statement of the code's comments that is not so (see the README): an  *)
(* administrator's list is the only one to show a withdrawn concern.       *)
OnlyAdminsSeeWithdrawn ==
  \A v \in Advisors : \A a \in Queue(v) : assignment[a].concern \in ListedForAdmin(FALSE)
=============================================================================
