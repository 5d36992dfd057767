----------------------------- MODULE AdminForms -----------------------------
(***************************************************************************)
(* The change forms of the administration site for a concern               *)
(* (concerns/admin.py) and for an advice (advice/admin.py), next to all    *)
(* that Advice does.  A POST reads the row without a lock, replaces the    *)
(* fields the form leaves open, and saves the row whole: a read-only field *)
(* is one the administrator cannot type in, not one the UPDATE leaves out. *)
(***************************************************************************)
EXTENDS Advice

VARIABLE form   \* the form a worker is saving: [Workers -> Form or None]

siteVars == <<allVars, form>>

-----------------------------------------------------------------------------
(* `row` is the row the POST read.                                         *)
Form == [table : {"concern"}, id : ConcernIds, row : ConcernRow]
          \cup [table : {"advice"}, id : AdviceIds, row : AdviceRow]

Saving(w, table) == form[w] # None /\ form[w].table = table

Open(w, f) ==
  /\ Unoccupied(w) /\ form[w] = None
  /\ form' = [form EXCEPT ![w] = f]
  /\ UNCHANGED allVars

Close(w) == form' = [form EXCEPT ![w] = None]

-----------------------------------------------------------------------------
(* The concern's form leaves its author and its text open, and finds       *)
(* withdrawn concerns too.                                                 *)
OpenConcernForm(w, c) ==
  Exists(c) /\ Open(w, [table |-> "concern", id |-> c, row |-> concern[c]])

SaveConcernForm(w, u, t) ==
  /\ Saving(w, "concern")
  /\ RowFree(form[w].id)
  /\ concern' = [concern EXCEPT ![form[w].id] =
                   [form[w].row EXCEPT !.author = u, !.text = t]]
  /\ Close(w)
  /\ UNCHANGED <<assignment, announced, holder, req, adviceVars>>

(* The advice's form leaves nothing open, and is saved all the same.       *)
OpenAdviceForm(w, ad) ==
  Written(ad) /\ Open(w, [table |-> "advice", id |-> ad, row |-> advice[ad]])

SaveAdviceForm(w) ==
  /\ Saving(w, "advice")
  /\ AdviceFree(form[w].id)
  /\ WriteAdvice(form[w].id, form[w].row)
  /\ Close(w)
  /\ UNCHANGED <<vars, history, told, adviceHolder, areq>>

(* The worker is killed, or the form refuses what was typed.               *)
AbandonForm(w) == form[w] # None /\ Close(w) /\ UNCHANGED allVars

-----------------------------------------------------------------------------
(* All that Advice does, by workers that save no form.                     *)
RequestStep ==
  /\ AdviceNext
  /\ \A w \in Workers : form[w] # None => Unoccupied(w)'
  /\ UNCHANGED form

FormStep(w) ==
  \/ \E c \in ConcernIds : OpenConcernForm(w, c)
  \/ \E u \in Authors, t \in Texts : SaveConcernForm(w, u, t)
  \/ \E ad \in AdviceIds : OpenAdviceForm(w, ad)
  \/ SaveAdviceForm(w) \/ AbandonForm(w)

SiteInit == AdviceInit /\ form = [w \in Workers |-> None]
SiteNext == RequestStep \/ \E w \in Workers : FormStep(w)
SiteSpec == SiteInit /\ [][SiteNext]_siteVars

-----------------------------------------------------------------------------
(* Two statements of the code's comments that are not so (see the README). *)

(* The form cannot take a concern's status along an edge that the state    *)
(* machine lacks, because status is read-only in it.                       *)
FormKeepsToEdges ==
  [][\A c \in ConcernIds, w \in Workers :
       Saving(w, "concern") /\ form[w].id = c /\ form'[w] = None
         => \/ concern'[c] = concern[c]
            \/ concern'[c].status = concern[c].status
            \/ <<concern[c].status, concern'[c].status>> \in Edges]_siteVars

(* An advice is as good as view-only on the site: a body only ever changes *)
(* by #29, which keeps the previous one in the history.                    *)
BodyChangesKeepHistory ==
  [][\A ad \in AdviceIds :
       Written(ad) /\ advice'[ad].body # advice[ad].body
         => <<advice[ad].version, advice[ad].body>> \in history'[ad]]_siteVars
=============================================================================
