-------------------------- MODULE ConcernLifecycle --------------------------
(***************************************************************************)
(* What the concerns API promises about concerns, with every operation a   *)
(* single indivisible step and no transaction, lock or request in sight.   *)
(* Concerns.tla, where each operation is the sequence of database accesses *)
(* the services really make, is shown to implement this specification.     *)
(***************************************************************************)
CONSTANTS
  ConcernIds,   \* primary keys of concerns
  Advisors,     \* users who can be assigned
  Authors,      \* users who write concerns
  Texts,        \* what a concern says
  None          \* no row

VARIABLES
  concern,      \* [ConcernIds -> a row: author, text, status, deleted; or None]
  advisors,     \* [ConcernIds -> the advisors who work on the concern now]
  everAssigned  \* the concerns some advisor has had

vars == <<concern, advisors, everAssigned>>

Exists(c) == concern[c] # None
Live(c) == Exists(c) /\ ~concern[c].deleted

SetStatus(c, s) == concern' = [concern EXCEPT ![c].status = s]

Init ==
  /\ concern = [c \in ConcernIds |-> None]
  /\ advisors = [c \in ConcernIds |-> {}]
  /\ everAssigned = {}

(* #16: a user writes a concern. *)
Create(c, u, t) ==
  /\ ~Exists(c)
  /\ concern' = [concern EXCEPT ![c] =
       [author |-> u, text |-> t, status |-> "SUBMITTED", deleted |-> FALSE]]
  /\ UNCHANGED <<advisors, everAssigned>>

(* #47: the text may change until an advisor has had it. *)
Edit(c, t) ==
  /\ Live(c) /\ concern[c].status = "SUBMITTED" /\ c \notin everAssigned
  /\ concern' = [concern EXCEPT ![c].text = t]
  /\ UNCHANGED <<advisors, everAssigned>>

(* #24: an administrator gives a live, open concern to a further advisor.  *)
Assign(c, a) ==
  /\ Live(c) /\ concern[c].status # "CLOSED"
  /\ a \notin advisors[c]
  /\ advisors' = [advisors EXCEPT ![c] = @ \cup {a}]
  /\ everAssigned' = everAssigned \cup {c}
  /\ IF concern[c].status = "SUBMITTED" THEN SetStatus(c, "ASSIGNED")
                                        ELSE UNCHANGED concern

(* #25: and takes it back; the last one to go re-opens an unanswered one.  *)
Unassign(c, a) ==
  /\ Exists(c)
  /\ a \in advisors[c]
  /\ advisors' = [advisors EXCEPT ![c] = @ \ {a}]
  /\ IF concern[c].status = "ASSIGNED" /\ advisors[c] = {a}
     THEN SetStatus(c, "SUBMITTED") ELSE UNCHANGED concern
  /\ UNCHANGED everAssigned

(* #33: an approval answers an assigned, live concern.                     *)
Answer(c) ==
  /\ Live(c) /\ concern[c].status = "ASSIGNED"
  /\ SetStatus(c, "ANSWERED")
  /\ UNCHANGED <<advisors, everAssigned>>

(* Administration site: close an answered, live concern.                   *)
Close(c) ==
  /\ Live(c) /\ concern[c].status = "ANSWERED"
  /\ SetStatus(c, "CLOSED")
  /\ UNCHANGED <<advisors, everAssigned>>

(* #19 and the administration site: withdraw a concern, or put it back.    *)
Withdraw(c, gone) ==
  /\ Exists(c)
  /\ concern' = [concern EXCEPT ![c].deleted = gone]
  /\ UNCHANGED <<advisors, everAssigned>>

Next ==
  \E c \in ConcernIds :
    \/ \E u \in Authors, t \in Texts : Create(c, u, t)
    \/ \E t \in Texts : Edit(c, t)
    \/ \E a \in Advisors : Assign(c, a) \/ Unassign(c, a)
    \/ Answer(c) \/ Close(c)
    \/ \E gone \in BOOLEAN : Withdraw(c, gone)

Spec == Init /\ [][Next]_vars
=============================================================================
