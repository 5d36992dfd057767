--------------------------- MODULE Notifications ----------------------------
(***************************************************************************)
(* The notifications application (notifications/services.py #40 and #41).  *)
(* Rows are inserted by the transactions of Concerns, Advice, Applications *)
(* and Roles, and the site may only look at them, so #41 is the one writer *)
(* of an existing row.                                                     *)
(***************************************************************************)
EXTENDS Naturals, FiniteSets

CONSTANTS
  Ids,       \* primary keys of Notification (bounds how many are made)
  Users,     \* recipients, and whoever calls the API
  Workers,   \* gunicorn workers: each serves one request at a time
  MaxTime,   \* bound: the clock stops here
  None       \* no row, no time, no holder, no request

VARIABLES
  notice,    \* the Notification table: [Ids -> Row or None]
  clock,     \* timezone.now()
  holder,    \* who holds FOR UPDATE on a row
  req,       \* the request a worker is serving
  told       \* what #41 and #40 answered: a set of <<user, notification, read_at>>

vars == <<notice, clock, holder, req, told>>

ASSUME MaxTimeAssumption == MaxTime \in Nat

-----------------------------------------------------------------------------
Time == 0 .. MaxTime
Row == [recipient : Users, is_read : BOOLEAN, read_at : Time \cup {None}]

(* `seen` is the service's copy of the row.                                *)
Request == [stage : {"waiting", "locked"}, user : Users, id : Ids,
            seen : Row \cup {None}]

ASSUME NoneAssumption == None \notin Row \cup Request \cup Workers \cup Time

-----------------------------------------------------------------------------
Sent(n) == notice[n] # None
Idle(w) == req[w] = None
AtStage(w, stage) == ~Idle(w) /\ req[w].stage = stage
Begin(w, r) == Idle(w) /\ req' = [req EXCEPT ![w] = r]
Finish(w) == req' = [req EXCEPT ![w] = None]

Mine(u) == {n \in Ids : Sent(n) /\ notice[n].recipient = u}

Tick == clock < MaxTime /\ clock' = clock + 1 /\ UNCHANGED <<notice, holder, req, told>>

Insert(n, u) ==
  /\ ~Sent(n)
  /\ notice' = [notice EXCEPT ![n] = [recipient |-> u, is_read |-> FALSE, read_at |-> None]]
  /\ UNCHANGED <<clock, holder, req, told>>

(* #40: one of my notifications, or 404.                                   *)
Get(u, n) ==
  /\ n \in Mine(u)
  /\ told' = told \cup {<<u, n, notice[n].read_at>>}
  /\ UNCHANGED <<notice, clock, holder, req>>

-----------------------------------------------------------------------------
(* #41 mark_read.  The queryset is scoped to the recipient, which never    *)
(* changes, so a 404 waits for nothing.  The clock runs between the two    *)
(* steps of the transaction.                                               *)

BeginRead(w, u, n) ==
  /\ n \in Mine(u)
  /\ Begin(w, [stage |-> "waiting", user |-> u, id |-> n, seen |-> None])
  /\ UNCHANGED <<notice, clock, holder, told>>

(* Seeded defect: mark_read without select_for_update.                     *)
ReadUnlocked(w) ==
  LET n == req[w].id IN
  /\ AtStage(w, "waiting")
  /\ req' = [req EXCEPT ![w].stage = "locked", ![w].seen = notice[n]]
  /\ UNCHANGED <<notice, clock, holder, told>>

LockForRead(w) ==
  LET n == req[w].id IN
  /\ AtStage(w, "waiting")
  /\ holder[n] = None
  /\ holder' = [holder EXCEPT ![n] = w]
  /\ req' = [req EXCEPT ![w].stage = "locked", ![w].seen = notice[n]]
  /\ UNCHANGED <<notice, clock, told>>

(* What the service returns, and the UPDATE of is_read and read_at when    *)
(* the copy was unread.                                                    *)
ReadRow(row) ==
  IF row.is_read THEN row ELSE [row EXCEPT !.is_read = TRUE, !.read_at = clock]

CommitRead(w) ==
  LET n == req[w].id IN
  /\ AtStage(w, "locked")
  /\ notice' = IF req[w].seen.is_read THEN notice
               ELSE [notice EXCEPT ![n] = ReadRow(req[w].seen)]
  /\ told' = told \cup {<<req[w].user, n, ReadRow(req[w].seen).read_at>>}
  /\ holder' = [holder EXCEPT ![n] = None]
  /\ Finish(w)
  /\ UNCHANGED clock

Abort(w) ==
  /\ ~Idle(w)
  /\ holder' = [n \in Ids |-> IF holder[n] = w THEN None ELSE holder[n]]
  /\ Finish(w)
  /\ UNCHANGED <<notice, clock, told>>

-----------------------------------------------------------------------------
Init ==
  /\ notice = [n \in Ids |-> None]
  /\ clock = 0
  /\ holder = [n \in Ids |-> None]
  /\ req = [w \in Workers |-> None]
  /\ told = {}

Next ==
  \/ Tick
  \/ \E n \in Ids, u \in Users : Insert(n, u) \/ Get(u, n)
  \/ \E w \in Workers, n \in Ids, u \in Users : BeginRead(w, u, n)
  \/ \E w \in Workers : LockForRead(w) \/ CommitRead(w) \/ Abort(w)

Spec == Init /\ [][Next]_vars

-----------------------------------------------------------------------------
(* Types.                                                                  *)

(* Every table, lock and request holds what its column may.                *)
TypeOK ==
  /\ notice \in [Ids -> Row \cup {None}]
  /\ clock \in Time
  /\ holder \in [Ids -> Workers \cup {None}]
  /\ req \in [Workers -> Request \cup {None}]
  /\ told \subseteq Users \X Ids \X (Time \cup {None})

(* Safety.                                                                 *)

(* Whatever repeats, overlaps or is retried, everybody who was ever told   *)
(* when a notification was first seen was told the same time, the row      *)
(* still says it, and only the recipient was told (#40, #41).              *)
OneFirstReading ==
  \A answer \in told :
    LET row == notice[answer[2]] IN
    /\ row.recipient = answer[1]
    /\ answer[3] # None => row.is_read /\ row.read_at = answer[3]

(* Of the inductive invariant behind it (NotificationProofs): every row has*)
(* a time when and only when it was read, every answer is about a row,     *)
(* and a request is the recipient's and, once it has the lock, holds a     *)
(* copy of the row as it stands.                                           *)
ReadRowsTimed ==
  \A n \in Ids : Sent(n) => (notice[n].is_read <=> notice[n].read_at # None)

AnswersOfRows == \A answer \in told : Sent(answer[2])

CopiesCurrent ==
  \A w \in Workers : ~Idle(w) =>
    /\ req[w].id \in Mine(req[w].user)
    /\ req[w].stage = "locked" =>
         holder[req[w].id] = w /\ req[w].seen = notice[req[w].id]

ReadingIInv == ReadRowsTimed /\ AnswersOfRows /\ CopiesCurrent /\ OneFirstReading
=============================================================================
