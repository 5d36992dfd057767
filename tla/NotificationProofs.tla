------------------------- MODULE NotificationProofs -------------------------
(***************************************************************************)
(* Machine-checked proofs about Notifications, for every number of rows,   *)
(* users and workers and every bound on time.                              *)
(***************************************************************************)
EXTENDS Notifications, TLAPS

(* What the fields of a request and of a row hold.                         *)
LEMMA ReadFields ==
  ASSUME TypeOK, NEW w \in Workers, ~Idle(w)
  PROVE  req[w] \in Request /\ req[w].user \in Users /\ req[w].id \in Ids
BY DEF TypeOK, Idle, Request

(* What the columns of a row hold.                                         *)
LEMMA RowFields ==
  ASSUME TypeOK, NEW n \in Ids, Sent(n)
  PROVE  /\ notice[n] \in Row /\ notice[n].recipient \in Users
         /\ notice[n].is_read \in BOOLEAN /\ notice[n].read_at \in Time \cup {None}
BY DEF TypeOK, Sent, Row

(* A time is not the marker for none.                                      *)
LEMMA TimeIsNotNone == \A t \in Time : t # None
BY NoneAssumption

(* The steps one by one.                                                   *)
LEMMA ReadingInit ==
  ASSUME Init
  PROVE  TypeOK /\ ReadingIInv
<1>1. 0 \in Time
  BY MaxTimeAssumption DEF Time
<1> QED
  BY <1>1 DEF Init, TypeOK, ReadingIInv, ReadRowsTimed, AnswersOfRows, CopiesCurrent,
     OneFirstReading, Sent, Idle

(* Time passes and no row knows.                                           *)
LEMMA TickKeeps ==
  ASSUME TypeOK, ReadingIInv, Tick
  PROVE  TypeOK' /\ ReadingIInv'
<1>1. TypeOK'
  BY MaxTimeAssumption DEF Tick, TypeOK, Time
<1> QED
  BY <1>1 DEF Tick, ReadingIInv, ReadRowsTimed, AnswersOfRows, CopiesCurrent,
     OneFirstReading, Sent, Idle, Mine

(* A new row is unread and has told nobody anything.                       *)
LEMMA InsertKeeps ==
  ASSUME TypeOK, ReadingIInv, NEW n \in Ids, NEW u \in Users, Insert(n, u)
  PROVE  TypeOK' /\ ReadingIInv'
<1> DEFINE row == [recipient |-> u, is_read |-> FALSE, read_at |-> None]
<1>1. row \in Row /\ row.recipient = u /\ row.is_read = FALSE /\ row.read_at = None
  BY DEF Row
<1>2. /\ ~Sent(n) /\ notice' = [notice EXCEPT ![n] = row]
      /\ UNCHANGED <<clock, holder, req, told>>
  BY DEF Insert
<1> HIDE DEF row
<1>3. TypeOK'
  BY <1>1, <1>2 DEF TypeOK
<1>4. row # None /\ \A x \in Ids : notice'[x] = IF x = n THEN row ELSE notice[x]
  BY <1>1, <1>2, NoneAssumption DEF TypeOK
<1>5. ReadRowsTimed'
  BY <1>1, <1>4 DEF ReadingIInv, ReadRowsTimed, Sent
<1>6. \A answer \in told : answer[2] \in Ids /\ answer[2] # n
  BY <1>2 DEF TypeOK, ReadingIInv, AnswersOfRows
<1>7. AnswersOfRows' /\ OneFirstReading'
  BY <1>2, <1>4, <1>6 DEF ReadingIInv, AnswersOfRows, OneFirstReading, Sent
<1>8. CopiesCurrent'
  <2> SUFFICES ASSUME NEW w \in Workers, ~Idle(w)
               PROVE  /\ req[w].id \in Mine(req[w].user)'
                      /\ req[w].stage = "locked" =>
                           holder[req[w].id] = w /\ req[w].seen = notice'[req[w].id]
    BY <1>2 DEF CopiesCurrent, Idle, Mine, Sent
  <2>1. /\ req[w].id \in Ids /\ req[w].id \in Mine(req[w].user)
        /\ req[w].stage = "locked" =>
             holder[req[w].id] = w /\ req[w].seen = notice[req[w].id]
    BY ReadFields DEF ReadingIInv, CopiesCurrent
  <2>2. notice'[req[w].id] = notice[req[w].id]
    BY <1>2, <1>4, <2>1 DEF Mine
  <2> QED
    BY <1>2, <2>1, <2>2 DEF Mine, Sent
<1> QED
  BY <1>3, <1>5, <1>7, <1>8 DEF ReadingIInv

(* #40 answers what the row says.                                          *)
LEMMA GetKeeps ==
  ASSUME TypeOK, ReadingIInv, NEW n \in Ids, NEW u \in Users, Get(u, n)
  PROVE  TypeOK' /\ ReadingIInv'
<1> DEFINE answer == <<u, n, notice[n].read_at>>
<1>1. /\ Sent(n) /\ notice[n].recipient = u /\ told' = told \cup {answer}
      /\ UNCHANGED <<notice, clock, holder, req>>
  BY DEF Get, Mine
<1>2. answer \in Users \X Ids \X (Time \cup {None})
  BY <1>1, RowFields
<1>3. TypeOK'
  BY <1>1, <1>2 DEF TypeOK
<1>4. ReadRowsTimed' /\ CopiesCurrent'
  BY <1>1 DEF ReadingIInv, ReadRowsTimed, CopiesCurrent, Sent, Idle, Mine
<1>5. AnswersOfRows'
  BY <1>1 DEF ReadingIInv, AnswersOfRows, Sent
<1>6. OneFirstReading'
  BY <1>1 DEF ReadingIInv, OneFirstReading, ReadRowsTimed
<1> QED
  BY <1>3, <1>4, <1>5, <1>6 DEF ReadingIInv

(* #41 begins without a copy.                                              *)
LEMMA BeginReadKeeps ==
  ASSUME TypeOK, ReadingIInv, NEW w \in Workers, NEW n \in Ids, NEW u \in Users,
         BeginRead(w, u, n)
  PROVE  TypeOK' /\ ReadingIInv'
<1> DEFINE r == [stage |-> "waiting", user |-> u, id |-> n, seen |-> None]
<1>1. /\ n \in Mine(u) /\ req' = [req EXCEPT ![w] = r]
      /\ UNCHANGED <<notice, clock, holder, told>>
  BY DEF BeginRead, Begin
<1>2. r \in Request /\ r.stage = "waiting" /\ r.user = u /\ r.id = n
  BY DEF Request
<1> HIDE DEF r
<1>3. TypeOK'
  BY <1>1, <1>2 DEF TypeOK
<1>4. ReadRowsTimed' /\ AnswersOfRows' /\ OneFirstReading'
  BY <1>1 DEF ReadingIInv, ReadRowsTimed, AnswersOfRows, OneFirstReading, Sent
<1>5. \A x \in Workers : req'[x] = IF x = w THEN r ELSE req[x]
  BY <1>1 DEF TypeOK
<1>6. CopiesCurrent'
  BY <1>1, <1>2, <1>5 DEF ReadingIInv, CopiesCurrent, Idle, Mine, Sent
<1> QED
  BY <1>3, <1>4, <1>6 DEF ReadingIInv

(* #41 copies the row as it locks it.                                      *)
LEMMA LockForReadKeeps ==
  ASSUME TypeOK, ReadingIInv, NEW w \in Workers, LockForRead(w)
  PROVE  TypeOK' /\ ReadingIInv'
<1> DEFINE n == req[w].id
           r == [req[w] EXCEPT !.stage = "locked", !.seen = notice[n]]
<1>1. /\ ~Idle(w) /\ holder[n] = None
      /\ holder' = [holder EXCEPT ![n] = w] /\ req' = [req EXCEPT ![w] = r]
      /\ UNCHANGED <<notice, clock, told>>
  BY DEF LockForRead, AtStage, TypeOK
<1>2. /\ n \in Ids /\ req[w] \in Request /\ notice[n] \in Row
      /\ n \in Mine(req[w].user)
  BY <1>1, ReadFields, RowFields DEF ReadingIInv, CopiesCurrent, Mine
<1>3. /\ r \in Request /\ r.id = n /\ r.user = req[w].user
      /\ r.stage = "locked" /\ r.seen = notice[n]
  BY <1>2 DEF Request
<1> HIDE DEF r
<1>4. TypeOK'
  BY <1>1, <1>2, <1>3 DEF TypeOK
<1>5. ReadRowsTimed' /\ AnswersOfRows' /\ OneFirstReading'
  BY <1>1 DEF ReadingIInv, ReadRowsTimed, AnswersOfRows, OneFirstReading, Sent
<1>6. /\ \A x \in Workers : req'[x] = IF x = w THEN r ELSE req[x]
      /\ holder'[n] = w /\ \A x \in Ids : holder[x] # None => holder'[x] = holder[x]
  BY <1>1, <1>2 DEF TypeOK
<1>7. CopiesCurrent'
  <2> SUFFICES ASSUME NEW x \in Workers, req'[x] # None
               PROVE  /\ req'[x].id \in Mine(req'[x].user)
                      /\ req'[x].stage = "locked" =>
                           holder'[req'[x].id] = x /\ req'[x].seen = notice[req'[x].id]
    BY <1>1 DEF CopiesCurrent, Idle, Mine, Sent
  <2>1. CASE x = w
    BY <1>2, <1>3, <1>6, <2>1
  <2>2. CASE x # w
    <3>1. /\ req'[x] = req[x] /\ x # None /\ req[x].id \in Ids
          /\ req[x].id \in Mine(req[x].user)
          /\ req[x].stage = "locked" =>
               holder[req[x].id] = x /\ req[x].seen = notice[req[x].id]
      BY <1>6, <2>2, ReadFields, NoneAssumption DEF ReadingIInv, CopiesCurrent, Idle
    <3> QED
      BY <1>6, <3>1
  <2> QED
    BY <2>1, <2>2
<1> QED
  BY <1>4, <1>5, <1>7 DEF ReadingIInv

(* #41 writes the first reading, or answers with the one that is there.    *)
LEMMA CommitReadKeeps ==
  ASSUME TypeOK, ReadingIInv, NEW w \in Workers, CommitRead(w)
  PROVE  TypeOK' /\ ReadingIInv'
<1> DEFINE n == req[w].id
           old == notice[n]
           row == ReadRow(old)
           answer == <<req[w].user, n, row.read_at>>
<1>1. ~Idle(w) /\ req[w].stage = "locked"
  BY DEF CommitRead, AtStage
<1>2. /\ n \in Ids /\ req[w].user \in Users /\ n \in Mine(req[w].user)
      /\ holder[n] = w /\ req[w].seen = old
  BY <1>1, ReadFields DEF ReadingIInv, CopiesCurrent
<1>3. /\ Sent(n) /\ old.recipient = req[w].user /\ old \in Row
      /\ old.is_read <=> old.read_at # None
  BY <1>2, RowFields DEF Mine, ReadingIInv, ReadRowsTimed
<1>4. /\ row \in Row /\ row # None /\ row.recipient = old.recipient /\ row.is_read
      /\ row.read_at \in Time /\ row.read_at # None
      /\ old.is_read => row = old
  BY <1>3, TimeIsNotNone, NoneAssumption DEF ReadRow, Row, TypeOK
<1>5. /\ notice' = [notice EXCEPT ![n] = row]
      /\ told' = told \cup {answer}
      /\ holder' = [holder EXCEPT ![n] = None] /\ req' = [req EXCEPT ![w] = None]
      /\ clock' = clock
  <2>1. notice' = IF old.is_read THEN notice ELSE [notice EXCEPT ![n] = row]
    BY <1>2 DEF CommitRead
  <2>2. old.is_read => notice = [notice EXCEPT ![n] = row]
    BY <1>2, <1>4 DEF TypeOK
  <2> QED
    BY <1>2, <2>1, <2>2 DEF CommitRead, Finish
<1>6. answer \in Users \X Ids \X (Time \cup {None})
  BY <1>2, <1>4
<1> HIDE DEF row
<1>7. TypeOK'
  BY <1>4, <1>5, <1>6 DEF TypeOK
<1>8. /\ \A x \in Ids : notice'[x] = IF x = n THEN row ELSE notice[x]
      /\ \A x \in Ids : Sent(x)' <=> Sent(x)
      /\ \A x \in Ids, u \in Users : x \in Mine(u)' <=> x \in Mine(u)
  BY <1>2, <1>3, <1>4, <1>5 DEF TypeOK, Sent, Mine
<1>9. ReadRowsTimed'
  BY <1>2, <1>4, <1>8 DEF ReadingIInv, ReadRowsTimed
<1>10. \A a \in told : a[2] \in Ids
  BY DEF TypeOK
<1>11. AnswersOfRows'
  BY <1>2, <1>3, <1>5, <1>8, <1>10 DEF ReadingIInv, AnswersOfRows
<1>12. OneFirstReading'
  <2> SUFFICES ASSUME NEW a \in told'
               PROVE  /\ notice'[a[2]].recipient = a[1]
                      /\ a[3] # None => notice'[a[2]].is_read /\ notice'[a[2]].read_at = a[3]
    BY DEF OneFirstReading
  <2>1. CASE a = answer
    BY <1>2, <1>3, <1>4, <1>8, <2>1
  <2>2. CASE a \in told
    <3>1. /\ a[2] \in Ids /\ notice[a[2]].recipient = a[1]
          /\ a[3] # None => notice[a[2]].is_read /\ notice[a[2]].read_at = a[3]
      BY <1>10, <2>2 DEF ReadingIInv, OneFirstReading
    <3>2. CASE a[2] = n
      BY <1>3, <1>4, <1>8, <3>1, <3>2
    <3>3. CASE a[2] # n
      BY <1>8, <3>1, <3>3
    <3> QED
      BY <3>2, <3>3
  <2> QED
    BY <1>5, <2>1, <2>2
<1>13. CopiesCurrent'
  <2> SUFFICES ASSUME NEW x \in Workers, req'[x] # None
               PROVE  /\ req'[x].id \in Ids /\ notice'[req'[x].id] # None
                      /\ notice'[req'[x].id].recipient = req'[x].user
                      /\ req'[x].stage = "locked" =>
                           holder'[req'[x].id] = x /\ req'[x].seen = notice'[req'[x].id]
    BY DEF CopiesCurrent, Idle, Mine, Sent
  <2>1. x # w /\ req'[x] = req[x]
    BY <1>5 DEF TypeOK
  <2>2. /\ req[x].id \in Ids /\ req[x].user \in Users
        /\ notice[req[x].id] # None /\ notice[req[x].id].recipient = req[x].user
        /\ req[x].stage = "locked" =>
             holder[req[x].id] = x /\ req[x].seen = notice[req[x].id]
    BY <2>1, ReadFields DEF ReadingIInv, CopiesCurrent, Idle, Mine, Sent
  <2>3. req[x].stage = "locked" => req[x].id # n
    BY <1>2, <2>1, <2>2
  <2>4. req[x].id # n => holder'[req[x].id] = holder[req[x].id]
    BY <1>5, <2>2 DEF TypeOK
  <2>5. /\ notice'[req[x].id] # None
        /\ notice'[req[x].id].recipient = notice[req[x].id].recipient
        /\ req[x].id # n => notice'[req[x].id] = notice[req[x].id]
    BY <1>3, <1>4, <1>8, <2>2
  <2> QED
    BY <2>1, <2>2, <2>3, <2>4, <2>5
<1> QED
  BY <1>7, <1>9, <1>11, <1>12, <1>13 DEF ReadingIInv

(* A rollback answers nothing.                                             *)
LEMMA AbortReadKeeps ==
  ASSUME TypeOK, ReadingIInv, NEW w \in Workers, Abort(w)
  PROVE  TypeOK' /\ ReadingIInv'
<1>1. /\ holder' = [n \in Ids |-> IF holder[n] = w THEN None ELSE holder[n]]
      /\ req' = [req EXCEPT ![w] = None] /\ UNCHANGED <<notice, clock, told>>
  BY DEF Abort, Finish
<1>2. TypeOK'
  BY <1>1 DEF TypeOK
<1>3. ReadRowsTimed' /\ AnswersOfRows' /\ OneFirstReading'
  BY <1>1 DEF ReadingIInv, ReadRowsTimed, AnswersOfRows, OneFirstReading, Sent
<1>4. CopiesCurrent'
  <2> SUFFICES ASSUME NEW x \in Workers, req'[x] # None
               PROVE  /\ req'[x].id \in Mine(req'[x].user)
                      /\ req'[x].stage = "locked" =>
                           holder'[req'[x].id] = x /\ req'[x].seen = notice[req'[x].id]
    BY <1>1 DEF CopiesCurrent, Idle, Mine, Sent
  <2>1. x # w /\ req'[x] = req[x] /\ ~Idle(x)
    BY <1>1 DEF TypeOK, Idle
  <2>2. req[x].id \in Ids
    BY <2>1, ReadFields
  <2> QED
    BY <1>1, <2>1, <2>2 DEF ReadingIInv, CopiesCurrent
<1> QED
  BY <1>2, <1>3, <1>4 DEF ReadingIInv

(* Whoever has been told a time was told the time in the row, because a    *)
(* request that writes one holds the row and a current copy of it.         *)
THEOREM ReadingInvariance == Spec => [](TypeOK /\ ReadingIInv)
<1>1. Init => TypeOK /\ ReadingIInv
  BY ReadingInit
<1>2. TypeOK /\ ReadingIInv /\ [Next]_vars => (TypeOK /\ ReadingIInv)'
  <2> SUFFICES ASSUME TypeOK, ReadingIInv, [Next]_vars
               PROVE  TypeOK' /\ ReadingIInv'
    OBVIOUS
  <2>1. CASE UNCHANGED vars
    BY <2>1 DEF vars, TypeOK, ReadingIInv, ReadRowsTimed, AnswersOfRows, CopiesCurrent,
       OneFirstReading, Sent, Idle, Mine
  <2> QED
    BY <2>1, TickKeeps, InsertKeeps, GetKeeps, BeginReadKeeps, LockForReadKeeps,
       CommitReadKeeps, AbortReadKeeps DEF Next
<1> QED
  BY <1>1, <1>2, PTL DEF Spec

(* Everybody who is ever told when a notification was first read is told   *)
(* the same time (OneFirstReading).                                        *)
THEOREM FirstReadingStands == Spec => []OneFirstReading
<1>1. ReadingIInv => OneFirstReading
  BY DEF ReadingIInv
<1> QED
  BY <1>1, ReadingInvariance, PTL

=============================================================================
