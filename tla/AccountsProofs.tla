--------------------------- MODULE AccountsProofs ---------------------------
(***************************************************************************)
(* Machine-checked proofs about Accounts, for every number of accounts,    *)
(* Google accounts, sessions and workers and every bound.                  *)
(***************************************************************************)
EXTENDS Accounts, TLAPS

(* What AccountsIInv says of one worker, and of the tables.                *)
WorkerOK(w) ==
  /\ Serving(w, "login") => Exists(req[w].email) /\ Known(req[w].email, req[w].password)
  /\ Serving(w, "form") => Exists(req[w].email)
  /\ Serving(w, "profile") => /\ Exists(req[w].email)
                              /\ req[w].stage = "locked" => holder[req[w].email] = w
  /\ At(w, "google", "linking") => /\ Exists(req[w].email) /\ holder[req[w].email] = w
                                   /\ user[req[w].email].active
  /\ Serving(w, "confirm") =>
       /\ Exists(req[w].email) /\ req[w].link \in links /\ req[w].link.email = req[w].email
       /\ req[w].stage = "locked" => /\ holder[req[w].email] = w
                                     /\ user[req[w].email].active
                                     /\ CheckToken(req[w].link)

TablesOK ==
  /\ \A g \in Subs : identity[g] # None => Exists(identity[g])
  /\ \A s \in Sessions : session[s] # None =>
       Exists(session[s].email) /\ Known(session[s].email, session[s].password)
  /\ \A l \in links : Exists(l.email)
  /\ LinkedLeftSignup

(* The invariant is about one worker at a time, beside what it says of the *)
(* tables alone.                                                           *)
LEMMA AccountsIInvByPart ==
  /\ AccountsIInv <=> TablesOK /\ \A w \in Workers : WorkerOK(w)
  /\ AccountsIInv' <=> TablesOK' /\ \A w \in Workers : WorkerOK(w)'
<1>1. AccountsIInv => TablesOK /\ \A w \in Workers : WorkerOK(w)
  <2> SUFFICES ASSUME AccountsIInv PROVE TablesOK /\ \A w \in Workers : WorkerOK(w)
    OBVIOUS
  <2>1. TablesOK
    BY DEF AccountsIInv, RowsOfAccounts, PasswordsKnown, TablesOK
  <2>2. ASSUME NEW w \in Workers PROVE WorkerOK(w)
    <3>1. /\ Serving(w, "login") => Known(req[w].email, req[w].password)
          /\ (\/ Serving(w, "login") \/ Serving(w, "confirm") \/ Serving(w, "profile")
              \/ Serving(w, "form") \/ At(w, "google", "linking")) => Exists(req[w].email)
      BY DEF AccountsIInv, RowsOfAccounts, PasswordsKnown
    <3> QED
      BY <3>1 DEF AccountsIInv, LockedReadsTrue, WorkerOK, At
  <2> QED
    BY <2>1, <2>2
<1>2. TablesOK /\ (\A w \in Workers : WorkerOK(w)) => AccountsIInv
  BY DEF AccountsIInv, RowsOfAccounts, PasswordsKnown, LockedReadsTrue, TablesOK,
     WorkerOK, At
<1>3. AccountsIInv' => TablesOK' /\ \A w \in Workers : WorkerOK(w)'
  BY DEF AccountsIInv, RowsOfAccounts, PasswordsKnown, LockedReadsTrue, TablesOK,
     WorkerOK, At
<1>4. TablesOK' /\ (\A w \in Workers : WorkerOK(w)') => AccountsIInv'
  BY DEF AccountsIInv, RowsOfAccounts, PasswordsKnown, LockedReadsTrue, TablesOK,
     WorkerOK, At
<1> QED
  BY <1>1, <1>2, <1>3, <1>4

-----------------------------------------------------------------------------
(* What the fields of rows and requests hold.                              *)
LEMMA UserFields ==
  ASSUME TypeOK, NEW e \in Emails, Exists(e)
  PROVE  /\ user[e] \in UserRow /\ user[e].password \in Password
         /\ user[e].password.n \in Nat /\ user[e].password.by \in Origin
         /\ user[e].active \in BOOLEAN /\ user[e].login \in Nat
BY DEF TypeOK, Exists, UserRow, Password

(* What the fields of a request hold, by the kind of request.              *)
LEMMA AccountRequestFields ==
  ASSUME TypeOK, NEW w \in Workers, ~Idle(w)
  PROVE  /\ req[w] \in Request /\ req[w].email \in Emails
         /\ req[w].op \in {"signup", "login", "google", "confirm", "profile", "form"}
         /\ Serving(w, "login") => req[w] \in LoginRequest /\ req[w].password \in Password
         /\ Serving(w, "google") => req[w] \in GoogleRequest /\ req[w].sub \in Subs
         /\ Serving(w, "confirm") => req[w] \in ConfirmRequest /\ req[w].link \in Link
         /\ Serving(w, "profile") => req[w] \in ProfileRequest
         /\ Serving(w, "form") => /\ req[w] \in FormRequest /\ req[w].seen \in UserRow
                                  /\ req[w].active \in BOOLEAN
<1>1. req[w] \in Request
  BY DEF TypeOK, Idle
<1> QED
  BY <1>1 DEF Request, SignupRequest, LoginRequest, GoogleRequest, ConfirmRequest,
     ProfileRequest, FormRequest, Serving, UserRow

(* The marker for no row is nothing else.                                  *)
LEMMA NoneIsNothing ==
  /\ \A r \in UserRow : r # None
  /\ \A r \in SessionRow : r # None
  /\ \A r \in Request : r # None
  /\ \A e \in Emails : e # None
  /\ \A w \in Workers : w # None
BY AccountsAssumption

(* A password that is set is newer than the one it replaces.               *)
LEMMA FreshFacts ==
  ASSUME NEW p \in Password, NEW by \in Origin
  PROVE  Fresh(p, by) \in Password /\ Fresh(p, by).n = p.n + 1 /\ Fresh(p, by).by = by
BY DEF Password, Fresh

-----------------------------------------------------------------------------
(* Accounts stay, and their passwords stay or are replaced by newer ones.  *)
Later ==
  \A e \in Emails : Exists(e) =>
    /\ user'[e] # None
    /\ user'[e].password = user[e].password \/ user'[e].password.n > user[e].password.n

(* What a request knows of a password it knows for good, as passwords only *)
(* move on (Later).                                                        *)
LEMMA KnownStays ==
  ASSUME TypeOK, TypeOK', Later, NEW e \in Emails, Exists(e), NEW p \in Password, Known(e, p)
  PROVE  user'[e] # None /\ Known(e, p)'
<1>1. /\ user[e].password.n \in Nat /\ p.n \in Nat
  BY UserFields DEF Password
<1>2. user'[e] \in UserRow /\ user'[e].password.n \in Nat
  BY DEF TypeOK, Later, UserRow, Password
<1>3. user'[e] # None
  BY DEF Later
<1>4. CASE user'[e].password = user[e].password
  BY <1>3, <1>4 DEF Known
<1>5. CASE user'[e].password.n > user[e].password.n
  BY <1>1, <1>2, <1>3, <1>5 DEF Known
<1> QED
  BY <1>4, <1>5 DEF Later

(* The tables keep their part of the invariant if whatever is new in them  *)
(* refers to an account and a password that are there.                     *)
LEMMA TablesStep ==
  ASSUME TypeOK, TypeOK', TablesOK, Later,
         \A g \in Subs : identity'[g] # None =>
           \/ identity'[g] = identity[g]
           \/ user'[identity'[g]] # None /\ user'[identity'[g]].password.by # "signup",
         \A s \in Sessions : session'[s] # None =>
           \/ session'[s] = session[s]
           \/ Exists(session'[s].email) /\ Known(session'[s].email, session'[s].password),
         \A l \in links' : l \in links \/ Exists(l.email),
         \A e \in Emails : Exists(e) =>
           \/ user'[e].password = user[e].password
           \/ user'[e].password.by # "signup"
  PROVE  TablesOK'
<1>1. ASSUME NEW g \in Subs, identity'[g] # None
      PROVE  user'[identity'[g]] # None
  <2>1. identity'[g] \in Emails
    BY <1>1 DEF TypeOK
  <2>2. identity'[g] = identity[g] => Exists(identity[g])
    BY <1>1 DEF TablesOK
  <2> QED
    BY <2>1, <2>2, <1>1 DEF Later
<1>2. ASSUME NEW s \in Sessions, session'[s] # None
      PROVE  LET e == session'[s].email  p == session'[s].password IN
             /\ user'[e] # None
             /\ p.n <= user'[e].password.n
             /\ p.n = user'[e].password.n => p = user'[e].password
  <2>1. session'[s].email \in Emails /\ session'[s].password \in Password
    BY <1>2 DEF TypeOK, SessionRow
  <2>2. Exists(session'[s].email) /\ Known(session'[s].email, session'[s].password)
    BY <1>2 DEF TablesOK
  <2> DEFINE e == session'[s].email
             p == session'[s].password
  <2>3. user'[e] # None /\ (Known(e, p) => p.n <= user[e].password.n)
    BY <2>1, <2>2 DEF Later, Known
  <2>4. /\ user[e].password.n \in Nat /\ p.n \in Nat
        /\ user'[e] \in UserRow /\ user'[e].password.n \in Nat
    BY <2>1, <2>2, <2>3, UserFields DEF Password, TypeOK, UserRow
  <2>5. user'[e].password = user[e].password \/ user'[e].password.n > user[e].password.n
    BY <2>1, <2>2 DEF Later
  <2> HIDE DEF e, p
  <2>6. p.n <= user[e].password.n /\ (p.n = user[e].password.n => p = user[e].password)
    BY <2>2 DEF e, p, Known
  <2>7. p.n <= user'[e].password.n /\ (p.n = user'[e].password.n => p = user'[e].password)
    BY <2>4, <2>5, <2>6
  <2> QED
    BY <2>3, <2>7 DEF e, p
<1>3. ASSUME NEW l \in links' PROVE user'[l.email] # None
  BY <1>3 DEF TablesOK, TypeOK, Later, Link
<1>4. ASSUME NEW e \in Emails, NEW g \in Subs, identity'[g] = e
      PROVE  user'[e].password.by # "signup"
  <2>1. identity'[g] # None
    BY <1>4, NoneIsNothing
  <2>2. CASE identity'[g] = identity[g]
    <3>1. Exists(e) /\ user[e].password.by # "signup"
      BY <1>4, <2>1, <2>2 DEF TablesOK, LinkedLeftSignup, Linked
    <3> QED
      BY <3>1
  <2> QED
    BY <1>4, <2>1, <2>2
<1> QED
  BY <1>1, <1>2, <1>3, <1>4 DEF TablesOK, LinkedLeftSignup, Linked, Exists, Known

(* What a step of w leaves to another worker.                              *)
LEMMA OthersRely ==
  ASSUME TypeOK, TypeOK', Later, links \subseteq links',
         NEW v \in Workers, WorkerOK(v), req'[v] = req[v],
         \A e \in Emails :
           holder[e] = v => holder'[e] = v /\ (Exists(e) => user'[e] = user[e])
  PROVE  WorkerOK(v)'
<1>1. CASE Idle(v)
  BY <1>1 DEF WorkerOK, At, Serving, Idle
<1>2. CASE ~Idle(v)
  <2> DEFINE e == req[v].email
  <2>1. e \in Emails
    BY <1>2, AccountRequestFields
  <2>2. Exists(e) => user'[e] # None
    BY <2>1 DEF Later
  <2>3. CASE Serving(v, "login")
    <3>1. Exists(e) /\ Known(e, req[v].password) /\ req[v].password \in Password
      BY <1>2, <2>3, AccountRequestFields DEF WorkerOK
    <3>2. user'[e] # None /\ Known(e, req[v].password)'
      BY <2>1, <3>1, KnownStays
    <3> QED
      BY <2>3, <3>2 DEF WorkerOK, Serving, At, Idle, Exists, Known
  <2>4. CASE Serving(v, "confirm")
    <3>1. /\ Exists(e) /\ req[v].link \in links /\ req[v].link.email = e
          /\ req[v].stage = "locked" =>
               holder[e] = v /\ user[e].active /\ CheckToken(req[v].link)
      BY <2>4 DEF WorkerOK
    <3>2. req[v].stage = "locked" => holder'[e] = v /\ user'[e] = user[e]
      BY <2>1, <3>1
    <3> QED
      BY <2>2, <2>4, <3>1, <3>2 DEF WorkerOK, Serving, At, Idle, Exists, CheckToken
  <2>5. CASE Serving(v, "google")
    <3>1. req[v].stage = "linking" => Exists(e) /\ holder[e] = v /\ user[e].active
      BY <2>5 DEF WorkerOK, At
    <3>2. req[v].stage = "linking" => holder'[e] = v /\ user'[e] = user[e]
      BY <2>1, <3>1
    <3> QED
      BY <2>2, <2>5, <3>1, <3>2 DEF WorkerOK, Serving, At, Idle, Exists
  <2>6. CASE Serving(v, "profile") \/ Serving(v, "form")
    <3>1. Exists(e) /\ (Serving(v, "profile") /\ req[v].stage = "locked" => holder[e] = v)
      BY <2>6 DEF WorkerOK
    <3> QED
      BY <2>1, <2>2, <2>6, <3>1 DEF WorkerOK, Serving, At, Idle, Exists
  <2>7. CASE Serving(v, "signup")
    BY <2>7 DEF WorkerOK, Serving, At, Idle
  <2> QED
    BY <1>2, <2>3, <2>4, <2>5, <2>6, <2>7, AccountRequestFields DEF Serving
<1> QED
  BY <1>1, <1>2

(* A step of w that leaves the rows locked by others alone.                *)
LEMMA StepOfOne ==
  ASSUME TypeOK, TypeOK', AccountsIInv, Later, links \subseteq links', TablesOK',
         NEW w \in Workers, WorkerOK(w)',
         \A v \in Workers : v # w => req'[v] = req[v],
         \A e \in Emails : holder[e] \in Workers \ {w} =>
           holder'[e] = holder[e] /\ (Exists(e) => user'[e] = user[e])
  PROVE  AccountsIInv'
<1>1. ASSUME NEW v \in Workers PROVE WorkerOK(v)'
  <2>1. WorkerOK(v)
    BY AccountsIInvByPart
  <2>2. CASE v # w
    <3>1. /\ req'[v] = req[v]
          /\ \A e \in Emails :
               holder[e] = v => holder'[e] = v /\ (Exists(e) => user'[e] = user[e])
      BY <2>2
    <3> QED
      BY <2>1, <3>1, OthersRely
  <2> QED
    BY <2>2
<1> QED
  BY <1>1, AccountsIInvByPart

-----------------------------------------------------------------------------
(* How the table of users is written.                                      *)
LEMMA SetPasswordFacts ==
  ASSUME TypeOK, NEW e \in Emails, Exists(e), NEW by \in Origin, SetPassword(e, by)
  PROVE  /\ user' \in [Emails -> UserRow \cup {None}]
         /\ \A x \in Emails : x # e => user'[x] = user[x]
         /\ user'[e].password.n = user[e].password.n + 1 /\ user'[e].password.by = by
         /\ user'[e].password = Fresh(user[e].password, by)
         /\ user'[e].active = user[e].active /\ user'[e].login = user[e].login
         /\ Later
<1> DEFINE p == Fresh(user[e].password, by)
           row == [user[e] EXCEPT !.password = p]
<1>1. /\ user[e] \in UserRow /\ user[e].password.n \in Nat
      /\ p \in Password /\ p.n = user[e].password.n + 1 /\ p.by = by
  BY UserFields, FreshFacts
<1>2. user' = [user EXCEPT ![e] = row]
  BY DEF SetPassword, TypeOK
<1>3. /\ row \in UserRow /\ row.password = p
      /\ row.active = user[e].active /\ row.login = user[e].login
  BY <1>1 DEF UserRow
<1> HIDE DEF row, p
<1>4. row # None /\ user'[e] = row /\ \A x \in Emails : x # e => user'[x] = user[x]
  BY <1>2, <1>3, NoneIsNothing DEF TypeOK
<1>5. Later
  <2> SUFFICES ASSUME NEW x \in Emails, Exists(x)
               PROVE  /\ user'[x] # None
                      /\ \/ user'[x].password = user[x].password
                         \/ user'[x].password.n > user[x].password.n
    BY DEF Later
  <2>1. CASE x = e
    BY <1>1, <1>3, <1>4, <2>1
  <2>2. CASE x # e
    BY <1>4, <2>2 DEF Exists
  <2> QED
    BY <2>1, <2>2
<1>6. user' \in [Emails -> UserRow \cup {None}]
  BY <1>2, <1>3 DEF TypeOK
<1> QED
  BY <1>1, <1>3, <1>4, <1>5, <1>6 DEF p

(* Inserting an account touches no other and gives it its first password.  *)
LEMMA NewUserFacts ==
  ASSUME TypeOK, NEW e \in Emails, ~Exists(e), NEW by \in Origin,
         user' = [user EXCEPT ![e] =
           [password |-> [n |-> 1, by |-> by], active |-> TRUE, login |-> 0]]
  PROVE  /\ user' \in [Emails -> UserRow \cup {None}]
         /\ \A x \in Emails : x # e => user'[x] = user[x]
         /\ \A x \in Emails : Exists(x) => user'[x] = user[x]
         /\ user'[e] # None /\ user'[e].password = [n |-> 1, by |-> by]
         /\ [n |-> 1, by |-> by] \in Password
         /\ Later
<1> DEFINE p == [n |-> 1, by |-> by]
           row == [password |-> p, active |-> TRUE, login |-> 0]
<1>1. p \in Password /\ row \in UserRow /\ row.password = p
  BY DEF UserRow, Password
<1>2. user' = [user EXCEPT ![e] = row]
  OBVIOUS
<1> HIDE DEF row, p
<1>3. row # None /\ user'[e] = row /\ \A x \in Emails : x # e => user'[x] = user[x]
  BY <1>1, <1>2, NoneIsNothing DEF TypeOK
<1>4. \A x \in Emails : Exists(x) => user'[x] = user[x]
  BY <1>3
<1>5. user' \in [Emails -> UserRow \cup {None}]
  BY <1>1, <1>2 DEF TypeOK
<1> QED
  BY <1>1, <1>3, <1>4, <1>5 DEF Later, Exists, p

(* No account written, no password moved.                                  *)
LEMMA SameUsers ==
  ASSUME UNCHANGED user
  PROVE  Later
BY DEF Later, Exists

(* The two writes that leave the password alone.                           *)
LEMMA StampFacts ==
  ASSUME TypeOK, NEW e \in Emails, Exists(e), NEW t \in Nat,
         user' = [user EXCEPT ![e].login = t]
  PROVE  /\ user' \in [Emails -> UserRow \cup {None}]
         /\ \A x \in Emails : x # e => user'[x] = user[x]
         /\ user'[e] # None /\ user'[e].password = user[e].password
         /\ user'[e].active = user[e].active
         /\ Later
<1> DEFINE row == [user[e] EXCEPT !.login = t]
<1>1. user[e] \in UserRow
  BY UserFields
<1>2. /\ row \in UserRow /\ row.password = user[e].password
      /\ row.active = user[e].active
  BY <1>1 DEF UserRow
<1>3. user' = [user EXCEPT ![e] = row]
  BY DEF TypeOK
<1> HIDE DEF row
<1>4. row # None /\ user'[e] = row /\ \A x \in Emails : x # e => user'[x] = user[x]
  BY <1>2, <1>3, NoneIsNothing DEF TypeOK
<1>5. user' \in [Emails -> UserRow \cup {None}]
  BY <1>2, <1>3 DEF TypeOK
<1> QED
  BY <1>2, <1>4, <1>5 DEF Later, Exists

(* Freezing or thawing an account leaves its password alone.               *)
LEMMA ActiveFacts ==
  ASSUME TypeOK, NEW e \in Emails, Exists(e), NEW active \in BOOLEAN,
         user' = [user EXCEPT ![e].active = active]
  PROVE  /\ user' \in [Emails -> UserRow \cup {None}]
         /\ \A x \in Emails : x # e => user'[x] = user[x]
         /\ user'[e] # None /\ user'[e].password = user[e].password
         /\ user'[e].active = active
         /\ Later
<1> DEFINE row == [user[e] EXCEPT !.active = active]
<1>1. user[e] \in UserRow
  BY UserFields
<1>2. row \in UserRow /\ row.password = user[e].password /\ row.active = active
  BY <1>1 DEF UserRow
<1>3. user' = [user EXCEPT ![e] = row]
  BY DEF TypeOK
<1> HIDE DEF row
<1>4. row # None /\ user'[e] = row /\ \A x \in Emails : x # e => user'[x] = user[x]
  BY <1>2, <1>3, NoneIsNothing DEF TypeOK
<1>5. user' \in [Emails -> UserRow \cup {None}]
  BY <1>2, <1>3 DEF TypeOK
<1> QED
  BY <1>2, <1>4, <1>5 DEF Later, Exists

(* How locks are taken and given back.                                     *)
LEMMA HoldFacts ==
  ASSUME TypeOK, NEW w \in Workers, req[w].email \in Emails, RowFree(req[w].email), Hold(w)
  PROVE  /\ holder' \in [Emails -> Workers \cup {None}] /\ holder'[req[w].email] = w
         /\ \A x \in Emails : holder[x] \in Workers \ {w} => holder'[x] = holder[x]
BY NoneIsNothing DEF TypeOK, RowFree, Hold

(* A worker gives back its own locks and nobody else's.                    *)
LEMMA ReleaseFacts ==
  ASSUME TypeOK, NEW w \in Workers, Release(w)
  PROVE  /\ holder' \in [Emails -> Workers \cup {None}]
         /\ \A x \in Emails : holder[x] \in Workers \ {w} => holder'[x] = holder[x]
BY DEF TypeOK, Release

(* A worker takes up or drops its own request and nobody else's.           *)
LEMMA BecomeFacts ==
  ASSUME TypeOK, NEW w \in Workers, NEW r \in Request \cup {None}, Become(w, r)
  PROVE  /\ req' \in [Workers -> Request \cup {None}] /\ req'[w] = r
         /\ \A v \in Workers : v # w => req'[v] = req[v]
BY DEF TypeOK, Become

-----------------------------------------------------------------------------
(* The steps that write no table.                                          *)
LEMMA TablesKeep ==
  ASSUME TypeOK, TablesOK, UNCHANGED <<user, identity, session, links>>
  PROVE  TablesOK'
BY DEF TablesOK, LinkedLeftSignup, Exists, Linked, Known

(* A worker that only moves on, and still has what its new stage needs,    *)
(* keeps the invariant.                                                    *)
LEMMA MoveKeeps ==
  ASSUME TypeOK, AccountsIInv, UNCHANGED <<user, identity, session, links>>,
         NEW w \in Workers, NEW r \in Request \cup {None}, Become(w, r),
         holder' \in [Emails -> Workers \cup {None}],
         \A x \in Emails : holder[x] \in Workers \ {w} => holder'[x] = holder[x],
         WorkerOK(w)'
  PROVE  TypeOK' /\ AccountsIInv'
<1>1. /\ req' \in [Workers -> Request \cup {None}]
      /\ \A v \in Workers : v # w => req'[v] = req[v]
  BY BecomeFacts
<1>2. TypeOK'
  BY <1>1 DEF TypeOK
<1>3. TablesOK' /\ Later
  BY AccountsIInvByPart, TablesKeep, SameUsers
<1>4. /\ \A x \in Emails : holder[x] \in Workers \ {w} =>
           holder'[x] = holder[x] /\ (Exists(x) => user'[x] = user[x])
      /\ links \subseteq links'
  OBVIOUS
<1>5. AccountsIInv'
  BY <1>1, <1>2, <1>3, <1>4, StepOfOne
<1> QED
  BY <1>2, <1>5

(* A refusal lets the locks go and writes nothing.                         *)
LEMMA RefuseKeeps ==
  ASSUME TypeOK, AccountsIInv, NEW w \in Workers, Refuse(w)
  PROVE  TypeOK' /\ AccountsIInv'
<1>1. Become(w, None) /\ Release(w) /\ UNCHANGED <<user, identity, session, links>>
  BY DEF Refuse
<1>2. req'[w] = None
  BY <1>1, BecomeFacts
<1>3. WorkerOK(w)'
  BY <1>2 DEF WorkerOK, At, Serving, Idle
<1> QED
  BY <1>1, <1>3, MoveKeeps, ReleaseFacts

(* A request may begin with what it has just read: the account exists, the *)
(* password is the one it has now.                                         *)
LEMMA BeginKeeps ==
  ASSUME TypeOK, AccountsIInv, NEW w \in Workers, NEW r \in Request, Begin(w, r),
         r.op = "login" => Exists(r.email) /\ Known(r.email, r.password),
         r.op \in {"form", "profile", "confirm"} => Exists(r.email),
         r.op \in {"profile", "confirm"} => r.stage = "waiting",
         r.op = "google" => r.stage = "unlinked",
         r.op = "confirm" => r.link \in links /\ r.link.email = r.email
  PROVE  TypeOK' /\ AccountsIInv'
<1>1. Become(w, r) /\ UNCHANGED <<user, identity, session, links, holder>>
  BY DEF Begin
<1>2. req'[w] = r
  BY <1>1, BecomeFacts
<1>3. WorkerOK(w)'
  BY <1>1, <1>2 DEF WorkerOK, At, Serving, Idle, Exists, Known
<1> QED
  BY <1>1, <1>3, MoveKeeps DEF TypeOK
(* The request that a login becomes.                                       *)
LEMMA LogInFacts ==
  ASSUME NEW e \in Emails, NEW p \in Password
  PROVE  /\ LogIn(e, p) \in Request
         /\ LogIn(e, p).op = "login" /\ LogIn(e, p).email = e /\ LogIn(e, p).password = p
BY DEF LogIn, Request, LoginRequest

(* The login that ends a sign-up or a Google request begins with the       *)
(* password just stored.                                                   *)
LEMMA BeginLoginKeeps ==
  ASSUME TypeOK, AccountsIInv, NEW w \in Workers, NEW e \in Emails, Exists(e),
         Begin(w, LogIn(e, user[e].password))
  PROVE  TypeOK' /\ AccountsIInv'
<1> DEFINE r == LogIn(e, user[e].password)
<1>1. user[e].password \in Password /\ user[e].password.n \in Nat
  BY UserFields
<1>2. r \in Request /\ r.op = "login" /\ r.email = e /\ r.password = user[e].password
  BY <1>1, LogInFacts
<1>3. Known(e, user[e].password)
  BY <1>1 DEF Known
<1> HIDE DEF r
<1>4. Begin(w, r)
  BY DEF r
<1> QED
  BY <1>2, <1>3, <1>4, BeginKeeps

(* Each of the requests begins with what it has just read.                 *)
LEMMA BeginRequestKeeps ==
  ASSUME TypeOK, AccountsIInv, NEW w \in Workers, BeginRequest(w)
  PROVE  TypeOK' /\ AccountsIInv'
<1>1. ASSUME NEW e \in Emails, BeginSignup(w, e)
      PROVE  TypeOK' /\ AccountsIInv'
  <2> DEFINE r == [op |-> "signup", email |-> e]
  <2>1. r \in Request /\ r.op = "signup" /\ Begin(w, r)
    BY <1>1 DEF BeginSignup, Request, SignupRequest
  <2> HIDE DEF r
  <2> QED
    BY <2>1, BeginKeeps
<1>2. ASSUME NEW e \in Emails, BeginLogin(w, e)
      PROVE  TypeOK' /\ AccountsIInv'
  BY <1>2, BeginLoginKeeps DEF BeginLogin
<1>3. ASSUME NEW g \in Subs, NEW e \in Emails, BeginGoogle(w, g, e)
      PROVE  TypeOK' /\ AccountsIInv'
  <2>1. CASE identity[g] = None
    <3> DEFINE r == [op |-> "google", stage |-> "unlinked", email |-> e, sub |-> g]
    <3>1. r \in Request /\ r.op = "google" /\ r.stage = "unlinked" /\ Begin(w, r)
      BY <1>3, <2>1 DEF BeginGoogle, Request, GoogleRequest
    <3> HIDE DEF r
    <3> QED
      BY <3>1, BeginKeeps
  <2>2. CASE identity[g] # None
    <3>1. identity[g] \in Emails /\ Exists(identity[g])
      BY <2>2, AccountsIInvByPart DEF TypeOK, TablesOK
    <3>2. Begin(w, LogIn(identity[g], user[identity[g]].password))
      BY <1>3, <2>2 DEF BeginGoogle
    <3> QED
      BY <3>1, <3>2, BeginLoginKeeps
  <2> QED
    BY <2>1, <2>2
<1>4. ASSUME NEW l \in links, BeginConfirm(w, l)
      PROVE  TypeOK' /\ AccountsIInv'
  <2> DEFINE r == [op |-> "confirm", stage |-> "waiting", email |-> l.email, link |-> l]
  <2>1. l \in Link /\ l.email \in Emails /\ Exists(l.email)
    BY AccountsIInvByPart DEF TypeOK, TablesOK, Link
  <2>2. /\ r \in Request /\ r.op = "confirm" /\ r.stage = "waiting"
        /\ r.email = l.email /\ r.link = l /\ Begin(w, r)
    BY <1>4, <2>1 DEF BeginConfirm, Request, ConfirmRequest
  <2> HIDE DEF r
  <2> QED
    BY <2>1, <2>2, BeginKeeps
<1>5. ASSUME NEW s \in Sessions, BeginProfile(w, s)
      PROVE  TypeOK' /\ AccountsIInv'
  <2> DEFINE e == session[s].email
             r == [op |-> "profile", stage |-> "waiting", email |-> e, seen |-> user[e]]
  <2>1. session[s] # None /\ Begin(w, r)
    BY <1>5 DEF BeginProfile, Usable
  <2>2. e \in Emails /\ Exists(e)
    BY <2>1, AccountsIInvByPart DEF TypeOK, TablesOK, SessionRow
  <2>3. user[e] \in UserRow
    BY <2>2, UserFields
  <2> HIDE DEF e
  <2>4. r \in Request /\ r.op = "profile" /\ r.stage = "waiting" /\ r.email = e
    BY <2>2, <2>3 DEF Request, ProfileRequest
  <2> HIDE DEF r
  <2> QED
    BY <2>1, <2>2, <2>4, BeginKeeps
<1>6. ASSUME NEW e \in Emails, NEW active \in BOOLEAN, BeginForm(w, e, active)
      PROVE  TypeOK' /\ AccountsIInv'
  <2> DEFINE r == [op |-> "form", email |-> e, seen |-> user[e], active |-> active]
  <2>1. Exists(e) /\ Begin(w, r)
    BY <1>6 DEF BeginForm
  <2>2. r \in Request /\ r.op = "form" /\ r.email = e
    <3>1. user[e] \in UserRow
      BY <2>1, UserFields
    <3> QED
      BY <3>1 DEF Request, FormRequest
  <2> HIDE DEF r
  <2> QED
    BY <2>1, <2>2, BeginKeeps
<1> QED
  BY <1>1, <1>2, <1>3, <1>4, <1>5, <1>6 DEF BeginRequest

-----------------------------------------------------------------------------
(* The locks of #6, #46 and #8.                                            *)
LEMMA LockForLinkKeeps ==
  ASSUME TypeOK, AccountsIInv, NEW w \in Workers, LockForLink(w)
  PROVE  TypeOK' /\ AccountsIInv'
<1> DEFINE e == req[w].email
<1>1. At(w, "google", "unlinked") /\ RowFree(e) /\ ~Idle(w)
  BY DEF LockForLink, At, Serving
<1>2. req[w] \in GoogleRequest /\ e \in Emails
  BY <1>1, AccountRequestFields DEF At
<1>3. CASE Refuse(w)
  BY <1>3, RefuseKeeps
<1>4. CASE ~Refuse(w)
  <2> DEFINE absent == [req[w] EXCEPT !.stage = "absent"]
             linking == [req[w] EXCEPT !.stage = "linking"]
  <2>1. /\ absent \in Request /\ absent.stage = "absent" /\ absent.op = "google"
        /\ linking \in Request /\ linking.stage = "linking" /\ linking.op = "google"
        /\ linking.email = e
    BY <1>1, <1>2 DEF GoogleRequest, Request
  <2> HIDE DEF absent, linking
  <2>2. CASE ~Exists(e)
    <3>1. Become(w, absent) /\ UNCHANGED <<user, identity, session, links, holder>>
      BY <2>2 DEF LockForLink, absent
    <3>2. req'[w] = absent
      BY <2>1, <3>1, BecomeFacts
    <3>3. WorkerOK(w)'
      BY <2>1, <3>2 DEF WorkerOK, At, Serving, Idle
    <3> QED
      BY <2>1, <3>1, <3>3, MoveKeeps DEF TypeOK
  <2>3. CASE Exists(e)
    <3>1. /\ user[e].active /\ Hold(w) /\ Become(w, linking)
          /\ UNCHANGED <<user, identity, session, links>>
      BY <1>4, <2>3 DEF LockForLink, linking
    <3>2. req'[w] = linking
      BY <2>1, <3>1, BecomeFacts
    <3>3. /\ holder' \in [Emails -> Workers \cup {None}] /\ holder'[e] = w
          /\ \A x \in Emails : holder[x] \in Workers \ {w} => holder'[x] = holder[x]
      BY <1>1, <1>2, <3>1, HoldFacts
    <3>4. WorkerOK(w)'
      BY <2>1, <2>3, <3>1, <3>2, <3>3 DEF WorkerOK, At, Serving, Idle, Exists
    <3> QED
      BY <2>1, <3>1, <3>3, <3>4, MoveKeeps
  <2> QED
    BY <2>2, <2>3
<1> QED
  BY <1>3, <1>4

(* #46 checks its link again under the lock: what it reads is then true    *)
(* until it commits.                                                       *)
LEMMA LockForConfirmKeeps ==
  ASSUME TypeOK, AccountsIInv, NEW w \in Workers, LockForConfirm(w)
  PROVE  TypeOK' /\ AccountsIInv'
<1> DEFINE e == req[w].email
           r == [req[w] EXCEPT !.stage = "locked"]
<1>1. At(w, "confirm", "waiting") /\ Serving(w, "confirm") /\ RowFree(e) /\ ~Idle(w)
  BY DEF LockForConfirm, At, Serving
<1>2. req[w] \in ConfirmRequest /\ e \in Emails
  BY <1>1, AccountRequestFields
<1>3. CASE Refuse(w)
  BY <1>3, RefuseKeeps
<1>4. CASE ~Refuse(w)
  <2>1. /\ MayConfirm(req[w].link) /\ Hold(w) /\ Become(w, r)
        /\ UNCHANGED <<user, identity, session, links>>
    BY <1>4 DEF LockForConfirm
  <2>2. /\ r \in Request /\ r.stage = "locked" /\ r.op = "confirm" /\ r.email = e
        /\ r.link = req[w].link
    BY <1>1, <1>2 DEF ConfirmRequest, Request, Serving
  <2> HIDE DEF r
  <2>3. req'[w] = r
    BY <2>1, <2>2, BecomeFacts
  <2>4. /\ holder' \in [Emails -> Workers \cup {None}] /\ holder'[e] = w
        /\ \A x \in Emails : holder[x] \in Workers \ {w} => holder'[x] = holder[x]
    BY <1>1, <1>2, <2>1, HoldFacts
  <2>5. Exists(e) /\ req[w].link \in links /\ req[w].link.email = e
    BY <1>1, AccountsIInvByPart DEF WorkerOK
  <2>6. user[e].active /\ CheckToken(req[w].link)
    BY <2>1, <2>5 DEF MayConfirm
  <2>7. WorkerOK(w)'
    BY <2>1, <2>2, <2>3, <2>4, <2>5, <2>6 DEF WorkerOK, At, Serving, Idle, Exists,
       CheckToken
  <2> QED
    BY <2>1, <2>2, <2>4, <2>7, MoveKeeps
<1> QED
  BY <1>3, <1>4

(* #8 locks the account it is about.                                       *)
LEMMA LockForProfileKeeps ==
  ASSUME TypeOK, AccountsIInv, NEW w \in Workers, LockForProfile(w)
  PROVE  TypeOK' /\ AccountsIInv'
<1> DEFINE e == req[w].email
           r == [req[w] EXCEPT !.stage = "locked"]
<1>1. /\ Serving(w, "profile") /\ RowFree(e) /\ ~Idle(w)
      /\ Hold(w) /\ Become(w, r) /\ UNCHANGED <<user, identity, session, links>>
  BY DEF LockForProfile, At, Serving
<1>2. req[w] \in ProfileRequest /\ e \in Emails
  BY <1>1, AccountRequestFields
<1>3. r \in Request /\ r.stage = "locked" /\ r.op = "profile" /\ r.email = e
  BY <1>1, <1>2 DEF ProfileRequest, Request, Serving
<1> HIDE DEF r
<1>4. req'[w] = r
  BY <1>1, <1>3, BecomeFacts
<1>5. /\ holder' \in [Emails -> Workers \cup {None}] /\ holder'[e] = w
      /\ \A x \in Emails : holder[x] \in Workers \ {w} => holder'[x] = holder[x]
  BY <1>1, <1>2, HoldFacts
<1>6. Exists(e)
  BY <1>1, AccountsIInvByPart DEF WorkerOK
<1>7. WorkerOK(w)'
  BY <1>1, <1>3, <1>4, <1>5, <1>6 DEF WorkerOK, At, Serving, Idle, Exists
<1> QED
  BY <1>1, <1>3, <1>5, <1>7, MoveKeeps
-----------------------------------------------------------------------------
(* The steps of a worker that write a table.                               *)
LEMMA WriteKeeps ==
  ASSUME TypeOK, AccountsIInv, Later,
         user' \in [Emails -> UserRow \cup {None}],
         identity' \in [Subs -> Emails \cup {None}],
         session' \in [Sessions -> SessionRow \cup {None}],
         holder' \in [Emails -> Workers \cup {None}],
         UNCHANGED links,
         NEW w \in Workers, NEW r \in Request \cup {None}, Become(w, r),
         \A e \in Emails : holder[e] \in Workers \ {w} =>
           holder'[e] = holder[e] /\ (Exists(e) => user'[e] = user[e]),
         \A g \in Subs : identity'[g] # None =>
           \/ identity'[g] = identity[g]
           \/ user'[identity'[g]] # None /\ user'[identity'[g]].password.by # "signup",
         \A s \in Sessions : session'[s] # None =>
           \/ session'[s] = session[s]
           \/ Exists(session'[s].email) /\ Known(session'[s].email, session'[s].password),
         \A e \in Emails : Exists(e) =>
           \/ user'[e].password = user[e].password
           \/ user'[e].password.by # "signup",
         WorkerOK(w)'
  PROVE  TypeOK' /\ AccountsIInv'
<1>1. /\ req' \in [Workers -> Request \cup {None}]
      /\ \A v \in Workers : v # w => req'[v] = req[v]
  BY BecomeFacts
<1>2. TypeOK'
  BY <1>1 DEF TypeOK
<1>3. TablesOK
  BY AccountsIInvByPart
<1>4. TablesOK'
  BY <1>2, <1>3, TablesStep
<1>5. AccountsIInv'
  BY <1>1, <1>2, <1>4, StepOfOne
<1> QED
  BY <1>2, <1>5

(* A purge deletes sessions and opens none.                                *)
LEMMA PurgeFacts ==
  ASSUME TypeOK, NEW e, Purge(e)
  PROVE  /\ session' \in [Sessions -> SessionRow \cup {None}]
         /\ \A s \in Sessions : session'[s] # None => session'[s] = session[s]
BY DEF TypeOK, Purge

(* #2 inserts an account that is not there; its first password is the one  *)
(* of the login that follows.                                              *)
LEMMA InsertUserKeeps ==
  ASSUME TypeOK, AccountsIInv, NEW w \in Workers, InsertUser(w)
  PROVE  TypeOK' /\ AccountsIInv'
<1> DEFINE e == req[w].email
           p == [n |-> 1, by |-> "signup"]
           r == LogIn(e, p)
<1>1. Serving(w, "signup") /\ ~Idle(w) /\ e \in Emails
  BY AccountRequestFields DEF InsertUser, Serving
<1>2. CASE Refuse(w)
  BY <1>2, RefuseKeeps
<1>3. CASE ~Refuse(w)
  <2>1. /\ ~Exists(e) /\ Become(w, r) /\ UNCHANGED <<identity, session, links, holder>>
        /\ user' = [user EXCEPT ![e] = [password |-> p, active |-> TRUE, login |-> 0]]
    BY <1>3 DEF InsertUser
  <2>2. "signup" \in Origin
    BY DEF Origin
  <2>3. /\ user' \in [Emails -> UserRow \cup {None}] /\ Later
        /\ \A x \in Emails : Exists(x) => user'[x] = user[x]
        /\ \A x \in Emails : x # e => user'[x] = user[x]
        /\ user'[e] # None /\ user'[e].password = p /\ p \in Password
    BY <1>1, <2>1, <2>2, NewUserFacts
  <2>4. r \in Request /\ r.op = "login" /\ r.email = e /\ r.password = p
    BY <1>1, <2>3, LogInFacts
  <2>5. req'[w] = r
    BY <2>1, <2>4, BecomeFacts
  <2>6. p.n <= p.n
    OBVIOUS
  <2> HIDE DEF r, p
  <2>7. WorkerOK(w)'
    BY <2>3, <2>4, <2>5, <2>6 DEF WorkerOK, At, Serving, Idle, Exists, Known
  <2> QED
    BY <2>1, <2>3, <2>4, <2>7, WriteKeeps DEF TypeOK
<1> QED
  BY <1>2, <1>3


(* #3 writes last_login alone: the password it was checked against stays   *)
(* known.                                                                  *)
LEMMA StampLoginKeeps ==
  ASSUME TypeOK, AccountsIInv, NEW w \in Workers, StampLogin(w)
  PROVE  TypeOK' /\ AccountsIInv'
<1> DEFINE e == req[w].email
           r == [req[w] EXCEPT !.stage = "save"]
<1>1. /\ Serving(w, "login") /\ ~Idle(w) /\ RowFree(e)
      /\ Become(w, r) /\ UNCHANGED <<identity, session, links, holder>>
  BY DEF StampLogin, At, Serving
<1>2. req[w] \in LoginRequest /\ e \in Emails /\ req[w].password \in Password
  BY <1>1, AccountRequestFields
<1>3. Exists(e) /\ Known(e, req[w].password)
  BY <1>1, AccountsIInvByPart DEF WorkerOK
<1>4. /\ r \in Request /\ r.op = "login" /\ r.email = e /\ r.password = req[w].password
  BY <1>1, <1>2 DEF LoginRequest, Request, Serving
<1>5. /\ user' \in [Emails -> UserRow \cup {None}] /\ Later
      /\ \A x \in Emails : x # e => user'[x] = user[x]
      /\ user'[e] # None /\ user'[e].password = user[e].password
  <2> DEFINE Stamped(t) == user' = [user EXCEPT ![e].login = t]
  <2>1. \E t \in {user[e].login, user[e].login + 1} : Stamped(t)
    BY DEF StampLogin
  <2>2. user[e].login \in Nat
    BY <1>2, <1>3, UserFields
  <2> HIDE DEF Stamped
  <2>3. PICK t \in Nat : Stamped(t)
    BY <2>1, <2>2
  <2> QED
    BY <1>2, <1>3, <2>3, StampFacts DEF Stamped
<1> HIDE DEF r
<1>6. req'[w] = r
  BY <1>1, <1>4, BecomeFacts
<1>7. WorkerOK(w)'
  BY <1>3, <1>4, <1>5, <1>6 DEF WorkerOK, At, Serving, Idle, Exists, Known
<1>8. holder[e] = None
  BY <1>1 DEF RowFree
<1> QED
  BY <1>1, <1>4, <1>5, <1>7, <1>8, NoneIsNothing, WriteKeeps DEF TypeOK

(* #3 opens its session with the password it was checked against, outdated *)
(* or not.                                                                 *)
LEMMA SaveSessionKeeps ==
  ASSUME TypeOK, AccountsIInv, NEW w \in Workers, NEW s \in Sessions, SaveSession(w, s)
  PROVE  TypeOK' /\ AccountsIInv'
<1> DEFINE row == [email |-> req[w].email, password |-> req[w].password]
<1>1. /\ Serving(w, "login") /\ ~Idle(w)
      /\ session' = [session EXCEPT ![s] = row] /\ Become(w, None)
      /\ UNCHANGED <<user, identity, links, holder>>
  BY DEF SaveSession, At, Serving
<1>2. req[w].email \in Emails /\ req[w].password \in Password
  BY <1>1, AccountRequestFields
<1>3. row \in SessionRow /\ row.email = req[w].email /\ row.password = req[w].password
  BY <1>2 DEF SessionRow
<1>4. Exists(row.email) /\ Known(row.email, row.password)
  BY <1>1, <1>3, AccountsIInvByPart DEF WorkerOK
<1> HIDE DEF row
<1>5. req'[w] = None
  BY <1>1, BecomeFacts
<1>6. WorkerOK(w)'
  BY <1>5 DEF WorkerOK, At, Serving, Idle
<1>7. session' \in [Sessions -> SessionRow \cup {None}]
  BY <1>1, <1>3 DEF TypeOK
<1>8. \A x \in Sessions : session'[x] = row \/ session'[x] = session[x]
  BY <1>1 DEF TypeOK
<1>9. \A x \in Sessions : session'[x] # None =>
        \/ session'[x] = session[x]
        \/ Exists(session'[x].email) /\ Known(session'[x].email, session'[x].password)
  BY <1>4, <1>8
<1>10. Later
  BY <1>1, SameUsers
<1> QED
  BY <1>1, <1>6, <1>7, <1>9, <1>10, WriteKeeps DEF TypeOK
(* #6 links an account that is active and that it has locked.              *)
LEMMA CommitLinkFacts ==
  ASSUME TypeOK, AccountsIInv, NEW w \in Workers, CommitLink(w), ~Refuse(w)
  PROVE  LET e == req[w].email IN
         /\ e \in Emails /\ req[w].sub \in Subs
         /\ Exists(e) /\ user[e].active /\ holder[e] = w
         /\ SetPassword(e, "google") /\ Purge(e) /\ Release(w)
         /\ identity' = [identity EXCEPT ![req[w].sub] = e]
         /\ Become(w, LogIn(e, Fresh(user[e].password, "google")))
         /\ UNCHANGED links
<1> DEFINE e == req[w].email
<1>1. At(w, "google", "linking") /\ Serving(w, "google") /\ ~Idle(w)
  BY DEF CommitLink, At, Serving
<1>2. e \in Emails /\ req[w].sub \in Subs
  BY <1>1, AccountRequestFields
<1>3. Exists(e) /\ user[e].active /\ holder[e] = w
  BY <1>1, AccountsIInvByPart DEF WorkerOK
<1> QED
  BY <1>2, <1>3 DEF CommitLink

(* #6 links, replaces the password and purges the sessions in one          *)
(* transaction, under the lock of the account.                             *)
LEMMA CommitLinkKeeps ==
  ASSUME TypeOK, AccountsIInv, NEW w \in Workers, CommitLink(w)
  PROVE  TypeOK' /\ AccountsIInv'
<1> DEFINE e == req[w].email
           g == req[w].sub
           p == Fresh(user[e].password, "google")
           r == LogIn(e, p)
<1>1. CASE Refuse(w)
  BY <1>1, RefuseKeeps
<1>2. CASE ~Refuse(w)
  <2>1. /\ e \in Emails /\ g \in Subs /\ Exists(e) /\ holder[e] = w
        /\ SetPassword(e, "google") /\ Purge(e) /\ Release(w)
        /\ identity' = [identity EXCEPT ![g] = e] /\ Become(w, r) /\ UNCHANGED links
    BY <1>2, CommitLinkFacts
  <2>2. "google" \in Origin /\ "google" # "signup"
    BY DEF Origin
  <2>3. /\ user' \in [Emails -> UserRow \cup {None}]
        /\ \A x \in Emails : x # e => user'[x] = user[x]
        /\ user'[e].password = p /\ user'[e].password.by = "google"
        /\ Later
    BY <2>1, <2>2, SetPasswordFacts
  <2>4. user'[e] # None
    BY <2>1, <2>3 DEF Later
  <2>5. user[e].password \in Password
    BY <2>1, UserFields
  <2>6. p \in Password /\ p.n \in Nat
    BY <2>2, <2>5, FreshFacts DEF Password
  <2>7. r \in Request /\ r.op = "login" /\ r.email = e /\ r.password = p
    BY <2>1, <2>6, LogInFacts
  <2>8. req'[w] = r
    BY <2>1, <2>7, BecomeFacts
  <2> HIDE DEF r, p
  <2>9. p.n <= p.n
    BY <2>6
  <2>10. WorkerOK(w)'
    BY <2>3, <2>4, <2>7, <2>8, <2>9 DEF WorkerOK, At, Serving, Idle, Exists, Known
  <2>11. identity' \in [Subs -> Emails \cup {None}]
    BY <2>1 DEF TypeOK
  <2>12. \A x \in Subs : identity'[x] = e \/ identity'[x] = identity[x]
    BY <2>1 DEF TypeOK
  <2>13. \A x \in Subs : identity'[x] # None =>
           \/ identity'[x] = identity[x]
           \/ user'[identity'[x]] # None /\ user'[identity'[x]].password.by # "signup"
    BY <2>2, <2>3, <2>4, <2>12
  <2>14. /\ session' \in [Sessions -> SessionRow \cup {None}]
         /\ \A s \in Sessions : session'[s] # None => session'[s] = session[s]
    BY <2>1, PurgeFacts
  <2>15. /\ holder' \in [Emails -> Workers \cup {None}]
         /\ \A x \in Emails : holder[x] \in Workers \ {w} =>
              holder'[x] = holder[x] /\ (Exists(x) => user'[x] = user[x])
    BY <2>1, <2>3, ReleaseFacts
  <2>16. \A x \in Emails : Exists(x) =>
           user'[x].password = user[x].password \/ user'[x].password.by # "signup"
    BY <2>2, <2>3
  <2> QED
    BY <2>1, <2>3, <2>7, <2>10, <2>11, <2>13, <2>14, <2>15, <2>16, WriteKeeps
<1> QED
  BY <1>1, <1>2

(* #6 makes an account with an unusable password that is not a sign-up's.  *)
LEMMA CreateWithNicknameKeeps ==
  ASSUME TypeOK, AccountsIInv, NEW w \in Workers, CreateWithNickname(w)
  PROVE  TypeOK' /\ AccountsIInv'
<1> DEFINE e == req[w].email
           g == req[w].sub
           p == [n |-> 1, by |-> "google"]
           r == LogIn(e, p)
<1>1. Serving(w, "google") /\ ~Idle(w)
  BY DEF CreateWithNickname, At, Serving
<1>2. e \in Emails /\ g \in Subs
  BY <1>1, AccountRequestFields
<1>3. CASE Refuse(w)
  BY <1>3, RefuseKeeps
<1>4. CASE ~Refuse(w)
  <2>1. /\ ~Exists(e) /\ Become(w, r) /\ UNCHANGED <<session, links, holder>>
        /\ user' = [user EXCEPT ![e] = [password |-> p, active |-> TRUE, login |-> 0]]
        /\ identity' = [identity EXCEPT ![g] = e]
    BY <1>4 DEF CreateWithNickname
  <2>2. "google" \in Origin /\ "google" # "signup"
    BY DEF Origin
  <2>3. /\ user' \in [Emails -> UserRow \cup {None}] /\ Later
        /\ \A x \in Emails : Exists(x) => user'[x] = user[x]
        /\ user'[e] # None /\ user'[e].password = p /\ p \in Password
    BY <1>2, <2>1, <2>2, NewUserFacts
  <2>4. r \in Request /\ r.op = "login" /\ r.email = e /\ r.password = p
    BY <1>2, <2>3, LogInFacts
  <2>5. req'[w] = r
    BY <2>1, <2>4, BecomeFacts
  <2>6. p.n <= p.n /\ p.by = "google"
    OBVIOUS
  <2> HIDE DEF r, p
  <2>7. WorkerOK(w)'
    BY <2>3, <2>4, <2>5, <2>6 DEF WorkerOK, At, Serving, Idle, Exists, Known
  <2>8. identity' \in [Subs -> Emails \cup {None}]
    BY <1>2, <2>1 DEF TypeOK
  <2>9. \A x \in Subs : identity'[x] = e \/ identity'[x] = identity[x]
    BY <1>2, <2>1 DEF TypeOK
  <2>10. \A x \in Subs : identity'[x] # None =>
           \/ identity'[x] = identity[x]
           \/ user'[identity'[x]] # None /\ user'[identity'[x]].password.by # "signup"
    BY <2>2, <2>3, <2>6, <2>9
  <2>11. /\ holder' \in [Emails -> Workers \cup {None}]
         /\ session' \in [Sessions -> SessionRow \cup {None}]
    BY <2>1 DEF TypeOK
  <2> QED
    BY <2>1, <2>3, <2>4, <2>7, <2>8, <2>10, <2>11, WriteKeeps
<1> QED
  BY <1>3, <1>4

(* #46 has locked an active account, and the link is still the answer to   *)
(* its state.                                                              *)
LEMMA CommitConfirmFacts ==
  ASSUME TypeOK, AccountsIInv, NEW w \in Workers, CommitConfirm(w)
  PROVE  LET e == req[w].email  l == req[w].link IN
         /\ e \in Emails /\ Exists(e) /\ user[e].active /\ holder[e] = w
         /\ l \in links /\ l.email = e /\ CheckToken(l)
         /\ SetPassword(e, "reset") /\ Purge(e) /\ Release(w) /\ Become(w, None)
         /\ UNCHANGED <<identity, links>>
<1>1. /\ Serving(w, "confirm") /\ ~Idle(w) /\ req[w].stage = "locked"
  BY DEF CommitConfirm, At, Serving
<1>2. req[w].email \in Emails
  BY <1>1, AccountRequestFields
<1>3. WorkerOK(w)
  BY AccountsIInvByPart
<1> QED
  BY <1>1, <1>2, <1>3 DEF WorkerOK, CommitConfirm

(* #46 sets the next password of an account it holds, and no account gets  *)
(* a sign-up password by it.                                               *)
LEMMA CommitConfirmKeeps ==
  ASSUME TypeOK, AccountsIInv, NEW w \in Workers, CommitConfirm(w)
  PROVE  TypeOK' /\ AccountsIInv'
<1> DEFINE e == req[w].email
<1>1. /\ e \in Emails /\ Exists(e) /\ holder[e] = w
      /\ SetPassword(e, "reset") /\ Purge(e) /\ Release(w) /\ Become(w, None)
      /\ UNCHANGED <<identity, links>>
  BY CommitConfirmFacts
<1>2. "reset" \in Origin /\ "reset" # "signup"
  BY DEF Origin
<1>3. /\ user' \in [Emails -> UserRow \cup {None}]
      /\ \A x \in Emails : x # e => user'[x] = user[x]
      /\ user'[e].password.by = "reset" /\ Later
  BY <1>1, <1>2, SetPasswordFacts
<1>4. req'[w] = None
  BY <1>1, BecomeFacts
<1>5. WorkerOK(w)'
  BY <1>4 DEF WorkerOK, At, Serving, Idle
<1>6. /\ session' \in [Sessions -> SessionRow \cup {None}]
      /\ \A s \in Sessions : session'[s] # None => session'[s] = session[s]
  BY <1>1, PurgeFacts
<1>7. /\ holder' \in [Emails -> Workers \cup {None}]
      /\ \A x \in Emails : holder[x] \in Workers \ {w} =>
           holder'[x] = holder[x] /\ (Exists(x) => user'[x] = user[x])
  BY <1>1, <1>3, ReleaseFacts
<1>8. \A x \in Emails : Exists(x) =>
        user'[x].password = user[x].password \/ user'[x].password.by # "signup"
  BY <1>2, <1>3
<1> QED
  BY <1>1, <1>3, <1>5, <1>6, <1>7, <1>8, WriteKeeps DEF TypeOK

(* A form of the site writes is_active at most, of an account nobody has   *)
(* locked.                                                                 *)
LEMMA SaveFormFacts ==
  ASSUME TypeOK, AccountsIInv, NEW w \in Workers, SaveForm(w)
  PROVE  LET e == req[w].email  r == req[w] IN
         /\ e \in Emails /\ Exists(e) /\ holder[e] = None
         /\ user' \in [Emails -> UserRow \cup {None}]
         /\ \A x \in Emails : x # e => user'[x] = user[x]
         /\ user'[e].password = user[e].password
         /\ user'[e].active = IF r.active = r.seen.active THEN user[e].active ELSE r.active
         /\ Later /\ Serving(w, "form") /\ r.active \in BOOLEAN /\ r.seen \in UserRow
<1> DEFINE e == req[w].email
           active == IF req[w].active = req[w].seen.active THEN user[e].active
                                                           ELSE req[w].active
<1>1. Serving(w, "form") /\ ~Idle(w) /\ holder[e] = None
  BY DEF SaveForm, Serving, RowFree
<1>2. e \in Emails /\ req[w].active \in BOOLEAN /\ req[w].seen \in UserRow
  BY <1>1, AccountRequestFields
<1>3. Exists(e)
  BY <1>1, AccountsIInvByPart DEF WorkerOK
<1>4. active \in BOOLEAN
  BY <1>2, <1>3, UserFields
<1>5. user' = [user EXCEPT ![e].active = active]
  BY DEF SaveForm
<1> HIDE DEF active
<1>6. /\ user' \in [Emails -> UserRow \cup {None}]
      /\ \A x \in Emails : x # e => user'[x] = user[x]
      /\ user'[e].password = user[e].password /\ user'[e].active = active /\ Later
  BY <1>2, <1>3, <1>4, <1>5, ActiveFacts
<1> QED
  BY <1>1, <1>2, <1>3, <1>6 DEF active

(* The form of the site writes the activity if that was changed in it; the *)
(* guard of User.save keeps the password of the row.                       *)
LEMMA SaveFormKeeps ==
  ASSUME TypeOK, AccountsIInv, NEW w \in Workers, SaveForm(w)
  PROVE  TypeOK' /\ AccountsIInv'
<1> DEFINE e == req[w].email
<1>1. /\ e \in Emails /\ Exists(e) /\ holder[e] = None
      /\ user' \in [Emails -> UserRow \cup {None}]
      /\ \A x \in Emails : x # e => user'[x] = user[x]
      /\ user'[e].password = user[e].password /\ Later
  BY SaveFormFacts
<1>2. Become(w, None) /\ UNCHANGED <<identity, session, links, holder>>
  BY DEF SaveForm
<1>3. req'[w] = None
  BY <1>2, BecomeFacts
<1>4. WorkerOK(w)'
  BY <1>3 DEF WorkerOK, At, Serving, Idle
<1>5. /\ identity' \in [Subs -> Emails \cup {None}]
      /\ session' \in [Sessions -> SessionRow \cup {None}]
      /\ holder' \in [Emails -> Workers \cup {None}]
  BY <1>2 DEF TypeOK
<1>6. /\ \A x \in Emails : holder[x] \in Workers \ {w} =>
           holder'[x] = holder[x] /\ (Exists(x) => user'[x] = user[x])
      /\ \A x \in Emails : Exists(x) => user'[x].password = user[x].password
  BY <1>1, <1>2, NoneIsNothing
<1> QED
  BY <1>1, <1>2, <1>4, <1>5, <1>6, WriteKeeps
-----------------------------------------------------------------------------
(* The steps that no worker takes.                                         *)
LEMMA OutsideKeeps ==
  ASSUME TypeOK, AccountsIInv, TypeOK', TablesOK', Later, links \subseteq links',
         UNCHANGED <<holder, req>>,
         \A e \in Emails : Exists(e) /\ holder[e] # None => user'[e] = user[e]
  PROVE  AccountsIInv'
<1>1. ASSUME NEW v \in Workers PROVE WorkerOK(v)'
  <2>1. WorkerOK(v) /\ v # None
    BY AccountsIInvByPart, NoneIsNothing
  <2>2. \A e \in Emails :
          holder[e] = v => holder'[e] = v /\ (Exists(e) => user'[e] = user[e])
    BY <2>1
  <2>3. req'[v] = req[v]
    OBVIOUS
  <2> QED
    BY <2>1, <2>2, <2>3, OthersRely
<1> QED
  BY <1>1, AccountsIInvByPart

(* Closing sessions, dropping identities and mailing links leave accounts  *)
(* and requests as they are.                                               *)
LEMMA ClosingKeeps ==
  ASSUME TypeOK, AccountsIInv, UNCHANGED <<user, holder, req>>,
         identity' \in [Subs -> Emails \cup {None}],
         session' \in [Sessions -> SessionRow \cup {None}],
         links' \subseteq Link, links \subseteq links',
         \A g \in Subs : identity'[g] # None => identity'[g] = identity[g],
         \A s \in Sessions : session'[s] # None => session'[s] = session[s],
         \A l \in links' : l \in links \/ Exists(l.email)
  PROVE  TypeOK' /\ AccountsIInv'
<1>1. TypeOK'
  BY DEF TypeOK
<1>2. TablesOK /\ Later
  BY AccountsIInvByPart, SameUsers
<1>3. TablesOK'
  BY <1>1, <1>2, TablesStep
<1>4. AccountsIInv'
  BY <1>1, <1>2, <1>3, OutsideKeeps
<1> QED
  BY <1>1, <1>4

(* #4 closes one session.                                                  *)
LEMMA LogoutKeeps ==
  ASSUME TypeOK, AccountsIInv, NEW s \in Sessions, Logout(s)
  PROVE  TypeOK' /\ AccountsIInv'
<1>1. /\ session' = [session EXCEPT ![s] = None]
      /\ UNCHANGED <<user, identity, links, holder, req>>
  BY DEF Logout
<1>2. /\ session' \in [Sessions -> SessionRow \cup {None}]
      /\ \A x \in Sessions : session'[x] # None => session'[x] = session[x]
  BY <1>1 DEF TypeOK
<1> QED
  BY <1>1, <1>2, ClosingKeeps DEF TypeOK

(* The site drops an identity.                                             *)
LEMMA UnlinkKeeps ==
  ASSUME TypeOK, AccountsIInv, NEW g \in Subs, Unlink(g)
  PROVE  TypeOK' /\ AccountsIInv'
<1>1. /\ identity' = [identity EXCEPT ![g] = None]
      /\ UNCHANGED <<user, session, links, holder, req>>
  BY DEF Unlink
<1>2. /\ identity' \in [Subs -> Emails \cup {None}]
      /\ \A x \in Subs : identity'[x] # None => identity'[x] = identity[x]
  BY <1>1 DEF TypeOK
<1> QED
  BY <1>1, <1>2, ClosingKeeps DEF TypeOK

(* #45 mails a link of an account that is there.                           *)
LEMMA RequestPasswordResetKeeps ==
  ASSUME TypeOK, AccountsIInv, NEW e \in Emails, RequestPasswordReset(e)
  PROVE  TypeOK' /\ AccountsIInv'
<1> DEFINE l == [email |-> e, n |-> user[e].password.n, login |-> user[e].login]
<1>1. /\ Exists(e) /\ links' = links \cup {l}
      /\ UNCHANGED <<user, identity, session, holder, req>>
  BY DEF RequestPasswordReset
<1>2. l \in Link /\ l.email = e
  BY <1>1, UserFields DEF Link
<1> HIDE DEF l
<1> QED
  BY <1>1, <1>2, ClosingKeeps DEF TypeOK

(* The site sets the next password of an account nobody holds.             *)
LEMMA SiteSetPasswordKeeps ==
  ASSUME TypeOK, AccountsIInv, NEW e \in Emails, NEW by \in {"site", "off"},
         SiteSetPassword(e, by)
  PROVE  TypeOK' /\ AccountsIInv'
<1>1. /\ Exists(e) /\ holder[e] = None /\ SetPassword(e, by)
      /\ UNCHANGED <<identity, session, links, holder, req>>
  BY DEF SiteSetPassword, RowFree
<1>2. by \in Origin /\ by # "signup"
  BY DEF Origin
<1>3. /\ user' \in [Emails -> UserRow \cup {None}]
      /\ \A x \in Emails : x # e => user'[x] = user[x]
      /\ user'[e].password.by = by /\ Later
  BY <1>1, <1>2, SetPasswordFacts
<1>4. TypeOK'
  BY <1>1, <1>3 DEF TypeOK
<1>5. TablesOK
  BY AccountsIInvByPart
<1>6. \A x \in Emails : Exists(x) =>
        user'[x].password = user[x].password \/ user'[x].password.by # "signup"
  BY <1>2, <1>3
<1>7. TablesOK'
  BY <1>1, <1>3, <1>4, <1>5, <1>6, TablesStep
<1>8. AccountsIInv'
  BY <1>1, <1>3, <1>4, <1>7, OutsideKeeps
<1> QED
  BY <1>4, <1>8

-----------------------------------------------------------------------------
(* Empty tables and idle workers satisfy the invariant.                    *)
LEMMA AccountsInit ==
  ASSUME Init
  PROVE  TypeOK /\ AccountsIInv
BY AccountsIInvByPart
   DEF Init, TypeOK, TablesOK, LinkedLeftSignup, WorkerOK, Exists, At, Serving, Idle

(* The steps of a worker that need no lock.                                *)
LEMMA AdvanceKeeps ==
  ASSUME TypeOK, AccountsIInv, NEW w \in Workers, Advance(w) \/ Abort(w)
  PROVE  TypeOK' /\ AccountsIInv'
BY InsertUserKeeps, StampLoginKeeps, SaveSessionKeeps, LockForLinkKeeps, CommitLinkKeeps,
   CreateWithNicknameKeeps, LockForConfirmKeeps, CommitConfirmKeeps, LockForProfileKeeps,
   RefuseKeeps, SaveFormKeeps DEF Advance, Abort, CommitProfile

(* A step of nobody.                                                       *)
LEMMA AccountsStutter ==
  ASSUME TypeOK, AccountsIInv, UNCHANGED vars
  PROVE  TypeOK' /\ AccountsIInv'
<1>1. UNCHANGED <<user, identity, session, links, holder, req>>
  BY DEF vars
<1> QED
  BY <1>1, ClosingKeeps DEF TypeOK

(* Every step keeps the invariant.                                         *)
LEMMA AccountsStep ==
  ASSUME TypeOK, AccountsIInv, [Next]_vars
  PROVE  TypeOK' /\ AccountsIInv'
BY BeginRequestKeeps, AdvanceKeeps, LogoutKeeps, RequestPasswordResetKeeps,
   SiteSetPasswordKeeps, UnlinkKeeps, AccountsStutter DEF Next, SiteAction

(* Every request relies on what it has locked, and every password that is  *)
(* kept anywhere is the current one of its account or older.               *)
THEOREM AccountsInvariance == Spec => [](TypeOK /\ AccountsIInv)
<1>1. Init => TypeOK /\ AccountsIInv
  BY AccountsInit
<1>2. TypeOK /\ AccountsIInv /\ [Next]_vars => (TypeOK /\ AccountsIInv)'
  BY AccountsStep
<1> QED
  BY <1>1, <1>2, PTL DEF Spec

(* The password and the sessions of a sign-up do not get into an account   *)
(* that is linked (LinkShutsSignupOut).                                    *)
THEOREM SignupIsShutOut == Spec => []LinkShutsSignupOut
<1>1. TypeOK /\ AccountsIInv => LinkShutsSignupOut
  <2> SUFFICES ASSUME AccountsIInv, NEW e \in Emails, Exists(e), Linked(e)
               PROVE  /\ user[e].password.by # "signup"
                      /\ \A s \in Sessions :
                           session[s] # None /\ session[s].email = e /\ Usable(s)
                             => session[s].password.by # "signup"
    BY DEF LinkShutsSignupOut
  <2>1. user[e].password.by # "signup"
    BY DEF AccountsIInv, LinkedLeftSignup
  <2>2. ASSUME NEW s \in Sessions, session[s] # None, session[s].email = e, Usable(s)
        PROVE  session[s].password = user[e].password
    BY <2>2, AccountsIInvByPart DEF TablesOK, Known, Usable
  <2> QED
    BY <2>1, <2>2
<1> QED
  BY <1>1, AccountsInvariance, PTL

-----------------------------------------------------------------------------
(* Who sets the password of an account, and how.                           *)
Reset(e) == \E w \in Workers : CommitConfirm(w) /\ req[w].email = e
Link6(e) == \E w \in Workers : CommitLink(w) /\ ~Refuse(w) /\ req[w].email = e
SiteSets(e) == \E by \in {"site", "off"} : SiteSetPassword(e, by)

(* An existing password is replaced by a reset, by a link, or by the site, *)
(* and by nothing else.                                                    *)
LEMMA PasswordWriters ==
  ASSUME TypeOK, AccountsIInv, [Next]_vars, NEW e \in Emails, Exists(e),
         user'[e].password # user[e].password
  PROVE  Reset(e) \/ Link6(e) \/ SiteSets(e)
<1>1. ASSUME NEW w \in Workers, BeginRequest(w) PROVE FALSE
  BY <1>1 DEF BeginRequest, BeginSignup, BeginLogin, BeginGoogle, BeginConfirm,
     BeginProfile, BeginForm, Begin
<1>2. ASSUME NEW w \in Workers, Refuse(w) PROVE FALSE
  BY <1>2 DEF Refuse
<1>3. ASSUME NEW w \in Workers, InsertUser(w) PROVE FALSE
  <2>1. req[w].email \in Emails /\ ~Exists(req[w].email)
    BY <1>2, <1>3, AccountRequestFields DEF InsertUser, Serving
  <2> QED
    BY <1>2, <1>3, <2>1 DEF InsertUser, TypeOK
<1>4. ASSUME NEW w \in Workers, StampLogin(w) PROVE FALSE
  <2>1. Serving(w, "login") /\ ~Idle(w)
    BY <1>4 DEF StampLogin, At, Serving
  <2>2. req[w].email \in Emails /\ Exists(req[w].email)
    BY <2>1, AccountRequestFields, AccountsIInvByPart DEF WorkerOK
  <2>3. PICK t \in Nat : user' = [user EXCEPT ![req[w].email].login = t]
    BY <1>4, <2>2, UserFields DEF StampLogin
  <2> QED
    BY <2>2, <2>3, StampFacts
<1>5. ASSUME NEW w \in Workers, \E s \in Sessions : SaveSession(w, s) PROVE FALSE
  BY <1>5 DEF SaveSession
<1>6. ASSUME NEW w \in Workers, LockForLink(w) \/ LockForConfirm(w) \/ LockForProfile(w)
      PROVE  FALSE
  BY <1>2, <1>6 DEF LockForLink, LockForConfirm, LockForProfile
<1>7. ASSUME NEW w \in Workers, CommitLink(w) PROVE Link6(e)
  <2>1. /\ req[w].email \in Emails /\ Exists(req[w].email)
        /\ SetPassword(req[w].email, "google")
    BY <1>2, <1>7, CommitLinkFacts
  <2>2. \A x \in Emails : x # req[w].email => user'[x] = user[x]
    BY <2>1, SetPasswordFacts DEF Origin
  <2> QED
    BY <1>2, <1>7, <2>2 DEF Link6
<1>8. ASSUME NEW w \in Workers, CreateWithNickname(w) PROVE FALSE
  <2>1. req[w].email \in Emails /\ ~Exists(req[w].email)
    BY <1>2, <1>8, AccountRequestFields DEF CreateWithNickname, At, Serving
  <2> QED
    BY <1>2, <1>8, <2>1 DEF CreateWithNickname, TypeOK
<1>9. ASSUME NEW w \in Workers, CommitConfirm(w) PROVE Reset(e)
  <2>1. /\ req[w].email \in Emails /\ Exists(req[w].email)
        /\ SetPassword(req[w].email, "reset")
    BY <1>9, CommitConfirmFacts
  <2>2. \A x \in Emails : x # req[w].email => user'[x] = user[x]
    BY <2>1, SetPasswordFacts DEF Origin
  <2> QED
    BY <1>9, <2>2 DEF Reset
<1>10. ASSUME NEW w \in Workers, SaveForm(w) PROVE FALSE
  BY <1>10, SaveFormFacts
<1>11. ASSUME NEW x \in Emails, NEW by \in {"site", "off"}, SiteSetPassword(x, by)
       PROVE  SiteSets(e)
  <2>1. Exists(x) /\ SetPassword(x, by)
    BY <1>11 DEF SiteSetPassword
  <2>2. x = e
    BY <2>1, SetPasswordFacts DEF Origin
  <2> QED
    BY <1>11, <2>2 DEF SiteSets
<1>12. CASE \/ \E s \in Sessions : Logout(s)
            \/ \E x \in Emails : RequestPasswordReset(x)
            \/ \E g \in Subs : Unlink(g)
            \/ UNCHANGED vars
  BY <1>12 DEF Logout, RequestPasswordReset, Unlink, vars
<1> QED
  BY <1>1, <1>2, <1>3, <1>4, <1>5, <1>6, <1>7, <1>8, <1>9, <1>10, <1>11, <1>12
     DEF Next, Advance, Abort, CommitProfile, SiteAction
(* What each of the three writes.                                          *)
LEMMA PasswordWritten ==
  ASSUME TypeOK, AccountsIInv, NEW e \in Emails, Exists(e), Reset(e) \/ Link6(e) \/ SiteSets(e)
  PROVE  /\ user'[e].password.n = user[e].password.n + 1 /\ user[e].password.n \in Nat
         /\ Reset(e) => /\ user'[e].password.by = "reset" /\ user[e].active
                        /\ \E l \in links : l.email = e /\ CheckToken(l)
         /\ Link6(e) => user'[e].password.by = "google" /\ user[e].active
         /\ SiteSets(e) => user'[e].password.by \in {"site", "off"}
         /\ user'[e].active = user[e].active
<1>1. user[e].password.n \in Nat
  BY UserFields
<1>2. ASSUME Reset(e)
      PROVE  /\ SetPassword(e, "reset") /\ user[e].active
             /\ \E l \in links : l.email = e /\ CheckToken(l)
  BY <1>2, CommitConfirmFacts DEF Reset
<1>3. ASSUME Link6(e) PROVE SetPassword(e, "google") /\ user[e].active
  BY <1>3, CommitLinkFacts DEF Link6
<1>4. ASSUME SiteSets(e) PROVE \E by \in {"site", "off"} : SetPassword(e, by)
  BY <1>4 DEF SiteSets, SiteSetPassword
<1>5. ASSUME NEW by \in Origin, SetPassword(e, by)
      PROVE  /\ user'[e].password.n = user[e].password.n + 1
             /\ user'[e].password.by = by /\ user'[e].active = user[e].active
  BY <1>5, SetPasswordFacts
<1> QED
  BY <1>1, <1>2, <1>3, <1>4, <1>5 DEF Origin

(* A password is replaced by newer ones only (PasswordNeverReturns).       *)
THEOREM PasswordsGoForward == Spec => PasswordNeverReturns
<1>1. TypeOK /\ AccountsIInv /\ [Next]_vars =>
        [\A e \in Emails : Exists(e) /\ user'[e].password # user[e].password
           => user'[e].password.n > user[e].password.n]_vars
  <2> SUFFICES ASSUME TypeOK, AccountsIInv, [Next]_vars, NEW e \in Emails, Exists(e),
                      user'[e].password # user[e].password
               PROVE  user'[e].password.n > user[e].password.n
    OBVIOUS
  <2>1. /\ user'[e].password.n = user[e].password.n + 1
        /\ user[e].password.n \in Nat
    BY PasswordWriters, PasswordWritten
  <2> QED
    BY <2>1
<1> QED
  BY <1>1, AccountsInvariance, PTL DEF Spec, PasswordNeverReturns

(* A reset is the answer to a link mailed for the state it finds           *)
(* (LinkIsForOneUse).                                                      *)
THEOREM ResetsAreCurrent == Spec => LinkIsForOneUse
<1>1. TypeOK /\ AccountsIInv /\ [Next]_vars =>
        [\A e \in Emails : Exists(e) /\ user'[e].password # user[e].password
                             /\ user'[e].password.by = "reset"
           => \E l \in links : /\ l.email = e /\ l.n = user[e].password.n
                               /\ l.login = user[e].login]_vars
  <2> SUFFICES ASSUME TypeOK, AccountsIInv, [Next]_vars, NEW e \in Emails, Exists(e),
                      user'[e].password # user[e].password,
                      user'[e].password.by = "reset"
               PROVE  \E l \in links : /\ l.email = e /\ l.n = user[e].password.n
                                       /\ l.login = user[e].login
    OBVIOUS
  <2>1. PICK l \in links : l.email = e /\ CheckToken(l)
    BY PasswordWriters, PasswordWritten
  <2> QED
    BY <2>1 DEF CheckToken
<1> QED
  BY <1>1, AccountsInvariance, PTL DEF Spec, LinkIsForOneUse

-----------------------------------------------------------------------------
(* A link is made by #6: for a new account, or an active one.              *)
LEMMA LinkMakers ==
  ASSUME TypeOK, AccountsIInv, [Next]_vars, NEW e \in Emails, Exists(e), ~Linked(e), Linked(e)'
  PROVE  user[e].active
<1>1. PICK g \in Subs : identity'[g] = e
  BY DEF Linked
<1>2. identity[g] # e /\ e # None
  BY NoneIsNothing DEF Linked
<1>3. identity' # identity
  BY <1>1, <1>2
<1>4. ASSUME NEW w \in Workers, CommitLink(w) PROVE user[e].active
  <2>1. ~Refuse(w)
    BY <1>3 DEF Refuse
  <2>2. /\ identity' = [identity EXCEPT ![req[w].sub] = req[w].email]
        /\ user[req[w].email].active
    BY <1>4, <2>1, CommitLinkFacts
  <2>3. req[w].email = e
    BY <1>1, <1>2, <2>2 DEF TypeOK
  <2> QED
    BY <2>2, <2>3
<1>5. ASSUME NEW w \in Workers, CreateWithNickname(w) PROVE FALSE
  <2>1. /\ ~Exists(req[w].email)
        /\ identity' = [identity EXCEPT ![req[w].sub] = req[w].email]
    BY <1>3, <1>5 DEF CreateWithNickname, Refuse
  <2>2. req[w].email = e
    BY <1>1, <1>2, <2>1 DEF TypeOK
  <2> QED
    BY <2>1, <2>2
<1>6. ASSUME NEW x \in Subs, Unlink(x) PROVE FALSE
  BY <1>1, <1>2, <1>6 DEF Unlink, TypeOK
<1>7. ASSUME NEW w \in Workers, BeginRequest(w) PROVE FALSE
  BY <1>3, <1>7 DEF BeginRequest, BeginSignup, BeginLogin, BeginGoogle, BeginConfirm,
     BeginProfile, BeginForm, Begin
<1>8. ASSUME NEW w \in Workers,
             \/ InsertUser(w) \/ StampLogin(w) \/ \E s \in Sessions : SaveSession(w, s)
             \/ LockForLink(w) \/ LockForConfirm(w) \/ CommitConfirm(w)
             \/ LockForProfile(w) \/ SaveForm(w) \/ Refuse(w)
      PROVE  FALSE
  BY <1>3, <1>8 DEF InsertUser, StampLogin, SaveSession, LockForLink, LockForConfirm,
     CommitConfirm, LockForProfile, SaveForm, Refuse
<1>9. CASE \/ \E s \in Sessions : Logout(s)
           \/ \E x \in Emails : RequestPasswordReset(x)
           \/ \E x \in Emails, by \in {"site", "off"} : SiteSetPassword(x, by)
           \/ UNCHANGED vars
  BY <1>3, <1>9 DEF Logout, RequestPasswordReset, SiteSetPassword, vars
<1> QED
  BY <1>4, <1>5, <1>6, <1>7, <1>8, <1>9 DEF Next, Advance, Abort, CommitProfile, SiteAction

(* Only a form that read an account as frozen thaws it.                    *)
LEMMA Thaws ==
  ASSUME TypeOK, AccountsIInv, [Next]_vars, NEW e \in Emails, Exists(e),
         ~user[e].active, user'[e].active
  PROVE  \E w \in Workers : Serving(w, "form") /\ ~req[w].seen.active
<1>1. user' # user /\ ~Reset(e) /\ ~Link6(e) /\ ~SiteSets(e)
  <2>1. Reset(e) \/ Link6(e) \/ SiteSets(e) => user'[e].active = user[e].active
    BY PasswordWritten
  <2> QED
    BY <2>1
<1>2. ASSUME NEW w \in Workers, SaveForm(w)
      PROVE  Serving(w, "form") /\ ~req[w].seen.active
  <2>1. /\ \A x \in Emails : x # req[w].email => user'[x] = user[x]
        /\ user'[req[w].email].active =
             IF req[w].active = req[w].seen.active THEN user[req[w].email].active
                                                   ELSE req[w].active
        /\ Serving(w, "form") /\ req[w].active \in BOOLEAN /\ req[w].seen \in UserRow
    BY <1>2, SaveFormFacts
  <2>2. req[w].email = e
    BY <2>1
  <2>3. req[w].active # req[w].seen.active /\ req[w].active
    BY <2>1, <2>2
  <2>4. req[w].seen.active \in BOOLEAN
    BY <2>1 DEF UserRow
  <2> QED
    BY <2>1, <2>3, <2>4
<1>3. ASSUME NEW w \in Workers, StampLogin(w) PROVE FALSE
  <2>1. Serving(w, "login") /\ ~Idle(w)
    BY <1>3 DEF StampLogin, At, Serving
  <2>2. req[w].email \in Emails /\ Exists(req[w].email)
    BY <2>1, AccountRequestFields, AccountsIInvByPart DEF WorkerOK
  <2>3. PICK t \in Nat : user' = [user EXCEPT ![req[w].email].login = t]
    BY <1>3, <2>2, UserFields DEF StampLogin
  <2>4. user'[e].active = user[e].active
    BY <2>2, <2>3, StampFacts
  <2> QED
    BY <2>4
<1>4. ASSUME NEW w \in Workers, InsertUser(w) \/ CreateWithNickname(w) PROVE FALSE
  <2>1. req[w].email \in Emails
    BY <1>4, AccountRequestFields DEF InsertUser, CreateWithNickname, At, Serving
  <2>2. ~Refuse(w)
    BY <1>1 DEF Refuse
  <2>3. /\ ~Exists(req[w].email)
        /\ \A x \in Emails : x # req[w].email => user'[x] = user[x]
    BY <1>4, <2>1, <2>2 DEF InsertUser, CreateWithNickname, TypeOK
  <2> QED
    BY <2>3
<1>5. ASSUME NEW w \in Workers, CommitLink(w) PROVE FALSE
  <2>1. ~Refuse(w)
    BY <1>1 DEF Refuse
  <2>2. /\ req[w].email \in Emails /\ Exists(req[w].email)
        /\ SetPassword(req[w].email, "google")
    BY <1>5, <2>1, CommitLinkFacts
  <2>3. user'[e].active = user[e].active
    BY <2>2, SetPasswordFacts DEF Origin
  <2> QED
    BY <2>3
<1>6. ASSUME NEW w \in Workers, CommitConfirm(w) PROVE FALSE
  <2>1. /\ req[w].email \in Emails /\ Exists(req[w].email)
        /\ SetPassword(req[w].email, "reset")
    BY <1>6, CommitConfirmFacts
  <2>2. user'[e].active = user[e].active
    BY <2>1, SetPasswordFacts DEF Origin
  <2> QED
    BY <2>2
<1>7. ASSUME NEW x \in Emails, NEW by \in {"site", "off"}, SiteSetPassword(x, by)
      PROVE  FALSE
  <2>1. Exists(x) /\ SetPassword(x, by)
    BY <1>7 DEF SiteSetPassword
  <2>2. user'[e].active = user[e].active
    BY <2>1, SetPasswordFacts DEF Origin
  <2> QED
    BY <2>2
<1>8. ASSUME NEW w \in Workers, BeginRequest(w) PROVE FALSE
  BY <1>1, <1>8 DEF BeginRequest, BeginSignup, BeginLogin, BeginGoogle, BeginConfirm,
     BeginProfile, BeginForm, Begin
<1>9. ASSUME NEW w \in Workers,
             \/ \E s \in Sessions : SaveSession(w, s)
             \/ LockForLink(w) \/ LockForConfirm(w) \/ LockForProfile(w) \/ Refuse(w)
      PROVE  FALSE
  BY <1>1, <1>9 DEF SaveSession, LockForLink, LockForConfirm, LockForProfile, Refuse
<1>10. CASE \/ \E s \in Sessions : Logout(s)
            \/ \E x \in Emails : RequestPasswordReset(x)
            \/ \E g \in Subs : Unlink(g)
            \/ UNCHANGED vars
  BY <1>1, <1>10 DEF Logout, RequestPasswordReset, Unlink, vars
<1> QED
  BY <1>2, <1>3, <1>4, <1>5, <1>6, <1>7, <1>8, <1>9, <1>10
     DEF Next, Advance, Abort, CommitProfile, SiteAction

(* A frozen account gets no link and no password but from the site, and is *)
(* thawed by a form that saw it frozen (FrozenIsLeftAlone).                *)
THEOREM FrozenStaysOut == Spec => FrozenIsLeftAlone
<1>1. TypeOK /\ AccountsIInv /\ [Next]_vars =>
        [\A e \in Emails : Exists(e) /\ ~user[e].active =>
           /\ Linked(e)' => Linked(e)
           /\ user'[e].password # user[e].password => user'[e].password.by \in {"site", "off"}
           /\ user'[e].active => \E w \in Workers : Serving(w, "form") /\ ~req[w].seen.active]_vars
  <2> SUFFICES ASSUME TypeOK, AccountsIInv, [Next]_vars, NEW e \in Emails, Exists(e),
                      ~user[e].active
               PROVE  /\ Linked(e)' => Linked(e)
                      /\ user'[e].password # user[e].password
                           => user'[e].password.by \in {"site", "off"}
                      /\ user'[e].active
                           => \E w \in Workers : Serving(w, "form") /\ ~req[w].seen.active
    OBVIOUS
  <2> QED
    BY LinkMakers, Thaws, PasswordWriters, PasswordWritten
<1> QED
  BY <1>1, AccountsInvariance, PTL DEF Spec, FrozenIsLeftAlone
=============================================================================
