------------------------------ MODULE Accounts ------------------------------
(***************************************************************************)
(* Credentials: the password of an account, its sessions, its reset links  *)
(* and its Google identity (accounts/services.py, accounts/views.py #2 to  *)
(* #4, #6, #8, #45, #46), with the forms of the administration site, which *)
(* save a whole User row read earlier.                                     *)
(*                                                                         *)
(* An account is known by its canonical email.  Nicknames, and the columns *)
(* #8 writes, are left out: a taken nickname is a refusal like any other.  *)
(***************************************************************************)
EXTENDS Naturals, FiniteSets

CONSTANTS
  Emails,         \* canonical email addresses
  Subs,           \* Google accounts (google_sub)
  Sessions,       \* session keys (bounds how many sessions there are at once)
  Workers,        \* gunicorn workers
  MaxPasswords,   \* bound: no request starts that could set more passwords
  MaxLogins,      \* bound: no request starts that could pass this last_login
  None            \* no row, no holder, no request

VARIABLES
  user,           \* the User table: [Emails -> UserRow or None]
  identity,       \* the GoogleIdentity table: [Subs -> Emails or None]
  session,        \* the session table: [Sessions -> SessionRow or None]
  links,          \* the reset links mailed so far
  holder,         \* FOR UPDATE on a User row
  req             \* the request a worker serves

vars == <<user, identity, session, links, holder, req>>

-----------------------------------------------------------------------------
(* A password hash is salted, so no two are alike: the n-th of the account,*)
(* and where it came from.  "off" and "google" are unusable ones.          *)
Origin == {"signup", "reset", "site", "off", "google"}
Password == [n : Nat, by : Origin]
HasUsablePassword(p) == p.by \notin {"off", "google"}

(* `login` stands for last_login to the second, which is what a link keeps *)
(* of it: 0 is never, and it grows unless two logins share a second.       *)
UserRow == [password : Password, active : BOOLEAN, login : Nat]
SessionRow == [email : Emails, password : Password]
Link == [email : Emails, n : Nat, login : Nat]

(* `seen` is the service's in-memory copy of the row.                      *)
SignupRequest == [op : {"signup"}, email : Emails]
LoginRequest == [op : {"login"}, stage : {"stamp", "save"}, email : Emails,
                 password : Password]
GoogleRequest == [op : {"google"}, stage : {"unlinked", "linking", "absent"},
                  email : Emails, sub : Subs]
ConfirmRequest == [op : {"confirm"}, stage : {"waiting", "locked"}, email : Emails,
                   link : Link]
ProfileRequest == [op : {"profile"}, stage : {"waiting", "locked"}, email : Emails,
                   seen : UserRow]
FormRequest == [op : {"form"}, email : Emails, seen : UserRow, active : BOOLEAN]
Request == SignupRequest \cup LoginRequest \cup GoogleRequest \cup ConfirmRequest
             \cup ProfileRequest \cup FormRequest

ASSUME AccountsAssumption ==
  /\ None \notin UserRow \cup SessionRow \cup Request
  /\ None \notin Emails \cup Workers
  /\ MaxPasswords \in Nat /\ MaxLogins \in Nat

-----------------------------------------------------------------------------
Exists(e) == user[e] # None
Linked(e) == \E g \in Subs : identity[g] = e
Idle(w) == req[w] = None
Serving(w, op) == ~Idle(w) /\ req[w].op = op
At(w, op, stage) == Serving(w, op) /\ req[w].stage = stage
RowFree(e) == holder[e] = None

(* What django.contrib.auth accepts of a session: the hash it carries is   *)
(* the one of the current password, and the account is active.             *)
Usable(s) ==
  /\ session[s] # None
  /\ user[session[s].email].active
  /\ session[s].password.n = user[session[s].email].password.n

Busy(e) == Cardinality({w \in Workers : ~Idle(w) /\ req[w].email = e})
Room(e) == Exists(e) => /\ user[e].password.n + Busy(e) < MaxPasswords
                        /\ user[e].login + Busy(e) < MaxLogins

Become(w, r) == req' = [req EXCEPT ![w] = r]
Begin(w, r) == Idle(w) /\ Become(w, r) /\ UNCHANGED <<user, identity, session, links, holder>>
Hold(w) == holder' = [holder EXCEPT ![req[w].email] = w]
Release(w) == holder' = [e \in Emails |-> IF holder[e] = w THEN None ELSE holder[e]]
Refuse(w) == Release(w) /\ Become(w, None) /\ UNCHANGED <<user, identity, session, links>>

Fresh(p, by) == [n |-> p.n + 1, by |-> by]
SetPassword(e, by) == user' = [user EXCEPT ![e].password = Fresh(@, by)]

(* _purge_sessions_of.                                                     *)
Purge(e) ==
  session' = [s \in Sessions |->
    IF session[s] # None /\ session[s].email = e THEN None ELSE session[s]]

(* From here on the request is a login with the row it has in memory.      *)
LogIn(e, p) == [op |-> "login", stage |-> "stamp", email |-> e, password |-> p]

-----------------------------------------------------------------------------
(* #2 signup: the serializer finds the email free, the INSERT comes later. *)
BeginSignup(w, e) == ~Exists(e) /\ Begin(w, [op |-> "signup", email |-> e])

InsertUser(w) ==
  LET e == req[w].email IN
  /\ Serving(w, "signup")
  /\ IF Exists(e) THEN Refuse(w)
     ELSE /\ user' = [user EXCEPT ![e] =
               [password |-> [n |-> 1, by |-> "signup"], active |-> TRUE, login |-> 0]]
          /\ Become(w, LogIn(e, [n |-> 1, by |-> "signup"]))
          /\ UNCHANGED <<identity, session, links, holder>>

(* #3 login: authenticate() reads the row; a wrong password, an unusable   *)
(* one and a frozen account are 401.  login() then stamps last_login and   *)
(* the session is saved with the response, with the hash that was read.    *)
BeginLogin(w, e) ==
  /\ Exists(e) /\ user[e].active /\ HasUsablePassword(user[e].password) /\ Room(e)
  /\ Begin(w, LogIn(e, user[e].password))

StampLogin(w) ==
  LET e == req[w].email IN
  /\ At(w, "login", "stamp") /\ RowFree(e)
  /\ \E t \in {user[e].login, user[e].login + 1} \ {0} :
       user' = [user EXCEPT ![e].login = t]
  /\ Become(w, [req[w] EXCEPT !.stage = "save"])
  /\ UNCHANGED <<identity, session, links, holder>>

SaveSession(w, s) ==
  /\ At(w, "login", "save") /\ session[s] = None
  /\ session' = [session EXCEPT ![s] =
       [email |-> req[w].email, password |-> req[w].password]]
  /\ Become(w, None)
  /\ UNCHANGED <<user, identity, links, holder>>

(* #4 logout.                                                              *)
Logout(s) ==
  /\ Usable(s)
  /\ session' = [session EXCEPT ![s] = None]
  /\ UNCHANGED <<user, identity, links, holder, req>>

-----------------------------------------------------------------------------
(* #6, past Google's verification of <sub, email>.  A known sub is the     *)
(* account it is linked to, whatever the email; a frozen account is 401.   *)
BeginGoogle(w, g, e) ==
  /\ Room(IF identity[g] = None THEN e ELSE identity[g])
  /\ IF identity[g] = None
     THEN Begin(w, [op |-> "google", stage |-> "unlinked", email |-> e, sub |-> g])
     ELSE /\ user[identity[g]].active
          /\ Begin(w, LogIn(identity[g], user[identity[g]].password))

LockForLink(w) ==
  LET e == req[w].email IN
  /\ At(w, "google", "unlinked") /\ RowFree(e)
  /\ IF ~Exists(e)
     THEN Become(w, [req[w] EXCEPT !.stage = "absent"])
          /\ UNCHANGED <<user, identity, session, links, holder>>
     ELSE IF user[e].active /\ ~Linked(e)
     THEN /\ Hold(w) /\ Become(w, [req[w] EXCEPT !.stage = "linking"])
          /\ UNCHANGED <<user, identity, session, links>>
     ELSE Refuse(w)

(* Seeded defect: the password of the account survives the link.           *)
CommitLinkOnly(w) ==
  LET r == req[w] IN
  /\ At(w, "google", "linking") /\ identity[r.sub] = None
  /\ identity' = [identity EXCEPT ![r.sub] = r.email]
  /\ Purge(r.email) /\ Release(w)
  /\ Become(w, LogIn(r.email, user[r.email].password))
  /\ UNCHANGED <<user, links>>

(* A sub linked meanwhile, to whatever account, meets a unique index (500).*)
CommitLink(w) ==
  LET r == req[w] IN
  /\ At(w, "google", "linking")
  /\ IF identity[r.sub] # None \/ Linked(r.email) THEN Refuse(w)
     ELSE /\ identity' = [identity EXCEPT ![r.sub] = r.email]
          /\ SetPassword(r.email, "google")
          /\ Purge(r.email) /\ Release(w)
          /\ Become(w, LogIn(r.email, Fresh(user[r.email].password, "google")))
          /\ UNCHANGED links

(* _create_with_nickname: one of its nicknames is free, but no retry helps *)
(* against an email or a sub that is taken by now (500).                   *)
CreateWithNickname(w) ==
  LET r == req[w]  p == [n |-> 1, by |-> "google"] IN
  /\ At(w, "google", "absent")
  /\ IF Exists(r.email) \/ identity[r.sub] # None THEN Refuse(w)
     ELSE /\ user' = [user EXCEPT ![r.email] = [password |-> p, active |-> TRUE, login |-> 0]]
          /\ identity' = [identity EXCEPT ![r.sub] = r.email]
          /\ Become(w, LogIn(r.email, p))
          /\ UNCHANGED <<session, links, holder>>

-----------------------------------------------------------------------------
(* #45 and #46.                                                            *)
ResetAllowed(e) == HasUsablePassword(user[e].password) \/ Linked(e)

RequestPasswordReset(e) ==
  /\ Exists(e) /\ user[e].active /\ ResetAllowed(e)
  /\ links' = links \cup {[email |-> e, n |-> user[e].password.n, login |-> user[e].login]}
  /\ UNCHANGED <<user, identity, session, holder, req>>

CheckToken(l) == user[l.email].password.n = l.n /\ user[l.email].login = l.login

BeginConfirm(w, l) ==
  /\ Room(l.email)
  /\ Begin(w, [op |-> "confirm", stage |-> "waiting", email |-> l.email, link |-> l])

MayConfirm(l) == user[l.email].active /\ ResetAllowed(l.email) /\ CheckToken(l)

(* Seeded defect: #46 without select_for_update.                           *)
ReadForConfirm(w) ==
  /\ At(w, "confirm", "waiting")
  /\ IF MayConfirm(req[w].link)
     THEN /\ Become(w, [req[w] EXCEPT !.stage = "locked"])
          /\ UNCHANGED <<user, identity, session, links, holder>>
     ELSE Refuse(w)

(* An expired link, and a password the validators reject, are 400 too.     *)
LockForConfirm(w) ==
  /\ At(w, "confirm", "waiting") /\ RowFree(req[w].email)
  /\ \/ /\ MayConfirm(req[w].link)
        /\ Hold(w) /\ Become(w, [req[w] EXCEPT !.stage = "locked"])
        /\ UNCHANGED <<user, identity, session, links>>
     \/ Refuse(w)

CommitConfirm(w) ==
  LET e == req[w].email IN
  /\ At(w, "confirm", "locked")
  /\ SetPassword(e, "reset") /\ Purge(e) /\ Release(w) /\ Become(w, None)
  /\ UNCHANGED <<identity, links>>

-----------------------------------------------------------------------------
(* #8 update_profile.  `seen` is request.user, loaded with the session;    *)
(* the service locks and reads the row again, and writes none of the       *)
(* columns modelled here.                                                  *)
BeginProfile(w, s) ==
  LET e == session[s].email IN
  /\ Usable(s)
  /\ Begin(w, [op |-> "profile", stage |-> "waiting", email |-> e, seen |-> user[e]])

LockForProfile(w) ==
  /\ At(w, "profile", "waiting") /\ RowFree(req[w].email)
  /\ Hold(w) /\ Become(w, [req[w] EXCEPT !.stage = "locked"])
  /\ UNCHANGED <<user, identity, session, links>>

(* Seeded defect: request.user is saved whole (before H-1).                *)
CommitProfileSnapshot(w) ==
  /\ At(w, "profile", "locked")
  /\ user' = [user EXCEPT ![req[w].email] = req[w].seen]
  /\ Release(w) /\ Become(w, None)
  /\ UNCHANGED <<identity, session, links>>

CommitProfile(w) == At(w, "profile", "locked") /\ Refuse(w)

(* The change form of the site reads the row without a lock and saves it   *)
(* whole; User.save leaves out the guarded columns this instance did not   *)
(* change: of those modelled, all but is_active, which the form may set.   *)
BeginForm(w, e, active) ==
  /\ Exists(e)
  /\ Begin(w, [op |-> "form", email |-> e, seen |-> user[e], active |-> active])

(* Seeded defect: User.save without the net.                               *)
SaveWhole(w) ==
  LET r == req[w] IN
  /\ Serving(w, "form") /\ RowFree(r.email)
  /\ user' = [user EXCEPT ![r.email] = [r.seen EXCEPT !.active = r.active]]
  /\ Become(w, None)
  /\ UNCHANGED <<identity, session, links, holder>>

SaveForm(w) ==
  LET r == req[w] IN
  /\ Serving(w, "form") /\ RowFree(r.email)
  /\ user' = [user EXCEPT ![r.email].active = IF r.active = r.seen.active THEN @ ELSE r.active]
  /\ Become(w, None)
  /\ UNCHANGED <<identity, session, links, holder>>

(* The password form of the site sets one or switches password login off,  *)
(* and so changes no other guarded column; an identity can be deleted.     *)
SiteSetPassword(e, by) ==
  /\ Exists(e) /\ RowFree(e) /\ Room(e)
  /\ SetPassword(e, by)
  /\ UNCHANGED <<identity, session, links, holder, req>>

Unlink(g) ==
  /\ identity[g] # None
  /\ identity' = [identity EXCEPT ![g] = None]
  /\ UNCHANGED <<user, session, links, holder, req>>

(* The worker is killed or the database answers with an error.             *)
Abort(w) == ~Idle(w) /\ Refuse(w)

-----------------------------------------------------------------------------
BeginRequest(w) ==
  \/ \E e \in Emails : BeginSignup(w, e) \/ BeginLogin(w, e)
  \/ \E g \in Subs, e \in Emails : BeginGoogle(w, g, e)
  \/ \E l \in links : BeginConfirm(w, l)
  \/ \E s \in Sessions : BeginProfile(w, s)
  \/ \E e \in Emails, active \in BOOLEAN : BeginForm(w, e, active)

Advance(w) ==
  \/ InsertUser(w) \/ StampLogin(w) \/ \E s \in Sessions : SaveSession(w, s)
  \/ LockForLink(w) \/ CommitLink(w) \/ CreateWithNickname(w)
  \/ LockForConfirm(w) \/ CommitConfirm(w)
  \/ LockForProfile(w) \/ CommitProfile(w) \/ SaveForm(w)

SiteAction ==
  \/ \E e \in Emails, by \in {"site", "off"} : SiteSetPassword(e, by)
  \/ \E g \in Subs : Unlink(g)

Init ==
  /\ user = [e \in Emails |-> None]
  /\ identity = [g \in Subs |-> None]
  /\ session = [s \in Sessions |-> None]
  /\ links = {}
  /\ holder = [e \in Emails |-> None]
  /\ req = [w \in Workers |-> None]

Next ==
  \/ \E w \in Workers : BeginRequest(w) \/ Advance(w) \/ Abort(w)
  \/ \E s \in Sessions : Logout(s)
  \/ \E e \in Emails : RequestPasswordReset(e)
  \/ SiteAction

Spec == Init /\ [][Next]_vars

-----------------------------------------------------------------------------
(* Types.                                                                  *)

(* Every table, lock and request is well formed.                           *)
TypeOK ==
  /\ user \in [Emails -> UserRow \cup {None}]
  /\ identity \in [Subs -> Emails \cup {None}]
  /\ session \in [Sessions -> SessionRow \cup {None}]
  /\ links \subseteq Link
  /\ holder \in [Emails -> Workers \cup {None}]
  /\ req \in [Workers -> Request \cup {None}]

(* Safety.                                                                 *)

(* Once an account is linked to Google, whoever signed it up without       *)
(* owning the address is out: neither the password of the sign-up nor a    *)
(* session opened with it gets in any more, whatever login, profile PATCH  *)
(* or form was on its way when the link was made (#6).                     *)
LinkShutsSignupOut ==
  \A e \in Emails : Exists(e) /\ Linked(e) =>
    /\ user[e].password.by # "signup"
    /\ \A s \in Sessions : session[s] # None /\ session[s].email = e /\ Usable(s)
         => session[s].password.by # "signup"

(* A password that was replaced never comes back: no stale copy of a row   *)
(* is saved over a reset, a link or a lock-out (#8, #46, User.save).       *)
PasswordNeverReturns ==
  [][\A e \in Emails : Exists(e) /\ user'[e].password # user[e].password
       => user'[e].password.n > user[e].password.n]_vars

(* A mailed link sets a password once, and only while it is the answer to  *)
(* the state it was mailed in: no other password or link since, nor a login*)
(* in a later second (#46, two uses of one link at once included).         *)
LinkIsForOneUse ==
  [][\A e \in Emails : Exists(e) /\ user'[e].password # user[e].password
                         /\ user'[e].password.by = "reset"
       => \E l \in links : /\ l.email = e /\ l.n = user[e].password.n
                           /\ l.login = user[e].login]_vars

(* A frozen account is out of reach of everybody but the site: no link, no *)
(* new password, and it thaws only if the form that did it had read it as  *)
(* frozen (two forms at once, or a form against #6 and #46).               *)
FrozenIsLeftAlone ==
  [][\A e \in Emails : Exists(e) /\ ~user[e].active =>
       /\ Linked(e)' => Linked(e)
       /\ user'[e].password # user[e].password => user'[e].password.by \in {"site", "off"}
       /\ user'[e].active => \E w \in Workers : Serving(w, "form") /\ ~req[w].seen.active]_vars

-----------------------------------------------------------------------------
(* The inductive invariant behind these (AccountsProofs).                  *)

(* No row, link or request outlives the account it is about.               *)
RowsOfAccounts ==
  /\ \A g \in Subs : identity[g] # None => Exists(identity[g])
  /\ \A s \in Sessions : session[s] # None => Exists(session[s].email)
  /\ \A l \in links : Exists(l.email)
  /\ \A w \in Workers :
       (\/ Serving(w, "login") \/ Serving(w, "confirm") \/ Serving(w, "profile")
        \/ Serving(w, "form") \/ At(w, "google", "linking")) => Exists(req[w].email)

(* Of two passwords of an account with the same number there is only one:  *)
(* what a session or a login carries is the current password or an older.  *)
Known(e, p) ==
  /\ p.n <= user[e].password.n
  /\ p.n = user[e].password.n => p = user[e].password

PasswordsKnown ==
  /\ \A s \in Sessions : session[s] # None => Known(session[s].email, session[s].password)
  /\ \A w \in Workers : Serving(w, "login") => Known(req[w].email, req[w].password)

(* A request that locked the account holds the lock, and what it read of   *)
(* the account is still so.                                                *)
LockedReadsTrue ==
  \A w \in Workers :
    /\ (\/ At(w, "google", "linking") \/ At(w, "confirm", "locked")
        \/ At(w, "profile", "locked")) => holder[req[w].email] = w
    /\ Serving(w, "confirm") => req[w].link \in links /\ req[w].link.email = req[w].email
    /\ At(w, "google", "linking") \/ At(w, "confirm", "locked") => user[req[w].email].active
    /\ At(w, "confirm", "locked") => CheckToken(req[w].link)

LinkedLeftSignup ==
  \A e \in Emails : Exists(e) /\ Linked(e) => user[e].password.by # "signup"

AccountsIInv == RowsOfAccounts /\ PasswordsKnown /\ LockedReadsTrue /\ LinkedLeftSignup
=============================================================================
