-------------------------- MODULE RoleTransactions --------------------------
(***************************************************************************)
(* Roles at the level of row locks: #10 set_active_role, #42 grant_role    *)
(* and #43 revoke_role (accounts/services.py), several workers at once.    *)
(*                                                                         *)
(* Locks.  FOR UPDATE on a User row; FOR UPDATE on a UserRole row, or, for *)
(* a row still being inserted, its entry in the unique index on            *)
(* (user, role): both are "the row (u, r)" here.  A foreign key is a       *)
(* deferred constraint: at COMMIT the parent row is locked FOR KEY SHARE,  *)
(* which waits for a FOR UPDATE of somebody else.  Of these parents only   *)
(* the actor's User row (RoleGrant.acted_by) is not already locked.        *)
(*                                                                         *)
(* #43 counts the administrators with a bare select_for_update() over      *)
(* UserRole JOIN User, which locks the rows of both tables, pair after     *)
(* pair in key order, while it holds the target's User row.  Two such      *)
(* transactions can wait for each other; PostgreSQL then ends one with an  *)
(* error (a 500), here DeadlockAbort.                                      *)
(***************************************************************************)
EXTENDS Roles, FiniteSets

CONSTANTS
  Superusers,     \* users with is_superuser: IsAdmin lets them pass without a row
  Workers,        \* gunicorn workers
  ChangedRoles,   \* bound: roles that #42 and #43 are asked for
  SiteUsers,      \* bound: accounts that the site edits
  MaxEvents,      \* bound: a role with so many audit rows is not changed again
  None

VARIABLES
  order,          \* users with an ADMIN row, in the order of its key (uuid7: by time)
  userHolder,     \* FOR UPDATE on a User row:      [Users -> Workers or None]
  roleHolder,     \* lock on a UserRole row or key: [Users -> [Grantable -> ...]]
  req             \* the request a worker serves

lockVars == <<userHolder, roleHolder>>
vars == <<roleVars, order, lockVars, req>>

Stage == {"waiting", "locked", "scanning", "pairing", "counted", "inserted"}

(* `todo` is what is left of the rows the counting query found, `counted`  *)
(* the users whose rows it has locked and kept.                            *)
SwitchRequest == [op : {"switch"}, stage : Stage, user : Users, role : Wearable]
ChangeRequest ==
  [op : {"grant", "revoke"}, stage : Stage, user : Users, role : Grantable,
   actor : Users, todo : Seq(Users), counted : SUBSET Users]
Request == SwitchRequest \cup ChangeRequest

ASSUME RolesAssumption ==
  /\ IsFiniteSet(Users)
  /\ Superusers \subseteq Users /\ SiteUsers \subseteq Users
  /\ ChangedRoles \subseteq Grantable
  /\ MaxEvents \in Nat
  /\ None \notin Workers \cup Request

-----------------------------------------------------------------------------
Idle(w) == req[w] = None
At(w, op, stage) == ~Idle(w) /\ req[w].op = op /\ req[w].stage = stage
GoTo(w, stage) == req' = [req EXCEPT ![w].stage = stage]

IsActiveAdmin(u) == active[u] /\ ("ADMIN" \in holds[u] \/ u \in Superusers)

UserFree(w, u) == userHolder[u] \in {None, w}
RoleFree(w, u, r) == roleHolder[u][r] \in {None, w}
LockUser(w, u) == userHolder' = [userHolder EXCEPT ![u] = w]
LockRole(w, u, r) == roleHolder' = [roleHolder EXCEPT ![u][r] = w]

(* Commit, refusal and rollback all give every lock back.                  *)
Finish(w) ==
  /\ userHolder' = [u \in Users |-> IF userHolder[u] = w THEN None ELSE userHolder[u]]
  /\ roleHolder' = [u \in Users |-> [r \in Grantable |->
                      IF roleHolder[u][r] = w THEN None ELSE roleHolder[u][r]]]
  /\ req' = [req EXCEPT ![w] = None]

Rollback(w) == Finish(w) /\ UNCHANGED <<roleVars, order>>

(* `order` when the row of u is deleted.                                   *)
RowsWithout(u) ==
  LET i == CHOOSE j \in DOMAIN order : order[j] = u IN
  [j \in 1 .. Len(order) - 1 |-> order[IF j < i THEN j ELSE j + 1]]

-----------------------------------------------------------------------------
(* All checks of #43 that remain are made on what is locked: NOT_HELD and  *)
(* LAST_ADMIN, or for ADVISOR the number of rows the DELETE found.         *)
Checked(w) ==
  At(w, "revoke", "counted") \/ (At(w, "revoke", "locked") /\ req[w].role = "ADVISOR")

(* Seeded defect: the guard for the last administrator is off by one.      *)
MayRevokeLast(r) ==
  IF r.role = "ADMIN" THEN r.user \in r.counted ELSE "ADVISOR" \in holds[r.user]

MayRevoke(r) ==
  IF r.role = "ADMIN" THEN r.user \in r.counted /\ Cardinality(r.counted) > 1
                      ELSE "ADVISOR" \in holds[r.user]

(* Whom a request waits for: the holder of the next row it needs.          *)
WantedUsers(w) ==
  CASE Idle(w) -> {}
    [] req[w].stage = "waiting" -> {req[w].user}
    [] req[w].stage = "pairing" -> {req[w].todo[1]}
    [] req[w].stage = "inserted" \/ (Checked(w) /\ MayRevoke(req[w])) -> {req[w].actor}
    [] OTHER -> {}

WantedRoles(w) ==
  CASE At(w, "revoke", "scanning") -> {<<req[w].todo[1], "ADMIN">>}
    [] At(w, "grant", "locked") -> {<<req[w].user, req[w].role>>}
    [] OTHER -> {}

WaitsFor(w, v) ==
  /\ v # w
  /\ \/ \E u \in WantedUsers(w) : userHolder[u] = v
     \/ \E k \in WantedRoles(w) : roleHolder[k[1]][k[2]] = v

Waits == {e \in Workers \X Workers : WaitsFor(e[1], e[2])}

(* w lies on a cycle: in some set of workers everyone waits for a member   *)
(* and is waited for by one.                                               *)
OnCycle(w, waits) ==
  \E S \in SUBSET Workers :
    /\ w \in S
    /\ \A v \in S : (\E x \in S : <<v, x>> \in waits) /\ (\E x \in S : <<x, v>> \in waits)

-----------------------------------------------------------------------------
(* #10 set_active_role, of the caller's own account.                       *)
BeginSwitch(w, u, r) ==
  /\ Idle(w) /\ active[u]
  /\ req' = [req EXCEPT ![w] = [op |-> "switch", stage |-> "waiting", user |-> u, role |-> r]]
  /\ UNCHANGED <<roleVars, order, lockVars>>

(* Seeded defect: the roles are read with no lock on the account.          *)
ReadForSwitch(w) ==
  /\ At(w, "switch", "waiting")
  /\ IF req[w].role \in holds[req[w].user] \cup {"USER"}
     THEN GoTo(w, "locked") /\ UNCHANGED <<roleVars, order, lockVars>>
     ELSE Rollback(w)

(* The roles are read under the lock: a role not held is 403.              *)
LockForSwitch(w) ==
  LET u == req[w].user IN
  /\ At(w, "switch", "waiting")
  /\ UserFree(w, u)
  /\ IF req[w].role \in holds[u] \cup {"USER"}
     THEN LockUser(w, u) /\ GoTo(w, "locked") /\ UNCHANGED <<roleVars, order, roleHolder>>
     ELSE Rollback(w)

CommitSwitch(w) ==
  /\ At(w, "switch", "locked")
  /\ worn' = [worn EXCEPT ![req[w].user] = req[w].role]
  /\ Finish(w)
  /\ UNCHANGED <<holds, active, audit, order>>

-----------------------------------------------------------------------------
(* #42 and #43 pass IsAdmin before their transaction starts.               *)
BeginChange(w, op, a, u, r) ==
  /\ Idle(w) /\ IsActiveAdmin(a)
  /\ Len(audit[u][r]) < MaxEvents
  /\ req' = [req EXCEPT ![w] = [op |-> op, stage |-> "waiting", user |-> u, role |-> r,
                               actor |-> a, todo |-> <<>>, counted |-> {}]]
  /\ UNCHANGED <<roleVars, order, lockVars>>

(* #42: lock the target; a role it already holds is 409 ALREADY_HELD.      *)
LockForGrant(w) ==
  LET u == req[w].user IN
  /\ At(w, "grant", "waiting")
  /\ UserFree(w, u)
  /\ IF req[w].role \notin holds[u]
     THEN LockUser(w, u) /\ GoTo(w, "locked") /\ UNCHANGED <<roleVars, order, roleHolder>>
     ELSE Rollback(w)

(* The INSERT of the UserRole row takes its place in the unique index; no  *)
(* committed row is in its way there (GrantMeetsNoDuplicate).              *)
InsertRole(w) ==
  /\ At(w, "grant", "locked")
  /\ RoleFree(w, req[w].user, req[w].role)
  /\ LockRole(w, req[w].user, req[w].role)
  /\ GoTo(w, "inserted")
  /\ UNCHANGED <<roleVars, order, userHolder>>

CommitGrant(w) ==
  LET u == req[w].user  r == req[w].role IN
  /\ At(w, "grant", "inserted")
  /\ UserFree(w, req[w].actor)
  /\ holds' = [holds EXCEPT ![u] = @ \cup {r}]
  /\ order' = IF r = "ADMIN" THEN Append(order, u) ELSE order
  /\ Record(u, r, "GRANT")
  /\ Finish(w)
  /\ UNCHANGED <<worn, active>>

-----------------------------------------------------------------------------
(* #43: lock the target; one's own ADMIN is 409 SELF_REVOKE.               *)
LockForRevoke(w) ==
  LET u == req[w].user IN
  /\ At(w, "revoke", "waiting")
  /\ UserFree(w, u)
  /\ IF req[w].role = "ADMIN" /\ u = req[w].actor
     THEN Rollback(w)
     ELSE LockUser(w, u) /\ GoTo(w, "locked") /\ UNCHANGED <<roleVars, order, roleHolder>>

(* The counting query finds the rows of the active administrators there    *)
(* are now, in key order, and then locks them one pair at a time.          *)
InKeyOrder(s) ==
  \A i, j \in DOMAIN s : i < j =>
    \E k, l \in DOMAIN order : k < l /\ order[k] = s[i] /\ order[l] = s[j]

Found == {s \in [1 .. Cardinality(ActiveAdmins) -> ActiveAdmins] : InKeyOrder(s)}

(* Seeded defect: the rows are counted and not locked.                     *)
CountUnlocked(w) ==
  /\ At(w, "revoke", "locked") /\ req[w].role = "ADMIN"
  /\ req' = [req EXCEPT ![w].counted = ActiveAdmins, ![w].stage = "counted"]
  /\ UNCHANGED <<roleVars, order, lockVars>>

StartCounting(w) ==
  /\ At(w, "revoke", "locked") /\ req[w].role = "ADMIN"
  /\ \E s \in Found :
       req' = [req EXCEPT ![w].todo = s,
                          ![w].stage = IF s = <<>> THEN "counted" ELSE "scanning"]
  /\ UNCHANGED <<roleVars, order, lockVars>>

(* The query goes on to the next pair, if there is one.                    *)
Advanced(r, kept) ==
  [r EXCEPT !.todo = Tail(@), !.counted = @ \cup kept,
            !.stage = IF Len(r.todo) = 1 THEN "counted" ELSE "scanning"]

(* A row that was deleted while the query waited for it is left out.       *)
CountedRole(w) ==
  LET u == req[w].todo[1] IN
  /\ At(w, "revoke", "scanning")
  /\ RoleFree(w, u, "ADMIN")
  /\ IF "ADMIN" \in holds[u]
     THEN LockRole(w, u, "ADMIN") /\ GoTo(w, "pairing")
     ELSE UNCHANGED roleHolder /\ req' = [req EXCEPT ![w] = Advanced(@, {})]
  /\ UNCHANGED <<roleVars, order, userHolder>>

(* So is one whose user was frozen in the meantime.                        *)
CountedUser(w) ==
  LET u == req[w].todo[1] IN
  /\ At(w, "revoke", "pairing")
  /\ UserFree(w, u)
  /\ LockUser(w, u)
  /\ req' = [req EXCEPT ![w] = Advanced(@, {u} \cap ActiveAdmins)]
  /\ UNCHANGED <<roleVars, order, roleHolder>>

(* Seeded defect: a refusal leaves its transaction, and the locks, open.   *)
RefuseRevokeOpen(w) ==
  /\ Checked(w) /\ ~MayRevoke(req[w])
  /\ req' = [req EXCEPT ![w] = None]
  /\ UNCHANGED <<roleVars, order, lockVars>>

RefuseRevoke(w) == Checked(w) /\ ~MayRevoke(req[w]) /\ Rollback(w)

(* Seeded defect: a revoked advisor goes on wearing the role.              *)
CommitRevokeStillWorn(w) ==
  LET u == req[w].user  r == req[w].role IN
  /\ Checked(w) /\ MayRevoke(req[w])
  /\ holds' = [holds EXCEPT ![u] = @ \ {r}]
  /\ order' = IF r = "ADMIN" THEN RowsWithout(u) ELSE order
  /\ Record(u, r, "REVOKE")
  /\ Finish(w)
  /\ UNCHANGED <<worn, active>>

CommitRevoke(w) ==
  LET u == req[w].user  r == req[w].role IN
  /\ Checked(w) /\ MayRevoke(req[w])
  /\ UserFree(w, req[w].actor)
  /\ holds' = [holds EXCEPT ![u] = @ \ {r}]
  /\ order' = IF r = "ADMIN" THEN RowsWithout(u) ELSE order
  /\ worn' = IF r = "ADVISOR" /\ worn[u] = "ADVISOR"
             THEN [worn EXCEPT ![u] = "USER"] ELSE worn
  /\ Record(u, r, "REVOKE")
  /\ Finish(w)
  /\ UNCHANGED active

-----------------------------------------------------------------------------
(* Seeded defect: #42 without transaction.atomic, stopped between the      *)
(* INSERT of the role and the one of its audit row.                        *)
AbortHalfway(w) ==
  LET half == IF At(w, "grant", "inserted") THEN {req[w].user} ELSE {} IN
  /\ ~Idle(w)
  /\ holds' = [u \in Users |-> IF u \in half THEN holds[u] \cup {req[w].role} ELSE holds[u]]
  /\ order' = IF half # {} /\ req[w].role = "ADMIN" THEN Append(order, req[w].user) ELSE order
  /\ Finish(w)
  /\ UNCHANGED <<worn, active, audit>>

(* A worker killed, or a database error: everything is rolled back.        *)
Abort(w) == ~Idle(w) /\ Rollback(w)

(* deadlock_timeout passed and the session finds itself on a cycle.        *)
DeadlockAbort(w) == OnCycle(w, Waits) /\ Rollback(w)

(* The user's change form of the site: the columns that were edited are    *)
(* written by one UPDATE, which waits for the row.  Nothing is checked.    *)
SiteSetActive(u, b) ==
  /\ userHolder[u] = None
  /\ SetActive(u, b)
  /\ UNCHANGED <<order, lockVars, req>>

SiteSetWorn(u, r) ==
  /\ userHolder[u] = None
  /\ SetWorn(u, r)
  /\ UNCHANGED <<order, lockVars, req>>

-----------------------------------------------------------------------------
BeginRequest(w) ==
  \E u \in Users :
    \/ \E r \in Wearable : BeginSwitch(w, u, r)
    \/ \E op \in {"grant", "revoke"}, a \in Users, r \in ChangedRoles : BeginChange(w, op, a, u, r)

AtALock(w) == \/ LockForSwitch(w) \/ LockForGrant(w) \/ InsertRole(w) \/ LockForRevoke(w)
              \/ CountedRole(w) \/ CountedUser(w) \/ CommitGrant(w) \/ CommitRevoke(w)

Advance(w) == CommitSwitch(w) \/ StartCounting(w) \/ RefuseRevoke(w)

SiteAction == \E u \in SiteUsers : \/ \E b \in BOOLEAN : SiteSetActive(u, b)
                                  \/ \E r \in Wearable : SiteSetWorn(u, r)

Init ==
  /\ RolesInit
  /\ \E s \in [1 .. Cardinality(ActiveAdmins) -> ActiveAdmins] :
       (\A u \in ActiveAdmins : \E i \in DOMAIN s : s[i] = u) /\ order = s
  /\ userHolder = [u \in Users |-> None]
  /\ roleHolder = [u \in Users |-> [r \in Grantable |-> None]]
  /\ req = [w \in Workers |-> None]

Next ==
  \/ \E w \in Workers : \/ BeginRequest(w) \/ AtALock(w) \/ Advance(w)
                        \/ Abort(w) \/ DeadlockAbort(w)
  \/ SiteAction

Spec == Init /\ [][Next]_vars

(* Queued locks are granted in the end, a service runs on by itself, and   *)
(* the deadlock detector runs.                                             *)
Fairness ==
  \A w \in Workers :
    SF_vars(AtALock(w)) /\ WF_vars(Advance(w)) /\ WF_vars(DeadlockAbort(w))

FairSpec == Spec /\ Fairness

-----------------------------------------------------------------------------
(* Types.                                                                  *)

(* Every table, lock and request holds what its column may.                *)
TypeOK ==
  /\ holds \in [Users -> SUBSET Grantable]
  /\ worn \in [Users -> Wearable]
  /\ active \in [Users -> BOOLEAN]
  /\ audit \in [Users -> [Grantable -> Seq(Change)]]
  /\ order \in Seq(Users)
  /\ userHolder \in [Users -> Workers \cup {None}]
  /\ roleHolder \in [Users -> [Grantable -> Workers \cup {None}]]
  /\ req \in [Workers -> Request \cup {None}]

(* Safety.                                                                 *)

(* The audit trail tells who holds a role: the rows for one account and    *)
(* role are granted and revoked in turn, starting from what createsuperuser*)
(* gave, and the last one agrees with the UserRole row (#42, #43).         *)
AuditTellsHolding ==
  \A u \in Users, r \in Grantable :
    LET trail == audit[u][r] IN
    /\ \A i \in 1 .. Len(trail) - 1 : trail[i] # trail[i + 1]
    /\ trail # <<>> => (trail[Len(trail)] = "GRANT" <=> r \in holds[u])

(* No revocation takes the last administrator who can log in, although two *)
(* may count at once and the site freezes accounts meanwhile (#43).        *)
RevocationLeavesAnAdmin ==
  [][\A u \in Users :
       "ADMIN" \in holds[u] /\ "ADMIN" \notin holds'[u] => ActiveAdmins' # {}]_vars

(* A user never wears ADVISOR without holding it, unless the site put it   *)
(* on by hand: no switch lands after the revocation that should have taken *)
(* the role off (#10 against #43).                                         *)
Misdressed == {u \in Users : worn[u] = "ADVISOR" /\ "ADVISOR" \notin holds[u]}
OnlyTheSiteMisdresses == [][Misdressed' \subseteq Misdressed \/ SiteAction]_vars

(* Between the check of #42 and its INSERT nobody inserts the row: two     *)
(* grants end in a 409, never in a violated unique constraint.             *)
GrantMeetsNoDuplicate ==
  \A w \in Workers :
    At(w, "grant", "locked") \/ At(w, "grant", "inserted") => req[w].role \notin holds[req[w].user]

(* Of the inductive invariant behind these (RoleProofs): every stage of a  *)
(* request belongs to its operation, and the counting query goes on while  *)
(* there are rows, for ADMIN only.                                         *)
StagesOK ==
  \A w \in Workers : ~Idle(w) =>
    /\ req[w].op = "switch" => req[w].stage \in {"waiting", "locked"}
    /\ req[w].op = "grant" => req[w].stage \in {"waiting", "locked", "inserted"}
    /\ req[w].op = "revoke" => req[w].stage # "inserted"
    /\ req[w].stage \in {"scanning", "pairing", "counted"} => req[w].role = "ADMIN"
    /\ req[w].stage \in {"scanning", "pairing"} => req[w].todo # <<>>

(* A request past its first lock holds it, and an INSERT its place in the  *)
(* index.                                                                  *)
RoleLocksHeld ==
  \A w \in Workers : ~Idle(w) =>
    /\ req[w].stage # "waiting" => userHolder[req[w].user] = w
    /\ req[w].stage = "inserted" => roleHolder[req[w].user][req[w].role] = w
    /\ req[w].stage = "pairing" => roleHolder[req[w].todo[1]]["ADMIN"] = w

(* Whoever has been counted is still an administrator who can log in: both *)
(* of the rows that say so are locked until the count has been used.       *)
CountedStay ==
  \A w \in Workers : ~Idle(w) /\ req[w].op = "revoke" =>
    \A u \in req[w].counted :
      u \in ActiveAdmins /\ userHolder[u] = w /\ roleHolder[u]["ADMIN"] = w

(* The role that a switch read is there until it is worn.                  *)
SwitchReadsTrue ==
  \A w \in Workers :
    At(w, "switch", "locked") => req[w].role \in holds[req[w].user] \cup {"USER"}

RoleIInv ==
  StagesOK /\ RoleLocksHeld /\ CountedStay /\ SwitchReadsTrue /\ GrantMeetsNoDuplicate

(* The atomic operations of Roles are what the transactions do.            *)
RolesPromise == RolesSpec

(* Two statements of the docstrings about locks (see the README): a grant  *)
(* and a revocation never deadlock, and neither do two revocations.        *)
DeadlockOf(x, y) ==
  \E v, w \in Workers :
    /\ ~Idle(v) /\ ~Idle(w) /\ req[v].op = x /\ req[w].op = y
    /\ WaitsFor(v, w) /\ WaitsFor(w, v)
GrantNeverDeadlocksRevoke == ~DeadlockOf("grant", "revoke")
RevokesNeverDeadlock == ~DeadlockOf("revoke", "revoke")

(* Liveness.                                                               *)

(* Every request is answered, if need be by the deadlock detector.         *)
RequestsFinish == \A w \in Workers : ~Idle(w) ~> Idle(w)
=============================================================================
