----------------------------- MODULE RoleProofs -----------------------------
(***************************************************************************)
(* Machine-checked proofs about RoleTransactions, for every finite set of  *)
(* accounts and every set of workers.                                      *)
(***************************************************************************)
EXTENDS RoleTransactions, FiniteSetTheorems, SequenceTheorems, TLAPS

(* What RoleIInv says of one worker.                                       *)
WorkerOK(w) ==
  ~Idle(w) =>
    /\ req[w].op = "switch" =>
         /\ req[w].stage \in {"waiting", "locked"}
         /\ req[w].stage = "locked" => req[w].role \in holds[req[w].user] \cup {"USER"}
    /\ req[w].op = "grant" =>
         /\ req[w].stage \in {"waiting", "locked", "inserted"}
         /\ req[w].stage # "waiting" => req[w].role \notin holds[req[w].user]
    /\ req[w].op = "revoke" =>
         /\ req[w].stage # "inserted"
         /\ \A u \in req[w].counted :
              u \in ActiveAdmins /\ userHolder[u] = w /\ roleHolder[u]["ADMIN"] = w
    /\ req[w].stage # "waiting" => userHolder[req[w].user] = w
    /\ req[w].stage = "inserted" => roleHolder[req[w].user][req[w].role] = w
    /\ req[w].stage \in {"scanning", "pairing", "counted"} => req[w].role = "ADMIN"
    /\ req[w].stage \in {"scanning", "pairing"} => req[w].todo # <<>>
    /\ req[w].stage = "pairing" => roleHolder[req[w].todo[1]]["ADMIN"] = w

(* The invariant is about one worker at a time.                            *)
LEMMA RoleIInvByWorker ==
  /\ RoleIInv <=> \A w \in Workers : WorkerOK(w)
  /\ RoleIInv' <=> \A w \in Workers : WorkerOK(w)'
BY DEF RoleIInv, StagesOK, RoleLocksHeld, CountedStay, SwitchReadsTrue,
   GrantMeetsNoDuplicate, WorkerOK, At

-----------------------------------------------------------------------------
(* What the fields of a request hold.                                      *)
LEMMA RequestFields ==
  ASSUME TypeOK, NEW w \in Workers, ~Idle(w)
  PROVE  /\ req[w] \in Request /\ req[w].user \in Users
         /\ req[w].op \in {"switch", "grant", "revoke"} /\ req[w].stage \in Stage
         /\ req[w].op = "switch" => req[w] \in SwitchRequest /\ req[w].role \in Wearable
         /\ req[w].op # "switch" =>
              /\ req[w] \in ChangeRequest /\ req[w].role \in Grantable
              /\ req[w].actor \in Users /\ req[w].todo \in Seq(Users)
              /\ req[w].counted \in SUBSET Users
<1>1. req[w] \in Request
  BY DEF TypeOK, Idle
<1> QED
  BY <1>1 DEF Request, SwitchRequest, ChangeRequest

(* A request that goes on differs in its stage.                            *)
LEMMA StageMoved ==
  ASSUME NEW r \in Request, NEW s \in Stage
  PROVE  LET h == [r EXCEPT !.stage = s] IN
         /\ h \in Request
         /\ h.stage = s /\ h.op = r.op /\ h.user = r.user /\ h.role = r.role
         /\ r.op # "switch" => h.todo = r.todo /\ h.counted = r.counted /\ h.actor = r.actor
<1>1. CASE r \in SwitchRequest
  BY <1>1 DEF Request, SwitchRequest
<1>2. CASE r \in ChangeRequest
  BY <1>2 DEF Request, ChangeRequest
<1> QED
  BY <1>1, <1>2 DEF Request

(* A counting query that goes on to the next pair.                         *)
LEMMA AdvancedFields ==
  ASSUME NEW r \in ChangeRequest, NEW kept \in SUBSET Users, r.todo # <<>>
  PROVE  LET h == Advanced(r, kept) IN
         /\ h \in ChangeRequest
         /\ h.op = r.op /\ h.user = r.user /\ h.role = r.role /\ h.actor = r.actor
         /\ h.counted = r.counted \cup kept
         /\ h.stage \in {"counted", "scanning"}
         /\ h.stage = "scanning" => h.todo # <<>>
<1>1. /\ r.todo \in Seq(Users) /\ Tail(r.todo) \in Seq(Users)
      /\ Len(r.todo) # 1 => Tail(r.todo) # <<>>
  <2>1. r.todo \in Seq(Users)
    BY DEF ChangeRequest
  <2>2. Tail(r.todo) \in Seq(Users) /\ Len(Tail(r.todo)) = Len(r.todo) - 1
    BY <2>1, HeadTailProperties
  <2>3. Len(Tail(r.todo)) = 0 <=> Tail(r.todo) = <<>>
    BY <2>2, EmptySeq
  <2> QED
    BY <2>1, <2>2, <2>3
<1> QED
  BY <1>1 DEF ChangeRequest, Advanced, Stage

(* The marker for nobody is no worker.                                     *)
LEMMA NoneIsNoWorker == \A w \in Workers : w # None
BY RolesAssumption

(* Whoever ends its transaction gives its own locks back and no others.    *)
LEMMA FinishFacts ==
  ASSUME TypeOK, NEW w \in Workers, Finish(w)
  PROVE  /\ userHolder' \in [Users -> Workers \cup {None}]
         /\ roleHolder' \in [Users -> [Grantable -> Workers \cup {None}]]
         /\ req' \in [Workers -> Request \cup {None}]
         /\ \A v \in Workers : req'[v] = IF v = w THEN None ELSE req[v]
         /\ \A u \in Users : userHolder[u] # w => userHolder'[u] = userHolder[u]
         /\ \A u \in Users, r \in Grantable :
              roleHolder[u][r] # w => roleHolder'[u][r] = roleHolder[u][r]
BY DEF TypeOK, Finish

(* A step of w leaves alone whatever another worker relies on: its request,*)
(* the locks it holds, and the accounts it has locked.                     *)
LEMMA OthersRely ==
  ASSUME TypeOK, NEW w \in Workers, NEW v \in Workers, v # w, WorkerOK(v),
         req'[v] = req[v],
         \A u \in Users : userHolder[u] = v => userHolder'[u] = v,
         \A u \in Users, r \in Grantable : roleHolder[u][r] = v => roleHolder'[u][r] = v,
         \A u \in Users :
           userHolder[u] = v => holds'[u] = holds[u] /\ active'[u] = active[u]
  PROVE  WorkerOK(v)'
<1> SUFFICES ASSUME ~Idle(v)
             PROVE  WorkerOK(v)'
  BY DEF WorkerOK, Idle
<1>1. /\ req[v].user \in Users /\ req[v].op \in {"switch", "grant", "revoke"}
      /\ req[v].op # "switch" =>
           /\ req[v].role \in Grantable /\ req[v].todo \in Seq(Users)
           /\ req[v].counted \in SUBSET Users
  BY RequestFields
<1>2. ASSUME NEW u \in Users, u \in ActiveAdmins, userHolder[u] = v
      PROVE  u \in ActiveAdmins'
  BY <1>2 DEF ActiveAdmins
<1>3. CASE req[v].op = "switch"
  BY <1>1, <1>3 DEF WorkerOK, Idle
<1>4. CASE req[v].op = "grant"
  BY <1>1, <1>4 DEF WorkerOK, Idle
<1>5. CASE req[v].op = "revoke"
  <2>1. req[v].stage = "pairing" => req[v].todo[1] \in Users
    BY <1>1, <1>5 DEF WorkerOK
  <2>2. "ADMIN" \in Grantable
    BY DEF Grantable
  <2> QED
    BY <1>1, <1>2, <1>5, <2>1, <2>2 DEF WorkerOK, Idle
<1> QED
  BY <1>1, <1>3, <1>4, <1>5

(* So a step that moves w alone keeps the invariant if it keeps it for w.  *)
LEMMA StepOfOne ==
  ASSUME TypeOK, RoleIInv, NEW w \in Workers,
         \A v \in Workers : v # w => req'[v] = req[v],
         \A u \in Users : userHolder[u] \in Workers \ {w} => userHolder'[u] = userHolder[u],
         \A u \in Users, r \in Grantable :
           roleHolder[u][r] \in Workers \ {w} => roleHolder'[u][r] = roleHolder[u][r],
         \A u \in Users : userHolder[u] \in Workers \ {w}
                            => holds'[u] = holds[u] /\ active'[u] = active[u],
         WorkerOK(w)'
  PROVE  RoleIInv'
<1>1. ASSUME NEW v \in Workers PROVE WorkerOK(v)'
  <2>1. WorkerOK(v)
    BY RoleIInvByWorker
  <2>2. CASE v # w
    <3>1. /\ req'[v] = req[v]
          /\ \A u \in Users : userHolder[u] = v => userHolder'[u] = v
          /\ \A u \in Users, r \in Grantable : roleHolder[u][r] = v => roleHolder'[u][r] = v
          /\ \A u \in Users :
               userHolder[u] = v => holds'[u] = holds[u] /\ active'[u] = active[u]
      BY <2>2
    <3> QED
      BY <2>1, <2>2, <3>1, OthersRely
  <2> QED
    BY <2>2
<1> QED
  BY <1>1, RoleIInvByWorker

-----------------------------------------------------------------------------
(* The end of a transaction.                                               *)
LEMMA EndKeepsInvariant ==
  ASSUME TypeOK, RoleIInv, NEW w \in Workers, Finish(w),
         \A u \in Users : userHolder[u] \in Workers \ {w}
                            => holds'[u] = holds[u] /\ active'[u] = active[u]
  PROVE  RoleIInv'
<1>1. req'[w] = None /\ WorkerOK(w)'
  BY FinishFacts DEF WorkerOK, Idle
<1>2. /\ \A v \in Workers : v # w => req'[v] = req[v]
      /\ \A u \in Users : userHolder[u] \in Workers \ {w} => userHolder'[u] = userHolder[u]
      /\ \A u \in Users, r \in Grantable :
           roleHolder[u][r] \in Workers \ {w} => roleHolder'[u][r] = roleHolder[u][r]
  BY FinishFacts
<1> QED
  BY <1>1, <1>2, StepOfOne

(* A rollback gives back the worker's own locks.                           *)
LEMMA RollbackKeeps ==
  ASSUME TypeOK, RoleIInv, NEW w \in Workers, Rollback(w)
  PROVE  TypeOK' /\ RoleIInv'
<1>1. Finish(w) /\ UNCHANGED <<roleVars, order>>
  BY DEF Rollback
<1>2. TypeOK'
  BY <1>1, FinishFacts DEF TypeOK, roleVars
<1>3. RoleIInv'
  BY <1>1, EndKeepsInvariant DEF roleVars
<1> QED
  BY <1>2, <1>3

(* A new audit row.                                                        *)
LEMMA RecordFacts ==
  ASSUME TypeOK, NEW u \in Users, NEW r \in Grantable, NEW change \in Change,
         Record(u, r, change)
  PROVE  /\ audit' \in [Users -> [Grantable -> Seq(Change)]]
         /\ audit'[u][r] = Append(audit[u][r], change)
         /\ \A x \in Users, s \in Grantable :
              x # u \/ s # r => audit'[x][s] = audit[x][s]
<1>1. Append(audit[u][r], change) \in Seq(Change)
  BY AppendProperties DEF TypeOK
<1> QED
  BY <1>1 DEF Record, TypeOK

-----------------------------------------------------------------------------
(* A request that goes on with the same rows of roles.                     *)
LEMMA GoOnKeeps ==
  ASSUME TypeOK, RoleIInv, NEW w \in Workers,
         NEW r \in Request, req' = [req EXCEPT ![w] = r],
         UNCHANGED <<roleVars, order>>,
         userHolder' \in [Users -> Workers \cup {None}],
         roleHolder' \in [Users -> [Grantable -> Workers \cup {None}]],
         \A u \in Users : userHolder[u] \in Workers \ {w} => userHolder'[u] = userHolder[u],
         \A u \in Users, x \in Grantable :
           roleHolder[u][x] \in Workers \ {w} => roleHolder'[u][x] = roleHolder[u][x],
         WorkerOK(w)'
  PROVE  TypeOK' /\ RoleIInv'
<1>1. TypeOK'
  BY DEF TypeOK, roleVars
<1>2. \A v \in Workers : v # w => req'[v] = req[v]
  BY DEF TypeOK
<1>3. RoleIInv'
  BY <1>2, StepOfOne DEF roleVars
<1> QED
  BY <1>1, <1>3

(* A request begins without a lock and without a claim.                    *)
LEMMA BeginKeeps ==
  ASSUME TypeOK, RoleIInv, NEW w \in Workers, BeginRequest(w)
  PROVE  TypeOK' /\ RoleIInv'
<1>1. PICK r \in Request : /\ req' = [req EXCEPT ![w] = r]
                           /\ r.stage = "waiting"
                           /\ r.op = "revoke" => r.counted = {}
  <2>1. CASE \E u \in Users, x \in Wearable : BeginSwitch(w, u, x)
    <3>1. PICK u \in Users, x \in Wearable : BeginSwitch(w, u, x)
      BY <2>1
    <3> DEFINE s == [op |-> "switch", stage |-> "waiting", user |-> u, role |-> x]
    <3>2. /\ s \in Request /\ s.stage = "waiting" /\ s.op # "revoke"
          /\ req' = [req EXCEPT ![w] = s]
      BY <3>1 DEF BeginSwitch, Request, SwitchRequest, Stage
    <3> HIDE DEF s
    <3> QED
      BY <3>2
  <2>2. CASE \E u \in Users, op \in {"grant", "revoke"}, a \in Users, x \in ChangedRoles :
               BeginChange(w, op, a, u, x)
    <3>1. PICK u \in Users, op \in {"grant", "revoke"}, a \in Users, x \in ChangedRoles :
            BeginChange(w, op, a, u, x)
      BY <2>2
    <3> DEFINE c == [op |-> op, stage |-> "waiting", user |-> u, role |-> x,
                     actor |-> a, todo |-> <<>>, counted |-> {}]
    <3>2. x \in Grantable /\ <<>> \in Seq(Users)
      BY RolesAssumption, EmptySeq
    <3>3. c \in ChangeRequest /\ c.stage = "waiting" /\ c.counted = {}
      BY <3>2 DEF ChangeRequest, Stage
    <3>4. req' = [req EXCEPT ![w] = c]
      BY <3>1 DEF BeginChange
    <3> HIDE DEF c
    <3> QED
      BY <3>3, <3>4 DEF Request
  <2> QED
    BY <2>1, <2>2 DEF BeginRequest
<1>2. UNCHANGED <<roleVars, order, lockVars>>
  BY DEF BeginRequest, BeginSwitch, BeginChange
<1>3. req'[w] = r
  BY <1>1 DEF TypeOK
<1>4. r.op \in {"switch", "grant", "revoke"}
  BY DEF Request, SwitchRequest, ChangeRequest
<1>5. WorkerOK(w)'
  BY <1>1, <1>3, <1>4 DEF WorkerOK
<1> QED
  BY <1>1, <1>2, <1>5, GoOnKeeps DEF lockVars, TypeOK

(* A lock that is free, or already held, is taken.                         *)
LEMMA LockUserFacts ==
  ASSUME TypeOK, NEW w \in Workers, NEW u \in Users, UserFree(w, u), LockUser(w, u)
  PROVE  /\ userHolder' \in [Users -> Workers \cup {None}]
         /\ userHolder'[u] = w
         /\ \A x \in Users : x # u => userHolder'[x] = userHolder[x]
         /\ \A x \in Users : userHolder[x] = w => userHolder'[x] = w
         /\ \A x \in Users : userHolder[x] \in Workers \ {w} => userHolder'[x] = userHolder[x]
<1>1. /\ userHolder' = [userHolder EXCEPT ![u] = w] /\ userHolder[u] \in {None, w}
      /\ userHolder \in [Users -> Workers \cup {None}]
  BY DEF TypeOK, UserFree, LockUser
<1> QED
  BY <1>1, NoneIsNoWorker

(* Locking a role row takes that row and no other.                         *)
LEMMA LockRoleFacts ==
  ASSUME TypeOK, NEW w \in Workers, NEW u \in Users, NEW r \in Grantable,
         RoleFree(w, u, r), LockRole(w, u, r)
  PROVE  /\ roleHolder' \in [Users -> [Grantable -> Workers \cup {None}]]
         /\ roleHolder'[u][r] = w
         /\ \A x \in Users, s \in Grantable : roleHolder[x][s] = w => roleHolder'[x][s] = w
         /\ \A x \in Users, s \in Grantable :
              roleHolder[x][s] \in Workers \ {w} => roleHolder'[x][s] = roleHolder[x][s]
<1>1. /\ roleHolder' = [roleHolder EXCEPT ![u][r] = w] /\ roleHolder[u][r] \in {None, w}
      /\ roleHolder \in [Users -> [Grantable -> Workers \cup {None}]]
  BY DEF TypeOK, RoleFree, LockRole
<1> QED
  BY <1>1, NoneIsNoWorker
-----------------------------------------------------------------------------
(* The first lock of each of the three operations.                         *)
LEMMA FirstLockKeeps ==
  ASSUME TypeOK, RoleIInv, NEW w \in Workers,
         LockForSwitch(w) \/ LockForGrant(w) \/ LockForRevoke(w)
  PROVE  TypeOK' /\ RoleIInv'
<1> DEFINE u == req[w].user
           h == [req[w] EXCEPT !.stage = "locked"]
<1>1. ~Idle(w) /\ req[w].stage = "waiting" /\ req[w].op \in {"switch", "grant", "revoke"}
  BY DEF LockForSwitch, LockForGrant, LockForRevoke, At
<1>2. CASE Rollback(w)
  BY <1>2, RollbackKeeps
<1>3. CASE ~Rollback(w)
  <2>1. /\ UserFree(w, u) /\ LockUser(w, u)
        /\ GoTo(w, "locked") /\ UNCHANGED <<roleVars, order, roleHolder>>
        /\ req[w].op = "switch" => req[w].role \in holds[u] \cup {"USER"}
        /\ req[w].op = "grant" => req[w].role \notin holds[u]
    BY <1>3 DEF LockForSwitch, LockForGrant, LockForRevoke, At
  <2>2. /\ u \in Users /\ req[w] \in Request /\ "locked" \in Stage
        /\ req[w].op = "revoke" => req[w].counted \in SUBSET Users
    BY <1>1, RequestFields DEF Stage
  <2>3. /\ h \in Request /\ h.stage = "locked" /\ h.op = req[w].op /\ h.user = u
        /\ h.role = req[w].role
        /\ req[w].op = "revoke" => h.counted = req[w].counted
    BY <2>2, StageMoved
  <2>4. req' = [req EXCEPT ![w] = h] /\ req'[w] = h
    BY <2>1 DEF GoTo, TypeOK
  <2> HIDE DEF h, u
  <2>5. /\ userHolder' \in [Users -> Workers \cup {None}] /\ userHolder'[u] = w
        /\ \A x \in Users : userHolder[x] = w => userHolder'[x] = w
        /\ \A x \in Users : userHolder[x] \in Workers \ {w} => userHolder'[x] = userHolder[x]
    BY <2>1, <2>2, LockUserFacts
  <2>6. WorkerOK(w)
    BY RoleIInvByWorker
  <2>7. ASSUME req[w].op = "revoke", NEW x \in h.counted
        PROVE  x \in ActiveAdmins' /\ userHolder'[x] = w /\ roleHolder'[x]["ADMIN"] = w
    <3>1. x \in Users /\ x \in ActiveAdmins /\ userHolder[x] = w /\ roleHolder[x]["ADMIN"] = w
      BY <1>1, <2>2, <2>3, <2>6, <2>7 DEF WorkerOK
    <3> QED
      BY <2>1, <2>5, <3>1 DEF ActiveAdmins, roleVars
  <2>8. WorkerOK(w)'
    BY <1>1, <2>1, <2>3, <2>4, <2>5, <2>7 DEF WorkerOK, roleVars
  <2>9. /\ UNCHANGED <<roleVars, order>>
        /\ roleHolder' \in [Users -> [Grantable -> Workers \cup {None}]]
        /\ \A x \in Users, r \in Grantable :
             roleHolder[x][r] \in Workers \ {w} => roleHolder'[x][r] = roleHolder[x][r]
    BY <2>1 DEF TypeOK
  <2> QED
    BY <2>3, <2>4, <2>5, <2>8, <2>9, GoOnKeeps
<1> QED
  BY <1>2, <1>3

(* The INSERT of #42.                                                      *)
LEMMA InsertKeeps ==
  ASSUME TypeOK, RoleIInv, NEW w \in Workers, InsertRole(w)
  PROVE  TypeOK' /\ RoleIInv'
<1> DEFINE h == [req[w] EXCEPT !.stage = "inserted"]
<1>1. /\ ~Idle(w) /\ req[w].stage = "locked" /\ req[w].op = "grant"
      /\ RoleFree(w, req[w].user, req[w].role) /\ LockRole(w, req[w].user, req[w].role)
      /\ GoTo(w, "inserted") /\ UNCHANGED <<roleVars, order, userHolder>>
  BY DEF InsertRole, At
<1>2. req[w] \in Request /\ req[w].user \in Users /\ req[w].role \in Grantable
  BY <1>1, RequestFields
<1>3. /\ h \in Request /\ h.stage = "inserted" /\ h.op = "grant"
      /\ h.user = req[w].user /\ h.role = req[w].role
  BY <1>1, <1>2, StageMoved DEF Stage
<1>4. req' = [req EXCEPT ![w] = h] /\ req'[w] = h
  BY <1>1 DEF GoTo, TypeOK
<1> HIDE DEF h
<1>5. /\ roleHolder' \in [Users -> [Grantable -> Workers \cup {None}]]
      /\ roleHolder'[req[w].user][req[w].role] = w
      /\ \A x \in Users, s \in Grantable :
           roleHolder[x][s] \in Workers \ {w} => roleHolder'[x][s] = roleHolder[x][s]
  BY <1>1, <1>2, LockRoleFacts
<1>6. req[w].role \notin holds[req[w].user] /\ userHolder[req[w].user] = w
  BY <1>1, RoleIInvByWorker DEF WorkerOK
<1>7. WorkerOK(w)'
  BY <1>1, <1>3, <1>4, <1>5, <1>6 DEF WorkerOK, roleVars
<1>8. /\ UNCHANGED <<roleVars, order>> /\ userHolder' \in [Users -> Workers \cup {None}]
      /\ \A u \in Users : userHolder[u] \in Workers \ {w} => userHolder'[u] = userHolder[u]
  BY <1>1 DEF TypeOK
<1> QED
  BY <1>3, <1>4, <1>5, <1>7, <1>8, GoOnKeeps

-----------------------------------------------------------------------------
(* The counting query of #43.                                              *)
LEMMA FoundRows ==
  ASSUME NEW s \in Found
  PROVE  s \in Seq(Users)
<1>1. IsFiniteSet(ActiveAdmins)
  BY RolesAssumption, FS_Subset DEF ActiveAdmins
<1>2. Cardinality(ActiveAdmins) \in Nat
  BY <1>1, FS_CardinalityType
<1>3. s \in [1 .. Cardinality(ActiveAdmins) -> Users]
  BY DEF Found, ActiveAdmins
<1> QED
  BY <1>2, <1>3

(* #43 starts to count with nobody counted yet.                            *)
LEMMA StartCountingKeeps ==
  ASSUME TypeOK, RoleIInv, NEW w \in Workers, StartCounting(w)
  PROVE  TypeOK' /\ RoleIInv'
<1>1. PICK s \in Found :
        req' = [req EXCEPT ![w].todo = s,
                           ![w].stage = IF s = <<>> THEN "counted" ELSE "scanning"]
  BY DEF StartCounting
<1> DEFINE stage == IF s = <<>> THEN "counted" ELSE "scanning"
           h == [req[w] EXCEPT !.todo = s, !.stage = stage]
<1>2. /\ ~Idle(w) /\ req[w].op = "revoke" /\ req[w].stage = "locked" /\ req[w].role = "ADMIN"
      /\ UNCHANGED <<roleVars, order, lockVars>>
  BY DEF StartCounting, At
<1>3. req[w] \in ChangeRequest
  BY <1>2, RequestFields
<1>4. s \in Seq(Users)
  BY FoundRows
<1>5. /\ h \in Request /\ h.stage = stage /\ h.todo = s /\ h.op = "revoke"
      /\ h.user = req[w].user /\ h.role = "ADMIN" /\ h.counted = req[w].counted
  BY <1>2, <1>3, <1>4 DEF ChangeRequest, Request, Stage
<1>6. req' = [req EXCEPT ![w] = h] /\ req'[w] = h
  BY <1>1 DEF TypeOK
<1> HIDE DEF h
<1>7. WorkerOK(w)'
  BY <1>2, <1>5, <1>6, RoleIInvByWorker DEF WorkerOK, roleVars, lockVars, ActiveAdmins
<1> QED
  BY <1>2, <1>5, <1>6, <1>7, GoOnKeeps DEF lockVars, TypeOK
(* Either half of a pair: the row of UserRole, and then that of its User.  *)
LEMMA CountedRoleKeeps ==
  ASSUME TypeOK, RoleIInv, NEW w \in Workers, CountedRole(w)
  PROVE  TypeOK' /\ RoleIInv'
<1> DEFINE u == req[w].todo[1]
<1>1. /\ ~Idle(w) /\ req[w].op = "revoke" /\ req[w].stage = "scanning"
      /\ RoleFree(w, u, "ADMIN") /\ UNCHANGED <<roleVars, order, userHolder>>
  BY DEF CountedRole, At
<1>2. /\ req[w] \in ChangeRequest /\ req[w] \in Request /\ req[w].user \in Users
      /\ req[w].todo \in Seq(Users) /\ req[w].counted \in SUBSET Users
  BY <1>1, RequestFields
<1>3. WorkerOK(w)
  BY RoleIInvByWorker
<1>4. req[w].todo # <<>> /\ req[w].role = "ADMIN" /\ userHolder[req[w].user] = w
  BY <1>1, <1>3 DEF WorkerOK
<1>5. u \in Users /\ "ADMIN" \in Grantable
  BY <1>2, <1>4 DEF Grantable
<1>6. /\ userHolder' \in [Users -> Workers \cup {None}]
      /\ \A x \in Users : userHolder[x] \in Workers \ {w} => userHolder'[x] = userHolder[x]
  BY <1>1 DEF TypeOK
<1>7. CASE "ADMIN" \in holds[u]
  <2> DEFINE h == [req[w] EXCEPT !.stage = "pairing"]
  <2>1. LockRole(w, u, "ADMIN") /\ GoTo(w, "pairing")
    BY <1>7 DEF CountedRole
  <2>2. /\ h \in Request /\ h.stage = "pairing" /\ h.op = "revoke" /\ h.user = req[w].user
        /\ h.role = "ADMIN" /\ h.todo = req[w].todo /\ h.counted = req[w].counted
    BY <1>1, <1>2, <1>4, StageMoved DEF Stage
  <2>3. req' = [req EXCEPT ![w] = h] /\ req'[w] = h
    BY <2>1 DEF GoTo, TypeOK
  <2> HIDE DEF h, u
  <2>4. /\ roleHolder' \in [Users -> [Grantable -> Workers \cup {None}]]
        /\ roleHolder'[u]["ADMIN"] = w
        /\ \A x \in Users, s \in Grantable : roleHolder[x][s] = w => roleHolder'[x][s] = w
        /\ \A x \in Users, s \in Grantable :
             roleHolder[x][s] \in Workers \ {w} => roleHolder'[x][s] = roleHolder[x][s]
    BY <1>1, <1>5, <2>1, LockRoleFacts
  <2>5. \A x \in h.counted :
          x \in ActiveAdmins' /\ userHolder'[x] = w /\ roleHolder'[x]["ADMIN"] = w
    BY <1>1, <1>2, <1>3, <1>5, <2>2, <2>4 DEF WorkerOK, ActiveAdmins, roleVars
  <2>6. roleHolder'[h.todo[1]]["ADMIN"] = w
    BY <2>2, <2>4 DEF u
  <2>7. WorkerOK(w)'
    BY <1>1, <1>4, <2>2, <2>3, <2>5, <2>6 DEF WorkerOK
  <2> QED
    BY <1>1, <1>6, <2>2, <2>3, <2>4, <2>7, GoOnKeeps
<1>8. CASE "ADMIN" \notin holds[u]
  <2> DEFINE h == Advanced(req[w], {})
  <2>1. UNCHANGED roleHolder /\ req' = [req EXCEPT ![w] = h] /\ req'[w] = h
    BY <1>8 DEF CountedRole, TypeOK
  <2>2. /\ h \in ChangeRequest /\ h.op = req[w].op /\ h.user = req[w].user
        /\ h.role = req[w].role /\ h.counted = req[w].counted \cup {}
        /\ h.stage \in {"counted", "scanning"}
        /\ h.stage = "scanning" => h.todo # <<>>
    BY <1>2, <1>4, AdvancedFields
  <2> HIDE DEF h
  <2>3. h \in Request
    BY <2>2 DEF Request
  <2>4. \A x \in h.counted :
          x \in ActiveAdmins' /\ userHolder'[x] = w /\ roleHolder'[x]["ADMIN"] = w
    BY <1>1, <1>3, <2>1, <2>2 DEF WorkerOK, ActiveAdmins, roleVars
  <2>5. WorkerOK(w)'
    BY <1>1, <1>4, <2>1, <2>2, <2>4 DEF WorkerOK
  <2> QED
    BY <1>1, <1>6, <2>1, <2>3, <2>5, GoOnKeeps DEF TypeOK
<1> QED
  BY <1>7, <1>8

(* A user is counted when both rows are locked, as an active               *)
(* administrator.                                                          *)
LEMMA CountedUserKeeps ==
  ASSUME TypeOK, RoleIInv, NEW w \in Workers, CountedUser(w)
  PROVE  TypeOK' /\ RoleIInv'
<1> DEFINE u == req[w].todo[1]
           kept == {u} \cap ActiveAdmins
           h == Advanced(req[w], kept)
<1>1. /\ ~Idle(w) /\ req[w].op = "revoke" /\ req[w].stage = "pairing"
      /\ UserFree(w, u) /\ LockUser(w, u) /\ UNCHANGED <<roleVars, order, roleHolder>>
  BY DEF CountedUser, At
<1>2. /\ req[w] \in ChangeRequest /\ req[w].user \in Users
      /\ req[w].todo \in Seq(Users) /\ req[w].counted \in SUBSET Users
  BY <1>1, RequestFields
<1>3. WorkerOK(w)
  BY RoleIInvByWorker
<1>4. /\ req[w].todo # <<>> /\ req[w].role = "ADMIN" /\ userHolder[req[w].user] = w
      /\ roleHolder[u]["ADMIN"] = w
  BY <1>1, <1>3 DEF WorkerOK
<1>5. u \in Users /\ kept \in SUBSET Users
  BY <1>2, <1>4
<1>6. req' = [req EXCEPT ![w] = h] /\ req'[w] = h
  BY DEF CountedUser, TypeOK
<1>7. /\ h \in ChangeRequest /\ h.op = req[w].op /\ h.user = req[w].user
      /\ h.role = req[w].role /\ h.counted = req[w].counted \cup kept
      /\ h.stage \in {"counted", "scanning"}
      /\ h.stage = "scanning" => h.todo # <<>>
  BY <1>2, <1>4, <1>5, AdvancedFields
<1>8. h \in Request
  BY <1>7 DEF Request
<1> HIDE DEF h
<1>9. /\ userHolder' \in [Users -> Workers \cup {None}] /\ userHolder'[u] = w
      /\ \A x \in Users : userHolder[x] = w => userHolder'[x] = w
      /\ \A x \in Users : userHolder[x] \in Workers \ {w} => userHolder'[x] = userHolder[x]
  BY <1>1, <1>5, LockUserFacts
<1>10. ASSUME NEW x \in h.counted
       PROVE  x \in ActiveAdmins' /\ userHolder'[x] = w /\ roleHolder'[x]["ADMIN"] = w
  <2>1. ActiveAdmins' = ActiveAdmins /\ roleHolder' = roleHolder
    BY <1>1 DEF ActiveAdmins, roleVars
  <2>2. CASE x \in kept
    BY <1>4, <1>9, <2>1, <2>2
  <2>3. CASE x \in req[w].counted
    BY <1>1, <1>2, <1>3, <1>9, <2>1, <2>3 DEF WorkerOK
  <2> QED
    BY <1>7, <2>2, <2>3
<1>11. WorkerOK(w)'
  <2>1. userHolder'[h.user] = w
    BY <1>2, <1>4, <1>7, <1>9
  <2> QED
    BY <1>1, <1>4, <1>6, <1>7, <1>10, <2>1 DEF WorkerOK
<1>12. roleHolder' \in [Users -> [Grantable -> Workers \cup {None}]]
       /\ \A x \in Users, r \in Grantable :
            roleHolder[x][r] \in Workers \ {w} => roleHolder'[x][r] = roleHolder[x][r]
  BY <1>1 DEF TypeOK
<1> QED
  BY <1>1, <1>6, <1>8, <1>9, <1>11, <1>12, GoOnKeeps

-----------------------------------------------------------------------------
(* The commits.                                                            *)
LEMMA CommitSwitchKeeps ==
  ASSUME TypeOK, RoleIInv, NEW w \in Workers, CommitSwitch(w)
  PROVE  TypeOK' /\ RoleIInv'
<1>1. /\ ~Idle(w) /\ req[w].op = "switch"
      /\ worn' = [worn EXCEPT ![req[w].user] = req[w].role]
      /\ Finish(w) /\ UNCHANGED <<holds, active, audit, order>>
  BY DEF CommitSwitch, At
<1>2. req[w].user \in Users /\ req[w].role \in Wearable
  BY <1>1, RequestFields
<1>3. TypeOK'
  BY <1>1, <1>2, FinishFacts DEF TypeOK
<1>4. RoleIInv'
  BY <1>1, EndKeepsInvariant
<1> QED
  BY <1>3, <1>4

(* What the grant of #42 changes, and that it meets no row of its own.     *)
LEMMA GrantFacts ==
  ASSUME TypeOK, RoleIInv, NEW w \in Workers, CommitGrant(w)
  PROVE  /\ req[w].user \in Users /\ req[w].role \in Grantable
         /\ userHolder[req[w].user] = w
         /\ Grant(req[w].user, req[w].role)
         /\ Finish(w)
<1>1. ~Idle(w) /\ req[w].op = "grant" /\ req[w].stage = "inserted"
  BY DEF CommitGrant, At
<1>2. req[w].user \in Users /\ req[w].role \in Grantable
  BY <1>1, RequestFields
<1>3. WorkerOK(w)
  BY RoleIInvByWorker
<1>4. userHolder[req[w].user] = w /\ req[w].role \notin holds[req[w].user]
  BY <1>1, <1>3 DEF WorkerOK
<1> QED
  BY <1>2, <1>4 DEF CommitGrant, Grant

(* #42 writes a user that it holds, so whoever else is counted or read     *)
(* stays as it was.                                                        *)
LEMMA CommitGrantKeeps ==
  ASSUME TypeOK, RoleIInv, NEW w \in Workers, CommitGrant(w)
  PROVE  TypeOK' /\ RoleIInv'
<1> DEFINE u == req[w].user
           r == req[w].role
<1>1. u \in Users /\ r \in Grantable /\ userHolder[u] = w /\ Finish(w) /\ Grant(u, r)
  BY GrantFacts
<1>2. /\ order' = IF r = "ADMIN" THEN Append(order, u) ELSE order
      /\ holds' = [holds EXCEPT ![u] = @ \cup {r}]
      /\ Record(u, r, "GRANT") /\ UNCHANGED <<worn, active>>
  BY DEF CommitGrant
<1> HIDE DEF u, r
<1>3. audit' \in [Users -> [Grantable -> Seq(Change)]]
  BY <1>1, <1>2, RecordFacts DEF Change
<1>4. order' \in Seq(Users)
  BY <1>1, <1>2, AppendProperties DEF TypeOK
<1>5. holds' \in [Users -> SUBSET Grantable] /\ \A x \in Users : x # u => holds'[x] = holds[x]
  BY <1>1, <1>2 DEF TypeOK
<1>6. TypeOK'
  BY <1>1, <1>2, <1>3, <1>4, <1>5, FinishFacts DEF TypeOK
<1>7. RoleIInv'
  BY <1>1, <1>2, <1>5, EndKeepsInvariant
<1> QED
  BY <1>6, <1>7
(* What the revocation of #43 changes: more than one administrator who can *)
(* log in was counted, and all of them still are.                          *)
LEMMA RevokeFacts ==
  ASSUME TypeOK, RoleIInv, NEW w \in Workers, CommitRevoke(w)
  PROVE  /\ req[w].user \in Users /\ req[w].role \in Grantable
         /\ userHolder[req[w].user] = w
         /\ Revoke(req[w].user, req[w].role)
         /\ Finish(w)
<1> DEFINE u == req[w].user
           r == req[w].role
<1>1. /\ ~Idle(w) /\ req[w].op = "revoke" /\ req[w].stage \in {"counted", "locked"}
      /\ MayRevoke(req[w])
  BY DEF CommitRevoke, Checked, At
<1>2. u \in Users /\ r \in Grantable /\ req[w].counted \in SUBSET Users
  BY <1>1, RequestFields
<1>3. WorkerOK(w)
  BY RoleIInvByWorker
<1>4. userHolder[u] = w /\ req[w].counted \subseteq ActiveAdmins
  BY <1>1, <1>3 DEF WorkerOK
<1>5. r \in holds[u] /\ (r = "ADMIN" => u \in ActiveAdmins /\ ActiveAdmins # {u})
  <2>1. CASE r = "ADMIN"
    <3>1. u \in req[w].counted /\ Cardinality(req[w].counted) > 1
      BY <1>1, <2>1 DEF MayRevoke
    <3>2. Cardinality({u}) = 1 /\ IsFiniteSet({u})
      BY FS_Singleton
    <3>3. ActiveAdmins # {u}
      <4> SUFFICES ASSUME ActiveAdmins = {u} PROVE FALSE
        OBVIOUS
      <4>1. req[w].counted = {u}
        BY <1>4, <3>1
      <4> QED
        BY <3>1, <3>2, <4>1
    <3> QED
      BY <1>4, <2>1, <3>1, <3>3 DEF ActiveAdmins
  <2>2. CASE r = "ADVISOR"
    BY <1>1, <2>2 DEF MayRevoke
  <2> QED
    BY <1>2, <2>1, <2>2 DEF Grantable
<1> QED
  BY <1>2, <1>4, <1>5 DEF CommitRevoke, Revoke

(* A row that is deleted leaves the others in the order of their keys.     *)
LEMMA RowsWithoutType ==
  ASSUME TypeOK, NEW u \in Users
  PROVE  RowsWithout(u) \in Seq(Users)
<1> DEFINE i == CHOOSE j \in DOMAIN order : order[j] = u
           without == [j \in 1 .. Len(order) - 1 |-> order[IF j < i THEN j ELSE j + 1]]
<1>1. order \in Seq(Users) /\ Len(order) \in Nat
  BY LenProperties DEF TypeOK
<1> HIDE DEF i
<1>2. \A j \in 1 .. Len(order) - 1 : order[IF j < i THEN j ELSE j + 1] \in Users
  BY <1>1, ElementOfSeq
<1>3. PICK n \in Nat : 1 .. Len(order) - 1 = 1 .. n
  <2>1. CASE Len(order) = 0
    <3>1. 1 .. Len(order) - 1 = 1 .. 0
      BY <2>1
    <3> QED
      BY <3>1
  <2>2. CASE Len(order) # 0
    BY <1>1, <2>2
  <2> QED
    BY <2>1, <2>2
<1>4. without \in [1 .. n -> Users]
  BY <1>2, <1>3
<1> HIDE DEF without
<1>5. without \in Seq(Users)
  BY <1>4
<1> QED
  BY <1>5 DEF RowsWithout, without, i

(* #43 takes the role of a user that it holds, so it is nobody another     *)
(* session has counted.                                                    *)
LEMMA CommitRevokeKeeps ==
  ASSUME TypeOK, RoleIInv, NEW w \in Workers, CommitRevoke(w)
  PROVE  TypeOK' /\ RoleIInv'
<1> DEFINE u == req[w].user
           r == req[w].role
<1>1. u \in Users /\ r \in Grantable /\ userHolder[u] = w /\ Finish(w)
  BY RevokeFacts
<1>2. /\ order' = IF r = "ADMIN" THEN RowsWithout(u) ELSE order
      /\ holds' = [holds EXCEPT ![u] = @ \ {r}]
      /\ worn' = IF r = "ADVISOR" /\ worn[u] = "ADVISOR"
                 THEN [worn EXCEPT ![u] = "USER"] ELSE worn
      /\ Record(u, r, "REVOKE") /\ UNCHANGED active
  BY DEF CommitRevoke
<1> HIDE DEF u, r
<1>3. audit' \in [Users -> [Grantable -> Seq(Change)]]
  BY <1>1, <1>2, RecordFacts DEF Change
<1>4. order' \in Seq(Users)
  BY <1>1, <1>2, RowsWithoutType DEF TypeOK
<1>5. holds' \in [Users -> SUBSET Grantable] /\ \A x \in Users : x # u => holds'[x] = holds[x]
  BY <1>1, <1>2 DEF TypeOK
<1>6. worn' \in [Users -> Wearable]
  BY <1>1, <1>2 DEF TypeOK, Wearable
<1>7. TypeOK'
  BY <1>1, <1>2, <1>3, <1>4, <1>5, <1>6, FinishFacts DEF TypeOK
<1>8. RoleIInv'
  BY <1>1, <1>2, <1>5, EndKeepsInvariant
<1> QED
  BY <1>7, <1>8

-----------------------------------------------------------------------------
(* The site writes an account only while no request has it locked.         *)
LEMMA SiteKeeps ==
  ASSUME TypeOK, RoleIInv, SiteAction
  PROVE  TypeOK' /\ RoleIInv'
<1>1. PICK u \in Users :
        /\ userHolder[u] = None
        /\ \/ \E b \in BOOLEAN : SetActive(u, b)
           \/ \E r \in Wearable : SetWorn(u, r)
        /\ UNCHANGED <<order, lockVars, req>>
  BY RolesAssumption DEF SiteAction, SiteSetActive, SiteSetWorn
<1>2. TypeOK'
  BY <1>1 DEF TypeOK, lockVars, SetActive, SetWorn
<1>3. /\ holds' = holds
      /\ \A x \in Users : userHolder[x] # None => active'[x] = active[x]
  BY <1>1 DEF TypeOK, SetActive, SetWorn
<1>4. ASSUME NEW v \in Workers PROVE WorkerOK(v)'
  <2>1. WorkerOK(v) /\ v # None
    BY RoleIInvByWorker, NoneIsNoWorker
  <2>2. CASE Idle(v)
    BY <1>1, <2>2 DEF WorkerOK, Idle
  <2>3. CASE ~Idle(v)
    <3>1. req[v].op = "revoke" => req[v].counted \in SUBSET Users
      BY <2>3, RequestFields
    <3>2. ASSUME req[v].op = "revoke", NEW x \in req[v].counted
          PROVE  x \in ActiveAdmins'
      <4>1. x \in Users /\ x \in ActiveAdmins /\ userHolder[x] = v
        BY <2>1, <2>3, <3>1, <3>2 DEF WorkerOK
      <4> QED
        BY <1>3, <2>1, <4>1 DEF ActiveAdmins
    <3> QED
      BY <1>1, <1>3, <2>1, <2>3, <3>2 DEF WorkerOK, Idle, lockVars
  <2> QED
    BY <2>2, <2>3
<1> QED
  BY <1>2, <1>4, RoleIInvByWorker

(* What a worker can do, one by one.                                       *)
LEMMA WorkerStepCases ==
  ASSUME NEW w \in Workers,
         BeginRequest(w) \/ AtALock(w) \/ Advance(w) \/ Abort(w) \/ DeadlockAbort(w)
  PROVE  \/ BeginRequest(w)
         \/ LockForSwitch(w) \/ LockForGrant(w) \/ LockForRevoke(w)
         \/ InsertRole(w) \/ StartCounting(w) \/ CountedRole(w) \/ CountedUser(w)
         \/ CommitSwitch(w) \/ CommitGrant(w) \/ CommitRevoke(w)
         \/ Rollback(w)
BY DEF AtALock, Advance, Abort, DeadlockAbort, RefuseRevoke

(* Every step of a worker keeps the invariant.                             *)
LEMMA WorkerStepKeeps ==
  ASSUME TypeOK, RoleIInv, NEW w \in Workers,
         BeginRequest(w) \/ AtALock(w) \/ Advance(w) \/ Abort(w) \/ DeadlockAbort(w)
  PROVE  TypeOK' /\ RoleIInv'
BY WorkerStepCases, BeginKeeps, FirstLockKeeps, InsertKeeps, StartCountingKeeps,
   CountedRoleKeeps, CountedUserKeeps, CommitSwitchKeeps, CommitGrantKeeps,
   CommitRevokeKeeps, RollbackKeeps

(* A step of nobody.                                                       *)
LEMMA RoleStutterKeeps ==
  ASSUME TypeOK, RoleIInv, UNCHANGED vars
  PROVE  TypeOK' /\ RoleIInv'
<1>1. TypeOK'
  BY DEF TypeOK, vars, roleVars, lockVars
<1>2. RoleIInv'
  BY DEF vars, roleVars, lockVars, RoleIInv, StagesOK, RoleLocksHeld, CountedStay,
     SwitchReadsTrue, GrantMeetsNoDuplicate, At, Idle, ActiveAdmins
<1> QED
  BY <1>1, <1>2

(* Every step keeps the invariant.                                         *)
LEMMA RoleInvariantStep ==
  ASSUME TypeOK, RoleIInv, [Next]_vars
  PROVE  TypeOK' /\ RoleIInv'
BY WorkerStepKeeps, SiteKeeps, RoleStutterKeeps DEF Next

(* The first administrators and idle workers satisfy the invariant.        *)
LEMMA RoleInvariantInit ==
  ASSUME Init
  PROVE  TypeOK /\ RoleIInv
<1>1. order \in Seq(Users)
  <2>1. IsFiniteSet(ActiveAdmins)
    BY RolesAssumption, FS_Subset DEF ActiveAdmins
  <2>2. Cardinality(ActiveAdmins) \in Nat
    BY <2>1, FS_CardinalityType
  <2>3. order \in [1 .. Cardinality(ActiveAdmins) -> Users]
    BY DEF Init, ActiveAdmins
  <2> QED
    BY <2>2, <2>3
<1>2. audit \in [Users -> [Grantable -> Seq(Change)]]
  BY EmptySeq DEF Init, RolesInit
<1>3. TypeOK
  BY <1>1, <1>2 DEF Init, RolesInit, TypeOK, Grantable, Wearable
<1>4. RoleIInv
  BY RoleIInvByWorker DEF Init, WorkerOK, Idle
<1> QED
  BY <1>3, <1>4

(* Every request holds the locks that its stage says, and what it read     *)
(* under them is still so.                                                 *)
THEOREM RoleInvariance == Spec => [](TypeOK /\ RoleIInv)
<1>1. Init => TypeOK /\ RoleIInv
  BY RoleInvariantInit
<1>2. TypeOK /\ RoleIInv /\ [Next]_vars => (TypeOK /\ RoleIInv)'
  BY RoleInvariantStep
<1> QED
  BY <1>1, <1>2, PTL DEF Spec
-----------------------------------------------------------------------------
(* What a step does to the roles: one operation of Roles, or nothing.      *)
RoleOperation ==
  \E u \in Users : \/ \E r \in Grantable : Grant(u, r) \/ Revoke(u, r)
                   \/ \E r \in Wearable : Switch(u, r)

(* The commit of #10 is the indivisible Switch, as the role it read is     *)
(* still held.                                                             *)
LEMMA SwitchFacts ==
  ASSUME TypeOK, RoleIInv, NEW w \in Workers, CommitSwitch(w)
  PROVE  req[w].user \in Users /\ req[w].role \in Wearable /\ Switch(req[w].user, req[w].role)
<1>1. ~Idle(w) /\ req[w].op = "switch" /\ req[w].stage = "locked"
  BY DEF CommitSwitch, At
<1>2. req[w].user \in Users /\ req[w].role \in Wearable
  BY <1>1, RequestFields
<1>3. req[w].role \in holds[req[w].user] \cup {"USER"}
  BY <1>1, RoleIInvByWorker DEF WorkerOK
<1> QED
  BY <1>2, <1>3 DEF CommitSwitch, Switch

(* The commit of each request is the indivisible operation; no other step  *)
(* of a worker shows.                                                      *)
LEMMA WorkerEffect ==
  ASSUME TypeOK, RoleIInv, NEW w \in Workers,
         BeginRequest(w) \/ AtALock(w) \/ Advance(w) \/ Abort(w) \/ DeadlockAbort(w)
  PROVE  RoleOperation \/ UNCHANGED roleVars
<1>1. CASE CommitGrant(w)
  BY <1>1, GrantFacts DEF RoleOperation
<1>2. CASE CommitRevoke(w)
  BY <1>2, RevokeFacts DEF RoleOperation
<1>3. CASE CommitSwitch(w)
  BY <1>3, SwitchFacts DEF RoleOperation
<1>4. CASE BeginRequest(w)
  BY <1>4 DEF BeginRequest, BeginSwitch, BeginChange
<1>5. CASE LockForSwitch(w) \/ LockForGrant(w) \/ LockForRevoke(w) \/ Rollback(w)
  BY <1>5 DEF LockForSwitch, LockForGrant, LockForRevoke, Rollback
<1>6. CASE InsertRole(w) \/ StartCounting(w) \/ CountedRole(w) \/ CountedUser(w)
  BY <1>6 DEF InsertRole, StartCounting, CountedRole, CountedUser
<1> QED
  BY <1>1, <1>2, <1>3, <1>4, <1>5, <1>6, WorkerStepCases

(* The site's edits are those of Roles.                                    *)
LEMMA SiteEffect ==
  ASSUME SiteAction
  PROVE  \E u \in Users : \/ \E b \in BOOLEAN : SetActive(u, b)
                          \/ \E r \in Wearable : SetWorn(u, r)
BY RolesAssumption DEF SiteAction, SiteSetActive, SiteSetWorn

(* Every step is a step of Roles, or none to it.                           *)
LEMMA RoleStepRefines ==
  ASSUME TypeOK, RoleIInv, [Next]_vars
  PROVE  [RolesNext]_roleVars
<1>1. CASE SiteAction
  BY <1>1, SiteEffect DEF RolesNext
<1>2. ASSUME NEW w \in Workers,
             BeginRequest(w) \/ AtALock(w) \/ Advance(w) \/ Abort(w) \/ DeadlockAbort(w)
      PROVE  [RolesNext]_roleVars
  BY <1>2, WorkerEffect DEF RoleOperation, RolesNext
<1>3. CASE UNCHANGED vars
  BY <1>3 DEF vars
<1> QED
  BY <1>1, <1>2, <1>3 DEF Next

(* The transactions of #10, #42 and #43, with all their locks, do what the *)
(* indivisible operations of Roles do (RolesPromise).                      *)
THEOREM TransactionsKeepPromise == Spec => RolesPromise
<1>1. Init => RolesInit
  BY DEF Init
<1>2. TypeOK /\ RoleIInv /\ [Next]_vars => [RolesNext]_roleVars
  BY RoleStepRefines
<1> QED
  BY <1>1, <1>2, RoleInvariance, PTL DEF Spec, RolesPromise, RolesSpec

(* Every table, lock and request is well formed.                           *)
THEOREM RoleTypeCorrect == Spec => []TypeOK
BY RoleInvariance, PTL

(* No grant of #42 inserts a row that is there (GrantMeetsNoDuplicate).    *)
THEOREM GrantsAreNew == Spec => []GrantMeetsNoDuplicate
<1>1. RoleIInv => GrantMeetsNoDuplicate
  BY DEF RoleIInv
<1> QED
  BY <1>1, RoleInvariance, PTL

-----------------------------------------------------------------------------
(* The audit trail of Roles, whatever implements it.                       *)

(* One more row: it alternates with the last and tells what is held now.   *)
LEMMA TrailGrows ==
  ASSUME NEW trail \in Seq(Change), NEW held \in BOOLEAN, NEW change \in Change,
         \A i \in 1 .. Len(trail) - 1 : trail[i] # trail[i + 1],
         trail # <<>> => (trail[Len(trail)] = "GRANT" <=> held),
         change = "GRANT" <=> ~held
  PROVE  LET longer == Append(trail, change) IN
         /\ \A i \in 1 .. Len(longer) - 1 : longer[i] # longer[i + 1]
         /\ longer # <<>>
         /\ longer[Len(longer)] = "GRANT" <=> ~held
<1> DEFINE longer == Append(trail, change)
<1>1. /\ Len(trail) \in Nat /\ Len(longer) = Len(trail) + 1
      /\ \A i \in 1 .. Len(trail) : longer[i] = trail[i]
      /\ longer[Len(trail) + 1] = change /\ longer \in Seq(Change)
  BY AppendProperties, LenProperties
<1>2. Len(trail) # 0 => trail # <<>>
  BY EmptySeq
<1>3. longer # <<>>
  BY <1>1, EmptySeq
<1>4. Len(trail) # 0 => trail[Len(trail)] # change
  <2>1. Len(trail) # 0 => trail[Len(trail)] \in Change
    BY <1>1, ElementOfSeq
  <2> QED
    BY <1>2, <2>1 DEF Change
<1> HIDE DEF longer
<1>5. ASSUME NEW i \in 1 .. Len(longer) - 1
      PROVE  longer[i] # longer[i + 1]
  <2>1. CASE i = Len(trail)
    BY <1>1, <1>4, <2>1
  <2>2. CASE i # Len(trail)
    <3>1. i \in 1 .. Len(trail) - 1 /\ i + 1 \in 1 .. Len(trail)
      BY <1>1, <2>2
    <3> QED
      BY <1>1, <3>1
  <2> QED
    BY <2>1, <2>2
<1> QED
  BY <1>1, <1>3, <1>5 DEF longer

(* Every operation of Roles keeps AuditTellsHolding.                       *)
LEMMA OperationTellsHolding ==
  ASSUME TypeOK, AuditTellsHolding, [RolesNext]_roleVars
  PROVE  AuditTellsHolding'
<1> DEFINE Tells(trail, held) ==
             /\ \A i \in 1 .. Len(trail) - 1 : trail[i] # trail[i + 1]
             /\ trail # <<>> => (trail[Len(trail)] = "GRANT" <=> held)
<1>1. CASE UNCHANGED <<holds, audit>>
  BY <1>1 DEF AuditTellsHolding
<1>2. ASSUME NEW u \in Users, NEW r \in Grantable, NEW change \in Change,
             Record(u, r, change), change = "GRANT" <=> r \notin holds[u],
             holds' = [holds EXCEPT ![u] = IF change = "GRANT" THEN @ \cup {r} ELSE @ \ {r}]
      PROVE  AuditTellsHolding'
  <2>1. /\ audit'[u][r] = Append(audit[u][r], change)
        /\ \A x \in Users, s \in Grantable : x # u \/ s # r => audit'[x][s] = audit[x][s]
    BY <1>2, RecordFacts
  <2>2. /\ r \in holds'[u] <=> r \notin holds[u]
        /\ \A x \in Users, s \in Grantable :
             x # u \/ s # r => (s \in holds'[x] <=> s \in holds[x])
    BY <1>2 DEF TypeOK, Change
  <2>3. audit[u][r] \in Seq(Change)
    BY DEF TypeOK
  <2>4. /\ \A i \in 1 .. Len(audit[u][r]) - 1 : audit[u][r][i] # audit[u][r][i + 1]
        /\ audit[u][r] # <<>> => (audit[u][r][Len(audit[u][r])] = "GRANT" <=> r \in holds[u])
    BY DEF AuditTellsHolding
  <2> DEFINE held == r \in holds[u]
  <2>5. /\ \A i \in 1 .. Len(audit'[u][r]) - 1 : audit'[u][r][i] # audit'[u][r][i + 1]
        /\ audit'[u][r][Len(audit'[u][r])] = "GRANT" <=> r \notin holds[u]
    <3>1. held \in BOOLEAN
      OBVIOUS
    <3>2. /\ audit[u][r] # <<>> => (audit[u][r][Len(audit[u][r])] = "GRANT" <=> held)
          /\ change = "GRANT" <=> ~held
      BY <1>2, <2>4
    <3> HIDE DEF held
    <3>3. LET longer == Append(audit[u][r], change) IN
          /\ \A i \in 1 .. Len(longer) - 1 : longer[i] # longer[i + 1]
          /\ longer # <<>>
          /\ longer[Len(longer)] = "GRANT" <=> ~held
      BY <2>3, <2>4, <3>1, <3>2, TrailGrows
    <3> QED
      BY <2>1, <3>3 DEF held
  <2>6. ASSUME NEW x \in Users, NEW s \in Grantable
        PROVE  /\ \A i \in 1 .. Len(audit'[x][s]) - 1 : audit'[x][s][i] # audit'[x][s][i + 1]
               /\ audit'[x][s] # <<>>
                    => (audit'[x][s][Len(audit'[x][s])] = "GRANT" <=> s \in holds'[x])
    <3>1. CASE x = u /\ s = r
      BY <2>2, <2>5, <3>1
    <3>2. CASE x # u \/ s # r
      <4>1. audit'[x][s] = audit[x][s] /\ (s \in holds'[x] <=> s \in holds[x])
        BY <2>1, <2>2, <3>2
      <4> QED
        BY <4>1 DEF AuditTellsHolding
    <3> QED
      BY <3>1, <3>2
  <2> QED
    BY <2>6 DEF AuditTellsHolding
<1>3. ASSUME NEW u \in Users, NEW r \in Grantable, Grant(u, r)
      PROVE  AuditTellsHolding'
  BY <1>2, <1>3 DEF Grant, Change
<1>4. ASSUME NEW u \in Users, NEW r \in Grantable, Revoke(u, r)
      PROVE  AuditTellsHolding'
  BY <1>2, <1>4 DEF Revoke, Change
<1>5. ASSUME NEW u \in Users,
             \/ \E r \in Wearable : Switch(u, r) \/ SetWorn(u, r)
             \/ \E b \in BOOLEAN : SetActive(u, b)
      PROVE  UNCHANGED <<holds, audit>>
  BY <1>5 DEF Switch, SetWorn, SetActive
<1> QED
  BY <1>1, <1>3, <1>4, <1>5 DEF RolesNext, roleVars

(* The trail of an account and role alternates, and its last row tells     *)
(* whether the role is held (AuditTellsHolding).                           *)
THEOREM AuditIsTrue == Spec => []AuditTellsHolding
<1>1. Init => AuditTellsHolding
  BY EmptySeq DEF Init, RolesInit, AuditTellsHolding
<1>2. TypeOK /\ RoleIInv /\ AuditTellsHolding /\ [Next]_vars => AuditTellsHolding'
  BY RoleStepRefines, OperationTellsHolding
<1> QED
  BY <1>1, <1>2, RoleInvariance, PTL DEF Spec

-----------------------------------------------------------------------------
(* A revocation of ADMIN leaves another active administrator, however many *)
(* are made at once (RevocationLeavesAnAdmin).                             *)
THEOREM AnAdminRemains == Spec => RevocationLeavesAnAdmin
<1>1. ASSUME TypeOK, [RolesNext]_roleVars, NEW u \in Users,
             "ADMIN" \in holds[u], "ADMIN" \notin holds'[u]
      PROVE  ActiveAdmins' # {}
  <2>1. PICK x \in Users, r \in Grantable : Revoke(x, r)
    BY <1>1 DEF RolesNext, roleVars, Grant, Switch, SetWorn, SetActive, TypeOK
  <2>2. /\ r \in holds[x] /\ (r = "ADMIN" => x \in ActiveAdmins /\ ActiveAdmins # {x})
        /\ holds' = [holds EXCEPT ![x] = @ \ {r}] /\ active' = active
    BY <2>1 DEF Revoke
  <2>3. x = u /\ r = "ADMIN"
    BY <1>1, <2>2 DEF TypeOK
  <2>4. PICK v \in ActiveAdmins : v # u
    BY <2>2, <2>3
  <2> QED
    BY <1>1, <2>2, <2>3, <2>4 DEF ActiveAdmins, TypeOK
<1>2. TypeOK /\ RoleIInv /\ [Next]_vars =>
        [\A u \in Users :
           "ADMIN" \in holds[u] /\ "ADMIN" \notin holds'[u] => ActiveAdmins' # {}]_vars
  BY <1>1, RoleStepRefines
<1> QED
  BY <1>2, RoleInvariance, PTL DEF Spec, RevocationLeavesAnAdmin

(* An operation of Roles dresses nobody in a role that is not held.        *)
LEMMA OperationDresses ==
  ASSUME TypeOK, RoleOperation \/ UNCHANGED roleVars
  PROVE  Misdressed' \subseteq Misdressed
<1>1. ASSUME NEW u \in Users, NEW r \in Grantable, Grant(u, r)
      PROVE  Misdressed' \subseteq Misdressed
  BY <1>1 DEF Grant, Misdressed, TypeOK
<1>2. ASSUME NEW u \in Users, NEW r \in Grantable, Revoke(u, r)
      PROVE  Misdressed' \subseteq Misdressed
  BY <1>2 DEF Revoke, Misdressed, TypeOK
<1>3. ASSUME NEW u \in Users, NEW r \in Wearable, Switch(u, r)
      PROVE  Misdressed' \subseteq Misdressed
  BY <1>3 DEF Switch, Misdressed, TypeOK
<1>4. CASE UNCHANGED roleVars
  BY <1>4 DEF roleVars, Misdressed
<1> QED
  BY <1>1, <1>2, <1>3, <1>4 DEF RoleOperation

(* Whoever wears ADVISOR without holding it was dressed by the site        *)
(* (OnlyTheSiteMisdresses).                                                *)
THEOREM SwitchesDressRight == Spec => OnlyTheSiteMisdresses
<1>1. TypeOK /\ RoleIInv /\ [Next]_vars => [Misdressed' \subseteq Misdressed \/ SiteAction]_vars
  BY WorkerEffect, OperationDresses DEF Next
<1> QED
  BY <1>1, RoleInvariance, PTL DEF Spec, OnlyTheSiteMisdresses
=============================================================================
