---------------------------- MODULE AdvisorRole -----------------------------
(***************************************************************************)
(* #24's check that the user to be assigned holds the ADVISOR role         *)
(* (concerns/services.py), next to the grants and revocations of that role *)
(* (accounts/services.py #42, #43; Roles has them in full).  The check is  *)
(* a query before the transaction of #24, and a revocation locks the       *)
(* user's row, which #24 never does.                                       *)
(***************************************************************************)
EXTENDS Concerns

VARIABLE holds   \* users with an ADVISOR row in UserRole

roleVars == <<vars, holds>>

-----------------------------------------------------------------------------
Grant(v) == v \notin holds /\ holds' = holds \cup {v} /\ UNCHANGED vars
Revoke(v) == v \in holds /\ holds' = holds \ {v} /\ UNCHANGED vars

(* 422 unless the role is held when the request comes in.                  *)
PassesRoleCheck(w) ==
  Idle(w) /\ ~Idle(w)' /\ req'[w].op = "assign" => req'[w].advisor \in holds

RequestStep == Next /\ (\A w \in Workers : PassesRoleCheck(w)) /\ UNCHANGED holds

RoleInit == Init /\ holds = {}
RoleNext == RequestStep \/ \E v \in Advisors : Grant(v) \/ Revoke(v)
RoleSpec == RoleInit /\ [][RoleNext]_roleVars

-----------------------------------------------------------------------------
(* What #24 says of itself and does not do (see the README): a user who is *)
(* not an advisor is refused, whatever is revoked while it runs.           *)
NewAssigneeIsAdvisor ==
  [][\A a \in AssignmentIds :
       assignment[a] = None /\ assignment'[a] # None
         => assignment'[a].advisor \in holds]_roleVars
=============================================================================
