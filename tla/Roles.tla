------------------------------- MODULE Roles -------------------------------
(***************************************************************************)
(* What the API promises about roles (ADR-003, docs/model.md 5): an        *)
(* account holds USER always, ADVISOR and ADMIN while it has the row, and  *)
(* wears one role it holds; a revocation never takes the last active       *)
(* administrator; every change of what is held leaves one audit row.       *)
(* Every operation is one indivisible step.  The site may freeze and thaw  *)
(* accounts and set the worn role by hand.                                 *)
(***************************************************************************)
EXTENDS Naturals, Sequences

CONSTANTS
  Users           \* accounts

VARIABLES
  holds,          \* roles held with a row:  [Users -> SUBSET Grantable]
  worn,           \* active_role:            [Users -> Wearable]
  active,         \* is_active:              [Users -> BOOLEAN]
  audit           \* the RoleGrant rows:     [Users -> [Grantable -> Seq(Change)]]

roleVars == <<holds, worn, active, audit>>

Grantable == {"ADVISOR", "ADMIN"}
Wearable == {"USER", "ADVISOR"}
Change == {"GRANT", "REVOKE"}

Record(u, r, change) == audit' = [audit EXCEPT ![u][r] = Append(@, change)]

(* createsuperuser makes administrators and writes no audit row; everybody *)
(* else starts with nothing.                                               *)
RolesInit ==
  /\ holds \in [Users -> {{}, {"ADMIN"}}]
  /\ \E u \in Users : holds[u] = {"ADMIN"}
  /\ worn = [u \in Users |-> "USER"]
  /\ active = [u \in Users |-> TRUE]
  /\ audit = [u \in Users |-> [r \in Grantable |-> <<>>]]

Switch(u, r) ==
  /\ r \in holds[u] \cup {"USER"}
  /\ worn' = [worn EXCEPT ![u] = r]
  /\ UNCHANGED <<holds, active, audit>>

Grant(u, r) ==
  /\ r \notin holds[u]
  /\ holds' = [holds EXCEPT ![u] = @ \cup {r}]
  /\ Record(u, r, "GRANT")
  /\ UNCHANGED <<worn, active>>

ActiveAdmins == {u \in Users : "ADMIN" \in holds[u] /\ active[u]}

Revoke(u, r) ==
  /\ r \in holds[u]
  /\ r = "ADMIN" => u \in ActiveAdmins /\ ActiveAdmins # {u}
  /\ holds' = [holds EXCEPT ![u] = @ \ {r}]
  /\ worn' = IF r = "ADVISOR" /\ worn[u] = "ADVISOR"
             THEN [worn EXCEPT ![u] = "USER"] ELSE worn
  /\ Record(u, r, "REVOKE")
  /\ UNCHANGED active

SetActive(u, b) == active' = [active EXCEPT ![u] = b] /\ UNCHANGED <<holds, worn, audit>>
SetWorn(u, r) == worn' = [worn EXCEPT ![u] = r] /\ UNCHANGED <<holds, active, audit>>

RolesNext ==
  \E u \in Users :
    \/ \E r \in Grantable : Grant(u, r) \/ Revoke(u, r)
    \/ \E r \in Wearable : Switch(u, r) \/ SetWorn(u, r)
    \/ \E b \in BOOLEAN : SetActive(u, b)

RolesSpec == RolesInit /\ [][RolesNext]_roleVars
=============================================================================
