------------------------------ MODULE MCRoles ------------------------------
(* RoleTransactions for TLC.  Workers are interchangeable, and so are users*)
(* as far as Superusers and SiteUsers do not tell them apart.              *)
EXTENDS RoleTransactions, TLC

SameKind(p) == \A S \in {Superusers, SiteUsers} : \A u \in Users : u \in S <=> p[u] \in S

Symmetry == Permutations(Workers) \cup {p \in Permutations(Users) : SameKind(p)}
=============================================================================
