----------------------------- MODULE MCAccounts -----------------------------
(* Accounts for TLC.  Workers, addresses, Google accounts and session keys *)
(* are interchangeable with any other of their kind.                       *)
EXTENDS Accounts, TLC

Symmetry == Permutations(Workers) \cup Permutations(Emails)
              \cup Permutations(Subs) \cup Permutations(Sessions)
=============================================================================
