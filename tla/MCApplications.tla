--------------------------- MODULE MCApplications ---------------------------
(* Applications for TLC.  Workers, keys and names are interchangeable.     *)
EXTENDS Applications, TLC

Symmetry == Permutations(Workers) \cup Permutations(AppIds) \cup Permutations(Names)
=============================================================================
