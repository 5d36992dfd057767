---------------------------- MODULE MCVisibility ----------------------------
(* Visibility for TLC.                                                     *)
EXTENDS Visibility, TLC

Symmetry == Permutations(AssignmentIds) \cup Permutations(AdviceIds)
              \cup Permutations(Advisors) \cup Permutations(Workers)
              \cup Permutations(Texts) \cup Permutations(Bodies)
=============================================================================
