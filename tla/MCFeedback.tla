----------------------------- MODULE MCFeedback -----------------------------
(* Feedback and Visibility together, for TLC.  The keys of each table, the *)
(* advisors, workers, texts, bodies and administrators are interchangeable *)
(* with any other of their kind.                                           *)
EXTENDS Feedback, Visibility, TLC

Symmetry == Permutations(AssignmentIds) \cup Permutations(AdviceIds)
              \cup Permutations(Advisors) \cup Permutations(Workers)
              \cup Permutations(Texts) \cup Permutations(Bodies)
              \cup Permutations(Admins)
=============================================================================
