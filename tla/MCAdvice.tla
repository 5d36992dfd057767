------------------------------ MODULE MCAdvice ------------------------------
(* Advice for TLC.  The workers, the bodies, the keys of each table and    *)
(* the advisors are interchangeable with any other of their kind.          *)
EXTENDS Advice, TLC

Symmetry == Permutations(AssignmentIds) \cup Permutations(AdviceIds)
              \cup Permutations(Advisors) \cup Permutations(Workers)
              \cup Permutations(Texts) \cup Permutations(Bodies)
=============================================================================
