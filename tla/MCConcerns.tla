----------------------------- MODULE MCConcerns -----------------------------
(* Concerns for TLC.  A request of the workers, of an advisor, of a text   *)
(* and of a key are interchangeable with any other of its kind.            *)
EXTENDS Concerns, TLC

Symmetry == Permutations(AssignmentIds) \cup Permutations(Advisors)
              \cup Permutations(Workers) \cup Permutations(Texts)
=============================================================================
