--------------------------- MODULE MCAdvisorRole ----------------------------
(* AdvisorRole for TLC.                                                    *)
EXTENDS AdvisorRole, TLC

Symmetry == Permutations(Workers)
=============================================================================
