---------------------------- MODULE MCAdminForms ----------------------------
(* AdminForms for TLC.  Workers, texts and bodies are interchangeable.     *)
EXTENDS AdminForms, TLC

Symmetry == Permutations(Workers) \cup Permutations(Texts) \cup Permutations(Bodies)
=============================================================================
