--------------------------- MODULE MCNotifications --------------------------
(* Notifications for TLC.  Workers, users and keys are interchangeable.    *)
EXTENDS Notifications, TLC

Symmetry == Permutations(Workers) \cup Permutations(Users) \cup Permutations(Ids)
=============================================================================
