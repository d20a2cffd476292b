--------------------------- MODULE AdminAccountsMC ---------------------------
(* Small instances of AdminAccounts for TLC. *)
EXTENDS AdminAccounts, TLC

\* Nothing in AdminAccounts tells one id from another.
Symmetry == Permutations(Admins) \cup Permutations(Desks) \cup Permutations(Calls)
=============================================================================
