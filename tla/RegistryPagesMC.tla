--------------------------- MODULE RegistryPagesMC ---------------------------
(* Small instances of RegistryPages for TLC. *)
EXTENDS RegistryPages, TLC

\* Nothing in RegistryPages tells one id from another.
Symmetry == Permutations(Tenants) \cup Permutations(Apps) \cup Permutations(Calls)
=============================================================================
