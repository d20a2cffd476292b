---------------------------- MODULE TenantPagesMC ----------------------------
(* Small instances of TenantPages for TLC. *)
EXTENDS TenantPages, TLC

\* Nothing in TenantPages tells one id from another.
Symmetry == Permutations(Rfqs) \cup Permutations(Products) \cup Permutations(Calls)
=============================================================================
