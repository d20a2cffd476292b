-------------------------- MODULE TenantSessionsMC --------------------------
(* Small instances of TenantSessions for TLC. *)
EXTENDS TenantSessions, TLC

\* Nothing in TenantSessions tells one id from another.
Symmetry ==
    Permutations(Tenants) \cup Permutations(Passwords)
        \cup Permutations(Tabs) \cup Permutations(Calls)
=============================================================================
