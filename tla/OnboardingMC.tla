---------------------------- MODULE OnboardingMC ----------------------------
(* Small instances of Onboarding for TLC. *)
EXTENDS Onboarding, TLC

\* Nothing in Onboarding tells one id from another.
Symmetry ==
    Permutations(Tenants) \cup Permutations(Emails) \cup Permutations(Requests)
=============================================================================
