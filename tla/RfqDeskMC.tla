------------------------------ MODULE RfqDeskMC ------------------------------
(* Small instances of RfqDesk for TLC. *)
EXTENDS RfqDesk, TLC

\* Requests, RFQs and products are interchangeable: sound for the safety runs.
Symmetry ==
    Permutations(Requests) \cup Permutations(Rfqs) \cup Permutations(Products)
=============================================================================
