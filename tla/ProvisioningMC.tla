--------------------------- MODULE ProvisioningMC ---------------------------
(* Small instances of Provisioning for TLC. *)
EXTENDS Provisioning, TLC

=============================================================================
