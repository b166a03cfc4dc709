----------------------- MODULE MCProvisioningAccess -----------------------
(* ProvisioningAccess for TLC: it is finite as it stands.                  *)
EXTENDS ProvisioningAccess

=============================================================================
