----------------------- MODULE MCProvisioningService -----------------------
(***************************************************************************)
(* Two streams, two logins and both tasks that stop the service.           *)
(***************************************************************************)
EXTENDS ProvisioningService
=============================================================================
