------------------------- MODULE MCTenantConfigCache -------------------------
(***************************************************************************)
(* Instances of TenantConfigCache for TLC.                                 *)
(***************************************************************************)
EXTENDS TenantConfigCache
=============================================================================
