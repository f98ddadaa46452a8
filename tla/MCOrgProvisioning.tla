------------------------- MODULE MCOrgProvisioning -------------------------
(***************************************************************************)
(* Instances of OrgProvisioning for TLC.                                   *)
(***************************************************************************)
EXTENDS OrgProvisioning

CONSTANTS w1, w2
=============================================================================
