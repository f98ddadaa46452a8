----------------------- MODULE MCStripeSubscriptions -----------------------
(***************************************************************************)
(* Instances of StripeSubscriptions for TLC.                               *)
(***************************************************************************)
EXTENDS StripeSubscriptions

CONSTANTS l1, l2, h1, h2
=============================================================================
