------------------------- MODULE MCProviderRequests -------------------------
(***************************************************************************)
(* Instances of ProviderRequests for TLC.                                  *)
(***************************************************************************)
EXTENDS ProviderRequests
=============================================================================
