--------------------------- MODULE MCGatewayCache ---------------------------
(* Instances of GatewayCache for TLC. *)
EXTENDS GatewayCache, TLC
MCSymmetry == Permutations(Handler)
=============================================================================
