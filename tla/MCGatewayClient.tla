--------------------------- MODULE MCGatewayClient ---------------------------
(* GatewayClient with the symmetries of its callers and sockets.            *)
EXTENDS GatewayClient, TLC

GatewaySymmetry == Permutations(Runners) \cup Permutations(Readers) \cup Permutations(Sockets)
=============================================================================
