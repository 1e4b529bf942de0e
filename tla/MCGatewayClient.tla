-------------------------- MODULE MCGatewayClient --------------------------
(* GatewayClient for TLC: one client, or two that share the cache file.     *)
EXTENDS GatewayClient, TLC

CONSTANTS p1, p2

ProcSymmetry == Permutations(Procs)

=============================================================================
