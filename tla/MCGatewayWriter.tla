-------------------------- MODULE MCGatewayWriter --------------------------
(* GatewayWriter on a small instance; records are interchangeable.         *)
EXTENDS GatewayWriter, TLC

\* Only for runs without temporal properties.
Symmetry == Permutations(Records)
=============================================================================
