------------------------------ MODULE MCEnvLink ------------------------------
(* EnvLink with one variable per route.                                      *)
EXTENDS EnvLink, TLC

CONSTANTS r1, r2, f1, u1
MCRoutes == {r1, r2}
MCVarOf == [r \in MCRoutes |-> r]
MCSymmetry == Permutations(MCRoutes)
=============================================================================
