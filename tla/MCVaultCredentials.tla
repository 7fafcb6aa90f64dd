------------------------- MODULE MCVaultCredentials -------------------------
(* Processes and credentials are interchangeable. *)
EXTENDS VaultCredentials, TLC

Symmetry == Permutations(Procs) \cup Permutations(Creds)
=============================================================================
