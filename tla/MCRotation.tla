----------------------------- MODULE MCRotation -----------------------------
(* Rotation for TLC: processes are interchangeable. *)
EXTENDS Rotation, TLC

Symmetry == Permutations(Procs)
=============================================================================
