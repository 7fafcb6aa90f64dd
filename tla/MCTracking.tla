----------------------------- MODULE MCTracking -----------------------------
(* Tracking with interchangeable processes and providers.                    *)
EXTENDS Tracking, TLC

MCSymmetry == Permutations(Actors) \cup Permutations(Routes)
=============================================================================
