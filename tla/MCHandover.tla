----------------------------- MODULE MCHandover -----------------------------
(* Handover for TLC: versions are interchangeable. *)
EXTENDS Handover, TLC

Symmetry == Permutations(Versions)
=============================================================================
