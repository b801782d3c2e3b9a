----------------------------- MODULE MCLifecycle -----------------------------
(* Instances of Lifecycle for TLC. *)
EXTENDS Lifecycle, TLC

(* The workers are interchangeable. *)
Symmetry == Permutations(Workers)
=============================================================================
