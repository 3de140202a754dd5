----------------------------- MODULE MCLifecycle -----------------------------
(* Instances of Lifecycle for TLC. *)
EXTENDS Lifecycle, TLC

(* The passes within a daemon are interchangeable.                         *)
Interchangeable == Permutations(Handler)
=============================================================================
