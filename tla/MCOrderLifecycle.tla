-------------------------- MODULE MCOrderLifecycle --------------------------
(* A small instance of OrderLifecycle for TLC.                             *)
EXTENDS OrderLifecycle, TLC

(* Sessions are interchangeable.                                           *)
SessionSymmetry == Permutations(Sessions)
=============================================================================
