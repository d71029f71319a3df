---------------------------- MODULE MCReconciler ----------------------------
(* Instances of Reconciler for TLC. *)
EXTENDS Reconciler, TLC

\* Jobs are interchangeable (safety runs only).
JobSymmetry == Permutations(Jobs)
==============================================================================
