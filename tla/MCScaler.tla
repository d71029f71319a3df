------------------------------ MODULE MCScaler ------------------------------
(* Instances of Scaler for TLC. *)
EXTENDS ScalerInv, TLC

\* Jobs are interchangeable (safety runs only).
JobSymmetry == Permutations(Jobs)
=============================================================================
