-------------------------- MODULE MCReconstruction --------------------------
(* The reconstruction dialog for TLC: no action tells one folder of images *)
(* from another, and the run checks invariants only.                       *)
EXTENDS Reconstruction, TLC

ImageSymmetry == Permutations(Images)
=============================================================================
