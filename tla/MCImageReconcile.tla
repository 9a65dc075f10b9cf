--------------------------- MODULE MCImageReconcile ---------------------------
(* Instances of ImageReconcile for TLC. *)
EXTENDS ImageReconcile, TLC

\* The host's images are interchangeable, job IDs and times are not.
Symmetry == Permutations(ImageRef)
=============================================================================
