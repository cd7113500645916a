-------------------------- MODULE MCFaceEnrollment --------------------------
(***************************************************************************)
(* An instance of FaceEnrollment for TLC.                                  *)
(***************************************************************************)
EXTENDS FaceEnrollment, TLC

Symmetry == Permutations(Students) \cup Permutations(Requests)

=============================================================================
