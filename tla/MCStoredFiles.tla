--------------------------- MODULE MCStoredFiles ----------------------------
(***************************************************************************)
(* An instance of StoredFiles for TLC.                                     *)
(***************************************************************************)
EXTENDS StoredFiles, TLC

Symmetry == Permutations(Requests)

=============================================================================
