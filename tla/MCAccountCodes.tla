--------------------------- MODULE MCAccountCodes ---------------------------
(***************************************************************************)
(* Instances of AccountCodes for TLC: requests are interchangeable.        *)
(***************************************************************************)
EXTENDS AccountCodes, TLC

Symmetry == Permutations(Requests)

=============================================================================
