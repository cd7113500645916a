--------------------------- MODULE MCLiveSessions ---------------------------
(***************************************************************************)
(* An instance of LiveSessions for TLC: a day of four units with a pickup  *)
(* window of two in the middle.                                            *)
(***************************************************************************)
EXTENDS LiveSessions, TLC

MCWindows == {[from |-> 1, to |-> 3]}

Symmetry == Permutations(Starters)

=============================================================================
