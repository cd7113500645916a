---------------------------- MODULE MCAttendance ----------------------------
(***************************************************************************)
(* Instances of Attendance for TLC: requests are interchangeable.          *)
(***************************************************************************)
EXTENDS Attendance, TLC

Symmetry == Permutations(Requests)

=============================================================================
