-------------------------- MODULE MCClockOfSilence --------------------------
(***************************************************************************)
(* An instance of ClockOfSilence for TLC with the durations of the code,   *)
(* in steps of two seconds, which is one scan.  A reply takes no longer    *)
(* than that: the network is a good one.                                   *)
(***************************************************************************)
EXTENDS ClockOfSilence

MCTags == 1..1

=============================================================================
