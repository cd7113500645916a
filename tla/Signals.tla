------------------------------ MODULE Signals ------------------------------
(***************************************************************************)
(* The pure half of attendanceVerification.service.js: how one reading is  *)
(* folded into a student's signal row, when a row counts as evidence, and  *)
(* when the two rows together verify a student.                            *)
(*                                                                         *)
(* A score (match distance or RSSI) is abstracted to `good`: does it pass  *)
(* its threshold.  Smoothing is the mean of the newest reading and the old *)
(* score, so two scores on one side of the threshold stay there and a      *)
(* mixed pair can land on either side.  A row is missing iff hits = 0: a   *)
(* stored row always has at least one hit.                                 *)
(***************************************************************************)
EXTENDS Naturals

CONSTANTS
  Window,   \* cfg.windowMs: how long a reading stays fresh
  MinHits   \* cfg.minHits: sightings in a row that a signal needs

ASSUME SignalsAssumption == /\ Window \in Nat
                            /\ MinHits \in Nat \ {0}

Kinds == {"face", "ble"}

\* The kind the other half of a pair has.
OtherKind(kind) == IF kind = "face" THEN "ble" ELSE "face"

SignalRow == [good : BOOLEAN, hits : 0..MinHits, at : Nat]

NoSignal == [good |-> FALSE, hits |-> 0, at |-> 0]

\* now - prev.lastSeenAt <= windowMs; true as well of a row stamped after now.
Fresh(row, now) == now <= row.at + Window

\* One sighting more in the run; past MinHits nobody asks how many there were.
OneMore(hits) == IF hits < MinHits THEN hits + 1 ELSE hits

\* The camera passes on confident matches only (isConfidentMatch); the gateway
\* passes on any reading of a tag.
MayBeRead(kind, good) == kind = "face" => good

\* The rows a reading may leave: it continues the run of a fresh row, smoothing
\* the score, or starts a run of its own.
MergeSignal(prev, good, now) ==
  IF prev.hits > 0 /\ Fresh(prev, now)
  THEN { [good |-> g, hits |-> OneMore(prev.hits), at |-> now] : g \in {prev.good, good} }
  ELSE { [good |-> good, hits |-> 1, at |-> now] }

\* Mutation: a single stray reading is enough.
IsSignalPresentAtOnce(row, now) == row.hits > 0 /\ Fresh(row, now) /\ row.good

\* Fresh, seen often enough in a row, and good enough.
IsSignalPresent(row, now) ==
  /\ row.hits > 0
  /\ Fresh(row, now)
  /\ row.hits >= MinHits
  /\ row.good

\* evaluate: "verified" only when both signals are present at the same instant.
Verified(face, ble, now) ==
  /\ IsSignalPresent(face, now)
  /\ IsSignalPresent(ble, now)

=============================================================================
