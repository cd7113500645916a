----------------------------- MODULE DayRecord -----------------------------
(***************************************************************************)
(* The attendance record of one student for one school day, and what each  *)
(* of its writers does to it: the automatic verification, the teachers'    *)
(* edits, the manual pickup and the pickup watch.                          *)
(*                                                                         *)
(* Timestamps are abstracted to whether they are set.  `by` is a history   *)
(* field: who wrote the status last.                                       *)
(***************************************************************************)
CONSTANTS Students   \* the students of the day

ASSUME StudentsAssumption == Students # {}

Statuses == {"present", "absent", "excused"}

Records == [status  : Statuses \cup {"none"},
            arrived : BOOLEAN,
            picked  : BOOLEAN,
            auto    : BOOLEAN,
            by      : {"nobody", "hand", "system"}]

\* No row yet for the day: a blank stays blank until somebody decides.
NoRecord == [status |-> "none", arrived |-> FALSE, picked |-> FALSE,
             auto |-> FALSE, by |-> "nobody"]

\* Mutation: a status the enum no longer has.
HandMarkedLate(status) ==
  [status |-> IF status = "excused" THEN "late" ELSE status,
   arrived |-> status = "present", picked |-> FALSE, auto |-> FALSE, by |-> "hand"]

\* What a teacher's edit of today leaves: the status is asserted from scratch,
\* with an arrival time iff it is "present", and an earlier pickup is cleared.
HandMarked(status) ==
  [status |-> status, arrived |-> status = "present", picked |-> FALSE,
   auto |-> FALSE, by |-> "hand"]

\* Mutation: only a present record is safe from the automatic verification.
VerifiableUnlessPresent(record) == record.status # "present"

\* The automatic verification writes only over nothing, or over "absent".
Verifiable(record) == record.status \in {"none", "absent"}

\* What the automatic verification leaves.
SystemMarked ==
  [status |-> "present", arrived |-> TRUE, picked |-> FALSE, auto |-> FALSE,
   by |-> "system"]

\* Arrived and still here, as far as the record says.
StillHere(record) == record.status = "present" /\ record.arrived /\ ~record.picked

PickedUp(record, auto) == [record EXCEPT !.picked = TRUE, !.auto = auto]

PutBack(record) == [record EXCEPT !.picked = FALSE, !.auto = FALSE]

=============================================================================
