---------------------------- MODULE DayContract ----------------------------
(***************************************************************************)
(* The contract of everything that writes a day's attendance records.      *)
(* Each writer changes a record in one atomic database statement; the      *)
(* contract says which change each may make, and from which record.        *)
(* Attendance and PickupWatch are both shown to implement it.              *)
(***************************************************************************)
EXTENDS DayRecord

VARIABLE rec   \* rec[s]: the record of student s for the day

TypeOK == rec \in [Students -> Records]

Init == rec = [s \in Students |-> NoRecord]

\* Both signals were seen: the student is here.
SystemArrives(s) ==
  /\ Verifiable(rec[s])
  /\ rec' = [rec EXCEPT ![s] = SystemMarked]

\* A teacher or an admin sets the status of any number of students at once.
HandMarks(marks) ==
  rec' = [s \in Students |->
            IF s \in DOMAIN marks THEN HandMarked(marks[s]) ELSE rec[s]]

\* A teacher says the student was picked up.
HandPicksUp(s) ==
  /\ rec[s].status # "none"
  /\ rec' = [rec EXCEPT ![s] = PickedUp(@, FALSE)]

\* The pickup watch decides so for itself.
WatchPicksUp(s) ==
  /\ StillHere(rec[s])
  /\ rec' = [rec EXCEPT ![s] = PickedUp(@, TRUE)]

\* A student the watch had marked was seen again.
WatchPutsBack(s) ==
  /\ rec[s].picked /\ rec[s].auto
  /\ rec' = [rec EXCEPT ![s] = PutBack(@)]

Next ==
  \/ \E s \in Students : \/ SystemArrives(s)
                         \/ HandPicksUp(s)
                         \/ WatchPicksUp(s)
                         \/ WatchPutsBack(s)
  \/ \E group \in SUBSET Students : \E marks \in [group -> Statuses] : HandMarks(marks)

Spec == Init /\ [][Next]_rec

=============================================================================
