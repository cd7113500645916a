-------------------------- MODULE AttendanceProofs --------------------------
(***************************************************************************)
(* What Attendance promises for every number of students, requests and     *)
(* readings, whatever the verification window and MinHits.                 *)
(***************************************************************************)
EXTENDS Attendance, TLAPS

----------------------------------------------------------------------------
(* Lemmas about the operators *)

\* A merged row is stamped with the reading's instant and is at most one
\* sighting ahead of the row it continues (mergeSignal).
LEMMA MergeSignalResult ==
  ASSUME NEW prev \in SignalRow, NEW good \in BOOLEAN, NEW now \in Nat,
         NEW row \in MergeSignal(prev, good, now)
  PROVE  /\ row \in SignalRow
         /\ row.at = now
         /\ row.hits <= prev.hits + 1
  BY SignalsAssumption DEF MergeSignal, OneMore, SignalRow, Fresh

LEMMA IdleIsRequest == Idle \in Request
  BY SignalsAssumption, StudentsAssumption
     DEF Idle, Request, Steps, Kinds, SignalRow, NoSignal, Marks, NoMarks, Statuses

\* Only a row with MinHits sightings is evidence (isSignalPresent).
LEMMA VerifiedHits ==
  ASSUME NEW face \in SignalRow, NEW ble \in SignalRow, NEW now \in Nat,
         Verified(face, ble, now)
  PROVE  face.hits = MinHits /\ ble.hits = MinHits
  BY SignalsAssumption DEF Verified, IsSignalPresent, SignalRow

LEMMA RecordsOfWriters ==
  /\ \A status \in Statuses : HandMarked(status) \in Records
  /\ SystemMarked \in Records
  /\ \A record \in Records, auto \in BOOLEAN : PickedUp(record, auto) \in Records
  /\ \A record \in Records : PutBack(record) \in Records
  BY DEF Records, Statuses, HandMarked, SystemMarked, PickedUp, PutBack

\* A pickup, or its undo, leaves the status and who wrote it as they were.
LEMMA PickupKeepsStatus ==
  ASSUME NEW record \in Records, NEW auto \in BOOLEAN
  PROVE  /\ PickedUp(record, auto).status = record.status
         /\ PickedUp(record, auto).by = record.by
         /\ PutBack(record).status = record.status
         /\ PutBack(record).by = record.by
  BY DEF Records, PickedUp, PutBack

LEMMA OneMoreNotice ==
  ASSUME NEW n \in [Students -> Notices], NEW s \in Students
  PROVE  /\ [n EXCEPT ![s].system = @ + 1] \in [Students -> Notices]
         /\ [n EXCEPT ![s].hand = @ + 1] \in [Students -> Notices]
         /\ [n EXCEPT ![s].pickup = @ + 1] \in [Students -> Notices]
  BY DEF Notices

LEMMA NextStep ==
  ASSUME NEW q \in [Requests -> Request], NEW r \in Requests, NEW step \in Steps
  PROVE  [q EXCEPT ![r].step = step] \in [Requests -> Request]
  BY DEF Request

----------------------------------------------------------------------------
(* Types *)

LEMMA InitTypeOK == Init => TypeOK
  <1> SUFFICES ASSUME Init PROVE TypeOK
    OBVIOUS
  <1>1. req \in [Requests -> Request]
    BY IdleIsRequest DEF Init
  <1> QED
    BY <1>1, SignalsAssumption
       DEF Init, TypeOK, NoSignal, SignalRow, Records, NoRecord, Notices, Statuses

LEMMA NextTypeOK == TypeOK /\ [Next]_vars => TypeOK'
  <1> SUFFICES ASSUME TypeOK, [Next]_vars PROVE TypeOK'
    OBVIOUS
  <1> USE DEF TypeOK
  <1> USE IdleIsRequest
  <1>1. ASSUME NEW r \in Requests, NEW s \in Students, NEW kind \in Kinds,
               NEW good \in BOOLEAN, NEW now \in 0..clock,
               ReadOwnSignal(r, s, kind, good, now)
        PROVE  TypeOK'
    <2>1. PICK row \in MergeSignal(sig[s][kind], good, now) :
            Begin(r, [Idle EXCEPT !.step = "sight_write", !.student = s, !.kind = kind,
                                  !.row = row])
      BY <1>1 DEF ReadOwnSignal
    <2>2. row \in SignalRow
      BY MergeSignalResult
    <2>3. [Idle EXCEPT !.step = "sight_write", !.student = s, !.kind = kind, !.row = row]
            \in Request
      BY <2>2 DEF Request, Steps
    <2> QED
      BY <1>1, <2>1, <2>3 DEF ReadOwnSignal, Begin, Count, history
  <1>2. ASSUME NEW r \in Requests, NEW s \in Students, NEW status \in Statuses,
               Edit(r, s, status)
        PROVE  TypeOK'
    <2>1. [NoMarks EXCEPT ![s] = status] \in Marks
      BY DEF NoMarks, Marks
    <2>2. [Idle EXCEPT !.step = "edit_write", !.student = s,
                       !.marks = [NoMarks EXCEPT ![s] = status],
                       !.already = status = "present" /\ rec[s].status = "present"]
            \in Request
      BY <2>1 DEF Request, Steps
    <2> QED
      BY <1>2, <2>2 DEF Edit, Begin, Count, history
  <1>3. ASSUME NEW r \in Requests, NEW s \in Students, Pickup(r, s)
        PROVE  TypeOK'
    <2>1. [Idle EXCEPT !.step = "pickup_write", !.student = s] \in Request
      BY DEF Request, Steps
    <2> QED
      BY <1>3, <2>1 DEF Pickup, Begin, Count, history
  <1>4. ASSUME NEW r \in Requests, NEW entries \in Marks, Bulk(r, entries)
        PROVE  TypeOK'
    <2> DEFINE marks == [s \in Students |->
                           IF rec[s].status = entries[s] THEN "none" ELSE entries[s]]
    <2>1. marks \in Marks
      BY DEF Marks
    <2>2. [Idle EXCEPT !.step = "bulk_write", !.marks = marks] \in Request
      BY <2>1 DEF Request, Steps
    <2> QED
      BY <1>4, <2>2 DEF Bulk, Begin, Count, history
  <1>5. ASSUME NEW r \in Requests, WriteOwnSignal(r)
        PROVE  TypeOK'
    <2>1. /\ req[r].student \in Students /\ req[r].kind \in Kinds
          /\ req[r].row \in SignalRow
      BY DEF Request
    <2>2. sig' \in [Students -> [Kinds -> SignalRow]]
      BY <1>5, <2>1 DEF WriteOwnSignal
    <2>3. seen' \in [Students -> [Kinds -> Nat]]
      BY <1>5, <2>1 DEF WriteOwnSignal
    <2>4. req' \in [Requests -> Request]
      BY <1>5, NextStep DEF WriteOwnSignal, Steps
    <2> QED
      BY <1>5, <2>2, <2>3, <2>4 DEF WriteOwnSignal
  <1>6. ASSUME NEW r \in Requests, ReadOtherSignal(r)
        PROVE  TypeOK'
    <2>1. req' \in [Requests -> Request]
      <3>1. CASE req' = [req EXCEPT ![r].step = "sight_mark"]
        BY <3>1, NextStep DEF Steps
      <3>2. CASE Done(r)
        BY <3>2 DEF Done
      <3> QED
        BY <1>6, <3>1, <3>2 DEF ReadOtherSignal
    <2> QED
      BY <1>6, <2>1 DEF ReadOtherSignal, history
  <1>7. ASSUME NEW r \in Requests, MarkVerified(r)
        PROVE  TypeOK'
    <2>1. req[r].student \in Students
      BY DEF Request
    <2>2. rec' \in [Students -> Records] /\ ev' \in [Students -> BOOLEAN]
      BY <1>7, <2>1, RecordsOfWriters DEF MarkVerified
    <2>3. notices' \in [Students -> Notices]
      <3>1. CASE notices' = [notices EXCEPT ![req[r].student].system = @ + 1]
        BY <3>1, <2>1, OneMoreNotice
      <3> QED
        BY <1>7, <3>1 DEF MarkVerified
    <2> QED
      BY <1>7, <2>2, <2>3 DEF MarkVerified, Done
  <1>8. ASSUME NEW r \in Requests, WriteMarks(r)
        PROVE  rec' \in [Students -> Records] /\ away' \in [Students -> Nat]
    <2>1. req[r].marks \in Marks
      BY DEF Request
    <2>2. \A s \in Marked(r) : req[r].marks[s] \in Statuses
      BY <2>1 DEF Marked, Marks
    <2> QED
      BY <1>8, <2>2, RecordsOfWriters DEF WriteMarks
  <1>9. ASSUME NEW r \in Requests, EditWrite(r)
        PROVE  TypeOK'
    <2>1. req' \in [Requests -> Request]
      BY <1>9, NextStep DEF EditWrite, Steps
    <2> QED
      BY <1>8, <1>9, <2>1 DEF EditWrite
  <1>10. ASSUME NEW r \in Requests, EditDropEvidence(r)
         PROVE  TypeOK'
    <2>1. req[r].student \in Students
      BY DEF Request
    <2>2. notices' \in [Students -> Notices]
      BY <1>10, <2>1, OneMoreNotice DEF EditDropEvidence
    <2> QED
      BY <1>10, <2>2 DEF EditDropEvidence, DropEvidence, Done
  <1>11. ASSUME NEW r \in Requests, BulkWrite(r)
         PROVE  TypeOK'
    <2>1. req' \in [Requests -> Request]
      <3>1. CASE Done(r)
        BY <3>1 DEF Done
      <3>2. CASE req' = [req EXCEPT ![r].step = "bulk_evidence"]
        BY <3>2, NextStep DEF Steps
      <3> QED
        BY <1>11, <3>1, <3>2 DEF BulkWrite
    <2> QED
      BY <1>8, <1>11, <2>1 DEF BulkWrite
  <1>12. ASSUME NEW r \in Requests, BulkDropEvidence(r)
         PROVE  TypeOK'
    BY <1>12 DEF BulkDropEvidence, DropEvidence, Done
  <1>13. ASSUME NEW r \in Requests, PickupWrite(r)
         PROVE  TypeOK'
    <2>1. req[r].student \in Students
      BY DEF Request
    <2>2. rec' \in [Students -> Records]
      BY <1>13, <2>1, RecordsOfWriters DEF PickupWrite
    <2>3. notices' \in [Students -> Notices]
      BY <1>13, <2>1, OneMoreNotice DEF PickupWrite
    <2> QED
      BY <1>13, <2>2, <2>3 DEF PickupWrite, Done
  <1>14. ASSUME NEW r \in Requests, Fail(r)
         PROVE  TypeOK'
    <2>1. /\ undecided' \in [Students -> BOOLEAN]
          /\ torn' \in [Students -> BOOLEAN]
      BY <1>14 DEF Fail
    <2> QED
      BY <1>14, <2>1 DEF Fail, Count, Done
  <1>15. ASSUME NEW s \in Students, WatchPicksUp(s)
         PROVE  TypeOK'
    <2>1. rec' \in [Students -> Records]
      BY <1>15, RecordsOfWriters DEF WatchPicksUp
    <2>2. notices' \in [Students -> Notices]
      BY <1>15, OneMoreNotice DEF WatchPicksUp
    <2>3. /\ used' \in Nat
          /\ UNCHANGED <<clock, sig, ev, req, seen, away, undecided, torn>>
      BY <1>15 DEF WatchPicksUp, Count
    <2> QED
      BY <1>15, <2>1, <2>2, <2>3
  <1>16. ASSUME NEW s \in Students, WatchPutsBack(s)
         PROVE  TypeOK'
    <2>1. rec' \in [Students -> Records]
      BY <1>16, RecordsOfWriters DEF WatchPutsBack
    <2> QED
      BY <1>16, <2>1 DEF WatchPutsBack, Count, history
  <1>17. CASE Tick
    BY <1>17 DEF Tick, history
  <1>18. CASE UNCHANGED vars
    BY <1>18 DEF vars, history
  <1> QED
    BY <1>1, <1>2, <1>3, <1>4, <1>5, <1>6, <1>7, <1>9, <1>10, <1>11, <1>12, <1>13, <1>14,
       <1>15, <1>16, <1>17, <1>18 DEF Next

\* Every variable has its type: no request ever holds a row, a mark or a step
\* that the code has no name for.
THEOREM TypeCorrect == Spec => []TypeOK
  BY InitTypeOK, NextTypeOK, PTL DEF Spec

----------------------------------------------------------------------------
(* What a step can do *)

\* The ways in which a step may change the records.
LEMMA WaysToWrite ==
  ASSUME TypeOK, [Next]_vars
  PROVE  \/ UNCHANGED rec
         \/ \E r \in Requests : MarkVerified(r)
         \/ \E r \in Requests : req[r].step \in {"edit_write", "bulk_write"} /\ WriteMarks(r)
         \/ \E r \in Requests : PickupWrite(r)
         \/ \E s \in Students : WatchPicksUp(s) \/ WatchPutsBack(s)
  BY DEF Next, vars, ReadOwnSignal, Edit, Pickup, Bulk, WriteOwnSignal, ReadOtherSignal,
         EditWrite, BulkWrite, EditDropEvidence, BulkDropEvidence, Fail, Tick

\* A request gets to a sighting or to a pickup in one way each; whatever else
\* becomes of it is an edit, or its end.
LEMMA RequestMoves ==
  ASSUME TypeOK, [Next]_vars, NEW r \in Requests, req'[r] # req[r]
  PROVE  \/ \E s \in Students, kind \in Kinds, good \in BOOLEAN, now \in 0..clock :
              ReadOwnSignal(r, s, kind, good, now)
         \/ WriteOwnSignal(r)
         \/ ReadOtherSignal(r) /\ req' = [req EXCEPT ![r].step = "sight_mark"]
         \/ \E s \in Students : Pickup(r, s)
         \/ req'[r].step \in {"idle", "edit_write", "edit_evidence",
                              "bulk_write", "bulk_evidence"}
  <1> DEFINE Elsewhere == {"idle", "edit_write", "edit_evidence",
                           "bulk_write", "bulk_evidence"}
  <1> HIDE DEF Elsewhere
  <1> USE IdleIsRequest DEF TypeOK
  \* What a step does to another request than r is not at issue.
  <1>1. ASSUME NEW q \in Requests, NEW next, req' = [req EXCEPT ![q] = next]
        PROVE  q = r /\ req'[r] = next
    BY <1>1
  <1>2. ASSUME NEW q \in Requests, NEW step \in Steps,
               req' = [req EXCEPT ![q].step = step]
        PROVE  q = r /\ req'[r].step = step
    <2>1. [req[q] EXCEPT !.step = step].step = step
      BY DEF Request
    <2> QED
      BY <1>2, <2>1
  <1>3. ASSUME NEW q \in Requests, Done(q)
        PROVE  req'[r].step \in Elsewhere
    BY <1>1, <1>3 DEF Done, Idle, Elsewhere
  <1>4. ASSUME NEW q \in Requests, NEW s \in Students, NEW kind \in Kinds,
               NEW good \in BOOLEAN, NEW now \in 0..clock,
               ReadOwnSignal(q, s, kind, good, now)
        PROVE  q = r
    BY <1>1, <1>4 DEF ReadOwnSignal, Begin
  <1>5. ASSUME NEW q \in Requests, NEW s \in Students, NEW status \in Statuses,
               Edit(q, s, status)
        PROVE  req'[r].step \in Elsewhere
    <2>1. [Idle EXCEPT !.step = "edit_write", !.student = s,
                       !.marks = [NoMarks EXCEPT ![s] = status],
                       !.already = status = "present" /\ rec[s].status = "present"].step
            = "edit_write"
      BY DEF Idle
    <2> QED
      BY <1>1, <1>5, <2>1 DEF Edit, Begin, Elsewhere
  <1>6. ASSUME NEW q \in Requests, NEW entries \in Marks, Bulk(q, entries)
        PROVE  req'[r].step \in Elsewhere
    <2> DEFINE marks == [s \in Students |->
                           IF rec[s].status = entries[s] THEN "none" ELSE entries[s]]
    <2>1. [Idle EXCEPT !.step = "bulk_write", !.marks = marks].step = "bulk_write"
      BY DEF Idle
    <2> HIDE DEF marks
    <2>2. Begin(q, [Idle EXCEPT !.step = "bulk_write", !.marks = marks])
      BY <1>6 DEF Bulk, marks
    <2> QED
      BY <1>1, <2>1, <2>2 DEF Begin, Elsewhere
  <1>7. ASSUME NEW q \in Requests, NEW s \in Students, Pickup(q, s)
        PROVE  q = r
    BY <1>1, <1>7 DEF Pickup, Begin
  <1>8. ASSUME NEW q \in Requests, WriteOwnSignal(q)
        PROVE  q = r
    BY <1>2, <1>8 DEF WriteOwnSignal, Steps
  <1>9. ASSUME NEW q \in Requests, ReadOtherSignal(q)
        PROVE  \/ q = r /\ req' = [req EXCEPT ![r].step = "sight_mark"]
               \/ req'[r].step \in Elsewhere
    BY <1>2, <1>3, <1>9 DEF ReadOtherSignal, Steps
  <1>10. ASSUME NEW q \in Requests,
                \/ MarkVerified(q)
                \/ EditWrite(q) \/ EditDropEvidence(q)
                \/ BulkWrite(q) \/ BulkDropEvidence(q)
                \/ PickupWrite(q) \/ Fail(q)
         PROVE  req'[r].step \in Elsewhere
    BY <1>2, <1>3, <1>10
       DEF MarkVerified, EditWrite, EditDropEvidence, BulkWrite, BulkDropEvidence,
           PickupWrite, Fail, Steps, Elsewhere
  <1>11. CASE UNCHANGED req
    BY <1>11
  <1>12. UNCHANGED vars \/ Tick \/ (\E s \in Students : WatchPicksUp(s) \/ WatchPutsBack(s))
         => UNCHANGED req
    BY DEF vars, WatchPicksUp, WatchPutsBack, Tick
  <1>13. [Next]_vars
    OBVIOUS
  <1> QED
    <2> USE DEF Elsewhere
    <2>1. CASE \E q \in Requests, s \in Students, kind \in Kinds, good \in BOOLEAN,
                  now \in 0..clock : ReadOwnSignal(q, s, kind, good, now)
      BY <1>4, <2>1
    <2>2. CASE \E q \in Requests, s \in Students, status \in Statuses : Edit(q, s, status)
      BY <1>5, <2>2
    <2>3. CASE \E q \in Requests, entries \in Marks : Bulk(q, entries)
      BY <1>6, <2>3
    <2>4. CASE \E q \in Requests, s \in Students : Pickup(q, s)
      BY <1>7, <2>4
    <2>5. CASE \E q \in Requests : WriteOwnSignal(q)
      BY <1>8, <2>5
    <2>6. CASE \E q \in Requests : ReadOtherSignal(q)
      BY <1>9, <2>6
    <2> QED
      BY <1>10, <1>11, <1>12, <1>13, <2>1, <2>2, <2>3, <2>4, <2>5, <2>6 DEF Next

\* No record goes away, what a hand wrote has a status, and the system enters a
\* student only by markVerified.
LEMMA RecordStays ==
  ASSUME TypeOK, [Next]_vars, NEW s \in Students
  PROVE  /\ rec[s].status # "none" => rec'[s].status # "none"
         /\ rec'[s].by = "hand" => rec[s].by = "hand" \/ rec'[s].status # "none"
         /\ rec'[s].by = "system" => \/ rec[s].by = "system"
                                    \/ \E r \in Requests : /\ MarkVerified(r)
                                                           /\ req[r].student = s
  <1> USE DEF TypeOK
  <1>1. ASSUME NEW r \in Requests, MarkVerified(r)
        PROVE  (rec'[s] = SystemMarked /\ req[r].student = s) \/ rec'[s] = rec[s]
    BY <1>1 DEF MarkVerified
  <1>2. ASSUME NEW r \in Requests, WriteMarks(r)
        PROVE  \/ rec'[s] = rec[s]
               \/ rec'[s].status # "none" /\ rec'[s].by = "hand"
    <2>1. req[r].marks[s] # "none" => req[r].marks[s] \in Statuses
      BY DEF Request, Marks
    <2> QED
      BY <1>2, <2>1 DEF WriteMarks, Marked, HandMarked, Statuses
  <1>3. ASSUME NEW t \in Students, NEW auto \in BOOLEAN,
               \/ rec' = [rec EXCEPT ![t] = PickedUp(@, auto)]
               \/ rec' = [rec EXCEPT ![t] = PutBack(@)]
        PROVE  rec'[s].status = rec[s].status /\ rec'[s].by = rec[s].by
    <2>1. CASE rec' = [rec EXCEPT ![t] = PickedUp(@, auto)]
      BY <2>1, PickupKeepsStatus
    <2>2. CASE rec' = [rec EXCEPT ![t] = PutBack(@)]
      BY <2>2, PickupKeepsStatus
    <2> QED
      BY <1>3, <2>1, <2>2
  <1>4. ASSUME NEW r \in Requests, PickupWrite(r)
        PROVE  rec'[s].status = rec[s].status /\ rec'[s].by = rec[s].by
    <2>1. req[r].student \in Students
      BY DEF Request
    <2> QED
      BY <1>3, <1>4, <2>1 DEF PickupWrite
  <1>5. ASSUME NEW t \in Students, WatchPicksUp(t) \/ WatchPutsBack(t)
        PROVE  rec'[s].status = rec[s].status /\ rec'[s].by = rec[s].by
    BY <1>3, <1>5 DEF WatchPicksUp, WatchPutsBack
  <1>6. SystemMarked.status # "none" /\ SystemMarked.by # "hand"
    BY DEF SystemMarked
  <1>7. CASE \E r \in Requests : MarkVerified(r)
    BY <1>1, <1>6, <1>7
  <1>8. CASE \E r \in Requests : WriteMarks(r)
    BY <1>2, <1>8
  <1>9. CASE \E r \in Requests : PickupWrite(r)
    BY <1>4, <1>9
  <1>10. CASE \E t \in Students : WatchPicksUp(t) \/ WatchPutsBack(t)
    BY <1>5, <1>10
  <1> QED
    BY <1>7, <1>8, <1>9, <1>10, WaysToWrite

----------------------------------------------------------------------------
(* A hand entry is never labelled verified *)

\* Request r has written a hand edit of s and has still to drop its evidence.
Owes(r, s) == req[r].step \in {"edit_evidence", "bulk_evidence"} /\ s \in Marked(r)

LEMMA HandEntryStep ==
  TypeOK /\ HandEntryNeverVerified /\ [Next]_vars => HandEntryNeverVerified'
  <1> SUFFICES ASSUME TypeOK, HandEntryNeverVerified, [Next]_vars,
                      NEW s \in Students, ev'[s], rec'[s].by = "hand", ~torn'[s]
               PROVE  \E r \in Requests : Owes(r, s)'
    BY DEF HandEntryNeverVerified, Owes
  <1> USE DEF TypeOK
  <1>1. ASSUME ev[s], rec[s].by = "hand", ~torn[s]
        PROVE  \E r \in Requests : Owes(r, s)
    BY <1>1 DEF HandEntryNeverVerified, Owes
  \* A request that owes nothing may do what it likes with its own state.
  <1>2. ASSUME NEW q \in Requests, ~Owes(q, s),
               \A r \in Requests \ {q} : req'[r] = req[r],
               ev[s], rec[s].by = "hand", ~torn[s]
        PROVE  \E r \in Requests : Owes(r, s)'
    <2>1. PICK r \in Requests : Owes(r, s)
      BY <1>1, <1>2
    <2>2. r # q /\ req'[r] = req[r]
      BY <2>1, <1>2
    <2> QED
      BY <2>1, <2>2 DEF Owes, Marked
  <1>3. ASSUME NEW r \in Requests, NEW t \in Students, NEW kind \in Kinds,
               NEW good \in BOOLEAN, NEW now \in 0..clock,
               ReadOwnSignal(r, t, kind, good, now)
        PROVE  \E q \in Requests : Owes(q, s)'
    BY <1>2, <1>3 DEF ReadOwnSignal, Begin, history, Owes
  <1>4. ASSUME NEW r \in Requests, NEW t \in Students, NEW status \in Statuses,
               Edit(r, t, status)
        PROVE  \E q \in Requests : Owes(q, s)'
    BY <1>2, <1>4 DEF Edit, Begin, history, Owes
  <1>5. ASSUME NEW r \in Requests, NEW t \in Students, Pickup(r, t)
        PROVE  \E q \in Requests : Owes(q, s)'
    BY <1>2, <1>5 DEF Pickup, Begin, history, Owes
  <1>6. ASSUME NEW r \in Requests, NEW entries \in Marks, Bulk(r, entries)
        PROVE  \E q \in Requests : Owes(q, s)'
    BY <1>2, <1>6 DEF Bulk, Begin, history, Owes
  <1>7. ASSUME NEW r \in Requests, WriteOwnSignal(r)
        PROVE  \E q \in Requests : Owes(q, s)'
    BY <1>2, <1>7 DEF WriteOwnSignal, Owes
  <1>8. ASSUME NEW r \in Requests, ReadOtherSignal(r)
        PROVE  \E q \in Requests : Owes(q, s)'
    BY <1>2, <1>8 DEF ReadOtherSignal, Done, history, Owes
  <1>9. ASSUME NEW r \in Requests, MarkVerified(r)
        PROVE  \E q \in Requests : Owes(q, s)'
    <2>1. ~Owes(r, s) /\ \A q \in Requests \ {r} : req'[q] = req[q]
      BY <1>9 DEF MarkVerified, Done, Owes
    <2>2. rec' = [rec EXCEPT ![req[r].student] = SystemMarked] => s # req[r].student
      BY DEF SystemMarked
    <2>3. ev[s] /\ rec[s].by = "hand" /\ ~torn[s]
      BY <1>9, <2>2 DEF MarkVerified
    <2> QED
      BY <1>2, <2>1, <2>3
  <1>10. ASSUME NEW r \in Requests, req[r].step \in {"edit_write", "bulk_write"},
                WriteMarks(r), UNCHANGED <<ev, torn>>,
                \/ Marked(r) = {} /\ Done(r)
                \/ \E step \in {"edit_evidence", "bulk_evidence"} :
                     req' = [req EXCEPT ![r].step = step]
         PROVE  \E q \in Requests : Owes(q, s)'
    <2>1. CASE s \in Marked(r)
      <3>1. PICK step \in {"edit_evidence", "bulk_evidence"} :
              req' = [req EXCEPT ![r].step = step]
        BY <1>10, <2>1
      <3>2. req'[r].step = step /\ req'[r].marks = req[r].marks
        BY <3>1 DEF Request
      <3> QED
        BY <2>1, <3>2 DEF Owes, Marked
    <2>2. CASE s \notin Marked(r)
      <3>1. ~Owes(r, s) /\ \A q \in Requests \ {r} : req'[q] = req[q]
        BY <1>10, <2>2 DEF Owes, Done
      <3>2. rec[s].by = "hand" /\ ev[s] /\ ~torn[s]
        BY <1>10, <2>2 DEF WriteMarks
      <3> QED
        BY <1>2, <3>1, <3>2
    <2> QED
      BY <2>1, <2>2
  <1>11. ASSUME NEW r \in Requests, EditWrite(r)
         PROVE  \E q \in Requests : Owes(q, s)'
    BY <1>10, <1>11 DEF EditWrite
  <1>12. ASSUME NEW r \in Requests, BulkWrite(r)
         PROVE  \E q \in Requests : Owes(q, s)'
    BY <1>10, <1>12 DEF BulkWrite
  <1>13. ASSUME NEW r \in Requests, DropEvidence(r), Done(r), UNCHANGED rec
         PROVE  \E q \in Requests : Owes(q, s)'
    <2>1. s \notin Marked(r) /\ ev[s] /\ ~torn[s] /\ rec[s].by = "hand"
      BY <1>13 DEF DropEvidence
    <2> QED
      BY <1>2, <1>13, <2>1 DEF Owes, Done
  <1>14. ASSUME NEW r \in Requests, EditDropEvidence(r)
         PROVE  \E q \in Requests : Owes(q, s)'
    BY <1>13, <1>14 DEF EditDropEvidence
  <1>15. ASSUME NEW r \in Requests, BulkDropEvidence(r)
         PROVE  \E q \in Requests : Owes(q, s)'
    BY <1>13, <1>15 DEF BulkDropEvidence
  <1>16. ASSUME NEW r \in Requests, PickupWrite(r)
         PROVE  \E q \in Requests : Owes(q, s)'
    <2>1. rec[s].by = "hand"
      BY <1>16 DEF PickupWrite, PickedUp, Records
    <2> QED
      BY <1>2, <1>16, <2>1 DEF PickupWrite, Done, Owes
  <1>17. ASSUME NEW r \in Requests, Fail(r)
         PROVE  \E q \in Requests : Owes(q, s)'
    <2>1. ~torn[s] /\ ~Owes(r, s)
      BY <1>17 DEF Fail, Owes
    <2> QED
      BY <1>2, <1>17, <2>1 DEF Fail, Done
  <1>18. ASSUME rec[s].by = "hand", UNCHANGED <<ev, req, torn>>
         PROVE  \E q \in Requests : Owes(q, s)'
    BY <1>1, <1>18 DEF Owes, Marked
  <1>19. ASSUME NEW t \in Students, WatchPicksUp(t)
         PROVE  \E q \in Requests : Owes(q, s)'
    BY <1>18, <1>19 DEF WatchPicksUp, PickedUp, Records
  <1>20. ASSUME NEW t \in Students, WatchPutsBack(t)
         PROVE  \E q \in Requests : Owes(q, s)'
    BY <1>18, <1>20 DEF WatchPutsBack, PutBack, Records, history
  <1>21. CASE Tick
    BY <1>18, <1>21 DEF Tick, history
  <1>22. CASE UNCHANGED vars
    BY <1>18, <1>22 DEF vars
  <1> QED
    BY <1>3, <1>4, <1>5, <1>6, <1>7, <1>8, <1>9, <1>11, <1>12, <1>14, <1>15, <1>16, <1>17,
       <1>19, <1>20, <1>21, <1>22 DEF Next

\* "A manual entry is never labelled verified" (docs/SMART_ATTENDANCE.md),
\* whichever way verifications, single edits and bulk edits overlap: evidence of
\* a record last written by hand is waiting to be dropped by the very request
\* that wrote it, or that request died.
THEOREM HandEntriesCarryNoEvidence == Spec => []HandEntryNeverVerified
  <1>1. Init => HandEntryNeverVerified
    BY DEF Init, HandEntryNeverVerified
  <1> QED
    BY <1>1, HandEntryStep, TypeCorrect, PTL DEF Spec

----------------------------------------------------------------------------
(* One automatic arrival is announced once *)

\* The strengthening: a record the verification could still write has one
\* announcement in hand.
AnnouncementsLeft ==
  \A s \in Students :
    notices[s].system <= away[s] + (IF Verifiable(rec[s]) THEN 0 ELSE 1)

LEMMA AnnouncementsStep ==
  TypeOK /\ AnnouncementsLeft /\ [Next]_vars => AnnouncementsLeft'
  <1> SUFFICES ASSUME TypeOK, AnnouncementsLeft, [Next]_vars, NEW s \in Students
               PROVE  notices'[s].system <= away'[s] + (IF Verifiable(rec'[s]) THEN 0 ELSE 1)
    BY DEF AnnouncementsLeft, Verifiable
  <1> USE DEF TypeOK
  <1>1. /\ notices[s].system \in Nat /\ away[s] \in Nat
        /\ notices[s].system <= away[s] + (IF Verifiable(rec[s]) THEN 0 ELSE 1)
    BY DEF AnnouncementsLeft, Notices
  \* Most steps announce nothing and leave the status as it is.
  <1>2. ASSUME notices'[s].system = notices[s].system, away'[s] = away[s],
               rec'[s].status = rec[s].status
        PROVE  notices'[s].system <= away'[s] + (IF Verifiable(rec'[s]) THEN 0 ELSE 1)
    BY <1>1, <1>2 DEF Verifiable
  <1>3. ASSUME NEW r \in Requests, MarkVerified(r)
        PROVE  notices'[s].system <= away'[s] + (IF Verifiable(rec'[s]) THEN 0 ELSE 1)
    <2>1. CASE s = req[r].student /\ Verifiable(rec[s]) /\ ~ev[s]
      <3>1. notices'[s].system = notices[s].system + 1 /\ rec'[s] = SystemMarked
            /\ away' = away
        BY <1>3, <2>1 DEF MarkVerified, Notices
      <3> QED
        BY <1>1, <2>1, <3>1 DEF Verifiable, SystemMarked
    <2>2. CASE ~(s = req[r].student /\ Verifiable(rec[s]) /\ ~ev[s])
      <3>1. notices'[s] = notices[s] /\ rec'[s] = rec[s] /\ away' = away
        BY <1>3, <2>2 DEF MarkVerified
      <3> QED
        BY <1>2, <3>1
    <2> QED
      BY <2>1, <2>2
  <1>4. ASSUME NEW r \in Requests, WriteMarks(r), UNCHANGED notices
        PROVE  notices'[s].system <= away'[s] + (IF Verifiable(rec'[s]) THEN 0 ELSE 1)
    <2>0. req[r].marks[s] \in Statuses \cup {"none"}
      BY DEF Request, Marks
    <2>1. CASE req[r].marks[s] = "none"
      BY <1>2, <1>4, <2>1 DEF WriteMarks, Marked
    <2>2. CASE req[r].marks[s] = "present"
      <3>1. rec'[s].status = "present" /\ away'[s] = away[s]
        BY <1>4, <2>2 DEF WriteMarks, Marked, HandMarked
      <3> QED
        BY <1>1, <1>4, <3>1 DEF Verifiable
    <2>3. CASE req[r].marks[s] \in {"absent", "excused"}
      <3>1. away'[s] = away[s] + 1
        BY <1>4, <2>3 DEF WriteMarks
      <3> QED
        BY <1>1, <1>4, <3>1 DEF Verifiable
    <2> QED
      BY <2>0, <2>1, <2>2, <2>3 DEF Statuses
  <1>5. ASSUME NEW r \in Requests, EditWrite(r)
        PROVE  notices'[s].system <= away'[s] + (IF Verifiable(rec'[s]) THEN 0 ELSE 1)
    BY <1>4, <1>5 DEF EditWrite
  <1>6. ASSUME NEW r \in Requests, BulkWrite(r)
        PROVE  notices'[s].system <= away'[s] + (IF Verifiable(rec'[s]) THEN 0 ELSE 1)
    BY <1>4, <1>6 DEF BulkWrite
  <1>7. ASSUME NEW r \in Requests, EditDropEvidence(r)
        PROVE  notices'[s].system <= away'[s] + (IF Verifiable(rec'[s]) THEN 0 ELSE 1)
    <2>1. notices'[s].system = notices[s].system
      <3>1. CASE notices' = notices
        BY <3>1
      <3>2. CASE notices' = [notices EXCEPT ![req[r].student].hand = @ + 1]
        BY <3>2 DEF Notices
      <3> QED
        BY <1>7, <3>1, <3>2 DEF EditDropEvidence
    <2> QED
      BY <1>2, <1>7, <2>1 DEF EditDropEvidence
  <1>8. ASSUME NEW t \in Students, NEW auto \in BOOLEAN,
               rec' = [rec EXCEPT ![t] = PickedUp(@, auto)],
               notices' = [notices EXCEPT ![t].pickup = @ + 1], UNCHANGED away
        PROVE  notices'[s].system <= away'[s] + (IF Verifiable(rec'[s]) THEN 0 ELSE 1)
    <2>1. notices'[s].system = notices[s].system
      BY <1>8 DEF Notices
    <2>2. rec'[s].status = rec[s].status
      BY <1>8 DEF PickedUp, Records
    <2> QED
      BY <1>2, <1>8, <2>1, <2>2
  <1>9. ASSUME NEW r \in Requests, PickupWrite(r)
        PROVE  notices'[s].system <= away'[s] + (IF Verifiable(rec'[s]) THEN 0 ELSE 1)
    <2>1. req[r].student \in Students
      BY DEF Request
    <2> QED
      BY <1>8, <1>9, <2>1 DEF PickupWrite
  <1>10. ASSUME NEW t \in Students, WatchPicksUp(t)
         PROVE  notices'[s].system <= away'[s] + (IF Verifiable(rec'[s]) THEN 0 ELSE 1)
    BY <1>8, <1>10 DEF WatchPicksUp
  <1>11. ASSUME NEW t \in Students, WatchPutsBack(t)
         PROVE  notices'[s].system <= away'[s] + (IF Verifiable(rec'[s]) THEN 0 ELSE 1)
    <2>1. rec'[s].status = rec[s].status
      BY <1>11 DEF WatchPutsBack, PutBack, Records
    <2> QED
      BY <1>2, <1>11, <2>1 DEF WatchPutsBack, history
  <1>12. ASSUME UNCHANGED <<rec, notices, away>>
         PROVE  notices'[s].system <= away'[s] + (IF Verifiable(rec'[s]) THEN 0 ELSE 1)
    BY <1>2, <1>12
  <1> QED
    BY <1>3, <1>5, <1>6, <1>7, <1>9, <1>10, <1>11, <1>12
       DEF Next, vars, history, ReadOwnSignal, Edit, Pickup, Bulk, WriteOwnSignal,
           ReadOtherSignal, BulkDropEvidence, Fail, Tick

\* The parents of a student hear of the automatic arrival once, and once more at
\* most for every time a teacher has marked the student as not present, however
\* many verifications of the same pair race each other (markVerified's guarded
\* writes) and whatever hand edits come in between.
THEOREM AutomaticArrivalAnnouncedOnce == Spec => []SystemArrivalAnnouncedOnce
  <1>1. Init => AnnouncementsLeft
    BY DEF Init, AnnouncementsLeft, NoRecord, Verifiable
  <1>2. TypeOK /\ AnnouncementsLeft => SystemArrivalAnnouncedOnce
    BY DEF TypeOK, Notices, AnnouncementsLeft, SystemArrivalAnnouncedOnce
  <1> QED
    BY <1>1, <1>2, AnnouncementsStep, TypeCorrect, PTL DEF Spec

----------------------------------------------------------------------------
(* Every write is one the contract allows *)

\* What the writes rely on: a hand entry has a status, and who is about to write
\* a pickup has found a record, which never goes away again.
RecordsStand ==
  /\ \A s \in Students : rec[s].by = "hand" => rec[s].status # "none"
  /\ \A r \in Requests : req[r].step = "pickup_write"
                           => rec[req[r].student].status # "none"

LEMMA RecordsStandStep == TypeOK /\ RecordsStand /\ [Next]_vars => RecordsStand'
  <1> SUFFICES ASSUME TypeOK, RecordsStand, [Next]_vars PROVE RecordsStand'
    OBVIOUS
  <1> USE DEF TypeOK
  <1>1. ASSUME NEW r \in Requests, req'[r].step = "pickup_write"
        PROVE  rec'[req'[r].student].status # "none"
    <2>1. CASE req'[r] = req[r]
      <3>1. req[r].student \in Students
        BY DEF Request
      <3> QED
        BY RecordStays, <1>1, <2>1, <3>1 DEF RecordsStand
    <2>2. CASE req'[r] # req[r]
      <3>1. PICK s \in Students : Pickup(r, s)
        <4>1. ASSUME NEW t \in Students, NEW kind \in Kinds, NEW good \in BOOLEAN,
                     NEW now \in 0..clock, ReadOwnSignal(r, t, kind, good, now)
              PROVE  req'[r].step = "sight_write"
          BY <4>1, IdleIsRequest DEF ReadOwnSignal, Begin, Request
        <4>2. WriteOwnSignal(r) => req'[r].step = "sight_other"
          BY DEF WriteOwnSignal, Request
        <4>3. req' = [req EXCEPT ![r].step = "sight_mark"] => req'[r].step = "sight_mark"
          BY DEF Request
        <4> QED
          BY <1>1, <2>2, <4>1, <4>2, <4>3, RequestMoves
      <3>2. req'[r].student = s
        BY <3>1, IdleIsRequest DEF Pickup, Begin, Request
      <3>3. rec' = rec /\ rec[s].status = "present"
        BY <3>1 DEF Pickup, StillHere
      <3> QED
        BY <3>2, <3>3
    <2> QED
      BY <2>1, <2>2
  <1> QED
    BY RecordStays, <1>1 DEF RecordsStand

LEMMA RecordsStandAlways == Spec => []RecordsStand
  <1>1. Init => RecordsStand
    BY DEF Init, RecordsStand, NoRecord, Idle
  <1> QED
    BY <1>1, RecordsStandStep, TypeCorrect, PTL DEF Spec

LEMMA ContractStep == TypeOK /\ RecordsStand /\ [Next]_vars => [Contract!Next]_rec
  <1> SUFFICES ASSUME TypeOK, RecordsStand, [Next]_vars, rec' # rec
               PROVE  Contract!Next
    OBVIOUS
  <1> USE DEF TypeOK
  <1>1. ASSUME NEW r \in Requests, MarkVerified(r)
        PROVE  Contract!Next
    <2>1. req[r].student \in Students
      BY DEF Request
    <2>2. Contract!SystemArrives(req[r].student)
      BY <1>1 DEF MarkVerified, Contract!SystemArrives, Contract!Verifiable, Verifiable,
                  Contract!SystemMarked, SystemMarked
    <2> QED
      BY <2>1, <2>2 DEF Contract!Next
  <1>2. ASSUME NEW r \in Requests, WriteMarks(r)
        PROVE  Contract!Next
    <2> DEFINE marks == [s \in Marked(r) |-> req[r].marks[s]]
    <2>1. Marked(r) \in SUBSET Students
      BY DEF Marked
    <2>2. marks \in [Marked(r) -> Contract!Statuses]
      BY DEF Request, Marks, Marked, Statuses, Contract!Statuses
    <2>3. Contract!HandMarks(marks)
      BY <1>2 DEF WriteMarks, Contract!HandMarks, Contract!HandMarked, HandMarked
    <2> QED
      BY <2>1, <2>2, <2>3 DEF Contract!Next
  <1>3. ASSUME NEW r \in Requests, PickupWrite(r)
        PROVE  Contract!Next
    <2>1. req[r].student \in Students
      BY DEF Request
    <2>2. Contract!HandPicksUp(req[r].student)
      BY <1>3, <2>1 DEF PickupWrite, RecordsStand, PickedUp, Contract!HandPicksUp,
                        Contract!PickedUp
    <2> QED
      BY <2>1, <2>2 DEF Contract!Next
  <1>4. ASSUME NEW s \in Students, WatchPicksUp(s)
        PROVE  Contract!Next
    <2>1. Contract!WatchPicksUp(s)
      BY <1>4 DEF WatchPicksUp, Contract!WatchPicksUp, Contract!StillHere, StillHere,
                  Contract!PickedUp, PickedUp
    <2> QED
      BY <2>1 DEF Contract!Next
  <1>5. ASSUME NEW s \in Students, WatchPutsBack(s)
        PROVE  Contract!Next
    <2>1. Contract!WatchPutsBack(s)
      BY <1>5 DEF WatchPutsBack, Contract!WatchPutsBack, Contract!PutBack, PutBack
    <2> QED
      BY <2>1 DEF Contract!Next
  <1> QED
    BY <1>1, <1>2, <1>3, <1>4, <1>5, WaysToWrite

\* The requests of the code, statement by statement, implement the contract of
\* the day's records: every write is one that a single writer may make at once.
THEOREM RequestsImplementContract == Spec => ImplementsContract
  <1>1. Init => Contract!Init
    BY DEF Init, Contract!Init, NoRecord, Contract!NoRecord
  <1> QED
    BY <1>1, ContractStep, TypeCorrect, RecordsStandAlways, PTL
       DEF Spec, ImplementsContract, Contract!Spec

LEMMA HandEntryStandsStep ==
  TypeOK /\ RecordsStand /\ [Next]_vars =>
    \A s \in Students :
      rec[s].by = "hand" /\ rec'[s].by = "system" => rec[s].status = "absent"
  <1> SUFFICES ASSUME TypeOK, RecordsStand, [Next]_vars, NEW s \in Students,
                      rec[s].by = "hand", rec'[s].by = "system"
               PROVE  rec[s].status = "absent"
    OBVIOUS
  <1> USE DEF TypeOK
  <1>1. ASSUME NEW r \in Requests, MarkVerified(r)
        PROVE  rec[s].status = "absent"
    BY <1>1 DEF MarkVerified, Verifiable, RecordsStand
  <1>2. ASSUME NEW r \in Requests, WriteMarks(r)
        PROVE  FALSE
    BY <1>2 DEF WriteMarks, HandMarked
  <1>3. ASSUME NEW t \in Students, NEW auto \in BOOLEAN,
               \/ rec' = [rec EXCEPT ![t] = PickedUp(@, auto)]
               \/ rec' = [rec EXCEPT ![t] = PutBack(@)]
        PROVE  FALSE
    <2>1. CASE rec' = [rec EXCEPT ![t] = PickedUp(@, auto)]
      BY <2>1, PickupKeepsStatus
    <2>2. CASE rec' = [rec EXCEPT ![t] = PutBack(@)]
      BY <2>2, PickupKeepsStatus
    <2> QED
      BY <1>3, <2>1, <2>2
  <1>4. ASSUME NEW r \in Requests, PickupWrite(r)
        PROVE  FALSE
    <2>1. req[r].student \in Students
      BY DEF Request
    <2> QED
      BY <1>3, <1>4, <2>1 DEF PickupWrite
  <1>5. ASSUME NEW t \in Students, WatchPicksUp(t) \/ WatchPutsBack(t)
        PROVE  FALSE
    BY <1>3, <1>5 DEF WatchPicksUp, WatchPutsBack
  <1> QED
    BY <1>1, <1>2, <1>4, <1>5, WaysToWrite

\* What a teacher entered is not overwritten by the system, unless it was
\* "absent" and both signals have seen the student.
THEOREM HandEntriesStand == Spec => HandEntryStands
  <1>1. TypeOK /\ RecordsStand /\ [Next]_vars =>
          [\A s \in Students :
             rec[s].by = "hand" /\ rec'[s].by = "system" => rec[s].status = "absent"]_vars
    BY HandEntryStandsStep
  <1> QED
    BY <1>1, TypeCorrect, RecordsStandAlways, PTL DEF Spec, HandEntryStands

----------------------------------------------------------------------------
(* No verification without repeated sightings of both kinds *)

\* Each row, on file or in the hands of a request, counts no more sightings than
\* were folded in, and a request that is about to mark has seen enough.
SightingsBacked ==
  /\ \A s \in Students, k \in Kinds : sig[s][k].hits <= seen[s][k]
  /\ \A r \in Requests :
       LET count == seen[req[r].student] IN
       /\ req[r].step = "sight_write" => req[r].row.hits <= count[req[r].kind] + 1
       /\ req[r].step = "sight_other" => req[r].row.hits <= count[req[r].kind]
       /\ req[r].step = "sight_mark" => \A k \in Kinds : count[k] >= MinHits

\* Sightings are only ever added, and rows change only by a sighting.
LEMMA SightingsGrow ==
  ASSUME TypeOK, [Next]_vars
  PROVE  \/ UNCHANGED <<sig, seen>>
         \/ \E r \in Requests : WriteOwnSignal(r)
  BY DEF Next, vars, history, ReadOwnSignal, Edit, Pickup, Bulk, ReadOtherSignal,
         MarkVerified, EditWrite, EditDropEvidence, BulkWrite, BulkDropEvidence,
         PickupWrite, Fail, WatchPicksUp, WatchPutsBack, Tick

LEMMA SeenGrows ==
  ASSUME TypeOK, [Next]_vars
  PROVE  \A s \in Students, k \in Kinds :
           /\ seen[s][k] \in Nat /\ seen'[s][k] \in Nat
           /\ seen[s][k] <= seen'[s][k]
  <1> USE DEF TypeOK
  <1>1. CASE UNCHANGED seen
    BY <1>1
  <1>2. ASSUME NEW r \in Requests, WriteOwnSignal(r)
        PROVE  \A s \in Students, k \in Kinds :
                 seen'[s][k] \in Nat /\ seen[s][k] <= seen'[s][k]
    <2>1. req[r].student \in Students /\ req[r].kind \in Kinds
      BY DEF Request
    <2> QED
      BY <1>2, <2>1 DEF WriteOwnSignal
  <1> QED
    BY <1>1, <1>2, SightingsGrow

LEMMA SightingsStep == TypeOK /\ SightingsBacked /\ [Next]_vars => SightingsBacked'
  <1> SUFFICES ASSUME TypeOK, SightingsBacked, [Next]_vars PROVE SightingsBacked'
    OBVIOUS
  <1> USE SignalsAssumption DEF TypeOK
  <1>1. \A s \in Students, k \in Kinds :
          /\ seen[s][k] \in Nat /\ seen'[s][k] \in Nat
          /\ seen[s][k] <= seen'[s][k]
    BY SeenGrows
  <1>2. ASSUME NEW s \in Students, NEW k \in Kinds
        PROVE  sig'[s][k].hits <= seen'[s][k]
    <2>1. CASE UNCHANGED <<sig, seen>>
      BY <2>1 DEF SightingsBacked
    <2>2. ASSUME NEW r \in Requests, WriteOwnSignal(r)
          PROVE  sig'[s][k].hits <= seen'[s][k]
      <3>1. req[r].student \in Students /\ req[r].kind \in Kinds
        BY DEF Request
      <3>2. CASE s = req[r].student /\ k = req[r].kind
        <4>1. sig'[s][k] = req[r].row /\ seen'[s][k] = seen[s][k] + 1
          BY <2>2, <3>1, <3>2 DEF WriteOwnSignal
        <4>2. req[r].row.hits <= seen[s][k] + 1
          BY <2>2, <3>2 DEF SightingsBacked, WriteOwnSignal
        <4> QED
          BY <4>1, <4>2
      <3>3. CASE ~(s = req[r].student /\ k = req[r].kind)
        <4>1. sig'[s][k] = sig[s][k] /\ seen'[s][k] = seen[s][k]
          BY <2>2, <3>1, <3>3 DEF WriteOwnSignal
        <4> QED
          BY <4>1 DEF SightingsBacked
      <3> QED
        BY <3>2, <3>3
    <2> QED
      BY <2>1, <2>2, SightingsGrow
  <1> DEFINE Backed(q, n) ==
               /\ q.step = "sight_write" => q.row.hits <= n[q.student][q.kind] + 1
               /\ q.step = "sight_other" => q.row.hits <= n[q.student][q.kind]
               /\ q.step = "sight_mark" => \A k \in Kinds : n[q.student][k] >= MinHits
  <1>3. ASSUME NEW r \in Requests
        PROVE  Backed(req'[r], seen')
    <2>1. /\ req[r].student \in Students /\ req[r].kind \in Kinds
          /\ req[r].row \in SignalRow /\ req[r].row.hits \in Nat
      BY DEF Request, SignalRow
    <2>2. Backed(req[r], seen)
      BY DEF SightingsBacked
    <2>3. CASE req'[r] = req[r]
      BY <1>1, <2>1, <2>2, <2>3
    <2>4. ASSUME NEW s \in Students, NEW kind \in Kinds, NEW good \in BOOLEAN,
                 NEW now \in 0..clock, ReadOwnSignal(r, s, kind, good, now)
          PROVE  Backed(req'[r], seen')
      <3>1. PICK row \in MergeSignal(sig[s][kind], good, now) :
              Begin(r, [Idle EXCEPT !.step = "sight_write", !.student = s, !.kind = kind,
                                    !.row = row])
        BY <2>4 DEF ReadOwnSignal
      <3>2. /\ req'[r].step = "sight_write" /\ req'[r].student = s
            /\ req'[r].kind = kind /\ req'[r].row = row
        BY <3>1, IdleIsRequest DEF Begin, Request
      <3>3. row \in SignalRow /\ row.hits <= sig[s][kind].hits + 1
        BY MergeSignalResult
      <3>4. sig[s][kind].hits <= seen[s][kind]
        BY DEF SightingsBacked
      <3>5. row.hits \in Nat /\ sig[s][kind].hits \in Nat
        BY <3>3 DEF SignalRow
      <3>6. row.hits <= seen'[s][kind] + 1
        BY <1>1, <3>3, <3>4, <3>5
      <3> QED
        BY <3>2, <3>6
    <2>5. CASE WriteOwnSignal(r)
      <3>1. /\ req'[r] = [req[r] EXCEPT !.step = "sight_other"]
            /\ seen'[req[r].student][req[r].kind] = seen[req[r].student][req[r].kind] + 1
            /\ req[r].step = "sight_write"
        BY <2>1, <2>5 DEF WriteOwnSignal
      <3>2. /\ req'[r].step = "sight_other" /\ req'[r].student = req[r].student
            /\ req'[r].kind = req[r].kind /\ req'[r].row = req[r].row
        BY <3>1 DEF Request
      <3> QED
        BY <2>2, <3>1, <3>2
    <2>6. CASE ReadOtherSignal(r) /\ req' = [req EXCEPT ![r].step = "sight_mark"]
      <3> DEFINE s == req[r].student
      <3>1. req'[r].step = "sight_mark" /\ req'[r].student = s
        BY <2>6 DEF Request
      <3>2. req[r].step = "sight_other" /\ Verified(FaceOf(r), BleOf(r), req[r].row.at)
        BY <2>6, IdleIsRequest DEF ReadOtherSignal, Done, Idle, Request
      <3>3. FaceOf(r) \in SignalRow /\ BleOf(r) \in SignalRow /\ req[r].row.at \in Nat
        BY <2>1 DEF FaceOf, BleOf, Kinds, SignalRow
      <3>4. FaceOf(r).hits = MinHits /\ BleOf(r).hits = MinHits
        BY <3>2, <3>3, VerifiedHits
      <3>5. FaceOf(r).hits <= seen[s]["face"] /\ BleOf(r).hits <= seen[s]["ble"]
        BY <2>1, <2>2, <3>2 DEF FaceOf, BleOf, Kinds, SightingsBacked
      <3>6. \A k \in Kinds : seen'[s][k] >= MinHits
        BY <1>1, <2>1, <3>4, <3>5 DEF Kinds
      <3> QED
        BY <3>1, <3>6
    <2>7. ASSUME NEW s \in Students, Pickup(r, s)
          PROVE  Backed(req'[r], seen')
      <3>1. req'[r].step = "pickup_write"
        BY <2>7, IdleIsRequest DEF Pickup, Begin, Request
      <3> QED
        BY <3>1
    <2>8. CASE req'[r].step \in {"idle", "edit_write", "edit_evidence",
                                "bulk_write", "bulk_evidence"}
      BY <2>8
    <2> QED
      BY <2>3, <2>4, <2>5, <2>6, <2>7, <2>8, RequestMoves
  <1> QED
    BY <1>2, <1>3 DEF SightingsBacked

\* Evidence appears only by markVerified.
LEMMA EvidenceAppears ==
  ASSUME TypeOK, [Next]_vars, NEW s \in Students, ev'[s], ~ev[s]
  PROVE  \E r \in Requests : MarkVerified(r) /\ req[r].student = s
  <1> USE DEF TypeOK
  <1>1. ASSUME NEW r \in Requests, DropEvidence(r)
        PROVE  FALSE
    BY <1>1 DEF DropEvidence
  <1>2. ASSUME NEW r \in Requests, MarkVerified(r)
        PROVE  req[r].student = s
    BY <1>2 DEF MarkVerified
  <1> QED
    BY <1>1, <1>2
       DEF Next, vars, history, ReadOwnSignal, WriteOwnSignal, ReadOtherSignal, Edit,
           EditWrite, EditDropEvidence, Pickup, PickupWrite, Bulk, BulkWrite,
           BulkDropEvidence, Fail, WatchPicksUp, WatchPutsBack, Tick

LEMMA VerifiedStep ==
  TypeOK /\ SightingsBacked /\ VerifiedOnlyAfterRepeatedSightings /\ [Next]_vars
    => VerifiedOnlyAfterRepeatedSightings'
  <1> SUFFICES ASSUME TypeOK, SightingsBacked, VerifiedOnlyAfterRepeatedSightings,
                      [Next]_vars, NEW s \in Students, NEW k \in Kinds,
                      ev'[s] \/ rec'[s].by = "system"
               PROVE  seen'[s][k] >= MinHits
    BY DEF VerifiedOnlyAfterRepeatedSightings
  <1>1. CASE ev[s] \/ rec[s].by = "system"
    <2>1. seen[s][k] >= MinHits
      BY <1>1 DEF VerifiedOnlyAfterRepeatedSightings
    <2> QED
      BY <2>1, SeenGrows, SignalsAssumption
  <1>2. CASE ~(ev[s] \/ rec[s].by = "system")
    <2>1. PICK r \in Requests : MarkVerified(r) /\ req[r].student = s
      BY <1>2, RecordStays, EvidenceAppears
    <2>2. seen[s][k] >= MinHits
      BY <2>1 DEF MarkVerified, SightingsBacked
    <2> QED
      BY <2>2, SeenGrows, SignalsAssumption
  <1> QED
    BY <1>1, <1>2

\* Nobody is verified on one stray reading: behind every automatic entry and every
\* piece of evidence there are at least MinHits readings of each kind, however the
\* unguarded upserts of concurrent readings of recordSignal overlapped.
THEOREM VerifiedMeansSeenRepeatedly == Spec => []VerifiedOnlyAfterRepeatedSightings
  <1>1. Init => SightingsBacked
    BY SignalsAssumption DEF Init, SightingsBacked, NoSignal, Idle
  <1>2. Init => VerifiedOnlyAfterRepeatedSightings
    BY DEF Init, VerifiedOnlyAfterRepeatedSightings, NoRecord
  <1> QED
    BY <1>1, <1>2, SightingsStep, VerifiedStep, TypeCorrect, PTL DEF Spec

----------------------------------------------------------------------------
(* No pair is missed *)

\* What the decision relies on: no row is stamped with an instant to come, and
\* evidence belongs to a record.
NothingFromTheFuture ==
  /\ \A s \in Students, k \in Kinds : sig[s][k].at <= clock
  /\ \A r \in Requests :
       req[r].step \in {"sight_write", "sight_other"} => req[r].row.at <= clock
  /\ \A s \in Students : ev[s] => rec[s].status # "none"

LEMMA ClockStep ==
  ASSUME TypeOK, [Next]_vars
  PROVE  clock' \in Nat /\ clock <= clock'
  <1>1. clock' = clock \/ clock' = clock + 1
    BY DEF Next, vars, history, ReadOwnSignal, WriteOwnSignal, ReadOtherSignal,
           MarkVerified, Edit, EditWrite, EditDropEvidence, Pickup, PickupWrite, Bulk,
           BulkWrite, BulkDropEvidence, Fail, WatchPicksUp, WatchPutsBack, Tick
  <1> QED
    BY <1>1 DEF TypeOK

LEMMA FutureStep == TypeOK /\ NothingFromTheFuture /\ [Next]_vars => NothingFromTheFuture'
  <1> SUFFICES ASSUME TypeOK, NothingFromTheFuture, [Next]_vars
               PROVE  NothingFromTheFuture'
    OBVIOUS
  <1> USE DEF TypeOK
  <1>0. clock \in Nat /\ clock' \in Nat /\ clock <= clock'
    BY ClockStep
  <1>1. ASSUME NEW s \in Students, NEW k \in Kinds
        PROVE  sig'[s][k].at <= clock'
    <2>1. sig[s][k].at <= clock /\ sig[s][k].at \in Nat
      BY DEF NothingFromTheFuture, SignalRow
    <2>2. CASE UNCHANGED sig
      BY <1>0, <2>1, <2>2
    <2>3. ASSUME NEW r \in Requests, WriteOwnSignal(r)
          PROVE  sig'[s][k].at <= clock'
      <3>1. /\ req[r].student \in Students /\ req[r].kind \in Kinds
            /\ req[r].row.at \in Nat
        BY DEF Request, SignalRow
      <3>2. sig'[s][k] = sig[s][k] \/ sig'[s][k] = req[r].row
        BY <2>3, <3>1 DEF WriteOwnSignal
      <3>3. req[r].row.at <= clock
        BY <2>3 DEF WriteOwnSignal, NothingFromTheFuture
      <3> QED
        BY <1>0, <2>1, <3>1, <3>2, <3>3
    <2> QED
      BY <2>2, <2>3, SightingsGrow
  <1>2. ASSUME NEW r \in Requests, req'[r].step \in {"sight_write", "sight_other"}
        PROVE  req'[r].row.at <= clock'
    <2>1. req[r].row.at \in Nat
      BY DEF Request, SignalRow
    <2>2. CASE req'[r] = req[r]
      BY <1>0, <1>2, <2>1, <2>2 DEF NothingFromTheFuture
    <2>3. ASSUME NEW s \in Students, NEW kind \in Kinds, NEW good \in BOOLEAN,
                 NEW now \in 0..clock, ReadOwnSignal(r, s, kind, good, now)
          PROVE  req'[r].row.at <= clock'
      <3>1. PICK row \in MergeSignal(sig[s][kind], good, now) :
              Begin(r, [Idle EXCEPT !.step = "sight_write", !.student = s, !.kind = kind,
                                    !.row = row])
        BY <2>3 DEF ReadOwnSignal
      <3>2. req'[r].row = row
        BY <3>1, IdleIsRequest DEF Begin, Request
      <3>3. row.at = now
        BY MergeSignalResult
      <3> QED
        BY <1>0, <3>2, <3>3
    <2>4. CASE WriteOwnSignal(r)
      <3>1. req'[r].row = req[r].row /\ req[r].step = "sight_write"
        BY <2>4 DEF WriteOwnSignal, Request
      <3> QED
        BY <1>0, <2>1, <3>1 DEF NothingFromTheFuture
    <2>5. req' = [req EXCEPT ![r].step = "sight_mark"] => req'[r].step = "sight_mark"
      BY DEF Request
    <2>6. \A s \in Students : Pickup(r, s) => req'[r].step = "pickup_write"
      BY IdleIsRequest DEF Pickup, Begin, Request
    <2> QED
      BY <1>2, <2>2, <2>3, <2>4, <2>5, <2>6, RequestMoves
  <1>3. ASSUME NEW s \in Students, ev'[s]
        PROVE  rec'[s].status # "none"
    <2>1. CASE ev[s]
      BY <2>1, RecordStays DEF NothingFromTheFuture
    <2>2. CASE ~ev[s]
      <3>1. PICK r \in Requests : MarkVerified(r) /\ req[r].student = s
        BY <1>3, <2>2, EvidenceAppears
      <3>2. rec'[s] = SystemMarked
        BY <1>3, <2>2, <3>1 DEF MarkVerified
      <3> QED
        BY <3>2 DEF SystemMarked
    <2> QED
      BY <2>1, <2>2
  <1> QED
    BY <1>1, <1>2, <1>3 DEF NothingFromTheFuture

\* A pair that counts now counted at every earlier instant, if it was on file.
LEMMA VerifiedEarlier ==
  ASSUME NEW face \in SignalRow, NEW ble \in SignalRow, NEW now \in Nat,
         NEW then \in Nat, then <= now, Verified(face, ble, now)
  PROVE  Verified(face, ble, then)
  BY SignalsAssumption DEF Verified, IsSignalPresent, Fresh, SignalRow

\* A request that is about to decide lets go of the pair in one of three ways.
LEMMA DeciderMoves ==
  ASSUME TypeOK, [Next]_vars, NEW r \in Requests,
         req[r].step \in {"sight_other", "sight_mark"}, req'[r] # req[r]
  PROVE  ReadOtherSignal(r) \/ MarkVerified(r) \/ Fail(r)
  <1> USE DEF TypeOK
  <1>1. ASSUME NEW q \in Requests, NEW next, req' = [req EXCEPT ![q] = next]
        PROVE  q = r
    BY <1>1
  <1>2. ASSUME NEW q \in Requests, NEW fields, Begin(q, fields)
        PROVE  FALSE
    BY <1>1, <1>2 DEF Begin
  <1>3. ASSUME NEW q \in Requests,
               \/ WriteOwnSignal(q) \/ EditWrite(q) \/ EditDropEvidence(q)
               \/ BulkWrite(q) \/ BulkDropEvidence(q) \/ PickupWrite(q)
        PROVE  FALSE
    BY <1>1, <1>3 DEF WriteOwnSignal, EditWrite, EditDropEvidence, BulkWrite,
                      BulkDropEvidence, PickupWrite, Done
  <1>4. ASSUME NEW q \in Requests, ReadOtherSignal(q) \/ MarkVerified(q) \/ Fail(q)
        PROVE  q = r
    BY <1>1, <1>4 DEF ReadOtherSignal, MarkVerified, Fail, Done
  <1>5. UNCHANGED vars \/ Tick \/ (\E s \in Students : WatchPicksUp(s) \/ WatchPutsBack(s))
        => UNCHANGED req
    BY DEF vars, WatchPicksUp, WatchPutsBack, Tick
  <1> QED
    BY <1>2, <1>3, <1>4, <1>5 DEF Next, ReadOwnSignal, Edit, Pickup, Bulk

\* Only a newly stored sighting makes up for a request that died.
LEMMA UndecidedStays ==
  ASSUME TypeOK, [Next]_vars, NEW s \in Students, undecided[s], ~undecided'[s]
  PROVE  \E r \in Requests : WriteOwnSignal(r) /\ req[r].student = s
  BY DEF TypeOK, Next, vars, history, ReadOwnSignal, WriteOwnSignal, ReadOtherSignal,
         MarkVerified, Edit, EditWrite, EditDropEvidence, Pickup, PickupWrite, Bulk,
         BulkWrite, BulkDropEvidence, Fail, WatchPicksUp, WatchPutsBack, Tick

LEMMA NoPairMissedStep ==
  TypeOK /\ NothingFromTheFuture /\ NoPairMissed /\ [Next]_vars => NoPairMissed'
  <1> SUFFICES ASSUME TypeOK, NothingFromTheFuture, NoPairMissed, [Next]_vars,
                      NEW s \in Students, PairComplete(s)', rec'[s].status = "none",
                      ~undecided'[s]
               PROVE  \E r \in Requests : WillDecide(r, s)'
    BY DEF NoPairMissed
  <1> USE DEF TypeOK
  \* Who has just stored a sighting of s decides on what is on file.
  <1>1. ASSUME NEW r \in Requests, WriteOwnSignal(r), req[r].student = s
        PROVE  WillDecide(r, s)'
    <2>1. req[r].kind \in Kinds
      BY DEF Request
    <2>2. sig'[s][req[r].kind] = req[r].row
      BY <1>1, <2>1 DEF WriteOwnSignal
    <2>3. /\ req'[r].step = "sight_other" /\ req'[r].student = s
          /\ req'[r].kind = req[r].kind /\ req'[r].row = req[r].row
      BY <1>1 DEF WriteOwnSignal, Request
    <2> QED
      BY <2>2, <2>3 DEF WillDecide
  <1>2. ASSUME ~\E r \in Requests : WriteOwnSignal(r) /\ req[r].student = s
        PROVE  \E r \in Requests : WillDecide(r, s)'
    <2>1. sig'[s] = sig[s]
      <3>1. ASSUME NEW r \in Requests, WriteOwnSignal(r)
            PROVE  sig'[s] = sig[s]
        BY <1>2, <3>1 DEF WriteOwnSignal
      <3> QED
        BY <3>1, SightingsGrow
    <2>2. rec[s].status = "none" /\ ~undecided[s]
      BY <1>2, RecordStays, UndecidedStays
    <2>3. sig[s]["face"] \in SignalRow /\ sig[s]["ble"] \in SignalRow
      BY DEF Kinds
    <2>4. Verified(sig[s]["face"], sig[s]["ble"], clock')
      BY <2>1 DEF PairComplete
    <2>5. PairComplete(s)
      BY <2>3, <2>4, ClockStep, VerifiedEarlier DEF PairComplete
    <2>6. PICK r \in Requests : WillDecide(r, s)
      BY <2>2, <2>5 DEF NoPairMissed
    <2>7. CASE req'[r] = req[r]
      BY <2>1, <2>6, <2>7 DEF WillDecide
    <2>8. CASE ReadOtherSignal(r)
      <3>1. req[r].step = "sight_other" /\ req[r].student = s
            /\ req[r].row = sig[s][req[r].kind] /\ req[r].kind \in Kinds
        BY <2>6, <2>8 DEF WillDecide, ReadOtherSignal, Request
      <3>2. FaceOf(r) = sig[s]["face"] /\ BleOf(r) = sig[s]["ble"]
        BY <3>1 DEF FaceOf, BleOf, Kinds
      <3>3. req[r].row.at \in Nat /\ req[r].row.at <= clock
        BY <3>1 DEF NothingFromTheFuture, Request, SignalRow
      <3>4. Verified(FaceOf(r), BleOf(r), req[r].row.at)
        BY <2>3, <2>5, <3>2, <3>3, VerifiedEarlier DEF PairComplete
      <3>5. req'[r].step = "sight_mark" /\ req'[r].student = s
        BY <2>8, <3>1, <3>4 DEF ReadOtherSignal, Request
      <3> QED
        BY <3>5 DEF WillDecide
    <2>9. CASE MarkVerified(r)
      <3>1. req[r].student = s /\ Verifiable(rec[s]) /\ ~ev[s]
        BY <2>2, <2>6 DEF WillDecide, Verifiable, NothingFromTheFuture
      <3>2. rec'[s] = SystemMarked
        BY <2>9, <3>1 DEF MarkVerified
      <3> QED
        BY <3>2 DEF SystemMarked
    <2>10. CASE Fail(r)
      <3>1. req[r].step \in {"sight_other", "sight_mark"} /\ req[r].student = s
        BY <2>6 DEF WillDecide
      <3> QED
        BY <2>10, <3>1 DEF Fail
    <2> QED
      BY <2>6, <2>7, <2>8, <2>9, <2>10, DeciderMoves DEF WillDecide
  <1> QED
    BY <1>1, <1>2

\* Two current signals and no record: some request in flight is about to decide.
\* The two halves may arrive in different requests at the same moment; because
\* recordSignal writes its own row before it reads the other one, one of them
\* sees both.
THEOREM PairsAreDecided == Spec => []NoPairMissed
  <1>1. Init => NothingFromTheFuture
    BY DEF Init, NothingFromTheFuture, NoSignal, Idle
  <1>2. Init => NoPairMissed
    BY SignalsAssumption
       DEF Init, NoPairMissed, PairComplete, Verified, IsSignalPresent, NoSignal, Kinds
  <1> QED
    BY <1>1, <1>2, FutureStep, NoPairMissedStep, TypeCorrect, PTL DEF Spec

=============================================================================
