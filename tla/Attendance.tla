----------------------------- MODULE Attendance -----------------------------
(***************************************************************************)
(* The requests that write one school day's attendance at once, in one     *)
(* live session: camera and tag readings (recordSignal), a teacher's       *)
(* single edit (updateAttendance), bulk entry and import (recordAttendance,*)
(* importAttendance), the manual pickup (markPickedUp) and the writes of   *)
(* the pickup watch.                                                       *)
(*                                                                         *)
(* A request is a sequence of database statements with an await between    *)
(* them: each statement is an action, and what the request has read waits  *)
(* in req[r].  Between two statements any other request may run.           *)
(***************************************************************************)
EXTENDS Signals, DayRecord

CONSTANTS
  Requests,      \* the requests that may be in flight at once
  MaxClock,      \* bound: the instants of the day
  MaxOps         \* bound: requests, writes of the watch and failures, together

VARIABLES
  clock,    \* the server's clock, in units of the verification window
  sig,      \* sig[s][k]: attendance_signals, the row of student s and kind k
  rec,      \* rec[s]: attendance, the record of the day
  ev,       \* ev[s]: is there an attendance_verifications row for rec[s]
  req,      \* req[r]: what request r is doing and has read
  used,     \* how much of MaxOps is used up
  (* history *)
  seen,     \* seen[s][k]: readings of kind k folded into a row so far
  notices,  \* notices[s]: how often the parents of s were notified, by cause
  away,     \* away[s]: how often a teacher marked s as something else than present
  undecided,\* undecided[s]: the request that wrote the newest signal died
  torn      \* torn[s]: a hand edit died before it dropped the evidence

vars == <<clock, sig, rec, ev, req, used, seen, notices, away, undecided, torn>>

history == <<seen, notices, away, undecided, torn>>

Steps == {"idle", "sight_write", "sight_other", "sight_mark",
          "edit_write", "edit_evidence", "bulk_write", "bulk_evidence", "pickup_write"}

\* The statuses a hand edit is about to write; "none" for a student it leaves alone.
Marks == [Students -> Statuses \cup {"none"}]

NoMarks == [s \in Students |-> "none"]

Request == [step    : Steps,
            student : Students,
            kind    : Kinds,
            row     : SignalRow,   \* sighting: the merged row, stamped with its instant
            marks   : Marks,       \* edits
            already : BOOLEAN]     \* edit: was the student present before

Idle == [step |-> "idle", student |-> CHOOSE s \in Students : TRUE, kind |-> "face",
         row |-> NoSignal,
         marks |-> NoMarks, already |-> FALSE]

Notices == [system : Nat, hand : Nat, pickup : Nat]

TypeOK ==
  /\ clock \in Nat
  /\ sig \in [Students -> [Kinds -> SignalRow]]
  /\ rec \in [Students -> Records]
  /\ ev \in [Students -> BOOLEAN]
  /\ req \in [Requests -> Request]
  /\ used \in Nat
  /\ seen \in [Students -> [Kinds -> Nat]]
  /\ notices \in [Students -> Notices]
  /\ away \in [Students -> Nat]
  /\ undecided \in [Students -> BOOLEAN]
  /\ torn \in [Students -> BOOLEAN]

Init ==
  /\ clock = 0
  /\ sig = [s \in Students |-> [k \in Kinds |-> NoSignal]]
  /\ rec = [s \in Students |-> NoRecord]
  /\ ev = [s \in Students |-> FALSE]
  /\ req = [r \in Requests |-> Idle]
  /\ used = 0
  /\ seen = [s \in Students |-> [k \in Kinds |-> 0]]
  /\ notices = [s \in Students |-> [system |-> 0, hand |-> 0, pickup |-> 0]]
  /\ away = [s \in Students |-> 0]
  /\ undecided = [s \in Students |-> FALSE]
  /\ torn = [s \in Students |-> FALSE]

\* Every request, write of the watch and failure counts against the bound.
Count == used < MaxOps /\ used' = used + 1

Begin(r, fields) ==
  /\ req[r].step = "idle"
  /\ req' = [req EXCEPT ![r] = fields]

Done(r) == req' = [req EXCEPT ![r] = Idle]

----------------------------------------------------------------------------
(* recordSignal: one camera or tag reading of one student *)

\* A frame or an event batch, stamped with the instant `now`, gets round to
\* reading the signal's own row and merges the reading into it.
ReadOwnSignal(r, s, kind, good, now) ==
  /\ Count
  /\ MayBeRead(kind, good)
  /\ \E row \in MergeSignal(sig[s][kind], good, now) :
       Begin(r, [Idle EXCEPT !.step = "sight_write", !.student = s, !.kind = kind,
                             !.row = row])
  /\ UNCHANGED <<clock, sig, rec, ev, history>>

\* Upserts the merged row, whatever has been written there since it was read.
WriteOwnSignal(r) ==
  LET s == req[r].student  k == req[r].kind IN
  /\ req[r].step = "sight_write"
  /\ sig' = [sig EXCEPT ![s][k] = req[r].row]
  /\ seen' = [seen EXCEPT ![s][k] = @ + 1]
  /\ undecided' = [undecided EXCEPT ![s] = FALSE]
  /\ req' = [req EXCEPT ![r].step = "sight_other"]
  /\ UNCHANGED <<clock, rec, ev, used, notices, away, torn>>

\* The pair request r decides on: its own merged row and the other kind's row.
FaceOf(r) == IF req[r].kind = "face" THEN req[r].row ELSE sig[req[r].student]["face"]
BleOf(r)  == IF req[r].kind = "ble"  THEN req[r].row ELSE sig[req[r].student]["ble"]

\* Mutation: only a camera reading decides on the pair; a tag that comes second
\* is left for the next frame.
DecideOnFaceOnly(r) ==
  /\ req[r].step = "sight_other"
  /\ IF req[r].kind = "face" /\ Verified(FaceOf(r), BleOf(r), req[r].row.at)
     THEN req' = [req EXCEPT ![r].step = "sight_mark"]
     ELSE Done(r)
  /\ UNCHANGED <<clock, sig, rec, ev, used, history>>

\* Reads the other kind's row, after the write, and evaluates the pair.
ReadOtherSignal(r) ==
  /\ req[r].step = "sight_other"
  /\ IF Verified(FaceOf(r), BleOf(r), req[r].row.at)
     THEN req' = [req EXCEPT ![r].step = "sight_mark"]
     ELSE Done(r)
  /\ UNCHANGED <<clock, sig, rec, ev, used, history>>

\* Mutation: the status guard of the updateMany is forgotten.
MarkVerifiedUnguarded(r) ==
  LET s == req[r].student IN
  /\ req[r].step = "sight_mark"
  /\ Done(r)
  /\ IF ~ev[s]
     THEN /\ rec' = [rec EXCEPT ![s] = SystemMarked]
          /\ ev' = [ev EXCEPT ![s] = TRUE]
          /\ notices' = [notices EXCEPT ![s].system = @ + 1]
     ELSE UNCHANGED <<rec, ev, notices>>
  /\ UNCHANGED <<clock, sig, used, seen, away, undecided, torn>>

\* markVerified, one transaction: creates the record or overrides an "absent"
\* one, and adds the evidence.  When the record is anything else it is already
\* recorded; when an old evidence row is still there the unique key rolls the
\* whole transaction back and the request fails.  Parents are told on commit.
MarkVerified(r) ==
  LET s == req[r].student IN
  /\ req[r].step = "sight_mark"
  /\ Done(r)
  /\ IF Verifiable(rec[s]) /\ ~ev[s]
     THEN /\ rec' = [rec EXCEPT ![s] = SystemMarked]
          /\ ev' = [ev EXCEPT ![s] = TRUE]
          /\ notices' = [notices EXCEPT ![s].system = @ + 1]
     ELSE UNCHANGED <<rec, ev, notices>>
  /\ UNCHANGED <<clock, sig, used, seen, away, undecided, torn>>

----------------------------------------------------------------------------
(* updateAttendance: a teacher sets one student's status for today *)

\* The students an edit writes.
Marked(r) == {s \in Students : req[r].marks[s] # "none"}

\* What every hand edit writes: each upsert re-asserts the day from scratch.
WriteMarks(r) ==
  /\ rec' = [s \in Students |->
               IF s \in Marked(r) THEN HandMarked(req[r].marks[s]) ELSE rec[s]]
  /\ away' = [s \in Students |->
                IF req[r].marks[s] \in {"absent", "excused"} THEN away[s] + 1 ELSE away[s]]

\* deleteMany of the evidence of the records just written.
DropEvidence(r) ==
  /\ ev' = [s \in Students |-> ev[s] /\ s \notin Marked(r)]
  /\ torn' = [s \in Students |-> torn[s] /\ s \notin Marked(r)]

\* Reads, for a "present" of today, whether the student was present already.
Edit(r, s, status) ==
  /\ Count
  /\ Begin(r, [Idle EXCEPT !.step = "edit_write", !.student = s,
                           !.marks = [NoMarks EXCEPT ![s] = status],
                           !.already = status = "present" /\ rec[s].status = "present"])
  /\ UNCHANGED <<clock, sig, rec, ev, history>>

EditWrite(r) ==
  /\ req[r].step = "edit_write"
  /\ WriteMarks(r)
  /\ req' = [req EXCEPT ![r].step = "edit_evidence"]
  /\ UNCHANGED <<clock, sig, ev, used, seen, notices, undecided, torn>>

\* Mutation: a "present" that was present already keeps its evidence.
EditDropEvidenceOfChanged(r) ==
  /\ req[r].step = "edit_evidence"
  /\ IF req[r].already THEN UNCHANGED <<ev, torn>> ELSE DropEvidence(r)
  /\ LET s == req[r].student IN
     notices' = IF req[r].marks[s] = "present" /\ ~req[r].already
                THEN [notices EXCEPT ![s].hand = @ + 1]
                ELSE notices
  /\ Done(r)
  /\ UNCHANGED <<clock, sig, rec, used, seen, away, undecided>>

\* A hand edit supersedes the automatic evidence; then the parents are told of
\* a genuine change to present.
EditDropEvidence(r) ==
  LET s == req[r].student IN
  /\ req[r].step = "edit_evidence"
  /\ DropEvidence(r)
  /\ notices' = IF req[r].marks[s] = "present" /\ ~req[r].already
                THEN [notices EXCEPT ![s].hand = @ + 1]
                ELSE notices
  /\ Done(r)
  /\ UNCHANGED <<clock, sig, rec, used, seen, away, undecided>>

----------------------------------------------------------------------------
(* recordAttendance and importAttendance: many students at once *)

\* Reads the records of all entries and keeps those whose status would change.
Bulk(r, entries) ==
  /\ Count
  /\ entries # NoMarks
  /\ Begin(r, [Idle EXCEPT
                 !.step = "bulk_write",
                 !.marks = [s \in Students |->
                              IF rec[s].status = entries[s] THEN "none" ELSE entries[s]]])
  /\ UNCHANGED <<clock, sig, rec, ev, history>>

\* One transaction of upserts, on the strength of what was read.
BulkWrite(r) ==
  /\ req[r].step = "bulk_write"
  /\ WriteMarks(r)
  /\ IF Marked(r) = {} THEN Done(r)
                       ELSE req' = [req EXCEPT ![r].step = "bulk_evidence"]
  /\ UNCHANGED <<clock, sig, ev, used, seen, notices, undecided, torn>>

\* Drops the evidence of what changed.  Bulk entry never notifies.
BulkDropEvidence(r) ==
  /\ req[r].step = "bulk_evidence"
  /\ DropEvidence(r)
  /\ Done(r)
  /\ UNCHANGED <<clock, sig, rec, used, seen, notices, away, undecided>>

----------------------------------------------------------------------------
(* markPickedUp: the manual pickup *)

\* Reads the record; refuses one without an arrival or already picked up.
Pickup(r, s) ==
  /\ Count
  /\ StillHere(rec[s])
  /\ Begin(r, [Idle EXCEPT !.step = "pickup_write", !.student = s])
  /\ UNCHANGED <<clock, sig, rec, ev, history>>

\* Updates the record by its id alone: what was read is not asked again.
PickupWrite(r) ==
  LET s == req[r].student IN
  /\ req[r].step = "pickup_write"
  /\ rec' = [rec EXCEPT ![s] = PickedUp(@, FALSE)]
  /\ notices' = [notices EXCEPT ![s].pickup = @ + 1]
  /\ Done(r)
  /\ UNCHANGED <<clock, sig, ev, used, seen, away, undecided, torn>>

----------------------------------------------------------------------------
(* The pickup watch, seen from here: its two guarded writes.  PickupWatch   *)
(* says when it makes them.                                                 *)

\* Mutation: the guard of the updateMany leaves out pickedUpAt: null.
WatchPicksUpAgain(s) ==
  /\ Count
  /\ rec[s].status = "present" /\ rec[s].arrived
  /\ rec' = [rec EXCEPT ![s] = PickedUp(@, TRUE)]
  /\ notices' = [notices EXCEPT ![s].pickup = @ + 1]
  /\ UNCHANGED <<clock, sig, ev, req, seen, away, undecided, torn>>

\* autoMarkPickedUp
WatchPicksUp(s) ==
  /\ Count
  /\ StillHere(rec[s])
  /\ rec' = [rec EXCEPT ![s] = PickedUp(@, TRUE)]
  /\ notices' = [notices EXCEPT ![s].pickup = @ + 1]
  /\ UNCHANGED <<clock, sig, ev, req, seen, away, undecided, torn>>

\* The undo of watchCenter.
WatchPutsBack(s) ==
  /\ Count
  /\ rec[s].picked /\ rec[s].auto
  /\ rec' = [rec EXCEPT ![s] = PutBack(@)]
  /\ UNCHANGED <<clock, sig, ev, req, history>>

----------------------------------------------------------------------------
(* Time and failure *)

Tick ==
  /\ clock < MaxClock
  /\ clock' = clock + 1
  /\ UNCHANGED <<sig, rec, ev, req, used, history>>

\* A statement of r throws (a lost connection, a pool timeout): the statements
\* before it stay, the ones after it never run.  A request that dies before its
\* first write leaves no trace, as if it had never come.
Fail(r) ==
  /\ Count
  /\ req[r].step \in {"sight_other", "sight_mark", "edit_evidence", "bulk_evidence"}
  /\ Done(r)
  /\ undecided' = [undecided EXCEPT ![req[r].student] =
                     @ \/ req[r].step \in {"sight_other", "sight_mark"}]
  /\ torn' = [s \in Students |->
                \/ torn[s]
                \/ req[r].step \in {"edit_evidence", "bulk_evidence"} /\ s \in Marked(r)]
  /\ UNCHANGED <<clock, sig, rec, ev, seen, notices, away>>

Next ==
  \/ \E r \in Requests, s \in Students :
       \/ \E kind \in Kinds, good \in BOOLEAN, now \in 0..clock :
            ReadOwnSignal(r, s, kind, good, now)
       \/ \E status \in Statuses : Edit(r, s, status)
       \/ Pickup(r, s)
  \/ \E r \in Requests, entries \in Marks : Bulk(r, entries)
  \/ \E r \in Requests : \/ WriteOwnSignal(r)
                         \/ ReadOtherSignal(r)
                         \/ MarkVerified(r)
                         \/ EditWrite(r)
                         \/ EditDropEvidence(r)
                         \/ BulkWrite(r)
                         \/ BulkDropEvidence(r)
                         \/ PickupWrite(r)
                         \/ Fail(r)
  \/ \E s \in Students : WatchPicksUp(s) \/ WatchPutsBack(s)
  \/ Tick

Spec == Init /\ [][Next]_vars

----------------------------------------------------------------------------
(* Properties *)

\* Neither signal is enough, and one stray reading of each is not enough: when
\* the system has put a student down as present, or evidence is stored, at
\* least MinHits readings of EACH kind have been folded into the student's
\* rows, however the merges of concurrent readings overlapped (mergeSignal,
\* isSignalPresent and the unguarded upsert of recordSignal).
VerifiedOnlyAfterRepeatedSightings ==
  \A s \in Students :
    ev[s] \/ rec[s].by = "system" => \A k \in Kinds : seen[s][k] >= MinHits

\* Both halves of the pair are on file and current.
PairComplete(s) == Verified(sig[s]["face"], sig[s]["ble"], clock)

\* Request r has the pair of s in hand and will still decide on it.
WillDecide(r, s) ==
  /\ req[r].student = s
  /\ \/ req[r].step = "sight_mark"
     \/ /\ req[r].step = "sight_other"
        /\ req[r].row = sig[s][req[r].kind]

\* No pair is missed: a student with two current signals and still no record is
\* about to be decided on by some request in flight, even when the two halves
\* arrive at the same moment in different requests.  recordSignal writes its
\* own row before it reads the other one.  The exception is a request that
\* dies in between, until the next reading of that student is stored.
NoPairMissed ==
  \A s \in Students :
    PairComplete(s) /\ rec[s].status = "none" /\ ~undecided[s]
      => \E r \in Requests : WillDecide(r, s)

\* "a manual entry is never labelled verified" (docs/SMART_ATTENDANCE.md): a
\* record last written by hand carries evidence only while the request that
\* wrote it has yet to delete it, or because that request died before it could.
HandEntryNeverVerified ==
  \A s \in Students :
    ev[s] /\ rec[s].by = "hand" /\ ~torn[s]
      => \E r \in Requests : /\ req[r].step \in {"edit_evidence", "bulk_evidence"}
                             /\ s \in Marked(r)

\* The parents hear of an automatic arrival once for the day, and once more at
\* most for every time a teacher has since marked the student as not present:
\* verifications that race each other, or a hand edit, announce one arrival.
SystemArrivalAnnouncedOnce ==
  \A s \in Students : notices[s].system <= 1 + away[s]

\* A "present" or "excused" entered by hand stands: no step of the automatic
\* verification or of the pickup watch turns it into the system's own record
\* (markVerified's comment, "any other existing record is never overwritten").
HandEntryStands ==
  [][\A s \in Students :
       rec[s].by = "hand" /\ rec'[s].by = "system" => rec[s].status = "absent"]_vars

Contract == INSTANCE DayContract

\* Every write of every request, at the moment it reaches the database, is one
\* the contract allows: the watch marks only a student who is still here and
\* puts back only one it marked itself, a manual pickup is never undone, the
\* verification writes only over nothing or over "absent".
ImplementsContract == Contract!Spec

\* A pickup belongs to a student who is on record as having arrived
\* (docs/SMART_ATTENDANCE.md: "only if the student arrived and hasn't already
\* been picked up").
PickedUpOnlyIfPresent ==
  \A s \in Students : rec[s].picked => rec[s].status = "present"

\* The parents hear of an arrival once, by whichever path ("once - re-saving an
\* already-present student does not re-notify").
ArrivalAnnouncedOnce ==
  \A s \in Students : notices[s].system + notices[s].hand <= 1 + away[s]

=============================================================================
