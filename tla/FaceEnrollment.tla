--------------------------- MODULE FaceEnrollment ---------------------------
(***************************************************************************)
(* The face photos of the students: the backend's requests about them      *)
(* (enrollmentPhotos.controller.js, enrollmentReconcile.js, the deletion   *)
(* of a student, through recognitionClient.js) and the face service that   *)
(* keeps them (face-recognition-service/app.py).                           *)
(*                                                                         *)
(* Three things change one after the other: the student's row in the       *)
(* database, the folders on the service's disk, and the index in its       *)
(* memory that faces are matched against.  A lock lets the service handle  *)
(* one request at a time; its statements on the disk are steps here,       *)
(* because it can die, or fail, at each, and because the threads that list *)
(* and serve photos do not take the lock.                                  *)
(*                                                                         *)
(* A request stays with the service when the backend gives up waiting, and *)
(* is handled all the same: a timeout changes only what the client is      *)
(* told, so it is no step.  A photo is a pair <<upload, name>>: the names  *)
(* start from 0 in every upload.  An empty folder stands for none.         *)
(***************************************************************************)
EXTENDS Naturals, FiniteSets

CONSTANTS
  Students,
  Nobody,      \* the student of a request about none, the holder of a free lock
  Requests,    \* requests in flight at one time
  MaxPhotos,   \* MAX_ENROLLMENT_PHOTOS
  MaxOps       \* bound: requests, changes of the rows, and failures, together

ASSUME EnrollmentAssumption ==
  Nobody \notin Students \cup Requests /\ MaxPhotos \in Nat \ {0} /\ MaxOps \in Nat

VARIABLES
  student,   \* student[s]: the row of s
  dir,       \* dir[s]: the folder of s
  tmp, old,  \* tmp[s], old[s]: the folders s.tmp and s.old
  known,     \* known[s]: the photos that the encoding in the index is made from
  holder,    \* the request that holds enroll_lock
  req,       \* req[r]: the request r is serving
  view,      \* somebody looking through the photos of a student
  uploads,   \* how many uploads there have been
  used,      \* how much of MaxOps is used up
  (* history *)
  kept,      \* kept[s]: the set last put in place, unless given up since
  hidden,    \* hidden[s]: that set was left aside by a crash or a failed undo
  stored,    \* stored[s]: the uploads the service has written down
  gone,      \* gone[s]: those written down before s was last erased
  missed     \* missed[s]: why photos of s may outlive s

folders == <<dir, tmp, old>>
history == <<kept, hidden, stored, gone, missed>>
vars == <<student, folders, known, holder, req, view, uploads, used, history>>

\* enumerate(saved)
Names == 0..(MaxPhotos - 1)

Photos == (1..MaxOps) \X Names

Request ==
  [step   : {"idle", "sent", "write", "analyze", "clear", "aside", "in", "drop", "index",
             "rm_dir", "rm_tmp", "rm_old", "forget", "scan", "publish", "plan", "next"},
   op     : {"none", "enroll", "erase", "reload", "reconcile"},
   who    : Students \cup {Nobody},
   photos : SUBSET Photos,                 \* what it uploads, then what is usable of that
   read   : [Students -> SUBSET Photos],   \* the folders as a reload read them
   todo   : SUBSET Students,               \* the students of a reconciliation
   purge  : BOOLEAN]                       \* its --purge-inactive

NoPhotos == [s \in Students |-> {}]

Idle == [step |-> "idle", op |-> "none", who |-> Nobody, photos |-> {},
         read |-> NoPhotos, todo |-> {}, purge |-> FALSE]

View == [step     : {"idle", "listed", "open"},
         who      : Students \cup {Nobody},
         listed   : SUBSET Photos,   \* the set whose version it got with the list
         name     : Names,           \* the photo it is about to be served
         served   : SUBSET Photos,   \* the photo it was served
         replaced : BOOLEAN]         \* (history) the set was, or erased, while it was being served

NotLooking == [step |-> "idle", who |-> Nobody, listed |-> {}, name |-> 0,
               served |-> {}, replaced |-> FALSE]

TypeOK ==
  /\ student \in [Students -> {"none", "active", "inactive", "deleted"}]
  /\ {dir, tmp, old, known, kept} \subseteq [Students -> SUBSET Photos]
  /\ holder \in Requests \cup {Nobody}
  /\ req \in [Requests -> Request]
  /\ view \in View
  /\ uploads \in 0..MaxOps /\ used \in 0..MaxOps
  /\ hidden \in [Students -> BOOLEAN]
  /\ {stored, gone, missed} \subseteq [Students -> SUBSET (0..MaxOps)]

\* Nobody is enrolled yet.
Init ==
  /\ student \in [Students -> {"none", "active"}]
  /\ dir = NoPhotos /\ tmp = NoPhotos /\ old = NoPhotos /\ known = NoPhotos
  /\ holder = Nobody
  /\ req = [r \in Requests |-> Idle]
  /\ view = NotLooking
  /\ uploads = 0 /\ used = 0
  /\ kept = NoPhotos /\ hidden = [s \in Students |-> FALSE]
  /\ stored = NoPhotos /\ gone = NoPhotos /\ missed = NoPhotos

Count == used < MaxOps /\ used' = used + 1

UploadsOf(photos) == {p[1] : p \in photos}

\* Mutation: not looked up.
ExistedOnce(s) == student[s] # "none"

Exists(s) == student[s] \in {"active", "inactive"}

Begin(r, fields) ==
  /\ Count
  /\ req[r].step = "idle"
  /\ req' = [req EXCEPT ![r] = fields]

At(r, step) == req[r].step = step

GoTo(r, step) == req' = [req EXCEPT ![r].step = step]

\* What is left of a request when the service has answered it, or never will: a
\* reconciliation goes on with its next student.
Answered(request) ==
  IF request.op = "reconcile"
  THEN [request EXCEPT !.step = "next", !.who = Nobody, !.todo = @ \ {request.who}]
  ELSE Idle

Release(r) == holder' = Nobody /\ req' = [req EXCEPT ![r] = Answered(@)]

----------------------------------------------------------------------------
(* The backend *)

\* uploadEnrollmentPhotos: the student is looked up, then the photos are sent.
UploadEnrollmentPhotos(r, s, last) ==
  /\ Exists(s)
  /\ uploads' = uploads + 1
  /\ Begin(r, [Idle EXCEPT !.step = "sent", !.op = "enroll", !.who = s,
                           !.photos = {uploads'} \X (0..last)])
  /\ UNCHANGED <<student, folders, known, holder, view, history>>

\* deleteEnrollmentPhotos: an administrator's request is not checked against the row.
DeleteEnrollmentPhotos(r, s) ==
  /\ student[s] # "none"
  /\ Begin(r, [Idle EXCEPT !.step = "sent", !.op = "erase", !.who = s])
  /\ UNCHANGED <<student, folders, known, holder, view, uploads, history>>

\* deleteStudent: the row goes first, then the photos, whatever becomes of that.
DeleteStudent(r, s) ==
  /\ Exists(s)
  /\ student' = [student EXCEPT ![s] = "deleted"]
  /\ Begin(r, [Idle EXCEPT !.step = "sent", !.op = "erase", !.who = s])
  /\ missed' = [missed EXCEPT ![s] =
                  @ \cup UNION {UploadsOf(req[q].photos) : q \in {p \in Requests : req[p].who = s}}]
  /\ UNCHANGED <<folders, known, holder, view, uploads, kept, hidden, stored, gone>>

\* createStudent and updateStudent: ids are never given out twice.
ChangeStudent(s, status) ==
  /\ Count
  /\ student[s] \in IF status = "active" THEN {"none", "inactive"} ELSE {"active"}
  /\ student' = [student EXCEPT ![s] = status]
  /\ UNCHANGED <<folders, known, holder, req, view, uploads, history>>

\* POST /reload, by hand, after somebody has changed folders.
Reload(r) ==
  /\ Begin(r, [Idle EXCEPT !.step = "sent", !.op = "reload"])
  /\ UNCHANGED <<student, folders, known, holder, view, uploads, history>>

\* reconcileEnrollments: list_enrollments sees the folders named by an id.
ReconcileLists(r, purge) ==
  /\ Begin(r, [Idle EXCEPT !.step = "plan", !.op = "reconcile", !.purge = purge,
                           !.todo = {s \in Students : dir[s] # {}}])
  /\ UNCHANGED <<student, folders, known, holder, view, uploads, history>>

\* Mutation: "inactive" taken for gone.
ToEraseInactive(s, purge) == student[s] # "active"

\* planReconcile
ToErase(s, purge) == student[s] = "deleted" \/ (purge /\ student[s] = "inactive")

ReconcilePlans(r) ==
  /\ At(r, "plan")
  /\ req' = [req EXCEPT ![r].step = "next",
                        ![r].todo = {s \in @ : ToErase(s, req[r].purge)}]
  /\ UNCHANGED <<student, folders, known, holder, view, uploads, used, history>>

ReconcileNext(r) ==
  /\ At(r, "next")
  /\ IF req[r].todo = {} THEN req' = [req EXCEPT ![r] = Idle]
     ELSE \E s \in req[r].todo : req' = [req EXCEPT ![r].step = "sent", ![r].who = s]
  /\ UNCHANGED <<student, folders, known, holder, view, uploads, used, history>>

\* The service is not there, or the request does not reach it.
RequestLost(r) ==
  /\ Count
  /\ At(r, "sent")
  /\ req' = [req EXCEPT ![r] = Answered(@)]
  /\ missed' = [s \in Students |->
                  IF s = req[r].who /\ req[r].op # "enroll" THEN missed[s] \cup {0} ELSE missed[s]]
  /\ UNCHANGED <<student, folders, known, holder, view, uploads, kept, hidden, stored, gone>>

----------------------------------------------------------------------------
(* The face service: one request at a time *)

\* Mutation: a step that nothing handles.
FirstStepUnknown == [enroll |-> "write", erase |-> "rm_dir", reconcile |-> "rm_dir",
                     reload |-> "load"]

FirstStep == [enroll |-> "write", erase |-> "rm_dir", reconcile |-> "rm_dir",
              reload |-> "scan"]

\* Mutation: a reload does not wait for the lock.
NeedsLockUnlessReload(op) == op # "reload"

NeedsLock(op) == TRUE

\* async with app.state.enroll_lock
Acquire(r) ==
  /\ At(r, "sent")
  /\ IF NeedsLock(req[r].op) THEN holder = Nobody /\ holder' = r ELSE UNCHANGED holder
  /\ GoTo(r, FirstStep[req[r].op])
  /\ UNCHANGED <<student, folders, known, view, uploads, used, history>>

\* Mutation: the temporary folder of an earlier try is not removed first.
WriteOnTop(r) ==
  /\ At(r, "write")
  /\ LET s == req[r].who
         new == req[r].photos
     IN /\ tmp' = [tmp EXCEPT ![s] = new \cup {p \in @ : p[2] \notin {q[2] : q \in new}}]
        /\ stored' = [stored EXCEPT ![s] = @ \cup UploadsOf(new)]
  /\ GoTo(r, "analyze")
  /\ UNCHANGED <<student, dir, old, known, holder, view, uploads, used, kept, hidden, gone, missed>>

\* enroll: the photos are written into an empty temporary folder.
Write(r) ==
  /\ At(r, "write")
  /\ LET s == req[r].who
     IN /\ tmp' = [tmp EXCEPT ![s] = req[r].photos]
        /\ stored' = [stored EXCEPT ![s] = @ \cup UploadsOf(req[r].photos)]
  /\ GoTo(r, "analyze")
  /\ UNCHANGED <<student, dir, old, known, holder, view, uploads, used, kept, hidden, gone, missed>>

\* analyze_student_dir: only photos of exactly one face are kept; with none of
\* them the upload is refused.
Analyze(r) ==
  /\ At(r, "analyze")
  /\ \E usable \in SUBSET tmp[req[r].who] :
       /\ tmp' = [tmp EXCEPT ![req[r].who] = usable]
       /\ IF usable = {} THEN Release(r)
          ELSE /\ req' = [req EXCEPT ![r].photos = usable, ![r].step = "clear"]
               /\ UNCHANGED holder
  /\ UNCHANGED <<student, dir, old, known, view, uploads, used, history>>

\* rmtree(old_dir, ignore_errors=True): goes on when that fails.  A set that was
\* left there by an earlier mishap is given up here.
ClearOld(r) ==
  /\ At(r, "clear")
  /\ LET s == req[r].who
     IN /\ \/ old' = [old EXCEPT ![s] = {}] /\ UNCHANGED used
           \/ Count /\ old[s] # {} /\ UNCHANGED old
        /\ kept' = IF hidden[s] THEN [kept EXCEPT ![s] = {}] ELSE kept
  /\ GoTo(r, "aside")
  /\ UNCHANGED <<student, dir, tmp, known, holder, view, uploads, hidden, stored, gone, missed>>

\* os.replace(student_dir, old_dir): fails on a folder that is not empty.
MoveAside(r) ==
  /\ At(r, "aside")
  /\ LET s == req[r].who
     IN IF dir[s] # {} /\ old[s] # {}
        THEN /\ tmp' = [tmp EXCEPT ![s] = {}]
             /\ Release(r)
             /\ UNCHANGED <<dir, old>>
        ELSE /\ dir' = [dir EXCEPT ![s] = {}]
             /\ old' = IF dir[s] # {} THEN [old EXCEPT ![s] = dir[s]] ELSE old
             /\ GoTo(r, "in")
             /\ UNCHANGED <<tmp, holder>>
  /\ UNCHANGED <<student, known, view, uploads, used, history>>

\* (history) The photo of s that is being served, if any, is of a set that goes now.
Interrupt(s) ==
  view' = IF view.who = s /\ view.step = "open" THEN [view EXCEPT !.replaced = TRUE] ELSE view

\* os.replace(tmp_dir, student_dir)
MoveIn(r) ==
  /\ At(r, "in")
  /\ LET s == req[r].who
     IN /\ dir' = [dir EXCEPT ![s] = tmp[s]]
        /\ tmp' = [tmp EXCEPT ![s] = {}]
        /\ kept' = [kept EXCEPT ![s] = tmp[s]]
        /\ hidden' = [hidden EXCEPT ![s] = FALSE]
        /\ Interrupt(s)
  /\ GoTo(r, "drop")
  /\ UNCHANGED <<student, old, known, holder, uploads, used, stored, gone, missed>>

\* Mutation: the old folder is not put back.
MoveInFailsForGood(r) ==
  /\ Count
  /\ At(r, "in")
  /\ tmp' = [tmp EXCEPT ![req[r].who] = {}]
  /\ Release(r)
  /\ UNCHANGED <<student, dir, old, known, view, uploads, history>>

\* That rename fails: the old folder is put back, unless that fails too.
MoveInFails(r) ==
  /\ Count
  /\ At(r, "in")
  /\ LET s == req[r].who
     IN /\ tmp' = [tmp EXCEPT ![s] = {}]
        /\ IF old[s] # {} /\ dir[s] = {}
           THEN \/ /\ dir' = [dir EXCEPT ![s] = old[s]]
                   /\ old' = [old EXCEPT ![s] = {}]
                   /\ UNCHANGED hidden
                \/ /\ hidden' = [hidden EXCEPT ![s] = TRUE]
                   /\ UNCHANGED <<dir, old>>
           ELSE UNCHANGED <<dir, old, hidden>>
  /\ Release(r)
  /\ UNCHANGED <<student, known, view, uploads, kept, stored, gone, missed>>

\* Writing, analysing or moving aside fails.
EnrollFails(r) ==
  /\ Count
  /\ req[r].step \in {"write", "analyze", "aside"}
  /\ tmp' = [tmp EXCEPT ![req[r].who] = {}]
  /\ Release(r)
  /\ UNCHANGED <<student, dir, old, known, view, uploads, history>>

DropOld(r) ==
  /\ At(r, "drop")
  /\ \/ old' = [old EXCEPT ![req[r].who] = {}] /\ UNCHANGED used
     \/ Count /\ old[req[r].who] # {} /\ UNCHANGED old
  /\ GoTo(r, "index")
  /\ UNCHANGED <<student, dir, tmp, known, holder, view, uploads, history>>

\* with_student
Index(r) ==
  /\ At(r, "index")
  /\ known' = [known EXCEPT ![req[r].who] = req[r].photos]
  /\ Release(r)
  /\ UNCHANGED <<student, folders, view, uploads, used, history>>

\* An erasure was asked for, or the student is gone.
Meant(request) == request.op = "erase" \/ request.purge \/ ~Exists(request.who)

GiveUp(r) == kept' = IF Meant(req[r]) THEN [kept EXCEPT ![req[r].who] = {}] ELSE kept

\* unenroll: the folders go one by one, then the encoding.
RemoveDir(r) ==
  /\ At(r, "rm_dir")
  /\ dir' = [dir EXCEPT ![req[r].who] = {}]
  /\ GiveUp(r)
  /\ Interrupt(req[r].who)
  /\ GoTo(r, "rm_tmp")
  /\ UNCHANGED <<student, tmp, old, known, holder, uploads, used, hidden, stored, gone, missed>>

RemoveTmp(r) ==
  /\ At(r, "rm_tmp")
  /\ tmp' = [tmp EXCEPT ![req[r].who] = {}]
  /\ GoTo(r, "rm_old")
  /\ UNCHANGED <<student, dir, old, known, holder, view, uploads, used, history>>

\* Mutation: the folder aside is forgotten.
SkipOld(r) ==
  /\ At(r, "rm_old")
  /\ GoTo(r, "forget")
  /\ UNCHANGED <<student, folders, known, holder, view, uploads, used, history>>

RemoveOld(r) ==
  /\ At(r, "rm_old")
  /\ old' = [old EXCEPT ![req[r].who] = {}]
  /\ GoTo(r, "forget")
  /\ UNCHANGED <<student, dir, tmp, known, holder, view, uploads, used, history>>

\* without_student; the answer says that s is erased.
Forget(r) ==
  /\ At(r, "forget")
  /\ LET s == req[r].who
     IN /\ known' = [known EXCEPT ![s] = {}]
        /\ gone' = [gone EXCEPT ![s] = stored[s]]
        /\ missed' = [missed EXCEPT ![s] = @ \ {0}]
        /\ hidden' = [hidden EXCEPT ![s] = FALSE]
  /\ Release(r)
  /\ UNCHANGED <<student, folders, view, uploads, used, kept, stored>>

\* Removing a folder fails, some of its photos gone: the index keeps the encoding.
RemoveFails(r) ==
  /\ Count
  /\ LET s == req[r].who
         Part(folder) == \E rest \in (SUBSET folder[s]) \ {{}} : folder' = [folder EXCEPT ![s] = rest]
     IN /\ \/ At(r, "rm_dir") /\ Part(dir) /\ UNCHANGED <<tmp, old>>
           \/ At(r, "rm_tmp") /\ Part(tmp) /\ UNCHANGED <<dir, old>>
           \/ At(r, "rm_old") /\ Part(old) /\ UNCHANGED <<dir, tmp>>
        /\ GiveUp(r)
        /\ missed' = [missed EXCEPT ![s] = @ \cup {0}]
  /\ Release(r)
  /\ UNCHANGED <<student, known, view, uploads, hidden, stored, gone>>

\* reload: load_known_faces reads the folders, then the new index takes effect.
Scan(r) ==
  /\ At(r, "scan")
  /\ req' = [req EXCEPT ![r].read = dir, ![r].step = "publish"]
  /\ UNCHANGED <<student, folders, known, holder, view, uploads, used, history>>

Publish(r) ==
  /\ At(r, "publish")
  /\ known' = req[r].read
  /\ holder' = IF holder = r THEN Nobody ELSE holder
  /\ req' = [req EXCEPT ![r] = Idle]
  /\ UNCHANGED <<student, folders, view, uploads, used, history>>

\* Steps of a request the service is handling.
InService(request) == request.step \notin {"idle", "sent", "plan", "next"}

\* The service dies and starts again: load_known_faces reads the folders named by
\* an id, and only those.
Crash ==
  /\ Count
  /\ holder' = Nobody
  /\ req' = [r \in Requests |-> IF InService(req[r]) THEN Answered(req[r]) ELSE req[r]]
  /\ known' = dir
  /\ hidden' = [s \in Students |-> hidden[s] \/ (kept[s] # {} /\ dir[s] = {})]
  /\ missed' = [s \in Students |->
                  IF \E r \in Requests : /\ InService(req[r]) /\ req[r].who = s
                                         /\ req[r].op # "enroll"
                  THEN missed[s] \cup {0} ELSE missed[s]]
  /\ UNCHANGED <<student, folders, view, uploads, kept, stored, gone>>

----------------------------------------------------------------------------
(* Looking at the photos of a student: the threads that answer take no lock *)

\* list_enrolled_photos: how many there are, and the version of the set.
ViewLists(s) ==
  /\ Count
  /\ view.step = "idle" /\ dir[s] # {}
  /\ view' = [NotLooking EXCEPT !.step = "listed", !.who = s, !.listed = dir[s]]
  /\ UNCHANGED <<student, folders, known, holder, req, uploads, history>>

\* Mutation: the version is not looked at.
AnyVersion(listed, folder) == TRUE

\* _photo_set_version
SameVersion(listed, folder) == listed = folder

\* get_enrolled_photo: the version is compared and the position becomes a path...
ViewChecks(name) ==
  /\ view.step = "listed"
  /\ SameVersion(view.listed, dir[view.who])
  /\ name \in {p[2] : p \in dir[view.who]}
  /\ view' = [view EXCEPT !.step = "open", !.name = name, !.served = {}, !.replaced = FALSE]
  /\ UNCHANGED <<student, folders, known, holder, req, uploads, used, history>>

\* ... and the file there is then opened; there may be none any more (404).
ViewOpens ==
  /\ view.step = "open"
  /\ view' = [view EXCEPT !.step = "listed",
                          !.served = {p \in dir[view.who] : p[2] = view.name}]
  /\ UNCHANGED <<student, folders, known, holder, req, uploads, used, history>>

\* Done, or told that the photos changed (409).
ViewEnds ==
  /\ view.step = "listed"
  /\ view' = NotLooking
  /\ UNCHANGED <<student, folders, known, holder, req, uploads, used, history>>

----------------------------------------------------------------------------

Next ==
  \/ \E r \in Requests :
       \/ \E s \in Students : \/ \E last \in Names : UploadEnrollmentPhotos(r, s, last)
                              \/ DeleteEnrollmentPhotos(r, s)
                              \/ DeleteStudent(r, s)
       \/ Reload(r)
       \/ \E purge \in BOOLEAN : ReconcileLists(r, purge)
       \/ ReconcilePlans(r) \/ ReconcileNext(r)
       \/ RequestLost(r) \/ Acquire(r)
       \/ Write(r) \/ Analyze(r) \/ ClearOld(r) \/ MoveAside(r) \/ MoveIn(r) \/ MoveInFails(r)
       \/ EnrollFails(r) \/ DropOld(r) \/ Index(r)
       \/ RemoveDir(r) \/ RemoveTmp(r) \/ RemoveOld(r) \/ Forget(r) \/ RemoveFails(r)
       \/ Scan(r) \/ Publish(r)
  \/ \E s \in Students :
       \/ \E status \in {"active", "inactive"} : ChangeStudent(s, status)
       \/ ViewLists(s)
  \/ \E name \in Names : ViewChecks(name)
  \/ ViewOpens \/ ViewEnds
  \/ Crash

Spec == Init /\ [][Next]_vars

----------------------------------------------------------------------------
(* Properties *)

Swapping(s) == \E r \in Requests : req[r].who = s /\ At(r, "in")

\* However an upload fails, or is refused, the set enrolled before it is still in
\* place; a crash in the middle of the exchange, or two failed renames, leave it in
\* the folder aside, until the next upload gives it up.  And no reconciliation takes
\* it on its own account while the student exists, one registered and enrolled
\* between its list and its plan included.
PreviousStays ==
  \A s \in Students : kept[s] # {} =>
    IF hidden[s] \/ Swapping(s) THEN old[s] = kept[s] ELSE dir[s] = kept[s]

\* Once an erasure was answered, no photo written before it is anywhere, nor matched
\* against, nor ever comes back: not from a folder a crash left behind, a reload, or an undo.
ErasedIsGone ==
  \A s \in Students :
    \A p \in dir[s] \cup tmp[s] \cup old[s] \cup known[s] : p[1] \notin gone[s]

\* While nothing is being changed, faces are matched against the photos that are in
\* place, except after an erasure that failed half-way and after an exchange that
\* failed and could not be undone.
IndexFollowsDisk ==
  holder = Nobody =>
    \A s \in Students : known[s] = dir[s] \/ 0 \in missed[s] \/ hidden[s]

\* The photos of a deleted student remain only if their erasure failed, or if their
\* upload was under way when the student was deleted.
OrphansExplained ==
  \A s \in Students :
    (student[s] = "deleted" /\ \A r \in Requests : req[r].who # s) =>
      \/ 0 \in missed[s]
      \/ UploadsOf(dir[s]) \subseteq missed[s]

\* A photo served under the version of a list is of the set that was listed, unless
\* the set was replaced, or erased, while this very photo was being served: what is put
\* back by an upload that fails may then be an older set, left aside by an earlier one.
ServedFromListedSet == view.served \subseteq view.listed \/ view.replaced

\* The two renames of an exchange are one replacement: while it is under way, the set
\* aside counts as the set in place.
Contract ==
  INSTANCE PhotoSets WITH
    held    <- [s \in Students |-> IF Swapping(s) THEN old[s] ELSE dir[s]],
    encoded <- known

ImplementsPhotoSets == Contract!Spec

=============================================================================
