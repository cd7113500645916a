------------------------ MODULE FaceEnrollmentProofs ------------------------
(***************************************************************************)
(* What FaceEnrollment promises for every number of students, requests and *)
(* photos, however many of them fail or are lost and however often the     *)
(* service dies; and that its folders and its index implement PhotoSets.   *)
(***************************************************************************)
EXTENDS FaceEnrollment, TLAPS

----------------------------------------------------------------------------
(* The inductive invariants *)

EnrollSteps == {"write", "analyze", "clear", "aside", "in", "drop", "index"}

EraseSteps == {"rm_dir", "rm_tmp", "rm_old", "forget"}

\* What the step of a request says of its other fields.
WellFormed(q) ==
  /\ q.step \in EnrollSteps => q.op = "enroll"
  /\ q.step \in EraseSteps => q.op \in {"erase", "reconcile"}
  /\ q.step \in {"scan", "publish"} => q.op = "reload"
  /\ q.step \in {"plan", "next"} => q.op = "reconcile" /\ q.who = Nobody
  /\ q.step = "idle" <=> q.op = "none"
  /\ q.op \in {"enroll", "erase"} => q.who \in Students
  /\ q.op = "reconcile" /\ q.step \notin {"plan", "next"} => q.who \in Students /\ q.who \in q.todo
  /\ q.op # "enroll" => q.photos = {}

\* The service handles the request that holds the lock, and no other.
Locked == \A r \in Requests : InService(req[r]) <=> holder = r

Base ==
  /\ TypeOK /\ uploads <= used
  /\ view.step # "idle" => view.who \in Students
  /\ \A r \in Requests : WellFormed(req[r])
  /\ Locked

\* A reconciliation without --purge-inactive erases students who are deleted, and
\* will be for good.
DeletedOnly(q) ==
  q.op = "reconcile" /\ ~q.purge /\ q.step # "plan" => \A s \in q.todo : student[s] = "deleted"

\* What holds of the folders of its student at each step of a request.
AtWork(q) ==
  LET s == q.who
  IN /\ q.step \in {"analyze", "clear", "aside", "in"} => tmp[s] = q.photos
     /\ q.step \in {"clear", "aside", "in", "drop", "index"} => q.photos # {}
     /\ q.step \in {"aside", "in"} => (hidden[s] => kept[s] = {})
     /\ q.step = "in" => dir[s] = {}
     /\ q.step \in {"drop", "index"} => dir[s] = q.photos /\ kept[s] = q.photos /\ ~hidden[s]
     /\ q.step \in {"rm_tmp", "rm_old", "forget"} => dir[s] = {} /\ kept[s] = {}
     /\ q.step \in {"rm_old", "forget"} => tmp[s] = {}
     /\ q.step = "forget" => old[s] = {}
     /\ q.step = "publish" => q.read = dir

OneUpload(photos) == \A p, x \in photos : p[1] = x[1]

WorkOK ==
  /\ \A r \in Requests : DeletedOnly(req[r])
  /\ \A r \in Requests : AtWork(req[r])
  /\ \A r \in Requests : OneUpload(req[r].photos)
  /\ \A s \in Students : OneUpload(dir[s]) /\ OneUpload(old[s])

\* The photos of a request that are not written yet are of an upload of its own.
Unwritten(q) == q.step \in {"sent", "write"}

Apart ==
  /\ \A r \in Requests : \A p \in req[r].photos : p[1] <= uploads
  /\ \A r, q \in Requests : r # q =>
       \A p \in req[r].photos : \A x \in req[q].photos : p[1] # x[1]

WrittenOK ==
  /\ \A s \in Students : gone[s] \subseteq stored[s]
  /\ \A s \in Students : \A n \in stored[s] : n <= uploads
  /\ \A r \in Requests : Unwritten(req[r]) =>
       \A p \in req[r].photos : \A s \in Students : p[1] \notin stored[s]
  /\ \A r \in Requests : InService(req[r]) =>
       \A p \in req[r].photos : p[1] \notin gone[req[r].who]

\* What is known of s is in place, and is the set last put there.
Level(s) ==
  \/ known[s] = dir[s] /\ kept[s] = dir[s] /\ (dir[s] = {} => old[s] = {})
  \/ 0 \in missed[s] \/ hidden[s]

\* In the middle of an exchange it is aside.
LevelAside(s) ==
  \/ known[s] = old[s] /\ kept[s] = old[s]
  \/ 0 \in missed[s] \/ hidden[s]

LevelOK ==
  \A s \in Students :
    \/ Level(s)
    \/ \E r \in Requests : /\ req[r].who = s
                           /\ \/ At(r, "in") /\ LevelAside(s)
                              \/ req[r].step \in {"drop", "index", "rm_tmp", "rm_old", "forget"}

Erasing(s) == \E r \in Requests : req[r].who = s /\ req[r].op \in {"erase", "reconcile"}

Orphans(s) ==
  student[s] = "deleted" =>
    /\ \A r \in Requests : req[r].who = s => UploadsOf(req[r].photos) \subseteq missed[s]
    /\ 0 \in missed[s] \/ Erasing(s) \/ UploadsOf(dir[s] \cup old[s]) \subseteq missed[s]

OrphansOK == \A s \in Students : Orphans(s)

Watched ==
  view.step = "open" /\ ~view.replaced =>
    /\ dir[view.who] \subseteq view.listed
    /\ dir[view.who] = {} => old[view.who] \subseteq view.listed

Steps == {"idle", "sent", "plan", "next", "scan", "publish"} \cup EnrollSteps \cup EraseSteps

Ops == {"none", "enroll", "erase", "reload", "reconcile"}

----------------------------------------------------------------------------
(* What the steps do to the requests *)

\* p is q, at another step.
Moved(q, p, step) ==
  /\ p.step = step /\ p.op = q.op /\ p.who = q.who /\ p.photos = q.photos
  /\ p.read = q.read /\ p.todo = q.todo /\ p.purge = q.purge

\* p is what is left of q.
Over(q, p) ==
  /\ p.who = Nobody
  /\ q.op = "reconcile" =>
       /\ p.step = "next" /\ p.op = "reconcile" /\ p.photos = q.photos
       /\ p.todo = q.todo \ {q.who} /\ p.purge = q.purge
  /\ q.op # "reconcile" => p.step = "idle" /\ p.op = "none" /\ p.photos = {} /\ p.todo = {}

Elsewhere(r) == \A q \in Requests : q # r => req'[q] = req[q]

LEMMA RequestFields ==
  ASSUME NEW q
  PROVE  q \in Request =>
           /\ q.step \in Steps /\ q.op \in Ops /\ q.who \in Students \cup {Nobody}
           /\ q.photos \in SUBSET Photos /\ q.read \in [Students -> SUBSET Photos]
           /\ q.todo \in SUBSET Students /\ q.purge \in BOOLEAN
BY DEF Request, Steps, Ops, EnrollSteps, EraseSteps

LEMMA GoToEffect ==
  ASSUME req \in [Requests -> Request], NEW r \in Requests, NEW step \in Steps, GoTo(r, step)
  PROVE  req' \in [Requests -> Request] /\ Elsewhere(r) /\ Moved(req[r], req'[r], step)
<1>1. req[r] \in Request
  OBVIOUS
<1>2. req' = [req EXCEPT ![r] = [req[r] EXCEPT !.step = step]]
  BY DEF GoTo
<1>3. [req[r] EXCEPT !.step = step] \in Request
  BY <1>1 DEF Request, Steps, EnrollSteps, EraseSteps
<1>4. Moved(req[r], [req[r] EXCEPT !.step = step], step)
  BY <1>1 DEF Request, Moved
<1> QED
  BY <1>2, <1>3, <1>4 DEF Elsewhere

LEMMA IdleFields ==
  /\ Idle \in Request
  /\ Idle.step = "idle" /\ Idle.op = "none" /\ Idle.who = Nobody /\ Idle.photos = {}
  /\ Idle.todo = {} /\ Idle.purge = FALSE
BY DEF Idle, Request, NoPhotos

LEMMA AnsweredFields ==
  ASSUME NEW q \in Request
  PROVE  Answered(q) \in Request /\ Over(q, Answered(q))
<1>1. CASE q.op = "reconcile"
  <2> DEFINE p1 == [q EXCEPT !.step = "next"]
             p2 == [p1 EXCEPT !.who = Nobody]
             p3 == [p2 EXCEPT !.todo = @ \ {q.who}]
  <2>1. Answered(q) = p3
    BY <1>1 DEF Answered, Request
  <2>2. p1 \in Request /\ Moved(q, p1, "next")
    BY DEF Request, Moved
  <2> HIDE DEF p1
  <2>3. /\ p2 \in Request
        /\ p2.step = "next" /\ p2.op = q.op /\ p2.who = Nobody /\ p2.photos = q.photos
        /\ p2.todo = q.todo /\ p2.purge = q.purge
    BY <2>2 DEF Request, Moved
  <2> HIDE DEF p2
  <2>4. /\ p3 \in Request
        /\ p3.step = "next" /\ p3.op = q.op /\ p3.who = Nobody /\ p3.photos = q.photos
        /\ p3.todo = q.todo \ {q.who} /\ p3.purge = q.purge
    BY <2>3 DEF Request
  <2> QED
    BY <2>1, <2>4, <1>1 DEF Over
<1>2. CASE q.op # "reconcile"
  BY <1>2, IdleFields DEF Answered, Over
<1> QED
  BY <1>1, <1>2

LEMMA AnsweredEffect ==
  ASSUME req \in [Requests -> Request], NEW r \in Requests, req' = [req EXCEPT ![r] = Answered(@)]
  PROVE  req' \in [Requests -> Request] /\ Elsewhere(r) /\ Over(req[r], req'[r])
BY AnsweredFields DEF Elsewhere

LEMMA ReleaseEffect ==
  ASSUME req \in [Requests -> Request], NEW r \in Requests, Release(r)
  PROVE  /\ req' \in [Requests -> Request] /\ Elsewhere(r) /\ Over(req[r], req'[r])
         /\ holder' = Nobody
BY AnsweredEffect DEF Release

\* A new request.
Started(p, op, who, photos) ==
  p.step = "sent" /\ p.op = op /\ p.who = who /\ p.photos = photos /\ p.todo = {} /\ p.purge = FALSE

LEMMA StartedFields ==
  ASSUME NEW op \in Ops, NEW who \in Students \cup {Nobody}, NEW photos \in SUBSET Photos
  PROVE  LET p == [Idle EXCEPT !.step = "sent", !.op = op, !.who = who, !.photos = photos]
         IN p \in Request /\ Started(p, op, who, photos)
BY DEF Idle, Request, NoPhotos, Started, Ops

LEMMA AskedFields ==
  ASSUME NEW op \in Ops, NEW who \in Students \cup {Nobody}
  PROVE  LET p == [Idle EXCEPT !.step = "sent", !.op = op, !.who = who]
         IN p \in Request /\ Started(p, op, who, {})
BY DEF Idle, Request, NoPhotos, Started, Ops

LEMMA ReloadFields ==
  LET p == [Idle EXCEPT !.step = "sent", !.op = "reload"]
  IN p \in Request /\ Started(p, "reload", Nobody, {})
BY DEF Idle, Request, NoPhotos, Started

\* A new reconciliation.
Listed(p, purge) ==
  /\ p.step = "plan" /\ p.op = "reconcile" /\ p.who = Nobody /\ p.photos = {} /\ p.purge = purge

LEMMA ListedFields ==
  ASSUME NEW purge \in BOOLEAN, NEW todo \in SUBSET Students
  PROVE  LET p == [Idle EXCEPT !.step = "plan", !.op = "reconcile", !.purge = purge, !.todo = todo]
         IN p \in Request /\ Listed(p, purge)
BY DEF Idle, Request, NoPhotos, Listed

LEMMA BeginEffect ==
  ASSUME req \in [Requests -> Request], NEW r \in Requests, NEW p \in Request, Begin(r, p)
  PROVE  /\ req' \in [Requests -> Request] /\ Elsewhere(r) /\ req'[r] = p
         /\ req[r].step = "idle" /\ used < MaxOps /\ used' = used + 1
BY DEF Begin, Elsewhere, Count

LEMMA PlanEffect ==
  ASSUME req \in [Requests -> Request], NEW r \in Requests, ReconcilePlans(r)
  PROVE  /\ req' \in [Requests -> Request] /\ Elsewhere(r)
         /\ req'[r].step = "next" /\ req'[r].op = req[r].op /\ req'[r].who = req[r].who
         /\ req'[r].photos = req[r].photos /\ req'[r].purge = req[r].purge
         /\ req'[r].todo = {s \in req[r].todo : ToErase(s, req[r].purge)}
<1> DEFINE todo == {s \in req[r].todo : ToErase(s, req[r].purge)}
           p1 == [req[r] EXCEPT !.step = "next"]
           p2 == [p1 EXCEPT !.todo = todo]
<1>1. req[r] \in Request
  OBVIOUS
<1>2. req' = [req EXCEPT ![r] = p2]
  BY <1>1 DEF ReconcilePlans, Request
<1>3. p1 \in Request /\ Moved(req[r], p1, "next")
  BY <1>1 DEF Request, Moved
<1>4. todo \in SUBSET Students
  BY <1>1, RequestFields
<1> HIDE DEF p1, todo
<1>5. /\ p2 \in Request /\ p2.step = "next" /\ p2.op = req[r].op /\ p2.who = req[r].who
      /\ p2.photos = req[r].photos /\ p2.purge = req[r].purge /\ p2.todo = todo
  BY <1>3, <1>4 DEF Request, Moved
<1> HIDE DEF p2
<1> QED
  BY <1>2, <1>5 DEF Elsewhere, todo

\* The reconciliation is over, or takes one of its students.
Taken(q, p) ==
  \/ q.todo = {} /\ p = Idle
  \/ /\ p.step = "sent" /\ p.who \in q.todo /\ p.op = q.op /\ p.photos = q.photos
     /\ p.todo = q.todo /\ p.purge = q.purge

LEMMA NextEffect ==
  ASSUME req \in [Requests -> Request], NEW r \in Requests, ReconcileNext(r)
  PROVE  req' \in [Requests -> Request] /\ Elsewhere(r) /\ Taken(req[r], req'[r])
<1>1. req[r] \in Request
  OBVIOUS
<1>2. CASE req[r].todo = {}
  BY <1>2, IdleFields DEF ReconcileNext, Elsewhere, Taken
<1>3. CASE req[r].todo # {}
  <2>1. PICK s \in req[r].todo : req' = [req EXCEPT ![r].step = "sent", ![r].who = s]
    BY <1>3 DEF ReconcileNext
  <2> DEFINE p1 == [req[r] EXCEPT !.step = "sent"]
             p2 == [p1 EXCEPT !.who = s]
  <2>2. req' = [req EXCEPT ![r] = p2]
    BY <1>1, <2>1 DEF Request
  <2>3. p1 \in Request /\ Moved(req[r], p1, "sent")
    BY <1>1 DEF Request, Moved
  <2>4. s \in Students
    BY <1>1, RequestFields
  <2> HIDE DEF p1
  <2>5. /\ p2 \in Request /\ p2.step = "sent" /\ p2.op = req[r].op /\ p2.who = s
        /\ p2.photos = req[r].photos /\ p2.purge = req[r].purge /\ p2.todo = req[r].todo
    BY <2>3, <2>4 DEF Request, Moved
  <2> HIDE DEF p2
  <2> QED
    BY <2>2, <2>5 DEF Elsewhere, Taken
<1> QED
  BY <1>2, <1>3

\* The photos that are usable go on.
Kept(q, p, usable) ==
  /\ p.step = "clear" /\ p.op = q.op /\ p.who = q.who /\ p.photos = usable
  /\ p.todo = q.todo /\ p.purge = q.purge

LEMMA UsableEffect ==
  ASSUME req \in [Requests -> Request], NEW r \in Requests, NEW usable \in SUBSET Photos,
         req' = [req EXCEPT ![r].photos = usable, ![r].step = "clear"]
  PROVE  req' \in [Requests -> Request] /\ Elsewhere(r) /\ Kept(req[r], req'[r], usable)
<1> DEFINE p1 == [req[r] EXCEPT !.photos = usable]
           p2 == [p1 EXCEPT !.step = "clear"]
<1>1. req[r] \in Request
  OBVIOUS
<1>2. req' = [req EXCEPT ![r] = p2]
  BY <1>1 DEF Request
<1>3. /\ p1 \in Request /\ p1.op = req[r].op /\ p1.who = req[r].who /\ p1.photos = usable
      /\ p1.todo = req[r].todo /\ p1.purge = req[r].purge
  BY <1>1 DEF Request
<1> HIDE DEF p1
<1>4. p2 \in Request /\ Kept(req[r], p2, usable)
  BY <1>3 DEF Request, Kept
<1> HIDE DEF p2
<1> QED
  BY <1>2, <1>4 DEF Elsewhere

LEMMA ScanEffect ==
  ASSUME req \in [Requests -> Request], NEW r \in Requests, Scan(r), dir \in [Students -> SUBSET Photos]
  PROVE  /\ req' \in [Requests -> Request] /\ Elsewhere(r)
         /\ req'[r].step = "publish" /\ req'[r].op = req[r].op /\ req'[r].who = req[r].who
         /\ req'[r].photos = req[r].photos /\ req'[r].read = dir
         /\ req'[r].todo = req[r].todo /\ req'[r].purge = req[r].purge
<1> DEFINE p1 == [req[r] EXCEPT !.read = dir]
           p2 == [p1 EXCEPT !.step = "publish"]
<1>1. req[r] \in Request
  OBVIOUS
<1>2. req' = [req EXCEPT ![r] = p2]
  BY <1>1 DEF Scan, Request
<1>3. /\ p1 \in Request /\ p1.op = req[r].op /\ p1.who = req[r].who /\ p1.photos = req[r].photos
      /\ p1.todo = req[r].todo /\ p1.purge = req[r].purge /\ p1.read = dir
  BY <1>1 DEF Request
<1> HIDE DEF p1
<1>4. /\ p2 \in Request /\ p2.step = "publish" /\ p2.op = req[r].op /\ p2.who = req[r].who
      /\ p2.photos = req[r].photos /\ p2.read = dir
      /\ p2.todo = req[r].todo /\ p2.purge = req[r].purge
  BY <1>3 DEF Request
<1> HIDE DEF p2
<1> QED
  BY <1>2, <1>4 DEF Elsewhere

----------------------------------------------------------------------------
(* Types, the fields of a request, and the lock *)

LEMMA PhotoParts ==
  /\ \A p \in Photos : p[1] \in 1..MaxOps /\ p[2] \in Names
  /\ \A photos \in SUBSET Photos : UploadsOf(photos) \in SUBSET (1..MaxOps)
BY DEF Photos, UploadsOf

LEMMA TypeParts ==
  TypeOK <=>
    /\ student \in [Students -> {"none", "active", "inactive", "deleted"}]
    /\ dir \in [Students -> SUBSET Photos]
    /\ tmp \in [Students -> SUBSET Photos]
    /\ old \in [Students -> SUBSET Photos]
    /\ known \in [Students -> SUBSET Photos]
    /\ kept \in [Students -> SUBSET Photos]
    /\ holder \in Requests \cup {Nobody}
    /\ req \in [Requests -> Request]
    /\ view \in View
    /\ uploads \in 0..MaxOps /\ used \in 0..MaxOps
    /\ hidden \in [Students -> BOOLEAN]
    /\ stored \in [Students -> SUBSET (0..MaxOps)]
    /\ gone \in [Students -> SUBSET (0..MaxOps)]
    /\ missed \in [Students -> SUBSET (0..MaxOps)]
BY DEF TypeOK

LEMMA TypeKept ==
  ASSUME student' \in [Students -> {"none", "active", "inactive", "deleted"}],
         dir' \in [Students -> SUBSET Photos],
         tmp' \in [Students -> SUBSET Photos],
         old' \in [Students -> SUBSET Photos],
         known' \in [Students -> SUBSET Photos],
         kept' \in [Students -> SUBSET Photos],
         holder' \in Requests \cup {Nobody},
         req' \in [Requests -> Request],
         view' \in View,
         uploads' \in 0..MaxOps, used' \in 0..MaxOps,
         hidden' \in [Students -> BOOLEAN],
         stored' \in [Students -> SUBSET (0..MaxOps)],
         gone' \in [Students -> SUBSET (0..MaxOps)],
         missed' \in [Students -> SUBSET (0..MaxOps)]
  PROVE  TypeOK'
BY DEF TypeOK

\* A request served has a student, unless it is a reload.
LEMMA ServedStudent ==
  ASSUME Base, NEW r \in Requests
  PROVE  req[r].step \in EnrollSteps \cup EraseSteps => req[r].who \in Students
<1>1. WellFormed(req[r])
  BY DEF Base
<1> QED
  BY <1>1 DEF WellFormed, EnrollSteps, EraseSteps

LEMMA CountEffect ==
  ASSUME TypeOK, Count
  PROVE  used' = used + 1 /\ used' \in 0..MaxOps
BY EnrollmentAssumption DEF TypeOK, Count

LEMMA InterruptEffect ==
  ASSUME view \in View, NEW s, Interrupt(s)
  PROVE  /\ view' \in View
         /\ view'.step = view.step /\ view'.who = view.who /\ view'.listed = view.listed
         /\ view'.served = view.served
         /\ view.replaced => view'.replaced
         /\ view.who = s /\ view.step = "open" => view'.replaced
<1>1. CASE view.who = s /\ view.step = "open"
  <2>1. view' = [view EXCEPT !.replaced = TRUE]
    BY <1>1 DEF Interrupt
  <2> QED
    BY <2>1 DEF View
<1>2. CASE ~(view.who = s /\ view.step = "open")
  BY <1>2 DEF Interrupt
<1> QED
  BY <1>1, <1>2

LEMMA ListsEffect ==
  ASSUME NEW s \in Students, dir \in [Students -> SUBSET Photos], ViewLists(s)
  PROVE  /\ view' \in View
         /\ view'.step = "listed" /\ view'.who = s /\ view'.listed = dir[s]
         /\ view'.served = {}
<1>1. NotLooking \in View
  BY EnrollmentAssumption DEF NotLooking, View, Names
<1>2. view' = [NotLooking EXCEPT !.step = "listed", !.who = s, !.listed = dir[s]]
  BY DEF ViewLists
<1>3. 0 \in Names
  BY EnrollmentAssumption DEF Names
<1> QED
  BY <1>2, <1>3 DEF NotLooking, View

LEMMA ChecksEffect ==
  ASSUME NEW name \in Names, view \in View, ViewChecks(name)
  PROVE  /\ view' \in View
         /\ view'.step = "open" /\ view'.who = view.who /\ view'.listed = view.listed
         /\ view'.served = {} /\ view'.replaced = FALSE
<1> DEFINE v1 == [view EXCEPT !.step = "open"]
           v2 == [v1 EXCEPT !.name = name]
           v3 == [v2 EXCEPT !.served = {}]
           v4 == [v3 EXCEPT !.replaced = FALSE]
<1>1. view' = v4
  BY DEF ViewChecks, View
<1>2. v1 \in View /\ v1.step = "open" /\ v1.who = view.who /\ v1.listed = view.listed
  BY DEF View
<1> HIDE DEF v1
<1>3. v2 \in View /\ v2.step = "open" /\ v2.who = view.who /\ v2.listed = view.listed
  BY <1>2 DEF View
<1> HIDE DEF v2
<1>4. v3 \in View /\ v3.step = "open" /\ v3.who = view.who /\ v3.listed = view.listed
      /\ v3.served = {}
  BY <1>3 DEF View
<1> HIDE DEF v3
<1>5. v4 \in View /\ v4.step = "open" /\ v4.who = view.who /\ v4.listed = view.listed
      /\ v4.served = {} /\ v4.replaced = FALSE
  BY <1>4 DEF View
<1> QED
  BY <1>1, <1>5

LEMMA OpensEffect ==
  ASSUME view \in View, ViewOpens, view.who \in Students, dir \in [Students -> SUBSET Photos]
  PROVE  /\ view' \in View
         /\ view'.step = "listed" /\ view'.who = view.who /\ view'.listed = view.listed
         /\ view'.served = {p \in dir[view.who] : p[2] = view.name}
         /\ view'.replaced = view.replaced
<1> DEFINE shown == {p \in dir[view.who] : p[2] = view.name}
           v1 == [view EXCEPT !.step = "listed"]
           v2 == [v1 EXCEPT !.served = shown]
<1>1. view' = v2
  BY DEF ViewOpens, View
<1>2. shown \in SUBSET Photos
  OBVIOUS
<1>3. v1 \in View /\ v1.step = "listed" /\ v1.who = view.who /\ v1.listed = view.listed
      /\ v1.replaced = view.replaced
  BY DEF View
<1> HIDE DEF v1, shown
<1>4. v2 \in View /\ v2.step = "listed" /\ v2.who = view.who /\ v2.listed = view.listed
      /\ v2.replaced = view.replaced /\ v2.served = shown
  BY <1>2, <1>3 DEF View
<1> QED
  BY <1>1, <1>4 DEF shown

LEMMA NotLookingFields ==
  NotLooking \in View /\ NotLooking.step = "idle" /\ NotLooking.served = {}
BY EnrollmentAssumption DEF NotLooking, View, Names

\* The parts of Base that later steps keep needing.
LEMMA BaseParts ==
  ASSUME Base
  PROVE  /\ TypeOK
         /\ student \in [Students -> {"none", "active", "inactive", "deleted"}]
         /\ dir \in [Students -> SUBSET Photos] /\ tmp \in [Students -> SUBSET Photos]
         /\ old \in [Students -> SUBSET Photos] /\ known \in [Students -> SUBSET Photos]
         /\ kept \in [Students -> SUBSET Photos]
         /\ req \in [Requests -> Request] /\ view \in View
         /\ hidden \in [Students -> BOOLEAN]
         /\ stored \in [Students -> SUBSET (0..MaxOps)]
         /\ gone \in [Students -> SUBSET (0..MaxOps)]
         /\ missed \in [Students -> SUBSET (0..MaxOps)]
         /\ uploads \in Nat
BY TypeParts DEF Base

\* A request served holds the lock; the others are not served.
LEMMA Alone ==
  ASSUME Base, NEW r \in Requests, InService(req[r])
  PROVE  holder = r /\ \A q \in Requests : q # r => ~InService(req[q])
BY DEF Base, Locked

LEMMA UploadTypes ==
  ASSUME Base, NEW r \in Requests, NEW s \in Students, NEW last \in Names,
         UploadEnrollmentPhotos(r, s, last)
  PROVE  /\ TypeOK' /\ uploads' <= used' /\ uploads' = uploads + 1
         /\ Elsewhere(r) /\ req[r].step = "idle"
         /\ Started(req'[r], "enroll", s, {uploads'} \X (0..last))
<1> DEFINE photos == {uploads'} \X (0..last)
           p == [Idle EXCEPT !.step = "sent", !.op = "enroll", !.who = s, !.photos = photos]
<1>1. Begin(r, p) /\ uploads' = uploads + 1
  BY DEF UploadEnrollmentPhotos
<1>2. used < MaxOps /\ used' = used + 1
  BY <1>1 DEF Begin, Count
<1>3. uploads' \in 1..MaxOps /\ uploads' <= used' /\ used' \in 0..MaxOps
  BY <1>1, <1>2, TypeParts, EnrollmentAssumption DEF Base
<1>4. 0..last \subseteq Names
  BY EnrollmentAssumption DEF Names
<1>5. photos \in SUBSET Photos
  BY <1>3, <1>4 DEF Photos
<1> HIDE DEF photos
<1>6. p \in Request /\ Started(p, "enroll", s, photos)
  BY <1>5, StartedFields DEF Ops
<1> HIDE DEF p
<1>7. /\ req' \in [Requests -> Request] /\ Elsewhere(r) /\ req'[r] = p /\ req[r].step = "idle"
  BY <1>1, <1>6, BeginEffect, TypeParts DEF Base
<1>8. TypeOK'
  BY <1>3, <1>7, TypeParts, TypeKept
     DEF Base, UploadEnrollmentPhotos, folders, history
<1> QED
  BY <1>1, <1>3, <1>6, <1>7, <1>8 DEF photos

LEMMA RequestTypes ==
  ASSUME Base, NEW r \in Requests,
         \/ \E s \in Students : DeleteEnrollmentPhotos(r, s) \/ DeleteStudent(r, s)
         \/ Reload(r)
         \/ \E purge \in BOOLEAN : ReconcileLists(r, purge)
         \/ ReconcilePlans(r) \/ ReconcileNext(r) \/ RequestLost(r) \/ Acquire(r)
  PROVE  TypeOK' /\ uploads' <= used'
<1>0. /\ req \in [Requests -> Request] /\ TypeOK /\ uploads <= used
      /\ uploads \in Nat /\ used \in Nat
  BY TypeParts DEF Base
<1>1. ASSUME NEW s \in Students, DeleteEnrollmentPhotos(r, s)  PROVE TypeOK' /\ uploads' <= used'
  <2> DEFINE p == [Idle EXCEPT !.step = "sent", !.op = "erase", !.who = s]
  <2>1. p \in Request
    BY AskedFields DEF Ops
  <2> HIDE DEF p
  <2>2. Begin(r, p)
    BY <1>1 DEF DeleteEnrollmentPhotos, p
  <2>3. req' \in [Requests -> Request] /\ used' \in 0..MaxOps /\ used' = used + 1
    BY <1>0, <2>1, <2>2, BeginEffect, CountEffect DEF Begin
  <2>4. UNCHANGED <<student, folders, known, holder, view, uploads, history>>
    BY <1>1 DEF DeleteEnrollmentPhotos, folders
  <2> QED
    BY <1>0, <2>3, <2>4, TypeParts, TypeKept DEF folders, history
<1>2. ASSUME NEW s \in Students, DeleteStudent(r, s)  PROVE TypeOK' /\ uploads' <= used'
  <2> DEFINE p == [Idle EXCEPT !.step = "sent", !.op = "erase", !.who = s]
             under == UNION {UploadsOf(req[q].photos) : q \in {x \in Requests : req[x].who = s}}
  <2>1. p \in Request
    BY AskedFields DEF Ops
  <2> HIDE DEF p
  <2>2. Begin(r, p)
    BY <1>2 DEF DeleteStudent, p
  <2>3. \A q \in Requests : req[q].photos \in SUBSET Photos
    BY <1>0, RequestFields
  <2>4. \A q \in Requests : UploadsOf(req[q].photos) \in SUBSET (1..MaxOps)
    BY <2>3, PhotoParts
  <2>5. under \in SUBSET (0..MaxOps)
    BY <2>4
  <2>6. missed' = [missed EXCEPT ![s] = @ \cup under]
    BY <1>2 DEF DeleteStudent
  <2> HIDE DEF under
  <2>7. missed' \in [Students -> SUBSET (0..MaxOps)]
    BY <1>0, <2>5, <2>6, TypeParts
  <2>8. student' \in [Students -> {"none", "active", "inactive", "deleted"}]
    BY <1>0, <1>2, TypeParts DEF DeleteStudent
  <2>9. req' \in [Requests -> Request] /\ used' \in 0..MaxOps /\ used' = used + 1
    BY <1>0, <2>1, <2>2, BeginEffect, CountEffect DEF Begin
  <2>10. UNCHANGED <<dir, tmp, old, known, holder, view, uploads, kept, hidden, stored, gone>>
    BY <1>2 DEF DeleteStudent, folders
  <2> QED
    BY <1>0, <2>7, <2>8, <2>9, <2>10, TypeParts, TypeKept
<1>3. CASE Reload(r)
  <2> DEFINE p == [Idle EXCEPT !.step = "sent", !.op = "reload"]
  <2>1. p \in Request
    BY ReloadFields
  <2> HIDE DEF p
  <2>2. Begin(r, p)
    BY <1>3 DEF Reload, p
  <2>3. req' \in [Requests -> Request] /\ used' \in 0..MaxOps /\ used' = used + 1
    BY <1>0, <2>1, <2>2, BeginEffect, CountEffect DEF Begin
  <2>4. UNCHANGED <<student, folders, known, holder, view, uploads, history>>
    BY <1>3 DEF Reload, folders
  <2> QED
    BY <1>0, <2>3, <2>4, TypeParts, TypeKept DEF folders, history
<1>4. ASSUME NEW purge \in BOOLEAN, ReconcileLists(r, purge)  PROVE TypeOK' /\ uploads' <= used'
  <2> DEFINE todo == {s \in Students : dir[s] # {}}
             p == [Idle EXCEPT !.step = "plan", !.op = "reconcile", !.purge = purge, !.todo = todo]
  <2>1. p \in Request
    BY ListedFields
  <2> HIDE DEF p
  <2>2. Begin(r, p)
    BY <1>4 DEF ReconcileLists, p
  <2>3. req' \in [Requests -> Request] /\ used' \in 0..MaxOps /\ used' = used + 1
    BY <1>0, <2>1, <2>2, BeginEffect, CountEffect DEF Begin
  <2>4. UNCHANGED <<student, folders, known, holder, view, uploads, history>>
    BY <1>4 DEF ReconcileLists, folders
  <2> QED
    BY <1>0, <2>3, <2>4, TypeParts, TypeKept DEF folders, history
<1>5. CASE ReconcilePlans(r)
  BY <1>0, <1>5, PlanEffect, TypeParts, TypeKept DEF ReconcilePlans, folders, history
<1>6. CASE ReconcileNext(r)
  BY <1>0, <1>6, NextEffect, TypeParts, TypeKept DEF ReconcileNext, folders, history
<1>7. CASE RequestLost(r)
  <2>1. req' \in [Requests -> Request]
    BY <1>0, <1>7, AnsweredEffect DEF RequestLost
  <2>2. missed' \in [Students -> SUBSET (0..MaxOps)]
    BY <1>0, <1>7, TypeParts, EnrollmentAssumption DEF RequestLost
  <2> QED
    BY <1>0, <1>7, <2>1, <2>2, CountEffect, TypeParts, TypeKept DEF RequestLost, folders
<1>8. CASE Acquire(r)
  <2>1. FirstStep[req[r].op] \in Steps
    <3>1. At(r, "sent") /\ WellFormed(req[r])
      BY <1>8 DEF Acquire, Base
    <3>2. req[r].op \in {"enroll", "erase", "reconcile", "reload"}
      BY <1>0, <3>1, RequestFields DEF WellFormed, At, Ops
    <3> QED
      BY <3>2 DEF FirstStep, Steps, EnrollSteps, EraseSteps
  <2>2. req' \in [Requests -> Request]
    BY <1>0, <1>8, <2>1, GoToEffect DEF Acquire
  <2>3. holder' \in Requests \cup {Nobody}
    BY <1>8, TypeParts, <1>0 DEF Acquire, NeedsLock
  <2> QED
    BY <1>0, <1>8, <2>2, <2>3, TypeParts, TypeKept DEF Acquire, folders, history
<1> QED
  BY <1>1, <1>2, <1>3, <1>4, <1>5, <1>6, <1>7, <1>8

LEMMA EnrollTypes ==
  ASSUME Base, NEW r \in Requests,
         \/ Write(r) \/ Analyze(r) \/ ClearOld(r) \/ MoveAside(r) \/ MoveIn(r)
         \/ MoveInFails(r) \/ EnrollFails(r) \/ DropOld(r) \/ Index(r)
  PROVE  TypeOK' /\ uploads' <= used'
<1> DEFINE s == req[r].who
<1>1. /\ req \in [Requests -> Request] /\ TypeOK /\ uploads <= used
      /\ uploads \in Nat /\ used \in Nat
  BY TypeParts DEF Base
<1>2. s \in Students
  BY ServedStudent DEF Write, Analyze, ClearOld, MoveAside, MoveIn, MoveInFails, EnrollFails,
                       DropOld, Index, At, EnrollSteps
<1>3. req[r].photos \in SUBSET Photos
  BY <1>1, RequestFields
<1> DEFINE Steady == /\ UNCHANGED <<student, uploads, view, gone, missed>>
                     /\ used' \in 0..MaxOps /\ uploads' <= used'
                     /\ holder' \in {holder, Nobody} /\ req' \in [Requests -> Request]
<1> HIDE DEF s
<1>4. ASSUME Write(r)  PROVE TypeOK' /\ uploads' <= used'
  <2>1. Steady
    BY <1>1, <1>4, GoToEffect, TypeParts DEF Write, Steps, EnrollSteps, folders, history
  <2>2. UploadsOf(req[r].photos) \in SUBSET (0..MaxOps)
    BY <1>3, PhotoParts
  <2> QED
    BY <1>1, <1>2, <1>3, <1>4, <2>1, <2>2, TypeParts, TypeKept DEF Write, s
<1>5. ASSUME Analyze(r)  PROVE TypeOK' /\ uploads' <= used'
  <2>1. PICK usable \in SUBSET tmp[s] :
          /\ tmp' = [tmp EXCEPT ![s] = usable]
          /\ IF usable = {} THEN Release(r)
             ELSE /\ req' = [req EXCEPT ![r].photos = usable, ![r].step = "clear"]
                  /\ UNCHANGED holder
    BY <1>5 DEF Analyze, s
  <2>2. usable \in SUBSET Photos
    BY <1>1, <1>2, TypeParts
  <2>3. Steady
    <3>1. CASE usable = {}
      BY <1>1, <1>5, <2>1, <3>1, ReleaseEffect, TypeParts DEF Analyze, history
    <3>2. CASE usable # {}
      BY <1>1, <1>5, <2>1, <2>2, <3>2, UsableEffect, TypeParts DEF Analyze, history
    <3> QED
      BY <3>1, <3>2
  <2> QED
    BY <1>1, <1>5, <2>1, <2>2, <2>3, TypeParts, TypeKept DEF Analyze, history
<1>6. ASSUME ClearOld(r)  PROVE TypeOK' /\ uploads' <= used'
  <2>1. Steady
    BY <1>1, <1>6, GoToEffect, CountEffect, TypeParts DEF ClearOld, Steps, EnrollSteps
  <2> QED
    BY <1>1, <1>2, <1>6, <2>1, TypeParts, TypeKept DEF ClearOld, s
<1>7. ASSUME MoveAside(r)  PROVE TypeOK' /\ uploads' <= used'
  <2>1. CASE dir[s] # {} /\ old[s] # {}
    <3>1. Steady /\ UNCHANGED <<dir, old>> /\ tmp' = [tmp EXCEPT ![s] = {}]
      BY <1>1, <1>7, <2>1, ReleaseEffect, TypeParts DEF MoveAside, history, s
    <3> QED
      BY <1>1, <1>2, <1>7, <3>1, TypeParts, TypeKept DEF MoveAside, history
  <2>2. CASE ~(dir[s] # {} /\ old[s] # {})
    <3>1. /\ Steady /\ UNCHANGED tmp /\ dir' = [dir EXCEPT ![s] = {}]
          /\ old' = IF dir[s] # {} THEN [old EXCEPT ![s] = dir[s]] ELSE old
      BY <1>1, <1>7, <2>2, GoToEffect, TypeParts DEF MoveAside, history, s, Steps, EnrollSteps
    <3> QED
      BY <1>1, <1>2, <1>7, <3>1, TypeParts, TypeKept DEF MoveAside, history
  <2> QED
    BY <2>1, <2>2
<1>8. ASSUME MoveIn(r)  PROVE TypeOK' /\ uploads' <= used'
  <2>1. /\ req' \in [Requests -> Request]
        /\ view' \in View
    BY <1>1, <1>8, GoToEffect, InterruptEffect, TypeParts DEF MoveIn, Steps, EnrollSteps
  <2> QED
    BY <1>1, <1>2, <1>8, <2>1, TypeParts, TypeKept DEF MoveIn, s
<1>9. ASSUME MoveInFails(r)  PROVE TypeOK' /\ uploads' <= used'
  <2>1. Steady
    BY <1>1, <1>9, ReleaseEffect, CountEffect, TypeParts DEF MoveInFails
  <2>2. /\ dir' \in [Students -> SUBSET Photos] /\ old' \in [Students -> SUBSET Photos]
        /\ hidden' \in [Students -> BOOLEAN] /\ tmp' \in [Students -> SUBSET Photos]
    <3>1. tmp' = [tmp EXCEPT ![s] = {}]
      BY <1>9 DEF MoveInFails, s
    <3>2. \/ dir' = [dir EXCEPT ![s] = old[s]] /\ old' = [old EXCEPT ![s] = {}] /\ hidden' = hidden
          \/ hidden' = [hidden EXCEPT ![s] = TRUE] /\ dir' = dir /\ old' = old
          \/ dir' = dir /\ old' = old /\ hidden' = hidden
      BY <1>9 DEF MoveInFails, s
    <3>3. dir' \in [Students -> SUBSET Photos] /\ old' \in [Students -> SUBSET Photos]
      BY <1>1, <1>2, <3>2, TypeParts
    <3>4. hidden' \in [Students -> BOOLEAN]
      BY <1>1, <3>2, TypeParts
    <3> QED
      BY <1>1, <3>1, <3>3, <3>4, TypeParts
  <2> QED
    BY <1>1, <1>9, <2>1, <2>2, TypeParts, TypeKept DEF MoveInFails
<1>10. ASSUME EnrollFails(r)  PROVE TypeOK' /\ uploads' <= used'
  <2>1. Steady
    BY <1>1, <1>10, ReleaseEffect, CountEffect, TypeParts DEF EnrollFails, history
  <2> QED
    BY <1>1, <1>2, <1>10, <2>1, TypeParts, TypeKept DEF EnrollFails, history
<1>11. ASSUME DropOld(r)  PROVE TypeOK' /\ uploads' <= used'
  <2>1. Steady
    BY <1>1, <1>11, GoToEffect, CountEffect, TypeParts DEF DropOld, history, Steps, EnrollSteps
  <2> QED
    BY <1>1, <1>2, <1>11, <2>1, TypeParts, TypeKept DEF DropOld, history
<1>12. ASSUME Index(r)  PROVE TypeOK' /\ uploads' <= used'
  <2>1. Steady
    BY <1>1, <1>12, ReleaseEffect, TypeParts DEF Index, history
  <2> QED
    BY <1>1, <1>2, <1>3, <1>12, <2>1, TypeParts, TypeKept DEF Index, folders, history
<1> QED
  BY <1>4, <1>5, <1>6, <1>7, <1>8, <1>9, <1>10, <1>11, <1>12

LEMMA EraseTypes ==
  ASSUME Base, NEW r \in Requests,
         \/ RemoveDir(r) \/ RemoveTmp(r) \/ RemoveOld(r) \/ Forget(r) \/ RemoveFails(r)
         \/ Scan(r) \/ Publish(r)
  PROVE  TypeOK' /\ uploads' <= used'
<1> DEFINE s == req[r].who
<1>1. /\ req \in [Requests -> Request] /\ TypeOK /\ uploads <= used
      /\ uploads \in Nat /\ used \in Nat
  BY TypeParts DEF Base
<1> DEFINE Steady == /\ UNCHANGED <<student, uploads, stored>>
                     /\ used' \in 0..MaxOps /\ uploads' <= used'
                     /\ holder' \in {holder, Nobody} /\ req' \in [Requests -> Request]
<1>2. ASSUME RemoveDir(r)  PROVE TypeOK' /\ uploads' <= used'
  <2>1. Steady /\ view' \in View
    BY <1>1, <1>2, GoToEffect, InterruptEffect, TypeParts DEF RemoveDir, Steps, EraseSteps
  <2>2. kept' \in [Students -> SUBSET Photos]
    BY <1>1, <1>2, TypeParts DEF RemoveDir, GiveUp
  <2> QED
    BY <1>1, <1>2, <2>1, <2>2, TypeParts, TypeKept DEF RemoveDir
<1>3. ASSUME RemoveTmp(r)  PROVE TypeOK' /\ uploads' <= used'
  <2>1. Steady
    BY <1>1, <1>3, GoToEffect, TypeParts DEF RemoveTmp, Steps, EraseSteps, history
  <2> QED
    BY <1>1, <1>3, <2>1, TypeParts, TypeKept DEF RemoveTmp, history
<1>4. ASSUME RemoveOld(r)  PROVE TypeOK' /\ uploads' <= used'
  <2>1. Steady
    BY <1>1, <1>4, GoToEffect, TypeParts DEF RemoveOld, Steps, EraseSteps, history
  <2> QED
    BY <1>1, <1>4, <2>1, TypeParts, TypeKept DEF RemoveOld, history
<1>5. ASSUME Forget(r)  PROVE TypeOK' /\ uploads' <= used'
  <2>1. Steady
    BY <1>1, <1>5, ReleaseEffect, TypeParts DEF Forget
  <2>2. s \in Students
    BY <1>5, ServedStudent DEF Forget, At, EraseSteps
  <2> QED
    BY <1>1, <1>5, <2>1, <2>2, TypeParts, TypeKept DEF Forget, folders
<1>6. ASSUME RemoveFails(r)  PROVE TypeOK' /\ uploads' <= used'
  <2>1. Steady
    BY <1>1, <1>6, ReleaseEffect, CountEffect, TypeParts DEF RemoveFails
  <2>2. s \in Students
    BY <1>6, ServedStudent DEF RemoveFails, At, EraseSteps
  <2>3. kept' \in [Students -> SUBSET Photos]
    BY <1>1, <1>6, TypeParts DEF RemoveFails, GiveUp
  <2>4. /\ dir' \in [Students -> SUBSET Photos] /\ tmp' \in [Students -> SUBSET Photos]
        /\ old' \in [Students -> SUBSET Photos]
    BY <1>1, <1>6, <2>2, TypeParts DEF RemoveFails
  <2>5. missed' \in [Students -> SUBSET (0..MaxOps)]
    BY <1>1, <1>6, <2>2, TypeParts, EnrollmentAssumption DEF RemoveFails
  <2>6. UNCHANGED <<student, known, view, uploads, hidden, stored, gone>>
    BY <1>6 DEF RemoveFails
  <2> QED
    BY <1>1, <2>1, <2>3, <2>4, <2>5, <2>6, TypeParts, TypeKept
<1>7. ASSUME Scan(r)  PROVE TypeOK' /\ uploads' <= used'
  <2>1. req' \in [Requests -> Request]
    BY <1>1, <1>7, ScanEffect, TypeParts
  <2> QED
    BY <1>1, <1>7, <2>1, TypeParts, TypeKept DEF Scan, folders, history
<1>8. ASSUME Publish(r)  PROVE TypeOK' /\ uploads' <= used'
  <2>1. req' \in [Requests -> Request] /\ req[r].read \in [Students -> SUBSET Photos]
    BY <1>1, <1>8, IdleFields, RequestFields DEF Publish
  <2> QED
    BY <1>1, <1>8, <2>1, TypeParts, TypeKept DEF Publish, folders, history
<1> QED
  BY <1>2, <1>3, <1>4, <1>5, <1>6, <1>7, <1>8

LEMMA OtherTypes ==
  ASSUME Base,
         \/ \E s \in Students :
              \/ \E status \in {"active", "inactive"} : ChangeStudent(s, status)
              \/ ViewLists(s)
         \/ \E name \in Names : ViewChecks(name)
         \/ ViewOpens \/ ViewEnds \/ Crash \/ UNCHANGED vars
  PROVE  TypeOK' /\ uploads' <= used'
<1>1. /\ req \in [Requests -> Request] /\ TypeOK /\ uploads <= used
      /\ uploads \in Nat /\ used \in Nat
  BY TypeParts DEF Base
<1>2. ASSUME NEW s \in Students, NEW status \in {"active", "inactive"}, ChangeStudent(s, status)
      PROVE  TypeOK' /\ uploads' <= used'
  BY <1>1, <1>2, CountEffect, TypeParts, TypeKept DEF ChangeStudent, folders, history
<1>3. ASSUME NEW s \in Students, ViewLists(s)  PROVE TypeOK' /\ uploads' <= used'
  <2>1. view' \in View /\ used' = used + 1 /\ used' \in 0..MaxOps
    BY <1>1, <1>3, ListsEffect, CountEffect, TypeParts DEF ViewLists
  <2>2. UNCHANGED <<student, dir, tmp, old, known, holder, req, uploads, history>>
    BY <1>3 DEF ViewLists, folders
  <2> QED
    BY <1>1, <2>1, <2>2, TypeParts, TypeKept DEF history
<1>4. ASSUME NEW name \in Names, ViewChecks(name)  PROVE TypeOK' /\ uploads' <= used'
  <2>1. view' \in View
    BY <1>1, <1>4, ChecksEffect, TypeParts
  <2> QED
    BY <1>1, <1>4, <2>1, TypeParts, TypeKept DEF ViewChecks, folders, history
<1>5. ASSUME ViewOpens  PROVE TypeOK' /\ uploads' <= used'
  <2>1. view.who \in Students
    BY <1>5 DEF Base, ViewOpens
  <2>2. view' \in View
    BY <1>1, <1>5, <2>1, OpensEffect, TypeParts
  <2> QED
    BY <1>1, <1>5, <2>2, TypeParts, TypeKept DEF ViewOpens, folders, history
<1>6. ASSUME ViewEnds  PROVE TypeOK' /\ uploads' <= used'
  <2>1. view' \in View
    BY <1>6, NotLookingFields DEF ViewEnds
  <2> QED
    BY <1>1, <1>6, <2>1, TypeParts, TypeKept DEF ViewEnds, folders, history
<1>7. ASSUME Crash  PROVE TypeOK' /\ uploads' <= used'
  <2>1. req' \in [Requests -> Request]
    <3>1. \A r \in Requests : req[r] \in Request /\ Answered(req[r]) \in Request
      BY <1>1, AnsweredFields
    <3> QED
      BY <1>7, <3>1 DEF Crash
  <2>2. used' = used + 1 /\ used' \in 0..MaxOps
    BY <1>1, <1>7, CountEffect DEF Crash
  <2>3. missed' \in [Students -> SUBSET (0..MaxOps)]
    BY <1>1, <1>7, TypeParts, EnrollmentAssumption DEF Crash
  <2>4. hidden' \in [Students -> BOOLEAN]
    <3>1. \A s \in Students : (hidden[s] \/ (kept[s] # {} /\ dir[s] = {})) \in BOOLEAN
      OBVIOUS
    <3> QED
      BY <1>7, <3>1 DEF Crash
  <2> QED
    BY <1>1, <1>7, <2>1, <2>2, <2>3, <2>4, TypeParts, TypeKept DEF Crash, folders
<1>8. CASE UNCHANGED vars
  BY <1>1, <1>8, TypeParts, TypeKept DEF vars, folders, history
<1> QED
  BY <1>2, <1>3, <1>4, <1>5, <1>6, <1>7, <1>8

LEMMA TypeStep ==
  ASSUME Base, [Next]_vars
  PROVE  TypeOK' /\ uploads' <= used'
BY UploadTypes, RequestTypes, EnrollTypes, EraseTypes, OtherTypes DEF Next

\* The step of r takes p for its request: what Base says of the requests still holds.
LEMMA OthersFormed ==
  ASSUME Base, NEW r \in Requests, Elsewhere(r), WellFormed(req'[r]),
         InService(req'[r]) <=> holder' = r,
         \A q \in Requests : q # r => (InService(req[q]) <=> holder' = q)
  PROVE  (\A q \in Requests : WellFormed(req[q])') /\ Locked'
<1>1. \A q \in Requests : WellFormed(req'[q])
  BY DEF Base, Elsewhere
<1>2. \A q \in Requests : InService(req'[q]) <=> holder' = q
  BY DEF Elsewhere
<1> QED
  BY <1>1, <1>2 DEF WellFormed, Locked, InService

\* A request that was answered: the lock is free.
LEMMA OverFormed ==
  ASSUME Base, NEW r \in Requests, Elsewhere(r), Over(req[r], req'[r]), req' \in [Requests -> Request],
         \/ holder = r /\ holder' = Nobody
         \/ ~InService(req[r]) /\ UNCHANGED holder
  PROVE  (\A q \in Requests : WellFormed(req[q])') /\ Locked'
<1>1. WellFormed(req[r]) /\ req[r] \in Request /\ req'[r] \in Request
  BY TypeParts DEF Base
<1>2. WellFormed(req'[r])
  BY <1>1 DEF WellFormed, Over, EnrollSteps, EraseSteps
<1>3. ~InService(req'[r])
  BY <1>1, RequestFields DEF Over, InService, Ops
<1>4. Nobody \notin Requests
  BY EnrollmentAssumption
<1>5. \A q \in Requests : InService(req[q]) <=> holder = q
  BY DEF Base, Locked
<1> QED
  BY <1>2, <1>3, <1>4, <1>5, OthersFormed

\* A request served goes on: the lock is kept.
LEMMA MovedFormed ==
  ASSUME Base, NEW r \in Requests, Elsewhere(r), UNCHANGED holder,
         InService(req[r]) <=> InService(req'[r]), WellFormed(req'[r])
  PROVE  (\A q \in Requests : WellFormed(req[q])') /\ Locked'
BY OthersFormed DEF Base, Locked

LEMMA AskFormed ==
  ASSUME Base, NEW r \in Requests,
         \/ \E s \in Students : \/ \E last \in Names : UploadEnrollmentPhotos(r, s, last)
                                \/ DeleteEnrollmentPhotos(r, s)
                                \/ DeleteStudent(r, s)
         \/ Reload(r)
         \/ \E purge \in BOOLEAN : ReconcileLists(r, purge)
         \/ ReconcilePlans(r) \/ ReconcileNext(r) \/ RequestLost(r) \/ Acquire(r)
  PROVE  (\A q \in Requests : WellFormed(req[q])') /\ Locked'
<1> DEFINE Goal == (\A q \in Requests : WellFormed(req[q])') /\ Locked'
<1>1. req \in [Requests -> Request] /\ req[r] \in Request /\ WellFormed(req[r])
  BY TypeParts DEF Base
<1>2. ASSUME NEW op \in {"enroll", "erase", "reload"}, NEW who \in Students \cup {Nobody},
             NEW photos, Started(req'[r], op, who, photos), Elsewhere(r), req[r].step = "idle",
             UNCHANGED holder, op # "enroll" => photos = {}, op # "reload" => who \in Students
      PROVE  Goal
  <2>1. WellFormed(req'[r])
    BY <1>2 DEF WellFormed, Started, EnrollSteps, EraseSteps
  <2>2. ~InService(req[r]) /\ ~InService(req'[r])
    BY <1>2 DEF InService, Started
  <2> QED
    BY <1>2, <2>1, <2>2, MovedFormed
<1>3. ASSUME NEW s \in Students, NEW last \in Names, UploadEnrollmentPhotos(r, s, last)  PROVE Goal
  BY <1>2, <1>3, UploadTypes DEF UploadEnrollmentPhotos
<1>4. ASSUME NEW s \in Students, DeleteEnrollmentPhotos(r, s) \/ DeleteStudent(r, s)  PROVE Goal
  <2> DEFINE p == [Idle EXCEPT !.step = "sent", !.op = "erase", !.who = s]
  <2>1. p \in Request /\ Started(p, "erase", s, {})
    BY AskedFields DEF Ops
  <2> HIDE DEF p
  <2>2. Begin(r, p) /\ UNCHANGED holder
    BY <1>4 DEF DeleteEnrollmentPhotos, DeleteStudent, p
  <2>3. Elsewhere(r) /\ req'[r] = p /\ req[r].step = "idle"
    BY <1>1, <2>1, <2>2, BeginEffect
  <2> QED
    BY <1>2, <2>1, <2>2, <2>3
<1>5. CASE Reload(r)
  <2> DEFINE p == [Idle EXCEPT !.step = "sent", !.op = "reload"]
  <2>1. p \in Request /\ Started(p, "reload", Nobody, {})
    BY ReloadFields
  <2> HIDE DEF p
  <2>2. Begin(r, p) /\ UNCHANGED holder
    BY <1>5 DEF Reload, p
  <2>3. Elsewhere(r) /\ req'[r] = p /\ req[r].step = "idle"
    BY <1>1, <2>1, <2>2, BeginEffect
  <2> QED
    BY <1>2, <2>1, <2>2, <2>3
<1>6. ASSUME NEW purge \in BOOLEAN, ReconcileLists(r, purge)  PROVE Goal
  <2> DEFINE todo == {s \in Students : dir[s] # {}}
             p == [Idle EXCEPT !.step = "plan", !.op = "reconcile", !.purge = purge, !.todo = todo]
  <2>1. p \in Request /\ Listed(p, purge)
    BY ListedFields
  <2> HIDE DEF p
  <2>2. Begin(r, p) /\ UNCHANGED holder
    BY <1>6 DEF ReconcileLists, p
  <2>3. Elsewhere(r) /\ req'[r] = p /\ req[r].step = "idle"
    BY <1>1, <2>1, <2>2, BeginEffect
  <2>4. WellFormed(req'[r]) /\ ~InService(req[r]) /\ ~InService(req'[r])
    BY <2>1, <2>3 DEF WellFormed, Listed, InService, EnrollSteps, EraseSteps
  <2> QED
    BY <2>2, <2>3, <2>4, MovedFormed
<1>7. CASE ReconcilePlans(r)
  <2>1. WellFormed(req'[r]) /\ ~InService(req[r]) /\ ~InService(req'[r]) /\ Elsewhere(r)
    BY <1>1, <1>7, PlanEffect DEF ReconcilePlans, At, WellFormed, InService, EnrollSteps, EraseSteps
  <2> QED
    BY <1>7, <2>1, MovedFormed DEF ReconcilePlans
<1>8. CASE ReconcileNext(r)
  <2>1. Taken(req[r], req'[r]) /\ Elsewhere(r) /\ req[r].step = "next" /\ UNCHANGED holder
    BY <1>1, <1>8, NextEffect DEF ReconcileNext, At
  <2>2. req[r].todo \subseteq Students
    BY <1>1, RequestFields
  <2>3. WellFormed(req'[r])
    <3>1. CASE req'[r] = Idle
      BY <3>1, IdleFields DEF WellFormed, EnrollSteps, EraseSteps
    <3>2. CASE /\ req'[r].step = "sent" /\ req'[r].who \in req[r].todo /\ req'[r].op = req[r].op
               /\ req'[r].photos = req[r].photos /\ req'[r].todo = req[r].todo
      BY <1>1, <2>1, <2>2, <3>2 DEF WellFormed, EnrollSteps, EraseSteps
    <3> QED
      BY <2>1, <3>1, <3>2 DEF Taken
  <2>4. ~InService(req[r]) /\ ~InService(req'[r])
    BY <2>1, IdleFields DEF Taken, InService
  <2> QED
    BY <2>1, <2>3, <2>4, MovedFormed
<1>9. CASE RequestLost(r)
  <2>1. /\ Over(req[r], req'[r]) /\ Elsewhere(r) /\ req' \in [Requests -> Request]
        /\ ~InService(req[r]) /\ UNCHANGED holder
    BY <1>1, <1>9, AnsweredEffect DEF RequestLost, At, InService
  <2> QED
    BY <2>1, OverFormed
<1>10. CASE Acquire(r)
  <2>1. /\ holder = Nobody /\ holder' = r /\ req[r].step = "sent"
        /\ GoTo(r, FirstStep[req[r].op])
    BY <1>10 DEF Acquire, NeedsLock, At
  <2>2. req[r].op \in {"enroll", "erase", "reconcile", "reload"}
    BY <1>1, <2>1, RequestFields DEF WellFormed, Ops
  <2>3. FirstStep[req[r].op] \in Steps
    BY <2>2 DEF FirstStep, Steps, EnrollSteps, EraseSteps
  <2>4. Moved(req[r], req'[r], FirstStep[req[r].op]) /\ Elsewhere(r)
    BY <1>1, <2>1, <2>3, GoToEffect
  <2>5. WellFormed(req'[r]) /\ InService(req'[r])
    BY <1>1, <2>1, <2>2, <2>4 DEF WellFormed, Moved, FirstStep, InService, EnrollSteps, EraseSteps
  <2>6. \A q \in Requests : q # r => (InService(req[q]) <=> holder' = q)
    BY <2>1, EnrollmentAssumption DEF Base, Locked
  <2> QED
    BY <2>1, <2>4, <2>5, <2>6, OthersFormed
<1> QED
  BY <1>3, <1>4, <1>5, <1>6, <1>7, <1>8, <1>9, <1>10

\* Where a step of the service takes its request.
Onward(step, then) ==
  \/ step = "write" /\ then = "analyze"
  \/ step = "clear" /\ then = "aside"
  \/ step = "aside" /\ then = "in"
  \/ step = "in" /\ then = "drop"
  \/ step = "drop" /\ then = "index"
  \/ step = "rm_dir" /\ then = "rm_tmp"
  \/ step = "rm_tmp" /\ then = "rm_old"
  \/ step = "rm_old" /\ then = "forget"

\* A request served goes on, or it is over and the lock free.
GoesOn(r) ==
  /\ UNCHANGED holder /\ Onward(req[r].step, req'[r].step)
  /\ Moved(req[r], req'[r], req'[r].step)

Selected(r) ==
  /\ UNCHANGED holder /\ req[r].step = "analyze" /\ tmp'[req[r].who] # {}
  /\ Kept(req[r], req'[r], tmp'[req[r].who]) /\ tmp'[req[r].who] \subseteq tmp[req[r].who]

Ends(r) == holder' = Nobody /\ Over(req[r], req'[r])

Scanned(r) ==
  /\ UNCHANGED holder /\ req[r].step = "scan" /\ req'[r].step = "publish" /\ req'[r].read = dir
  /\ req'[r].op = req[r].op /\ req'[r].who = req[r].who /\ req'[r].photos = req[r].photos
  /\ req'[r].todo = req[r].todo /\ req'[r].purge = req[r].purge

Serve(r) ==
  \/ Write(r) \/ Analyze(r) \/ ClearOld(r) \/ MoveAside(r) \/ MoveIn(r)
  \/ MoveInFails(r) \/ EnrollFails(r) \/ DropOld(r) \/ Index(r)
  \/ RemoveDir(r) \/ RemoveTmp(r) \/ RemoveOld(r) \/ Forget(r) \/ RemoveFails(r)
  \/ Scan(r) \/ Publish(r)

LEMMA ServeEffect ==
  ASSUME Base, NEW r \in Requests, Serve(r)
  PROVE  /\ Elsewhere(r) /\ req' \in [Requests -> Request]
         /\ InService(req[r]) /\ holder = r
         /\ GoesOn(r) \/ Selected(r) \/ Ends(r) \/ Scanned(r)
<1>1. req \in [Requests -> Request] /\ req[r] \in Request /\ WellFormed(req[r])
  BY TypeParts DEF Base
<1>2. InService(req[r])
  BY DEF Serve, Write, Analyze, ClearOld, MoveAside, MoveIn, MoveInFails, EnrollFails, DropOld,
         Index, RemoveDir, RemoveTmp, RemoveOld, Forget, RemoveFails, Scan, Publish, At, InService
<1>3. holder = r
  BY <1>2, Alone
<1> DEFINE Goal == /\ Elsewhere(r) /\ req' \in [Requests -> Request]
                   /\ GoesOn(r) \/ Selected(r) \/ Ends(r) \/ Scanned(r)
<1> SUFFICES Goal
  BY <1>2, <1>3
<1>4. ASSUME NEW step, NEW then \in Steps, Onward(step, then),
             At(r, step), GoTo(r, then), UNCHANGED holder
      PROVE  Goal
  BY <1>1, <1>4, GoToEffect DEF GoesOn, At, Moved
<1>5. ASSUME Release(r)  PROVE Goal
  BY <1>1, <1>5, ReleaseEffect DEF Ends
<1>6. CASE Analyze(r)
  <2>1. PICK usable \in SUBSET tmp[req[r].who] :
          /\ tmp' = [tmp EXCEPT ![req[r].who] = usable]
          /\ IF usable = {} THEN Release(r)
             ELSE /\ req' = [req EXCEPT ![r].photos = usable, ![r].step = "clear"]
                  /\ UNCHANGED holder
    BY <1>6 DEF Analyze
  <2>2. tmp \in [Students -> SUBSET Photos] /\ req[r].who \in Students
    BY <1>6, ServedStudent, BaseParts DEF Analyze, At, EnrollSteps
  <2>3. usable \in SUBSET Photos /\ tmp'[req[r].who] = usable
    BY <2>1, <2>2
  <2>4. CASE usable # {}
    <3>1. /\ req' = [req EXCEPT ![r].photos = usable, ![r].step = "clear"]
          /\ UNCHANGED holder /\ req[r].step = "analyze"
      BY <1>6, <2>1, <2>4 DEF Analyze, At
    <3>2. req' \in [Requests -> Request] /\ Elsewhere(r) /\ Kept(req[r], req'[r], usable)
      BY <1>1, <2>3, <3>1, UsableEffect
    <3>3. Selected(r)
      BY <2>3, <2>4, <3>1, <3>2 DEF Selected
    <3> QED
      BY <3>2, <3>3
  <2>5. CASE usable = {}
    BY <1>5, <2>1, <2>5
  <2> QED
    BY <2>4, <2>5
<1> HIDE DEF Goal
<1>7. CASE Write(r)
  <2>1. At(r, "write") /\ GoTo(r, "analyze") /\ UNCHANGED holder
    BY <1>7 DEF Write
  <2> QED
    BY <1>4, <2>1 DEF Onward, Steps, EnrollSteps, EraseSteps
<1>8. CASE ClearOld(r)
  <2>1. At(r, "clear") /\ GoTo(r, "aside") /\ UNCHANGED holder
    BY <1>8 DEF ClearOld
  <2> QED
    BY <1>4, <2>1 DEF Onward, Steps, EnrollSteps, EraseSteps
<1>9. CASE MoveAside(r)
  <2>1. At(r, "aside") /\ ((GoTo(r, "in") /\ UNCHANGED holder) \/ Release(r))
    BY <1>9 DEF MoveAside
  <2> QED
    BY <1>4, <1>5, <2>1 DEF Onward, Steps, EnrollSteps, EraseSteps
<1>10. CASE MoveIn(r)
  <2>1. At(r, "in") /\ GoTo(r, "drop") /\ UNCHANGED holder
    BY <1>10 DEF MoveIn
  <2> QED
    BY <1>4, <2>1 DEF Onward, Steps, EnrollSteps, EraseSteps
<1>11. CASE DropOld(r)
  <2>1. At(r, "drop") /\ GoTo(r, "index") /\ UNCHANGED holder
    BY <1>11 DEF DropOld
  <2> QED
    BY <1>4, <2>1 DEF Onward, Steps, EnrollSteps, EraseSteps
<1>12. CASE RemoveDir(r)
  <2>1. At(r, "rm_dir") /\ GoTo(r, "rm_tmp") /\ UNCHANGED holder
    BY <1>12 DEF RemoveDir
  <2> QED
    BY <1>4, <2>1 DEF Onward, Steps, EnrollSteps, EraseSteps
<1>13. CASE RemoveTmp(r)
  <2>1. At(r, "rm_tmp") /\ GoTo(r, "rm_old") /\ UNCHANGED holder
    BY <1>13 DEF RemoveTmp
  <2> QED
    BY <1>4, <2>1 DEF Onward, Steps, EnrollSteps, EraseSteps
<1>14. CASE RemoveOld(r)
  <2>1. At(r, "rm_old") /\ GoTo(r, "forget") /\ UNCHANGED holder
    BY <1>14 DEF RemoveOld
  <2> QED
    BY <1>4, <2>1 DEF Onward, Steps, EnrollSteps, EraseSteps
<1>15. CASE MoveInFails(r) \/ EnrollFails(r) \/ Index(r) \/ Forget(r) \/ RemoveFails(r)
  <2>1. Release(r)
    BY <1>15 DEF MoveInFails, EnrollFails, Index, Forget, RemoveFails
  <2> QED
    BY <1>5, <2>1
<1>16. CASE Scan(r)
  <2>1. dir \in [Students -> SUBSET Photos]
    BY BaseParts
  <2>2. UNCHANGED holder /\ req[r].step = "scan"
    BY <1>16 DEF Scan, At
  <2>3. Elsewhere(r) /\ req' \in [Requests -> Request] /\ Scanned(r)
    BY <1>1, <1>16, <2>1, <2>2, ScanEffect DEF Scanned
  <2> QED
    BY <2>3 DEF Goal
<1>17. CASE Publish(r)
  <2>1. req[r].op = "reload" /\ req' = [req EXCEPT ![r] = Idle] /\ holder' = Nobody
    BY <1>1, <1>3, <1>17 DEF Publish, At, WellFormed
  <2>2. Elsewhere(r) /\ req'[r] = Idle /\ req' \in [Requests -> Request]
    BY <1>1, <2>1, IdleFields DEF Elsewhere
  <2>3. Ends(r)
    BY <2>1, <2>2, IdleFields DEF Ends, Over
  <2> QED
    BY <2>2, <2>3 DEF Goal
<1> QED
  BY <1>6, <1>7, <1>8, <1>9, <1>10, <1>11, <1>12, <1>13, <1>14, <1>15, <1>16, <1>17 DEF Serve

LEMMA ServeFormed ==
  ASSUME Base, NEW r \in Requests, Serve(r)
  PROVE  (\A q \in Requests : WellFormed(req[q])') /\ Locked'
<1>1. /\ Elsewhere(r) /\ req' \in [Requests -> Request] /\ InService(req[r]) /\ holder = r
      /\ req[r] \in Request /\ WellFormed(req[r])
  BY ServeEffect, TypeParts DEF Base
<1>2. CASE GoesOn(r)
  <2>1. InService(req'[r]) /\ WellFormed(req'[r])
    BY <1>1, <1>2 DEF GoesOn, Onward, Moved, InService, WellFormed, EnrollSteps, EraseSteps
  <2> QED
    BY <1>1, <1>2, <2>1, MovedFormed DEF GoesOn
<1>3. CASE Selected(r)
  <2>1. InService(req'[r]) /\ WellFormed(req'[r])
    BY <1>1, <1>3 DEF Selected, Kept, InService, WellFormed, EnrollSteps, EraseSteps
  <2> QED
    BY <1>1, <1>3, <2>1, MovedFormed DEF Selected
<1>4. CASE Ends(r)
  BY <1>1, <1>4, OverFormed DEF Ends
<1>5. CASE Scanned(r)
  <2>1. InService(req'[r]) /\ WellFormed(req'[r])
    BY <1>1, <1>5 DEF Scanned, InService, WellFormed, EnrollSteps, EraseSteps
  <2> QED
    BY <1>1, <1>5, <2>1, MovedFormed DEF Scanned
<1> QED
  BY <1>2, <1>3, <1>4, <1>5, ServeEffect

LEMMA CrashEffect ==
  ASSUME Base, Crash
  PROVE  /\ holder' = Nobody
         /\ \A r \in Requests : \/ InService(req[r]) /\ Over(req[r], req'[r])
                                \/ ~InService(req[r]) /\ req'[r] = req[r]
         /\ \A r \in Requests : ~InService(req'[r])
<1>1. req \in [Requests -> Request]
  BY BaseParts
<1>2. \A r \in Requests :
        req'[r] = IF InService(req[r]) THEN Answered(req[r]) ELSE req[r]
  BY <1>1 DEF Crash
<1>3. ASSUME NEW r \in Requests, InService(req[r])
      PROVE  Over(req[r], req'[r]) /\ ~InService(req'[r])
  <2>1. Over(req[r], req'[r])
    BY <1>1, <1>2, <1>3, AnsweredFields
  <2> QED
    BY <2>1 DEF Over, InService
<1> QED
  BY <1>2, <1>3 DEF Crash

LEMMA CrashFormed ==
  ASSUME Base, Crash
  PROVE  (\A q \in Requests : WellFormed(req[q])') /\ Locked'
<1>1. \A r \in Requests : WellFormed(req[r]) /\ req[r] \in Request
  BY TypeParts DEF Base
<1>2. \A r \in Requests : WellFormed(req'[r])
  BY <1>1, CrashEffect DEF WellFormed, Over, EnrollSteps, EraseSteps
<1>3. \A r \in Requests : InService(req'[r]) <=> holder' = r
  BY CrashEffect, EnrollmentAssumption
<1> QED
  BY <1>2, <1>3 DEF WellFormed, Locked, InService

\* Steps that are about no request.
Aside ==
  \/ \E s \in Students :
       \/ \E status \in {"active", "inactive"} : ChangeStudent(s, status)
       \/ ViewLists(s)
  \/ \E name \in Names : ViewChecks(name)
  \/ ViewOpens \/ ViewEnds \/ UNCHANGED vars

LEMMA AsideEffect ==
  ASSUME Aside
  PROVE  UNCHANGED <<dir, tmp, old, known, holder, req, uploads, kept, hidden, stored, gone, missed>>
BY DEF Aside, ChangeStudent, ViewLists, ViewChecks, ViewOpens, ViewEnds, vars, folders, history

Ask(r) ==
  \/ \E s \in Students : \/ \E last \in Names : UploadEnrollmentPhotos(r, s, last)
                         \/ DeleteEnrollmentPhotos(r, s)
                         \/ DeleteStudent(r, s)
  \/ Reload(r)
  \/ \E purge \in BOOLEAN : ReconcileLists(r, purge)
  \/ ReconcilePlans(r) \/ ReconcileNext(r) \/ RequestLost(r)

LEMMA NextKinds ==
  ASSUME [Next]_vars
  PROVE  Aside \/ Crash \/ \E r \in Requests : Ask(r) \/ Acquire(r) \/ Serve(r)
BY DEF Next, Aside, Ask, Serve

\* Nobody looks at the photos of nobody.
LEMMA ViewerStep ==
  ASSUME Base, [Next]_vars
  PROVE  (view.step # "idle" => view.who \in Students)'
<1>1. view \in View /\ dir \in [Students -> SUBSET Photos]
  BY BaseParts
<1>2. ASSUME NEW s \in Students, ViewLists(s)  PROVE view'.who \in Students
  BY <1>1, <1>2, ListsEffect
<1>3. ASSUME NEW name \in Names, ViewChecks(name)  PROVE view'.who \in Students
  BY <1>1, <1>3, ChecksEffect DEF Base, ViewChecks
<1>4. ASSUME ViewOpens  PROVE view'.who \in Students
  BY <1>1, <1>4, OpensEffect DEF Base, ViewOpens
<1>5. ASSUME ViewEnds  PROVE view'.step = "idle"
  BY <1>5, NotLookingFields DEF ViewEnds
<1>6. ASSUME NEW s, Interrupt(s)  PROVE view'.step # "idle" => view'.who \in Students
  BY <1>1, <1>6, InterruptEffect DEF Base
<1>7. CASE Aside
  BY <1>2, <1>3, <1>4, <1>5, <1>7 DEF Aside, ChangeStudent, vars, Base
<1>8. CASE Crash
  BY <1>8 DEF Crash, Base
<1>9. ASSUME NEW r \in Requests, Ask(r) \/ Acquire(r)
      PROVE  view' = view
  BY <1>9 DEF Ask, Acquire, UploadEnrollmentPhotos, DeleteEnrollmentPhotos, DeleteStudent, Reload,
              ReconcileLists, ReconcilePlans, ReconcileNext, RequestLost
<1>10. ASSUME NEW r \in Requests, Serve(r)
       PROVE  view' = view \/ \E s : Interrupt(s)
  BY <1>10 DEF Serve, Write, Analyze, ClearOld, MoveAside, MoveIn, MoveInFails, EnrollFails,
               DropOld, Index, RemoveDir, RemoveTmp, RemoveOld, Forget, RemoveFails, Scan, Publish
<1> QED
  BY <1>6, <1>7, <1>8, <1>9, <1>10, NextKinds DEF Base

LEMMA BaseStep ==
  ASSUME Base, [Next]_vars
  PROVE  Base'
<1>1. TypeOK' /\ uploads' <= used'
  BY TypeStep
<1>2. (view.step # "idle" => view.who \in Students)'
  BY ViewerStep
<1>3. (\A r \in Requests : WellFormed(req[r])') /\ Locked'
  <2>1. CASE Aside
    BY <2>1, AsideEffect DEF Base, WellFormed, Locked, InService
  <2>2. CASE Crash
    BY <2>2, CrashFormed
  <2>3. ASSUME NEW r \in Requests, Ask(r) \/ Acquire(r)
        PROVE  (\A q \in Requests : WellFormed(req[q])') /\ Locked'
    BY <2>3, AskFormed DEF Ask
  <2>4. ASSUME NEW r \in Requests, Serve(r)
        PROVE  (\A q \in Requests : WellFormed(req[q])') /\ Locked'
    BY <2>4, ServeFormed
  <2> QED
    BY <2>1, <2>2, <2>3, <2>4, NextKinds
<1> QED
  BY <1>1, <1>2, <1>3 DEF Base

LEMMA BaseInit ==
  ASSUME Init
  PROVE  Base
<1>1. NoPhotos \in [Students -> SUBSET Photos] /\ NoPhotos \in [Students -> SUBSET (0..MaxOps)]
  BY DEF NoPhotos
<1>2. TypeOK
  BY <1>1, IdleFields, NotLookingFields, EnrollmentAssumption, TypeParts DEF Init
<1>3. \A r \in Requests : WellFormed(req[r]) /\ ~InService(req[r])
  BY IdleFields DEF Init, WellFormed, InService, EnrollSteps, EraseSteps
<1> QED
  BY <1>2, <1>3, NotLookingFields, EnrollmentAssumption DEF Init, Base, Locked

\* The folders, the index, the requests and the lock always have the form they should,
\* and the request that the service handles, and no other, holds the lock (TypeOK).
THEOREM TypeCorrect == Spec => []TypeOK
<1>1. Spec => []Base
  BY BaseInit, BaseStep, PTL DEF Spec
<1>2. Base => TypeOK
  BY DEF Base
<1> QED
  BY <1>1, <1>2, PTL

----------------------------------------------------------------------------
(* The folders at each step of a request *)

\* A deleted student stays deleted.
LEMMA DeletedStays ==
  ASSUME Base, [Next]_vars, NEW s \in Students, student[s] = "deleted"
  PROVE  student'[s] = "deleted"
<1>1. student \in [Students -> {"none", "active", "inactive", "deleted"}]
  BY BaseParts
<1>2. CASE Aside
  BY <1>1, <1>2 DEF Aside, ChangeStudent, ViewLists, ViewChecks, ViewOpens, ViewEnds, vars
<1>3. CASE Crash
  BY <1>3 DEF Crash
<1>4. ASSUME NEW r \in Requests, Ask(r) \/ Acquire(r)  PROVE student'[s] = "deleted"
  BY <1>1, <1>4 DEF Ask, Acquire, UploadEnrollmentPhotos, DeleteEnrollmentPhotos, DeleteStudent,
                    Reload, ReconcileLists, ReconcilePlans, ReconcileNext, RequestLost
<1>5. ASSUME NEW r \in Requests, Serve(r)  PROVE student'[s] = "deleted"
  BY <1>5 DEF Serve, Write, Analyze, ClearOld, MoveAside, MoveIn, MoveInFails, EnrollFails,
              DropOld, Index, RemoveDir, RemoveTmp, RemoveOld, Forget, RemoveFails, Scan, Publish
<1> QED
  BY <1>2, <1>3, <1>4, <1>5, NextKinds

\* What a request keeps from one step to the next, when it is not a new one.
Follows(q, p) ==
  /\ p.op \in {q.op, "none"} /\ p.photos \subseteq q.photos
  /\ p.op = "reconcile" => p.purge = q.purge /\ p.todo \subseteq q.todo /\ q.step # "plan"
  /\ p.step = "write" => q.step = "sent"
  /\ p.step = "sent" => q.step = "next"

\* A request that begins, but for an upload.
Begins(q, p) ==
  /\ q.step = "idle" /\ p.photos = {} /\ p.step \in {"sent", "plan"}
  /\ p.op = "reconcile" => p.step = "plan"
  /\ p.op \in {"erase", "reload", "reconcile"}

\* A reconciliation that finds out whom to erase.
Plans(q, p) ==
  /\ q.step = "plan" /\ q.op = "reconcile" /\ p.op = "reconcile" /\ p.step = "next"
  /\ p.purge = q.purge /\ p.photos = q.photos
  /\ p.todo = {s \in q.todo : ToErase(s, q.purge)}

\* What the backend's steps do.
LEMMA AskEffect ==
  ASSUME Base, NEW r \in Requests, Ask(r)
  PROVE  /\ UNCHANGED <<dir, tmp, old, known, holder, kept, hidden, stored, gone>>
         /\ Elsewhere(r) /\ req' \in [Requests -> Request]
         /\ ~InService(req[r]) /\ ~InService(req'[r])
         /\ \/ \E s \in Students, last \in Names : UploadEnrollmentPhotos(r, s, last)
            \/ /\ uploads' = uploads
               /\ Begins(req[r], req'[r]) \/ Plans(req[r], req'[r]) \/ Follows(req[r], req'[r])
<1> DEFINE Goal == /\ UNCHANGED <<dir, tmp, old, known, holder, kept, hidden, stored, gone>>
                   /\ Elsewhere(r) /\ req' \in [Requests -> Request]
                   /\ ~InService(req[r]) /\ ~InService(req'[r])
                   /\ \/ \E s \in Students, last \in Names : UploadEnrollmentPhotos(r, s, last)
                      \/ /\ uploads' = uploads
                         /\ \/ Begins(req[r], req'[r]) \/ Plans(req[r], req'[r])
                            \/ Follows(req[r], req'[r])
<1> SUFFICES Goal
  OBVIOUS
<1>1. /\ req \in [Requests -> Request] /\ req[r] \in Request /\ WellFormed(req[r])
      /\ req[r].todo \in SUBSET Students
  BY TypeParts, RequestFields DEF Base
<1>2. ASSUME NEW s \in Students, NEW last \in Names, UploadEnrollmentPhotos(r, s, last)  PROVE Goal
  <2>1. /\ Elsewhere(r) /\ req[r].step = "idle" /\ req'[r].step = "sent"
        /\ req' \in [Requests -> Request]
    BY <1>2, UploadTypes, TypeParts DEF Started, TypeOK
  <2>2. UNCHANGED <<dir, tmp, old, known, holder, kept, hidden, stored, gone>>
    BY <1>2 DEF UploadEnrollmentPhotos, folders, history
  <2> QED
    BY <1>2, <2>1, <2>2 DEF InService
<1>3. ASSUME NEW s \in Students, DeleteEnrollmentPhotos(r, s) \/ DeleteStudent(r, s)  PROVE Goal
  <2> DEFINE p == [Idle EXCEPT !.step = "sent", !.op = "erase", !.who = s]
  <2>1. p \in Request /\ Started(p, "erase", s, {})
    BY AskedFields DEF Ops
  <2> HIDE DEF p
  <2>2. Begin(r, p)
    BY <1>3 DEF DeleteEnrollmentPhotos, DeleteStudent, p
  <2>3. Elsewhere(r) /\ req'[r] = p /\ req[r].step = "idle" /\ req' \in [Requests -> Request]
    BY <1>1, <2>1, <2>2, BeginEffect
  <2>4. UNCHANGED <<dir, tmp, old, known, holder, kept, hidden, stored, gone, uploads>>
    BY <1>3 DEF DeleteEnrollmentPhotos, DeleteStudent, folders, history
  <2> QED
    BY <2>1, <2>3, <2>4 DEF Started, Begins, InService
<1>4. CASE Reload(r)
  <2> DEFINE p == [Idle EXCEPT !.step = "sent", !.op = "reload"]
  <2>1. p \in Request /\ Started(p, "reload", Nobody, {})
    BY ReloadFields
  <2> HIDE DEF p
  <2>2. Begin(r, p)
    BY <1>4 DEF Reload, p
  <2>3. Elsewhere(r) /\ req'[r] = p /\ req[r].step = "idle" /\ req' \in [Requests -> Request]
    BY <1>1, <2>1, <2>2, BeginEffect
  <2>4. UNCHANGED <<dir, tmp, old, known, holder, kept, hidden, stored, gone, uploads>>
    BY <1>4 DEF Reload, folders, history
  <2> QED
    BY <2>1, <2>3, <2>4 DEF Started, Begins, InService
<1>5. ASSUME NEW purge \in BOOLEAN, ReconcileLists(r, purge)  PROVE Goal
  <2> DEFINE todo == {s \in Students : dir[s] # {}}
             p == [Idle EXCEPT !.step = "plan", !.op = "reconcile", !.purge = purge, !.todo = todo]
  <2>1. p \in Request /\ Listed(p, purge)
    BY ListedFields
  <2> HIDE DEF p
  <2>2. Begin(r, p)
    BY <1>5 DEF ReconcileLists, p
  <2>3. Elsewhere(r) /\ req'[r] = p /\ req[r].step = "idle" /\ req' \in [Requests -> Request]
    BY <1>1, <2>1, <2>2, BeginEffect
  <2>4. UNCHANGED <<dir, tmp, old, known, holder, kept, hidden, stored, gone, uploads>>
    BY <1>5 DEF ReconcileLists, folders, history
  <2> QED
    BY <2>1, <2>3, <2>4 DEF Listed, Begins, InService
<1>6. CASE ReconcilePlans(r)
  <2>1. /\ UNCHANGED <<dir, tmp, old, known, holder, kept, hidden, stored, gone, uploads>>
        /\ req[r].step = "plan"
    BY <1>6 DEF ReconcilePlans, folders, history, At
  <2>2. /\ Elsewhere(r) /\ req' \in [Requests -> Request] /\ Plans(req[r], req'[r])
        /\ req'[r].step = "next"
    BY <1>1, <1>6, <2>1, PlanEffect DEF Plans, WellFormed
  <2> QED
    BY <2>1, <2>2 DEF InService
<1>7. CASE ReconcileNext(r)
  <2>1. /\ UNCHANGED <<dir, tmp, old, known, holder, kept, hidden, stored, gone, uploads>>
        /\ req[r].step = "next"
    BY <1>7 DEF ReconcileNext, folders, history, At
  <2>2. Elsewhere(r) /\ req' \in [Requests -> Request] /\ Taken(req[r], req'[r])
    BY <1>1, <1>7, NextEffect
  <2>3. Follows(req[r], req'[r]) /\ ~InService(req'[r])
    BY <2>1, <2>2, IdleFields DEF Taken, Follows, InService
  <2> QED
    BY <2>1, <2>2, <2>3 DEF InService
<1>8. CASE RequestLost(r)
  <2>1. /\ UNCHANGED <<dir, tmp, old, known, holder, kept, hidden, stored, gone, uploads>>
        /\ req[r].step = "sent"
    BY <1>8 DEF RequestLost, folders, At
  <2>2. Elsewhere(r) /\ req' \in [Requests -> Request] /\ Over(req[r], req'[r])
    BY <1>1, <1>8, AnsweredEffect DEF RequestLost
  <2>3. Follows(req[r], req'[r]) /\ ~InService(req'[r])
    BY <1>1, <2>1, <2>2, RequestFields DEF Over, Follows, InService, Ops
  <2> QED
    BY <2>1, <2>2, <2>3 DEF InService
<1> QED
  BY <1>2, <1>3, <1>4, <1>5, <1>6, <1>7, <1>8 DEF Ask

LEMMA AcquireEffect ==
  ASSUME Base, NEW r \in Requests, Acquire(r)
  PROVE  /\ UNCHANGED <<dir, tmp, old, known, kept, hidden, stored, gone, uploads, missed>>
         /\ Elsewhere(r) /\ req' \in [Requests -> Request]
         /\ req[r].step = "sent" /\ req'[r].step \in {"write", "rm_dir", "scan"}
         /\ Moved(req[r], req'[r], req'[r].step)
<1>1. req \in [Requests -> Request] /\ req[r] \in Request /\ WellFormed(req[r])
  BY TypeParts DEF Base
<1>2. req[r].step = "sent" /\ GoTo(r, FirstStep[req[r].op])
  BY DEF Acquire, At
<1>3. req[r].op \in {"enroll", "erase", "reconcile", "reload"}
  BY <1>1, <1>2, RequestFields DEF WellFormed, Ops
<1>4. FirstStep[req[r].op] \in {"write", "rm_dir", "scan"}
  BY <1>3 DEF FirstStep
<1>5. FirstStep[req[r].op] \in Steps
  BY <1>4 DEF Steps, EnrollSteps, EraseSteps
<1>6. /\ Elsewhere(r) /\ req' \in [Requests -> Request]
      /\ Moved(req[r], req'[r], FirstStep[req[r].op])
  BY <1>1, <1>2, <1>5, GoToEffect
<1> QED
  BY <1>2, <1>4, <1>6 DEF Acquire, Moved, folders, history

\* What is left of a request follows it.
LEMMA OverFollows ==
  ASSUME Base, NEW r \in Requests, Over(req[r], req'[r]), InService(req[r])
  PROVE  Follows(req[r], req'[r]) /\ ~InService(req'[r])
BY DEF Over, Follows, InService

\* How the requests go on: one is new, or each is what it was or follows it.
LEMMA RequestsGoOn ==
  ASSUME Base, WorkOK, [Next]_vars
  PROVE  \/ \E r \in Requests, s \in Students, last \in Names : UploadEnrollmentPhotos(r, s, last)
         \/ /\ uploads' = uploads
            /\ \A q \in Requests :
                 \/ req'[q] = req[q] \/ Follows(req[q], req'[q])
                 \/ Begins(req[q], req'[q]) \/ Plans(req[q], req'[q])
<1>1. CASE Aside
  BY <1>1, AsideEffect
<1>2. CASE Crash
  <2>1. uploads' = uploads
    BY <1>2 DEF Crash
  <2> QED
    BY <1>2, <2>1, CrashEffect, OverFollows
<1>3. ASSUME NEW r \in Requests, Ask(r)
      PROVE  \/ \E s \in Students, last \in Names : UploadEnrollmentPhotos(r, s, last)
             \/ /\ uploads' = uploads
                /\ \A q \in Requests :
                     \/ req'[q] = req[q] \/ Follows(req[q], req'[q])
                     \/ Begins(req[q], req'[q]) \/ Plans(req[q], req'[q])
  BY <1>3, AskEffect DEF Elsewhere
<1>4. ASSUME NEW r \in Requests, Acquire(r) \/ Serve(r)
      PROVE  /\ uploads' = uploads
             /\ \A q \in Requests : req'[q] = req[q] \/ Follows(req[q], req'[q])
  <2>1. uploads' = uploads
    BY <1>4 DEF Acquire, Serve, Write, Analyze, ClearOld, MoveAside, MoveIn, MoveInFails, EnrollFails,
              DropOld, Index, RemoveDir, RemoveTmp, RemoveOld, Forget, RemoveFails, Scan, Publish
  <2>2. Elsewhere(r)
    BY <1>4, AcquireEffect, ServeEffect
  <2>3. CASE Acquire(r)
    <3>1. Follows(req[r], req'[r])
      BY <2>3, AcquireEffect DEF Follows, Moved
    <3> QED
      BY <2>1, <2>2, <3>1 DEF Elsewhere
  <2>4. CASE Serve(r)
    <3> SUFFICES Follows(req[r], req'[r])
      BY <2>1, <2>2 DEF Elsewhere
    <3>1. CASE GoesOn(r)
      BY <3>1 DEF GoesOn, Onward, Moved, Follows
    <3>2. CASE Selected(r)
      <4>1. tmp[req[r].who] = req[r].photos
        BY <3>2 DEF Selected, WorkOK, AtWork
      <4> QED
        BY <3>2, <4>1 DEF Selected, Kept, Follows
    <3>3. CASE Ends(r)
      BY <2>4, <3>3, ServeEffect, OverFollows DEF Ends
    <3>4. CASE Scanned(r)
      BY <3>4 DEF Scanned, Follows
    <3> QED
      BY <2>4, <3>1, <3>2, <3>3, <3>4, ServeEffect
  <2> QED
    BY <1>4, <2>3, <2>4
<1> QED
  BY <1>1, <1>2, <1>3, <1>4, NextKinds

LEMMA DeletedOnlyStep ==
  ASSUME Base, WorkOK, [Next]_vars, NEW r \in Requests
  PROVE  DeletedOnly(req[r])'
<1>1. DeletedOnly(req[r]) /\ req[r] \in Request /\ req[r].todo \in SUBSET Students
  BY BaseParts, RequestFields DEF WorkOK
<1>2. \A s \in Students : student[s] = "deleted" => student'[s] = "deleted"
  BY DeletedStays
<1> SUFFICES ASSUME req'[r].op = "reconcile", ~req'[r].purge, req'[r].step # "plan",
                    NEW s \in req'[r].todo
             PROVE  student'[s] = "deleted"
  BY DEF DeletedOnly
<1>3. CASE req'[r] = req[r]
  BY <1>1, <1>2, <1>3 DEF DeletedOnly
<1>4. CASE Follows(req[r], req'[r])
  <2>1. /\ req[r].op = "reconcile" /\ ~req[r].purge /\ req[r].step # "plan"
        /\ s \in req[r].todo
    BY <1>4 DEF Follows
  <2> QED
    BY <1>1, <1>2, <2>1 DEF DeletedOnly
<1>5. CASE Begins(req[r], req'[r])
  BY <1>5 DEF Begins
<1>6. CASE Plans(req[r], req'[r])
  BY <1>1, <1>2, <1>6 DEF Plans, ToErase
<1>7. ASSUME NEW x \in Requests, NEW y \in Students, NEW last \in Names,
             UploadEnrollmentPhotos(x, y, last)
      PROVE  req'[r] = req[r]
  <2>1. CASE x = r
    BY <1>7, <2>1, UploadTypes DEF Started
  <2>2. CASE x # r
    BY <1>7, <2>2, UploadTypes DEF Elsewhere
  <2> QED
    BY <2>1, <2>2
<1> QED
  BY <1>3, <1>4, <1>5, <1>6, <1>7, RequestsGoOn

\* Whatever the service erases was to be erased.
LEMMA AlwaysMeant ==
  ASSUME Base, WorkOK, NEW r \in Requests, req[r].step \in EraseSteps
  PROVE  Meant(req[r])
<1>1. DeletedOnly(req[r]) /\ WellFormed(req[r]) /\ req[r] \in Request
  BY TypeParts DEF WorkOK, Base
<1> QED
  BY <1>1 DEF DeletedOnly, WellFormed, Meant, Exists, EraseSteps

LEMMA NoWork ==
  ASSUME NEW r, ~InService(req'[r])
  PROVE  AtWork(req[r])'
BY DEF InService, AtWork

\* The step of the service does its work.
LEMMA ServeWorks ==
  ASSUME Base, WorkOK, NEW r \in Requests, Serve(r)
  PROVE  AtWork(req[r])'
<1> DEFINE s == req[r].who
<1>1. /\ AtWork(req[r]) /\ WellFormed(req[r]) /\ req[r] \in Request
      /\ req' \in [Requests -> Request] /\ InService(req[r]) /\ holder = r
  BY ServeEffect, BaseParts DEF WorkOK, Base
<1>2. CASE Ends(r)
  <2>1. ~InService(req'[r])
    BY <1>1, <1>2, OverFollows DEF Ends
  <2> QED
    BY <2>1, NoWork
<1>3. CASE Scanned(r)
  <2>1. dir' = dir
    BY <1>3 DEF Scanned, Serve, Write, Analyze, ClearOld, MoveAside, MoveIn, MoveInFails, EnrollFails,
              DropOld, Index, RemoveDir, RemoveTmp, RemoveOld, Forget, RemoveFails, Scan, Publish,
              At, folders
  <2> QED
    BY <1>3, <2>1 DEF Scanned, AtWork
<1> DEFINE F == [Students -> SUBSET Photos]
<1>4. /\ dir \in F /\ tmp \in F /\ old \in F /\ kept \in F
      /\ hidden \in [Students -> BOOLEAN]
  BY BaseParts
<1>5. CASE Selected(r)
  BY <1>5 DEF Selected, Kept, AtWork
<1>6. CASE GoesOn(r)
  <2>1. s \in Students
    BY <1>6, ServedStudent DEF GoesOn, Onward, EnrollSteps, EraseSteps
  <2>2. Moved(req[r], req'[r], req'[r].step) /\ Onward(req[r].step, req'[r].step)
    BY <1>6 DEF GoesOn
  <2>3. CASE Write(r)
    <3>1. tmp'[s] = req[r].photos /\ req[r].step = "write"
      BY <1>4, <2>1, <2>3 DEF Write, At
    <3> QED
      BY <2>2, <3>1 DEF Moved, Onward, AtWork
  <2>4. CASE ClearOld(r)
    <3>1. /\ UNCHANGED <<dir, tmp, hidden>> /\ req[r].step = "clear"
          /\ hidden[s] => kept'[s] = {}
      BY <1>4, <2>1, <2>4 DEF ClearOld, At
    <3> QED
      BY <1>1, <2>2, <3>1 DEF Moved, Onward, AtWork
  <2>5. CASE MoveAside(r)
    <3>0. req[r].step = "aside" /\ ~(dir[s] # {} /\ old[s] # {})
      BY <1>1, <1>6, <2>5, EnrollmentAssumption DEF MoveAside, At, GoesOn, Release
    <3>1. dir'[s] = {} /\ tmp' = tmp /\ hidden' = hidden /\ kept' = kept
      BY <1>4, <2>1, <2>5, <3>0 DEF MoveAside, history
    <3> QED
      BY <1>1, <2>2, <3>0, <3>1 DEF Moved, Onward, AtWork
  <2>6. CASE MoveIn(r)
    <3>1. dir'[s] = tmp[s] /\ kept'[s] = tmp[s] /\ ~hidden'[s] /\ req[r].step = "in"
      BY <1>4, <2>1, <2>6 DEF MoveIn, At
    <3> QED
      BY <1>1, <2>2, <3>1 DEF Moved, Onward, AtWork
  <2>7. CASE DropOld(r)
    <3>1. UNCHANGED <<dir, kept, hidden>> /\ req[r].step = "drop"
      BY <2>7 DEF DropOld, At, history
    <3> QED
      BY <1>1, <2>2, <3>1 DEF Moved, Onward, AtWork
  <2>8. CASE RemoveDir(r)
    <3>1. req[r].step = "rm_dir" /\ Meant(req[r])
      BY <2>8, AlwaysMeant DEF RemoveDir, At, EraseSteps
    <3>2. dir'[s] = {} /\ kept'[s] = {}
      BY <1>4, <2>1, <2>8, <3>1 DEF RemoveDir, GiveUp
    <3> QED
      BY <2>2, <3>1, <3>2 DEF Moved, Onward, AtWork
  <2>9. CASE RemoveTmp(r)
    <3>1. req[r].step = "rm_tmp" /\ UNCHANGED <<dir, kept>> /\ tmp'[s] = {}
      BY <1>4, <2>1, <2>9 DEF RemoveTmp, At, history
    <3> QED
      BY <1>1, <2>2, <3>1 DEF Moved, Onward, AtWork
  <2>10. CASE RemoveOld(r)
    <3>1. req[r].step = "rm_old" /\ UNCHANGED <<dir, tmp, kept>> /\ old'[s] = {}
      BY <1>4, <2>1, <2>10 DEF RemoveOld, At, history
    <3> QED
      BY <1>1, <2>2, <3>1 DEF Moved, Onward, AtWork
  <2>11. ~(\/ Analyze(r) \/ MoveInFails(r) \/ EnrollFails(r) \/ Index(r)
           \/ Forget(r) \/ RemoveFails(r) \/ Scan(r) \/ Publish(r))
    <3>1. holder' = r /\ r # Nobody
      BY <1>1, <1>6, EnrollmentAssumption DEF GoesOn
    <3>2. ~(\/ MoveInFails(r) \/ EnrollFails(r) \/ Index(r) \/ Forget(r) \/ RemoveFails(r))
      BY <3>1 DEF MoveInFails, EnrollFails, Index, Forget, RemoveFails, Release
    <3>3. ~(Analyze(r) \/ Scan(r) \/ Publish(r))
      BY <2>2 DEF Analyze, Scan, Publish, At, Onward
    <3> QED
      BY <3>2, <3>3
  <2> QED
    BY <2>3, <2>4, <2>5, <2>6, <2>7, <2>8, <2>9, <2>10, <2>11 DEF Serve
<1> QED
  BY <1>2, <1>3, <1>5, <1>6, ServeEffect

LEMMA AtWorkStep ==
  ASSUME Base, WorkOK, [Next]_vars, NEW q \in Requests
  PROVE  AtWork(req[q])'
<1>1. AtWork(req[q])
  BY DEF WorkOK
<1>2. CASE Aside
  BY <1>1, <1>2, AsideEffect DEF AtWork
<1>3. CASE Crash
  BY <1>3, CrashEffect, NoWork
<1>4. ASSUME NEW r \in Requests, Ask(r)  PROVE AtWork(req[q])'
  <2>1. CASE q = r
    BY <1>4, <2>1, AskEffect, NoWork
  <2>2. CASE q # r
    <3>1. req'[q] = req[q] /\ UNCHANGED <<dir, tmp, old, kept, hidden>>
      BY <1>4, <2>2, AskEffect DEF Elsewhere
    <3> QED
      BY <1>1, <3>1 DEF AtWork
  <2> QED
    BY <2>1, <2>2
<1>5. ASSUME NEW r \in Requests, Acquire(r)  PROVE AtWork(req[q])'
  <2>1. CASE q = r
    BY <1>5, <2>1, AcquireEffect DEF AtWork
  <2>2. CASE q # r
    <3>1. req'[q] = req[q] /\ UNCHANGED <<dir, tmp, old, kept, hidden>>
      BY <1>5, <2>2, AcquireEffect DEF Elsewhere
    <3> QED
      BY <1>1, <3>1 DEF AtWork
  <2> QED
    BY <2>1, <2>2
<1>6. ASSUME NEW r \in Requests, Serve(r)  PROVE AtWork(req[q])'
  <2>1. CASE q = r
    BY <1>6, <2>1, ServeWorks
  <2>2. CASE q # r
    <3>1. ~InService(req'[q])
      BY <1>6, <2>2, ServeEffect, Alone DEF Elsewhere
    <3> QED
      BY <3>1, NoWork
  <2> QED
    BY <2>1, <2>2
<1> QED
  BY <1>2, <1>3, <1>4, <1>5, <1>6, NextKinds

\* The photos of a request, and those of a folder, are of one upload.
LEMMA SubsetOfOne ==
  ASSUME NEW photos, NEW more, OneUpload(more), photos \subseteq more
  PROVE  OneUpload(photos)
BY DEF OneUpload

LEMMA RequestsOfOneUpload ==
  ASSUME Base, WorkOK, [Next]_vars, NEW q \in Requests
  PROVE  OneUpload(req'[q].photos)
<1>1. OneUpload(req[q].photos)
  BY DEF WorkOK
<1>2. ASSUME NEW r \in Requests, NEW s \in Students, NEW last \in Names,
             UploadEnrollmentPhotos(r, s, last)
      PROVE  OneUpload(req'[q].photos)
  <2>1. CASE q = r
    <3>1. req'[q].photos = {uploads'} \X (0..last)
      BY <1>2, <2>1, UploadTypes DEF Started
    <3> QED
      BY <3>1 DEF OneUpload
  <2>2. CASE q # r
    BY <1>1, <1>2, <2>2, UploadTypes DEF Elsewhere
  <2> QED
    BY <2>1, <2>2
<1>3. CASE req'[q].photos \subseteq req[q].photos
  BY <1>1, <1>3, SubsetOfOne
<1>4. (Follows(req[q], req'[q]) \/ Begins(req[q], req'[q]) \/ Plans(req[q], req'[q])) =>
        req'[q].photos \subseteq req[q].photos
  BY DEF Follows, Begins, Plans
<1> QED
  BY <1>1, <1>2, <1>3, <1>4, RequestsGoOn

\* What the service may do to the folders of the student its request is about, and it
\* does nothing to those of another.
Same(t) ==
  /\ dir'[t] = dir[t] /\ tmp'[t] = tmp[t] /\ old'[t] = old[t] /\ known'[t] = known[t]
  /\ kept'[t] = kept[t] /\ hidden'[t] = hidden[t] /\ stored'[t] = stored[t]
  /\ gone'[t] = gone[t] /\ missed'[t] = missed[t]

LEMMA ServeElsewhere ==
  ASSUME Base, NEW r \in Requests, Serve(r), ~Publish(r), NEW t \in Students, t # req[r].who
  PROVE  Same(t)
<1> DEFINE F == [Students -> SUBSET Photos]
<1>1. /\ dir \in F /\ tmp \in F /\ old \in F /\ known \in F /\ kept \in F
      /\ hidden \in [Students -> BOOLEAN]
      /\ stored \in [Students -> SUBSET (0..MaxOps)] /\ gone \in [Students -> SUBSET (0..MaxOps)]
      /\ missed \in [Students -> SUBSET (0..MaxOps)]
  BY BaseParts
<1>2. CASE Write(r) \/ ClearOld(r) \/ MoveAside(r) \/ MoveIn(r) \/ DropOld(r)
  BY <1>1, <1>2 DEF Write, ClearOld, MoveAside, MoveIn, DropOld, Same, history
<1>3. CASE Analyze(r)
  BY <1>1, <1>3 DEF Analyze, Same, history
<1>4. CASE MoveInFails(r)
  BY <1>1, <1>4 DEF MoveInFails, Same
<1>5. CASE EnrollFails(r) \/ Index(r) \/ Scan(r)
  BY <1>1, <1>5 DEF EnrollFails, Index, Scan, Same, history, folders
<1>6. CASE RemoveDir(r) \/ RemoveTmp(r) \/ RemoveOld(r) \/ Forget(r)
  BY <1>1, <1>6 DEF RemoveDir, RemoveTmp, RemoveOld, Forget, GiveUp, Same, history, folders
<1>7. CASE RemoveFails(r)
  BY <1>1, <1>7 DEF RemoveFails, GiveUp, Same
<1> QED
  BY <1>2, <1>3, <1>4, <1>5, <1>6, <1>7 DEF Serve

LEMMA PublishEffect ==
  ASSUME Base, WorkOK, NEW r \in Requests, Publish(r)
  PROVE  /\ UNCHANGED <<student, dir, tmp, old, kept, hidden, stored, gone, missed, view, uploads>>
         /\ known' = dir
<1>1. AtWork(req[r]) /\ req[r].step = "publish"
  BY DEF Publish, At, WorkOK
<1> QED
  BY <1>1 DEF Publish, AtWork, folders, history

LEMMA CrashKeeps ==
  ASSUME Crash
  PROVE  /\ UNCHANGED <<student, dir, tmp, old, view, uploads, kept, stored, gone>>
         /\ known' = dir
BY DEF Crash, folders

\* A folder takes the photos of one upload: what it had, the other folder, or an upload.
LEMMA FoldersOfOneUpload ==
  ASSUME Base, WorkOK, [Next]_vars, NEW s \in Students
  PROVE  OneUpload(dir'[s]) /\ OneUpload(old'[s])
<1>1. /\ OneUpload(dir[s]) /\ OneUpload(old[s])
      /\ \A r \in Requests : OneUpload(req[r].photos) /\ AtWork(req[r])
  BY DEF WorkOK
<1>2. OneUpload({})
  BY DEF OneUpload
<1>3. /\ dir \in [Students -> SUBSET Photos] /\ tmp \in [Students -> SUBSET Photos]
      /\ old \in [Students -> SUBSET Photos]
  BY BaseParts
<1>4. CASE Aside
  BY <1>1, <1>4, AsideEffect
<1>5. CASE Crash
  BY <1>1, <1>5, CrashKeeps
<1>6. ASSUME NEW r \in Requests, Ask(r) \/ Acquire(r)  PROVE OneUpload(dir'[s]) /\ OneUpload(old'[s])
  BY <1>1, <1>6, AskEffect, AcquireEffect
<1>7. ASSUME NEW r \in Requests, Serve(r)  PROVE OneUpload(dir'[s]) /\ OneUpload(old'[s])
  <2>1. CASE Publish(r)
    BY <1>1, <2>1, PublishEffect
  <2>2. CASE ~Publish(r) /\ s # req[r].who
    BY <1>1, <1>7, <2>2, ServeElsewhere DEF Same
  <2>3. CASE ~Publish(r) /\ s = req[r].who
    <3>1. CASE Write(r) \/ Analyze(r) \/ EnrollFails(r) \/ Index(r) \/ RemoveTmp(r) \/ Forget(r) \/ Scan(r)
      BY <1>1, <3>1 DEF Write, Analyze, EnrollFails, Index, RemoveTmp, Forget, Scan, folders
    <3>2. CASE ClearOld(r) \/ DropOld(r) \/ RemoveOld(r)
      BY <1>1, <1>2, <1>3, <2>3, <3>2 DEF ClearOld, DropOld, RemoveOld
    <3>3. CASE MoveAside(r)
      BY <1>1, <1>2, <1>3, <2>3, <3>3 DEF MoveAside
    <3>4. CASE MoveIn(r)
      <4>1. dir'[s] = req[r].photos /\ old'[s] = old[s]
        BY <1>1, <1>3, <2>3, <3>4 DEF MoveIn, At, AtWork
      <4> QED
        BY <1>1, <4>1
    <3>5. CASE MoveInFails(r)
      BY <1>1, <1>2, <1>3, <2>3, <3>5 DEF MoveInFails
    <3>6. CASE RemoveDir(r)
      BY <1>1, <1>2, <1>3, <2>3, <3>6 DEF RemoveDir
    <3>7. CASE RemoveFails(r)
      <4>1. dir'[s] \subseteq dir[s] /\ old'[s] \subseteq old[s]
        BY <1>3, <2>3, <3>7 DEF RemoveFails
      <4> QED
        BY <1>1, <4>1, SubsetOfOne
    <3> QED
      BY <1>7, <2>3, <3>1, <3>2, <3>3, <3>4, <3>5, <3>6, <3>7 DEF Serve
  <2> QED
    BY <2>1, <2>2, <2>3
<1> QED
  BY <1>4, <1>5, <1>6, <1>7, NextKinds

LEMMA WorkStep ==
  ASSUME Base, WorkOK, [Next]_vars
  PROVE  WorkOK'
<1>1. (\A r \in Requests : DeletedOnly(req[r]))'
  BY DeletedOnlyStep
<1>2. (\A r \in Requests : AtWork(req[r]))'
  BY AtWorkStep
<1>3. \A r \in Requests : OneUpload(req'[r].photos)
  BY RequestsOfOneUpload
<1>4. \A s \in Students : OneUpload(dir'[s]) /\ OneUpload(old'[s])
  BY FoldersOfOneUpload
<1> QED
  BY <1>1, <1>2, <1>3, <1>4 DEF WorkOK, OneUpload

LEMMA WorkInit ==
  ASSUME Init
  PROVE  WorkOK
BY IdleFields DEF Init, WorkOK, DeletedOnly, AtWork, OneUpload, NoPhotos

LEMMA Founded == Spec => [](Base /\ WorkOK)
BY BaseInit, BaseStep, WorkInit, WorkStep, PTL DEF Spec

----------------------------------------------------------------------------
(* What was erased is gone *)

LEMMA UploadedPhotos ==
  ASSUME Base, NEW r \in Requests, NEW s \in Students, NEW last \in Names,
         UploadEnrollmentPhotos(r, s, last)
  PROVE  /\ Elsewhere(r) /\ uploads' = uploads + 1
         /\ \A p \in req'[r].photos : p[1] = uploads + 1
<1>1. /\ Elsewhere(r) /\ uploads' = uploads + 1
      /\ req'[r].photos = {uploads'} \X (0..last)
  BY UploadTypes DEF Started
<1>2. \A p \in {uploads'} \X (0..last) : p[1] = uploads'
  OBVIOUS
<1> QED
  BY <1>1, <1>2

LEMMA ApartStep ==
  ASSUME Base, WorkOK, Apart, [Next]_vars
  PROVE  Apart'
<1>1. uploads \in Nat /\ \A r \in Requests : req[r].photos \in SUBSET Photos
  BY BaseParts, RequestFields
<1>2. \A r \in Requests : \A p \in req[r].photos : p[1] \in Nat /\ p[1] <= uploads
  BY <1>1, PhotoParts, EnrollmentAssumption DEF Apart
<1>3. ASSUME NEW r \in Requests, NEW s \in Students, NEW last \in Names,
             UploadEnrollmentPhotos(r, s, last)
      PROVE  Apart'
  <2>1. \A q \in Requests : q # r => req'[q] = req[q]
    BY <1>3, UploadedPhotos DEF Elsewhere
  <2>2. \A q \in Requests : \A p \in req'[q].photos :
          IF q = r THEN p[1] = uploads + 1 ELSE p \in req[q].photos
    BY <1>3, <2>1, UploadedPhotos
  <2>3. \A q \in Requests : \A p \in req'[q].photos : p[1] <= uploads'
    BY <1>1, <1>2, <1>3, <2>2, UploadedPhotos
  <2>4. ASSUME NEW q \in Requests, NEW t \in Requests, q # t,
               NEW p \in req'[q].photos, NEW x \in req'[t].photos
        PROVE  p[1] # x[1]
    BY <1>1, <1>2, <2>2, <2>4 DEF Apart
  <2> QED
    BY <2>3, <2>4 DEF Apart
<1>4. CASE /\ uploads' = uploads
           /\ \A q \in Requests :
                \/ req'[q] = req[q] \/ Follows(req[q], req'[q])
                \/ Begins(req[q], req'[q]) \/ Plans(req[q], req'[q])
  <2>1. \A q \in Requests : req'[q].photos \subseteq req[q].photos
    BY <1>4 DEF Follows, Begins, Plans
  <2> QED
    BY <1>4, <2>1 DEF Apart
<1> QED
  BY <1>3, <1>4, RequestsGoOn

\* Uploads are written down when they are written, and nothing else is.
LEMMA StoredStep ==
  ASSUME Base, WorkOK, [Next]_vars
  PROVE  \/ UNCHANGED <<stored, gone>>
         \/ \E r \in Requests : /\ Write(r) /\ gone' = gone
                                /\ stored' = [stored EXCEPT ![req[r].who] = @ \cup UploadsOf(req[r].photos)]
         \/ \E r \in Requests : /\ Forget(r) /\ stored' = stored
                                /\ gone' = [gone EXCEPT ![req[r].who] = stored[req[r].who]]
<1>1. CASE Aside
  BY <1>1, AsideEffect
<1>2. CASE Crash
  BY <1>2, CrashKeeps
<1>3. ASSUME NEW r \in Requests, Ask(r) \/ Acquire(r)  PROVE UNCHANGED <<stored, gone>>
  BY <1>3, AskEffect, AcquireEffect
<1>4. ASSUME NEW r \in Requests, Serve(r), ~Write(r), ~Forget(r)  PROVE UNCHANGED <<stored, gone>>
  BY <1>4 DEF Serve, Analyze, ClearOld, MoveAside, MoveIn, MoveInFails, EnrollFails,
              DropOld, Index, RemoveDir, RemoveTmp, RemoveOld, RemoveFails, Scan, Publish, history
<1>5. ASSUME NEW r \in Requests, Write(r)
      PROVE  /\ gone' = gone
             /\ stored' = [stored EXCEPT ![req[r].who] = @ \cup UploadsOf(req[r].photos)]
  BY <1>5 DEF Write
<1>6. ASSUME NEW r \in Requests, Forget(r)
      PROVE  /\ stored' = stored
             /\ gone' = [gone EXCEPT ![req[r].who] = stored[req[r].who]]
  BY <1>6 DEF Forget
<1> QED
  BY <1>1, <1>2, <1>3, <1>4, <1>5, <1>6, NextKinds

\* Each part of WrittenOK.
LEMMA GoneAreStored ==
  ASSUME Base, WorkOK, WrittenOK, [Next]_vars, NEW s \in Students
  PROVE  gone'[s] \subseteq stored'[s]
<1>1. /\ stored \in [Students -> SUBSET (0..MaxOps)] /\ gone \in [Students -> SUBSET (0..MaxOps)]
      /\ gone[s] \subseteq stored[s]
  BY BaseParts DEF WrittenOK
<1> QED
  BY <1>1, StoredStep

LEMMA StoredAreUploaded ==
  ASSUME Base, WorkOK, WrittenOK, Apart, [Next]_vars, NEW s \in Students, NEW n \in stored'[s]
  PROVE  n <= uploads' /\ uploads <= uploads'
<1>1. /\ stored \in [Students -> SUBSET (0..MaxOps)] /\ uploads \in Nat
      /\ \A m \in stored[s] : m \in Nat /\ m <= uploads
  BY BaseParts, EnrollmentAssumption DEF WrittenOK
<1>2. uploads' \in Nat /\ uploads <= uploads'
  BY <1>1, RequestsGoOn, UploadedPhotos
<1>3. CASE n \in stored[s]
  BY <1>1, <1>2, <1>3
<1>4. CASE n \notin stored[s]
  <2>1. PICK r \in Requests : /\ Write(r)
                              /\ stored' = [stored EXCEPT ![req[r].who] = @ \cup UploadsOf(req[r].photos)]
    BY <1>4, StoredStep
  <2>2. PICK p \in req[r].photos : n = p[1]
    BY <1>1, <1>4, <2>1 DEF UploadsOf
  <2>3. p[1] <= uploads /\ p[1] \in Nat
    BY <2>2, BaseParts, RequestFields, PhotoParts, EnrollmentAssumption DEF Apart
  <2> QED
    BY <1>1, <1>2, <2>2, <2>3
<1> QED
  BY <1>3, <1>4

LEMMA UnwrittenStep ==
  ASSUME Base, WorkOK, WrittenOK, Apart, [Next]_vars,
         NEW q \in Requests, Unwritten(req'[q]), NEW p \in req'[q].photos, NEW s \in Students
  PROVE  p[1] \notin stored'[s]
<1>1. /\ stored \in [Students -> SUBSET (0..MaxOps)] /\ uploads \in Nat
      /\ \A m \in stored[s] : m \in Nat /\ m <= uploads
  BY BaseParts, EnrollmentAssumption DEF WrittenOK
<1>2. ASSUME NEW r \in Requests, NEW t \in Students, NEW last \in Names,
             UploadEnrollmentPhotos(r, t, last)
      PROVE  p[1] \notin stored'[s]
  <2>1. stored' = stored
    BY <1>2 DEF UploadEnrollmentPhotos, history
  <2>2. CASE q = r
    <3>1. p[1] = uploads + 1
      BY <1>2, <2>2, UploadedPhotos
    <3> QED
      BY <1>1, <2>1, <3>1
  <2>3. CASE q # r
    <3>1. req'[q] = req[q]
      BY <1>2, <2>3, UploadedPhotos DEF Elsewhere
    <3> QED
      BY <2>1, <3>1 DEF WrittenOK
  <2> QED
    BY <2>2, <2>3
<1>3. CASE req'[q] = req[q] \/ Follows(req[q], req'[q]) \/ Begins(req[q], req'[q]) \/ Plans(req[q], req'[q])
  <2>1. p \in req[q].photos /\ Unwritten(req[q])
    <3>1. CASE req'[q] = req[q]
      BY <3>1
    <3>2. CASE Follows(req[q], req'[q])
      <4>1. req[q].step = "next" => req[q].photos = {}
        BY DEF Base, WellFormed
      <4> QED
        BY <3>2, <4>1 DEF Follows, Unwritten
    <3>3. CASE Begins(req[q], req'[q]) \/ Plans(req[q], req'[q])
      BY <3>3 DEF Begins, Plans, Unwritten
    <3> QED
      BY <1>3, <3>1, <3>2, <3>3
  <2>2. p[1] \notin stored[s]
    BY <2>1 DEF WrittenOK
  <2>3. ASSUME NEW r \in Requests, Write(r)
        PROVE  r # q
    <3>1. req'[r].step = "analyze"
      <4>1. req \in [Requests -> Request] /\ GoTo(r, "analyze")
        BY <2>3, BaseParts DEF Write
      <4> QED
        BY <4>1, GoToEffect DEF Steps, EnrollSteps, Moved
    <3> QED
      BY <3>1 DEF Unwritten
  <2>4. ASSUME NEW r \in Requests, r # q  PROVE p[1] \notin UploadsOf(req[r].photos)
    BY <2>1, <2>4 DEF Apart, UploadsOf
  <2> QED
    BY <1>1, <2>2, <2>3, <2>4, StoredStep
<1> QED
  BY <1>2, <1>3, RequestsGoOn

LEMMA ServedNotGone ==
  ASSUME Base, WorkOK, WrittenOK, [Next]_vars,
         NEW q \in Requests, InService(req'[q]), NEW p \in req'[q].photos
  PROVE  p[1] \notin gone'[req'[q].who]
<1> DEFINE Goal == p[1] \notin gone'[req'[q].who]
<1>1. WellFormed(req[q])
  BY DEF Base
<1>2. CASE Aside
  BY <1>2, AsideEffect DEF WrittenOK
<1>3. ~Crash
  BY CrashEffect
<1>4. ASSUME NEW r \in Requests, Ask(r)  PROVE Goal
  BY <1>4, AskEffect DEF Elsewhere, WrittenOK
<1>5. ASSUME NEW r \in Requests, Acquire(r)  PROVE Goal
  <2>1. CASE q = r
    <3>1. /\ req[q].step = "sent" /\ p \in req[q].photos /\ req'[q].who = req[q].who
          /\ gone' = gone
      BY <1>5, <2>1, AcquireEffect DEF Moved
    <3>2. req[q].who \in Students
      BY <1>1, <3>1 DEF WellFormed
    <3>3. p[1] \notin stored[req[q].who] /\ gone[req[q].who] \subseteq stored[req[q].who]
      BY <3>1, <3>2 DEF WrittenOK, Unwritten
    <3> QED
      BY <3>1, <3>3
  <2>2. CASE q # r
    BY <1>5, <2>2, AcquireEffect DEF Elsewhere, WrittenOK
  <2> QED
    BY <2>1, <2>2
<1>6. ASSUME NEW r \in Requests, Serve(r)  PROVE Goal
  <2>1. q = r /\ InService(req[q])
    BY <1>6, ServeEffect, Alone DEF Elsewhere
  <2>2. ~Ends(r)
    BY <2>1, OverFollows DEF Ends
  <2>3. p \in req[q].photos /\ req'[q].who = req[q].who
    <3>1. CASE GoesOn(r)
      BY <2>1, <3>1 DEF GoesOn, Moved
    <3>2. CASE Selected(r)
      <4>1. tmp[req[q].who] = req[q].photos
        BY <2>1, <3>2 DEF Selected, WorkOK, AtWork
      <4> QED
        BY <2>1, <3>2, <4>1 DEF Selected, Kept
    <3>3. CASE Scanned(r)
      BY <2>1, <3>3 DEF Scanned
    <3> QED
      BY <1>6, <2>2, <3>1, <3>2, <3>3, ServeEffect
  <2>4. gone' = gone
    <3>1. ~Forget(r)
      <4>1. SUFFICES ASSUME Forget(r)  PROVE Ends(r)
        BY <2>2
      <4>2. req \in [Requests -> Request] /\ Release(r)
        BY <4>1, BaseParts DEF Forget
      <4> QED
        BY <4>2, ReleaseEffect DEF Ends
    <3> QED
      BY <1>6, <3>1 DEF Serve, Write, Analyze, ClearOld, MoveAside, MoveIn, MoveInFails, EnrollFails,
              DropOld, Index, RemoveDir, RemoveTmp, RemoveOld, RemoveFails, Scan, Publish, history
  <2> QED
    BY <2>1, <2>3, <2>4 DEF WrittenOK
<1> QED
  BY <1>2, <1>3, <1>4, <1>5, <1>6, NextKinds

LEMMA WrittenStep ==
  ASSUME Base, WorkOK, WrittenOK, Apart, [Next]_vars
  PROVE  WrittenOK'
<1>1. \A s \in Students : gone'[s] \subseteq stored'[s]
  BY GoneAreStored
<1>2. \A s \in Students : \A n \in stored'[s] : n <= uploads'
  BY StoredAreUploaded
<1>3. \A q \in Requests : Unwritten(req'[q]) =>
        \A p \in req'[q].photos : \A s \in Students : p[1] \notin stored'[s]
  BY UnwrittenStep
<1>4. \A q \in Requests : InService(req'[q]) =>
        \A p \in req'[q].photos : p[1] \notin gone'[req'[q].who]
  BY ServedNotGone
<1> QED
  BY <1>1, <1>2, <1>3, <1>4 DEF WrittenOK, Unwritten, InService

\* Nothing of s that was erased is anywhere.
Clean(photos, erased) == \A p \in photos : p[1] \notin erased

LEMMA CleanParts ==
  ErasedIsGone <=> \A s \in Students : /\ Clean(dir[s], gone[s]) /\ Clean(tmp[s], gone[s])
                                       /\ Clean(old[s], gone[s]) /\ Clean(known[s], gone[s])
BY DEF ErasedIsGone, Clean

LEMMA CleanSubset ==
  ASSUME NEW photos, NEW more, NEW erased, photos \subseteq more, Clean(more, erased)
  PROVE  Clean(photos, erased)
BY DEF Clean

AllClean(t) ==
  /\ Clean(dir[t], gone[t]) /\ Clean(tmp[t], gone[t])
  /\ Clean(old[t], gone[t]) /\ Clean(known[t], gone[t])

LEMMA GoneStep ==
  ASSUME Base, WorkOK, WrittenOK, ErasedIsGone, [Next]_vars, NEW s \in Students
  PROVE  AllClean(s)'
<1>1. AllClean(s)
  BY CleanParts DEF AllClean
<1>2. \A erased : Clean({}, erased)
  BY DEF Clean
<1>3. /\ dir \in [Students -> SUBSET Photos] /\ tmp \in [Students -> SUBSET Photos]
      /\ old \in [Students -> SUBSET Photos] /\ known \in [Students -> SUBSET Photos]
  BY BaseParts
<1>4. CASE Aside
  BY <1>1, <1>4, AsideEffect DEF AllClean
<1>5. CASE Crash
  BY <1>1, <1>5, CrashKeeps DEF AllClean
<1>6. ASSUME NEW r \in Requests, Ask(r) \/ Acquire(r)  PROVE AllClean(s)'
  BY <1>1, <1>6, AskEffect, AcquireEffect DEF AllClean
<1>7. ASSUME NEW r \in Requests, Serve(r)  PROVE AllClean(s)'
  <2>0. AtWork(req[r]) /\ InService(req[r])
    BY <1>7, ServeEffect DEF WorkOK
  <2>1. CASE Publish(r)
    BY <1>1, <2>1, PublishEffect DEF AllClean
  <2>2. CASE ~Publish(r) /\ s # req[r].who
    BY <1>1, <1>7, <2>2, ServeElsewhere DEF Same, AllClean
  <2>3. CASE ~Publish(r) /\ s = req[r].who
    <3>0. Clean(req[r].photos, gone[s])
      BY <2>0, <2>3 DEF WrittenOK, Clean
    <3>1. CASE Write(r)
      <4>1. tmp'[s] = req[r].photos /\ UNCHANGED <<dir, old, known, gone>>
        BY <1>3, <2>3, <3>1 DEF Write
      <4> QED
        BY <1>1, <3>0, <4>1 DEF AllClean
    <3>2. CASE Analyze(r)
      <4>1. tmp'[s] \subseteq tmp[s] /\ UNCHANGED <<dir, old, known, gone>>
        BY <1>3, <2>3, <3>2 DEF Analyze, history
      <4> QED
        BY <1>1, <4>1, CleanSubset DEF AllClean
    <3>3. CASE ClearOld(r) \/ DropOld(r) \/ RemoveOld(r)
      <4>1. old'[s] \in {{}, old[s]} /\ UNCHANGED <<dir, tmp, known, gone>>
        BY <1>3, <2>3, <3>3 DEF ClearOld, DropOld, RemoveOld, history
      <4> QED
        BY <1>1, <1>2, <4>1 DEF AllClean
    <3>4. CASE MoveAside(r)
      <4>1. /\ dir'[s] \in {{}, dir[s]} /\ old'[s] \in {dir[s], old[s]} /\ tmp'[s] \in {{}, tmp[s]}
            /\ UNCHANGED <<known, gone>>
        BY <1>3, <2>3, <3>4 DEF MoveAside, history
      <4> QED
        BY <1>1, <1>2, <4>1 DEF AllClean
    <3>5. CASE MoveIn(r)
      <4>1. dir'[s] = tmp[s] /\ tmp'[s] = {} /\ UNCHANGED <<old, known, gone>>
        BY <1>3, <2>3, <3>5 DEF MoveIn
      <4> QED
        BY <1>1, <1>2, <4>1 DEF AllClean
    <3>6. CASE MoveInFails(r)
      <4>1. /\ dir'[s] \in {old[s], dir[s]} /\ old'[s] \in {{}, old[s]} /\ tmp'[s] = {}
            /\ UNCHANGED <<known, gone>>
        BY <1>3, <2>3, <3>6 DEF MoveInFails
      <4> QED
        BY <1>1, <1>2, <4>1 DEF AllClean
    <3>7. CASE EnrollFails(r) \/ RemoveTmp(r)
      <4>1. tmp'[s] = {} /\ UNCHANGED <<dir, old, known, gone>>
        BY <1>3, <2>3, <3>7 DEF EnrollFails, RemoveTmp, history
      <4> QED
        BY <1>1, <1>2, <4>1 DEF AllClean
    <3>8. CASE Index(r)
      <4>1. known'[s] = req[r].photos /\ UNCHANGED <<dir, tmp, old, gone>>
        BY <1>3, <2>3, <3>8 DEF Index, history, folders
      <4> QED
        BY <1>1, <3>0, <4>1 DEF AllClean
    <3>9. CASE RemoveDir(r)
      <4>1. dir'[s] = {} /\ UNCHANGED <<tmp, old, known, gone>>
        BY <1>3, <2>3, <3>9 DEF RemoveDir
      <4> QED
        BY <1>1, <1>2, <4>1 DEF AllClean
    <3>10. CASE Forget(r)
      <4>1. dir[s] = {} /\ tmp[s] = {} /\ old[s] = {}
        BY <2>0, <2>3, <3>10 DEF AtWork, Forget, At
      <4>2. known'[s] = {} /\ UNCHANGED <<dir, tmp, old>>
        BY <1>3, <2>3, <3>10 DEF Forget, folders
      <4> QED
        BY <1>2, <4>1, <4>2 DEF AllClean
    <3>11. CASE RemoveFails(r)
      <4>1. /\ dir'[s] \subseteq dir[s] /\ tmp'[s] \subseteq tmp[s] /\ old'[s] \subseteq old[s]
            /\ UNCHANGED <<known, gone>>
        BY <1>3, <2>3, <3>11 DEF RemoveFails
      <4> QED
        BY <1>1, <4>1, CleanSubset DEF AllClean
    <3>12. CASE Scan(r)
      BY <1>1, <3>12 DEF Scan, AllClean, folders, history
    <3> QED
      BY <1>7, <2>3, <3>1, <3>2, <3>3, <3>4, <3>5, <3>6, <3>7, <3>8, <3>9, <3>10, <3>11, <3>12
         DEF Serve
  <2> QED
    BY <2>1, <2>2, <2>3
<1> QED
  BY <1>4, <1>5, <1>6, <1>7, NextKinds

\* What was written before an erasure that was answered never comes back
\* (ErasedIsGone): not from an upload on its way, a folder left aside, or a reload.
THEOREM ErasedStaysGone == Spec => []ErasedIsGone
<1>1. Init => Apart /\ WrittenOK /\ ErasedIsGone
  BY IdleFields DEF Init, Apart, WrittenOK, ErasedIsGone, NoPhotos
<1>2. /\ Base /\ WorkOK /\ Apart /\ WrittenOK /\ ErasedIsGone /\ [Next]_vars
      => (Apart /\ WrittenOK /\ ErasedIsGone)'
  <2> SUFFICES ASSUME Base, WorkOK, Apart, WrittenOK, ErasedIsGone, [Next]_vars
               PROVE  (Apart /\ WrittenOK /\ ErasedIsGone)'
    OBVIOUS
  <2>1. \A s \in Students : AllClean(s)'
    BY GoneStep
  <2>2. ErasedIsGone'
    BY <2>1 DEF ErasedIsGone, AllClean, Clean
  <2> QED
    BY <2>2, ApartStep, WrittenStep
<1> QED
  BY <1>1, <1>2, Founded, PTL DEF Spec

----------------------------------------------------------------------------
(* The set enrolled before stays *)

Stays(s) ==
  kept[s] # {} => IF hidden[s] \/ Swapping(s) THEN old[s] = kept[s] ELSE dir[s] = kept[s]

\* Only the request that is served can be in the middle of an exchange.
LEMMA SwappingServed ==
  ASSUME Base, NEW r \in Requests, InService(req[r]), NEW s
  PROVE  Swapping(s) <=> req[r].who = s /\ req[r].step = "in"
BY Alone DEF Swapping, At, InService

LEMMA SwappingKept ==
  ASSUME NEW s,
         \A q \in Requests : req'[q] = req[q] \/ (req[q].step # "in" /\ req'[q].step # "in")
  PROVE  Swapping(s)' <=> Swapping(s)
BY DEF Swapping, At

\* Nobody is swapping after a step that ended the request that was served.
LEMMA SwappingAfter ==
  ASSUME Base, NEW r \in Requests, Serve(r), NEW s
  PROVE  Swapping(s)' <=> req'[r].who = s /\ req'[r].step = "in"
<1>1. \A q \in Requests : q # r => req'[q].step # "in"
  BY ServeEffect, Alone DEF Elsewhere, InService
<1> QED
  BY <1>1 DEF Swapping, At

LEMMA ServeStays ==
  ASSUME Base, WorkOK, NEW r \in Requests, Serve(r), NEW s \in Students, Stays(s)
  PROVE  Stays(s)'
<1>1. /\ dir \in [Students -> SUBSET Photos] /\ tmp \in [Students -> SUBSET Photos]
      /\ old \in [Students -> SUBSET Photos] /\ kept \in [Students -> SUBSET Photos]
      /\ hidden \in [Students -> BOOLEAN] /\ req \in [Requests -> Request]
  BY BaseParts
<1>2. AtWork(req[r]) /\ InService(req[r]) /\ holder = r /\ r # Nobody
  BY ServeEffect, EnrollmentAssumption DEF WorkOK
<1>3. Swapping(s) <=> req[r].who = s /\ req[r].step = "in"
  BY <1>2, SwappingServed
<1>4. Swapping(s)' <=> req'[r].who = s /\ req'[r].step = "in"
  BY SwappingAfter
<1>5. CASE Ends(r)
  <2>1. ~Swapping(s)'
    BY <1>4, <1>5, <1>2, OverFollows DEF Ends, InService
  <2>2. ~(\/ Write(r) \/ ClearOld(r) \/ MoveIn(r) \/ DropOld(r) \/ RemoveDir(r) \/ RemoveTmp(r)
          \/ RemoveOld(r) \/ Scan(r))
    BY <1>2, <1>5 DEF Ends, Write, ClearOld, MoveIn, DropOld, RemoveDir, RemoveTmp, RemoveOld, Scan
  <2>3. CASE Publish(r)
    BY <1>3, <2>1, <2>3, PublishEffect DEF Stays, Publish, At
  <2>4. CASE ~Publish(r) /\ s # req[r].who
    BY <1>3, <2>1, <2>4, ServeElsewhere DEF Same, Stays
  <2>5. CASE s = req[r].who /\ (Analyze(r) \/ EnrollFails(r) \/ Index(r))
    <3>1. UNCHANGED <<dir, old, kept, hidden>> /\ req[r].step # "in"
      BY <2>5 DEF Analyze, EnrollFails, Index, At, folders, history
    <3> QED
      BY <1>3, <2>1, <3>1 DEF Stays
  <2>6. CASE s = req[r].who /\ MoveAside(r)
    <3>1. UNCHANGED <<dir, old, kept, hidden>> /\ req[r].step # "in"
      <4>1. dir[req[r].who] # {} /\ old[req[r].who] # {}
        <5>1. ~GoTo(r, "in")
          BY <1>1, <1>5, GoToEffect DEF Ends, Over, Moved, Steps, EnrollSteps
        <5> QED
          BY <2>6, <5>1 DEF MoveAside
      <4> QED
        BY <2>6, <4>1 DEF MoveAside, At, history
    <3> QED
      BY <1>3, <2>1, <3>1 DEF Stays
  <2>7. CASE s = req[r].who /\ MoveInFails(r)
    <3>1. req[r].step = "in" /\ dir[s] = {} /\ kept' = kept
      BY <1>2, <2>7 DEF MoveInFails, At, AtWork
    <3>2. kept[s] # {} => old[s] = kept[s]
      BY <1>3, <2>7, <3>1 DEF Stays
    <3>3. CASE kept[s] # {}
      <4>1. \/ dir'[s] = old[s] /\ hidden' = hidden
            \/ hidden'[s] /\ dir' = dir /\ old' = old
        BY <1>1, <2>7, <3>1, <3>2, <3>3 DEF MoveInFails
      <4>2. ~hidden[s]
        BY <1>2, <2>7, <3>1, <3>3 DEF AtWork
      <4> QED
        BY <2>1, <3>1, <3>2, <3>3, <4>1, <4>2 DEF Stays
    <3> QED
      BY <3>1, <3>3 DEF Stays
  <2>8. CASE s = req[r].who /\ Forget(r)
    <3>1. kept'[s] = {}
      BY <1>2, <2>8 DEF Forget, At, AtWork
    <3> QED
      BY <3>1 DEF Stays
  <2>9. CASE s = req[r].who /\ RemoveFails(r)
    <3>1. Meant(req[r])
      BY <2>9, AlwaysMeant DEF RemoveFails, At, EraseSteps
    <3>2. kept'[s] = {}
      BY <1>1, <2>9, <3>1 DEF RemoveFails, GiveUp
    <3> QED
      BY <3>2 DEF Stays
  <2> QED
    BY <2>2, <2>3, <2>4, <2>5, <2>6, <2>7, <2>8, <2>9 DEF Serve
<1>6. CASE Selected(r)
  <2>1. UNCHANGED <<dir, old, kept, hidden>>
    <3>1. req[r].step = "analyze" /\ holder' = r
      BY <1>2, <1>6 DEF Selected
    <3>2. Analyze(r)
      BY <1>2, <3>1 DEF Serve, Write, Analyze, ClearOld, MoveAside, MoveIn, MoveInFails, EnrollFails,
              DropOld, Index, RemoveDir, RemoveTmp, RemoveOld, Forget, RemoveFails, Scan, Publish, At,
              Release
    <3> QED
      BY <3>2 DEF Analyze, history
  <2>2. req[r].step # "in" /\ req'[r].step # "in"
    BY <1>6 DEF Selected, Kept
  <2> QED
    BY <1>3, <1>4, <2>1, <2>2 DEF Stays
<1>7. CASE Scanned(r)
  <2>1. UNCHANGED <<dir, old, kept, hidden>>
    BY <1>7 DEF Scanned, Serve, Write, Analyze, ClearOld, MoveAside, MoveIn, MoveInFails, EnrollFails,
              DropOld, Index, RemoveDir, RemoveTmp, RemoveOld, Forget, RemoveFails, Scan, Publish, At,
              folders, history
  <2> QED
    BY <1>3, <1>4, <1>7, <2>1 DEF Stays, Scanned
<1>8. CASE GoesOn(r)
  <2>0. /\ Moved(req[r], req'[r], req'[r].step) /\ Onward(req[r].step, req'[r].step)
        /\ holder' = r
    BY <1>2, <1>8 DEF GoesOn
  <2>1. req'[r].who = req[r].who
    BY <2>0 DEF Moved
  <2>2. CASE s # req[r].who
    <3>1. ~Publish(r)
      BY <2>0 DEF Publish, At, Onward
    <3> QED
      BY <1>3, <1>4, <1>8, <2>1, <2>2, <3>1, ServeElsewhere DEF Same, Stays
  <2>3. CASE s = req[r].who /\ Write(r)
    <3>1. UNCHANGED <<dir, old, kept, hidden>> /\ req[r].step = "write"
      BY <2>3 DEF Write, At
    <3> QED
      BY <1>3, <1>4, <2>0, <3>1 DEF Stays, Onward
  <2>4. CASE s = req[r].who /\ ClearOld(r)
    <3>1. /\ UNCHANGED <<dir, hidden>> /\ req[r].step = "clear"
          /\ IF hidden[s] THEN kept'[s] = {} ELSE kept' = kept
      BY <1>1, <2>4 DEF ClearOld, At
    <3> QED
      BY <1>3, <1>4, <2>0, <3>1 DEF Stays, Onward
  <2>5. CASE s = req[r].who /\ MoveAside(r)
    <3>1. /\ UNCHANGED <<hidden, kept>> /\ req[r].step = "aside" /\ req'[r].step = "in"
      BY <2>0, <2>5 DEF MoveAside, At, history, Onward
    <3>2. ~(dir[s] # {} /\ old[s] # {})
      BY <1>2, <2>0, <2>5 DEF MoveAside, Release
    <3>3. dir[s] # {} => old'[s] = dir[s]
      BY <1>1, <2>5, <3>2 DEF MoveAside
    <3>4. hidden[s] => kept[s] = {}
      BY <1>2, <2>5, <3>1 DEF AtWork
    <3> QED
      BY <1>3, <1>4, <2>1, <2>5, <3>1, <3>3, <3>4 DEF Stays
  <2>6. CASE s = req[r].who /\ MoveIn(r)
    <3>1. dir'[s] = tmp[s] /\ kept'[s] = tmp[s] /\ ~hidden'[s] /\ req[r].step = "in"
      BY <1>1, <2>6 DEF MoveIn, At
    <3> QED
      BY <1>4, <2>0, <3>1 DEF Stays, Onward
  <2>7. CASE s = req[r].who /\ DropOld(r)
    <3>1. UNCHANGED <<dir, kept, hidden>> /\ req[r].step = "drop" /\ ~hidden[s]
      BY <1>2, <2>7 DEF DropOld, At, history, AtWork
    <3> QED
      BY <1>3, <1>4, <2>0, <3>1 DEF Stays, Onward
  <2>8. CASE s = req[r].who /\ RemoveDir(r)
    <3>1. Meant(req[r])
      BY <2>8, AlwaysMeant DEF RemoveDir, At, EraseSteps
    <3>2. kept'[s] = {}
      BY <1>1, <2>8, <3>1 DEF RemoveDir, GiveUp
    <3> QED
      BY <3>2 DEF Stays
  <2>9. CASE s = req[r].who /\ (RemoveTmp(r) \/ RemoveOld(r))
    <3>1. kept' = kept /\ kept[s] = {}
      BY <1>2, <2>9 DEF RemoveTmp, RemoveOld, At, AtWork, history
    <3> QED
      BY <3>1 DEF Stays
  <2>10. ~(\/ Analyze(r) \/ MoveInFails(r) \/ EnrollFails(r) \/ Index(r)
           \/ Forget(r) \/ RemoveFails(r) \/ Scan(r) \/ Publish(r))
    <3>1. ~(\/ MoveInFails(r) \/ EnrollFails(r) \/ Index(r) \/ Forget(r) \/ RemoveFails(r))
      BY <1>2, <2>0 DEF MoveInFails, EnrollFails, Index, Forget, RemoveFails, Release
    <3>2. ~(Analyze(r) \/ Scan(r) \/ Publish(r))
      BY <2>0 DEF Analyze, Scan, Publish, At, Onward
    <3> QED
      BY <3>1, <3>2
  <2> QED
    BY <2>2, <2>3, <2>4, <2>5, <2>6, <2>7, <2>8, <2>9, <2>10 DEF Serve
<1> QED
  BY <1>5, <1>6, <1>7, <1>8, ServeEffect

LEMMA StaysStep ==
  ASSUME Base, WorkOK, [Next]_vars, NEW s \in Students, Stays(s)
  PROVE  Stays(s)'
<1>1. CASE Aside
  BY <1>1, AsideEffect DEF Stays, Swapping, At
<1>2. CASE Crash
  <2>1. ~Swapping(s)'
    BY <1>2, CrashEffect DEF Swapping, At, InService
  <2>2. hidden'[s] = (hidden[s] \/ (kept[s] # {} /\ dir[s] = {}))
    BY <1>2 DEF Crash
  <2>3. Swapping(s) => dir[s] = {}
    BY DEF Swapping, At, WorkOK, AtWork
  <2>4. UNCHANGED <<dir, old, kept>>
    BY <1>2, CrashKeeps
  <2> QED
    BY <2>1, <2>2, <2>3, <2>4 DEF Stays
<1>3. ASSUME NEW r \in Requests, Ask(r)  PROVE Stays(s)'
  <2>1. Swapping(s)' <=> Swapping(s)
    BY <1>3, AskEffect, SwappingKept DEF Elsewhere, InService
  <2> QED
    BY <1>3, <2>1, AskEffect DEF Stays
<1>4. ASSUME NEW r \in Requests, Acquire(r)  PROVE Stays(s)'
  <2>1. Swapping(s)' <=> Swapping(s)
    BY <1>4, AcquireEffect, SwappingKept DEF Elsewhere
  <2> QED
    BY <1>4, <2>1, AcquireEffect DEF Stays
<1>5. ASSUME NEW r \in Requests, Serve(r)  PROVE Stays(s)'
  BY <1>5, ServeStays
<1> QED
  BY <1>1, <1>2, <1>3, <1>4, <1>5, NextKinds

\* Whatever becomes of an upload, and whatever a reconciliation finds, the set that was
\* put in place last is there, or aside after a crash or an undo that failed, until it is
\* given up (PreviousStays).
THEOREM PreviousSetStays == Spec => []PreviousStays
<1>1. Init => PreviousStays
  BY DEF Init, PreviousStays, NoPhotos
<1>2. Base /\ WorkOK /\ PreviousStays /\ [Next]_vars => PreviousStays'
  <2> SUFFICES ASSUME Base, WorkOK, PreviousStays, [Next]_vars
               PROVE  PreviousStays'
    OBVIOUS
  <2>1. \A s \in Students : Stays(s)
    BY DEF PreviousStays, Stays
  <2>2. \A s \in Students : Stays(s)'
    BY <2>1, StaysStep
  <2> QED
    BY <2>2 DEF PreviousStays, Stays, Swapping, At
<1> QED
  BY <1>1, <1>2, Founded, PTL DEF Spec

----------------------------------------------------------------------------
(* The index follows the folders *)

Ongoing(s) ==
  \E r \in Requests : /\ req[r].who = s
                      /\ \/ At(r, "in") /\ LevelAside(s)
                         \/ req[r].step \in {"drop", "index", "rm_tmp", "rm_old", "forget"}

LEMMA LevelParts == LevelOK <=> \A s \in Students : Level(s) \/ Ongoing(s)
BY DEF LevelOK, Ongoing

\* What is missed is only forgotten by an erasure.
LEMMA AskMissed ==
  ASSUME Base, NEW r \in Requests, Ask(r), NEW s \in Students
  PROVE  missed[s] \subseteq missed'[s]
<1>1. missed \in [Students -> SUBSET (0..MaxOps)]
  BY BaseParts
<1>2. ASSUME NEW t \in Students, DeleteStudent(r, t)  PROVE missed[s] \subseteq missed'[s]
  <2>1. PICK more : missed' = [missed EXCEPT ![t] = @ \cup more]
    BY <1>2 DEF DeleteStudent
  <2> QED
    BY <1>1, <2>1
<1>3. CASE RequestLost(r)
  BY <1>1, <1>3 DEF RequestLost
<1>4. ASSUME ~RequestLost(r), ~\E t \in Students : DeleteStudent(r, t)
      PROVE  missed' = missed
  BY <1>4 DEF Ask, UploadEnrollmentPhotos, DeleteEnrollmentPhotos, Reload, ReconcileLists,
              ReconcilePlans, ReconcileNext, history
<1> QED
  BY <1>2, <1>3, <1>4

LEMMA ServeLevel ==
  ASSUME Base, WorkOK, NEW r \in Requests, Serve(r), ~Publish(r), NEW s \in Students, s = req[r].who,
         Level(s) \/ Ongoing(s)
  PROVE  Level(s)' \/ Ongoing(s)'
<1>1. /\ dir \in [Students -> SUBSET Photos] /\ tmp \in [Students -> SUBSET Photos]
      /\ old \in [Students -> SUBSET Photos] /\ kept \in [Students -> SUBSET Photos]
      /\ known \in [Students -> SUBSET Photos]
      /\ hidden \in [Students -> BOOLEAN] /\ missed \in [Students -> SUBSET (0..MaxOps)]
      /\ req \in [Requests -> Request]
  BY BaseParts
<1>2. /\ AtWork(req[r]) /\ InService(req[r]) /\ WellFormed(req[r])
      /\ \A q \in Requests : q # r => ~InService(req[q])
  BY ServeEffect, Alone DEF WorkOK, Base
<1>3. Level(s) \/ (At(r, "in") /\ LevelAside(s))
        \/ req[r].step \in {"drop", "index", "rm_tmp", "rm_old", "forget"}
  BY <1>2 DEF Ongoing, At, InService
<1>4. ASSUME NEW step \in {"drop", "index", "rm_tmp", "rm_old", "forget"}, step \in Steps, GoTo(r, step)
      PROVE  Ongoing(s)'
  <2>1. req'[r].who = s /\ req'[r].step = step
    BY <1>1, <1>4, GoToEffect DEF Moved
  <2> QED
    BY <2>1 DEF Ongoing
<1>5. CASE Write(r) \/ Analyze(r) \/ EnrollFails(r) \/ Scan(r)
  <2>1. /\ UNCHANGED <<dir, old, known, kept, hidden, missed>>
        /\ req[r].step \in {"write", "analyze", "aside", "scan"}
    BY <1>5 DEF Write, Analyze, EnrollFails, Scan, At, folders, history
  <2> QED
    BY <1>3, <2>1 DEF At, Level
<1>6. CASE ClearOld(r)
  <2>1. /\ UNCHANGED <<dir, known, hidden, missed>> /\ req[r].step = "clear"
        /\ old'[s] \in {{}, old[s]} /\ (~hidden[s] => kept' = kept)
    BY <1>1, <1>6 DEF ClearOld, At
  <2> QED
    BY <1>3, <2>1 DEF At, Level
<1>7. CASE MoveAside(r)
  <2>1. UNCHANGED <<known, kept, hidden, missed>> /\ req[r].step = "aside"
    BY <1>7 DEF MoveAside, At, history
  <2>2. Level(s)
    BY <1>3, <2>1 DEF At
  <2>3. CASE dir[s] # {} /\ old[s] # {}
    <3>1. UNCHANGED <<dir, old>>
      BY <1>7, <2>3 DEF MoveAside
    <3> QED
      BY <2>1, <2>2, <3>1 DEF Level
  <2>4. CASE ~(dir[s] # {} /\ old[s] # {})
    <3>1. /\ old'[s] = IF dir[s] # {} THEN dir[s] ELSE old[s]
          /\ GoTo(r, "in")
      BY <1>1, <1>7, <2>4 DEF MoveAside
    <3>2. req'[r].who = s /\ req'[r].step = "in"
      BY <1>1, <3>1, GoToEffect DEF Moved, Steps, EnrollSteps
    <3>3. LevelAside(s)'
      BY <2>1, <2>2, <3>1 DEF Level, LevelAside
    <3> QED
      BY <3>2, <3>3 DEF Ongoing, At
  <2> QED
    BY <2>3, <2>4
<1>8. CASE MoveIn(r)
  BY <1>4, <1>8 DEF MoveIn, Steps, EnrollSteps
<1>9. CASE MoveInFails(r)
  <2>1. UNCHANGED <<known, kept, missed>> /\ req[r].step = "in" /\ dir[s] = {}
    BY <1>2, <1>9 DEF MoveInFails, At, AtWork
  <2>2. LevelAside(s)
    BY <1>3, <2>1 DEF At, Level, LevelAside
  <2>3. CASE old[s] # {}
    <3>1. \/ dir'[s] = old[s] /\ old'[s] = {} /\ hidden' = hidden
          \/ hidden'[s]
      BY <1>1, <1>9, <2>1, <2>3 DEF MoveInFails
    <3> QED
      BY <2>1, <2>2, <2>3, <3>1 DEF Level, LevelAside
  <2>4. CASE old[s] = {}
    <3>1. UNCHANGED <<dir, old, hidden>>
      BY <1>9, <2>4 DEF MoveInFails
    <3> QED
      BY <2>1, <2>2, <2>4, <3>1 DEF Level, LevelAside
  <2> QED
    BY <2>3, <2>4
<1>10. CASE DropOld(r)
  BY <1>4, <1>10 DEF DropOld, Steps, EnrollSteps
<1>11. CASE Index(r)
  <2>1. dir[s] = req[r].photos /\ kept[s] = req[r].photos /\ req[r].photos # {}
    BY <1>2, <1>11 DEF Index, At, AtWork
  <2>2. known'[s] = req[r].photos /\ UNCHANGED <<dir, kept>>
    BY <1>1, <1>11 DEF Index, folders, history
  <2> QED
    BY <2>1, <2>2 DEF Level
<1>12. CASE RemoveDir(r) \/ RemoveTmp(r) \/ RemoveOld(r)
  BY <1>4, <1>12 DEF RemoveDir, RemoveTmp, RemoveOld, Steps, EraseSteps
<1>13. CASE Forget(r)
  <2>1. dir[s] = {} /\ old[s] = {} /\ kept[s] = {}
    BY <1>2, <1>13 DEF Forget, At, AtWork
  <2>2. known'[s] = {} /\ UNCHANGED <<dir, old, kept>>
    BY <1>1, <1>13 DEF Forget, folders
  <2> QED
    BY <2>1, <2>2 DEF Level
<1>14. CASE RemoveFails(r)
  <2>1. 0 \in missed'[s]
    BY <1>1, <1>14 DEF RemoveFails
  <2> QED
    BY <2>1 DEF Level
<1> QED
  BY <1>5, <1>6, <1>7, <1>8, <1>9, <1>10, <1>11, <1>12, <1>13, <1>14 DEF Serve

LEMMA LevelStep ==
  ASSUME Base, WorkOK, [Next]_vars, NEW s \in Students, Level(s) \/ Ongoing(s)
  PROVE  Level(s)' \/ Ongoing(s)'
<1>1. CASE Aside
  BY <1>1, AsideEffect DEF Level, Ongoing, LevelAside, At
<1>2. CASE Crash
  <2>1. UNCHANGED <<dir, old, kept>> /\ known' = dir
    BY <1>2, CrashKeeps
  <2>2. /\ hidden'[s] = (hidden[s] \/ (kept[s] # {} /\ dir[s] = {}))
        /\ 0 \in missed[s] => 0 \in missed'[s]
        /\ (\E r \in Requests : /\ InService(req[r]) /\ req[r].who = s
                                /\ req[r].op # "enroll") => 0 \in missed'[s]
    BY <1>2 DEF Crash
  <2>3. CASE Level(s)
    BY <2>1, <2>2, <2>3 DEF Level
  <2>4. ASSUME NEW r \in Requests, req[r].who = s,
               \/ At(r, "in") /\ LevelAside(s)
               \/ req[r].step \in {"drop", "index", "rm_tmp", "rm_old", "forget"}
        PROVE  Level(s)'
    <3>1. AtWork(req[r]) /\ WellFormed(req[r])
      BY DEF WorkOK, Base
    <3>2. CASE At(r, "in") /\ LevelAside(s)
      <4>1. dir[s] = {}
        BY <2>4, <3>1, <3>2 DEF At, AtWork
      <4> QED
        BY <2>1, <2>2, <3>2, <4>1 DEF Level, LevelAside
    <3>3. CASE req[r].step \in {"drop", "index"}
      <4>1. dir[s] = kept[s] /\ dir[s] # {}
        BY <2>4, <3>1, <3>3 DEF AtWork
      <4> QED
        BY <2>1, <4>1 DEF Level
    <3>4. CASE req[r].step \in {"rm_tmp", "rm_old", "forget"}
      <4>1. InService(req[r]) /\ req[r].op # "enroll"
        BY <3>1, <3>4 DEF InService, WellFormed, EraseSteps
      <4> QED
        BY <2>2, <2>4, <4>1 DEF Level
    <3> QED
      BY <2>4, <3>2, <3>3, <3>4
  <2> QED
    BY <2>3, <2>4 DEF Ongoing
<1>3. ASSUME NEW r \in Requests, Ask(r)  PROVE Level(s)' \/ Ongoing(s)'
  <2>1. /\ UNCHANGED <<dir, old, kept, known, hidden>> /\ missed[s] \subseteq missed'[s]
        /\ Elsewhere(r) /\ ~InService(req[r])
    BY <1>3, AskEffect, AskMissed
  <2>2. CASE Level(s)
    BY <2>1, <2>2 DEF Level
  <2>3. ASSUME NEW q \in Requests, req[q].who = s,
               \/ At(q, "in") /\ LevelAside(s)
               \/ req[q].step \in {"drop", "index", "rm_tmp", "rm_old", "forget"}
        PROVE  Ongoing(s)'
    <3>1. q # r /\ req'[q] = req[q]
      BY <2>1, <2>3 DEF InService, At, Elsewhere
    <3>2. LevelAside(s) => LevelAside(s)'
      BY <2>1 DEF LevelAside
    <3> QED
      BY <2>3, <3>1, <3>2 DEF Ongoing, At
  <2> QED
    BY <2>2, <2>3 DEF Ongoing
<1>4. ASSUME NEW r \in Requests, Acquire(r)  PROVE Level(s)' \/ Ongoing(s)'
  <2>1. /\ UNCHANGED <<dir, old, kept, known, hidden, missed>>
        /\ Elsewhere(r) /\ req[r].step = "sent"
    BY <1>4, AcquireEffect
  <2>2. CASE Level(s)
    BY <2>1, <2>2 DEF Level
  <2>3. CASE Ongoing(s)
    <3>1. PICK q \in Requests : /\ req[q].who = s
                                /\ \/ At(q, "in") /\ LevelAside(s)
                                   \/ req[q].step \in {"drop", "index", "rm_tmp", "rm_old", "forget"}
      BY <2>3 DEF Ongoing
    <3>2. req'[q] = req[q]
      BY <2>1, <3>1 DEF At, Elsewhere
    <3> QED
      BY <2>1, <3>1, <3>2 DEF Ongoing, At, LevelAside
  <2> QED
    BY <2>2, <2>3
<1>5. ASSUME NEW r \in Requests, Serve(r)  PROVE Level(s)' \/ Ongoing(s)'
  <2>1. CASE Publish(r)
    <3>1. UNCHANGED <<dir, old, kept, hidden, missed>> /\ known' = dir /\ req[r].step = "publish"
      BY <2>1, PublishEffect DEF Publish, At
    <3>2. ~Ongoing(s)
      BY <1>5, <3>1, ServeEffect, Alone DEF Ongoing, InService, At
    <3> QED
      BY <3>1, <3>2 DEF Level
  <2>2. CASE ~Publish(r) /\ s = req[r].who
    BY <1>5, <2>2, ServeLevel
  <2>3. CASE ~Publish(r) /\ s # req[r].who
    <3>1. ~Ongoing(s)
      BY <1>5, <2>3, ServeEffect, Alone DEF Ongoing, InService, At
    <3>2. Same(s)
      BY <1>5, <2>3, ServeElsewhere
    <3> QED
      BY <3>1, <3>2 DEF Level, Same
  <2> QED
    BY <2>1, <2>2, <2>3
<1> QED
  BY <1>1, <1>2, <1>3, <1>4, <1>5, NextKinds

\* Faces are matched against the photos in place whenever nothing is being changed
\* (IndexFollowsDisk), erasures that failed and undone exchanges that failed aside.
THEOREM IndexFollows == Spec => []IndexFollowsDisk
<1>1. Init => LevelOK
  BY DEF Init, LevelOK, Level, NoPhotos
<1>2. Base /\ WorkOK /\ LevelOK /\ [Next]_vars => LevelOK'
  <2> SUFFICES ASSUME Base, WorkOK, LevelOK, [Next]_vars
               PROVE  LevelOK'
    OBVIOUS
  <2>1. \A s \in Students : Level(s)' \/ Ongoing(s)'
    BY LevelParts, LevelStep
  <2> QED
    BY <2>1 DEF LevelOK, Ongoing
<1>3. Base /\ LevelOK => IndexFollowsDisk
  <2> SUFFICES ASSUME Base, LevelOK, holder = Nobody, NEW s \in Students
               PROVE  known[s] = dir[s] \/ 0 \in missed[s] \/ hidden[s]
    BY DEF IndexFollowsDisk
  <2>1. \A r \in Requests : ~InService(req[r])
    BY EnrollmentAssumption DEF Base, Locked
  <2>2. Level(s)
    BY <2>1, LevelParts DEF Ongoing, At, InService
  <2> QED
    BY <2>2 DEF Level
<1> QED
  BY <1>1, <1>2, <1>3, Founded, PTL DEF Spec

----------------------------------------------------------------------------
(* What is left of a deleted student is explained *)

LEMMA UploadsMonotone ==
  ASSUME NEW photos, NEW more, photos \subseteq more
  PROVE  UploadsOf(photos) \subseteq UploadsOf(more)
BY DEF UploadsOf

LEMMA NoUploads == UploadsOf({}) = {}
BY DEF UploadsOf

Explained(s) ==
  /\ \A r \in Requests : req[r].who = s => UploadsOf(req[r].photos) \subseteq missed[s]
  /\ 0 \in missed[s] \/ Erasing(s) \/ UploadsOf(dir[s] \cup old[s]) \subseteq missed[s]

LEMMA AskExplains ==
  ASSUME Base, NEW r \in Requests, Ask(r), NEW s \in Students, Orphans(s), student'[s] = "deleted"
  PROVE  Explained(s)'
<1>1. /\ student \in [Students -> {"none", "active", "inactive", "deleted"}]
      /\ missed \in [Students -> SUBSET (0..MaxOps)] /\ s # Nobody
      /\ req \in [Requests -> Request] /\ WellFormed(req[r]) /\ req[r] \in Request
  BY BaseParts, EnrollmentAssumption DEF Base
<1>2. /\ UNCHANGED <<dir, old>> /\ missed[s] \subseteq missed'[s] /\ Elsewhere(r)
      /\ ~InService(req[r])
  BY AskEffect, AskMissed
<1>3. ASSUME NEW last \in Names, NEW t \in Students, UploadEnrollmentPhotos(r, t, last)
      PROVE  Explained(s)'
  <2>1. t # s /\ student[s] = "deleted" /\ missed' = missed
    BY <1>3 DEF UploadEnrollmentPhotos, Exists, history
  <2>2. req'[r].who = t /\ req[r].step = "idle"
    BY <1>3, UploadTypes DEF Started
  <2>3. req[r].op = "none"
    BY <1>1, <2>2 DEF WellFormed
  <2>4. \A q \in Requests : req'[q].who = s => req'[q] = req[q]
    BY <1>2, <2>1, <2>2 DEF Elsewhere
  <2>5. Erasing(s) => Erasing(s)'
    BY <1>2, <2>3 DEF Erasing, Elsewhere
  <2> QED
    BY <1>2, <2>1, <2>4, <2>5 DEF Orphans, Explained
<1>4. ASSUME DeleteStudent(r, s)  PROVE Explained(s)'
  <2> DEFINE p == [Idle EXCEPT !.step = "sent", !.op = "erase", !.who = s]
             under == UNION {UploadsOf(req[q].photos) : q \in {x \in Requests : req[x].who = s}}
  <2>1. p \in Request /\ Started(p, "erase", s, {})
    BY AskedFields DEF Ops
  <2> HIDE DEF p
  <2>2. Begin(r, p)
    BY <1>4 DEF DeleteStudent, p
  <2>3. req'[r] = p
    BY <1>1, <2>1, <2>2, BeginEffect
  <2>4. Erasing(s)'
    BY <2>1, <2>3 DEF Started, Erasing
  <2>5. missed' = [missed EXCEPT ![s] = @ \cup under]
    BY <1>4 DEF DeleteStudent
  <2>6. \A q \in Requests : req[q].who = s => UploadsOf(req[q].photos) \subseteq under
    OBVIOUS
  <2> HIDE DEF under
  <2>7. under \subseteq missed'[s]
    BY <1>1, <2>5
  <2>8. ASSUME NEW q \in Requests, req'[q].who = s
        PROVE  UploadsOf(req'[q].photos) \subseteq missed'[s]
    <3>1. CASE q = r
      BY <2>1, <2>3, <3>1, NoUploads DEF Started
    <3>2. CASE q # r
      <4>1. req'[q] = req[q]
        BY <1>2, <3>2 DEF Elsewhere
      <4> QED
        BY <2>6, <2>7, <2>8, <4>1
    <3> QED
      BY <3>1, <3>2
  <2> QED
    BY <2>4, <2>8 DEF Explained
<1>5. ASSUME ~\E t \in Students, last \in Names : UploadEnrollmentPhotos(r, t, last), ~DeleteStudent(r, s)
      PROVE  Explained(s)'
  <2>1. student[s] = "deleted"
    <3>1. ASSUME NEW t \in Students, DeleteStudent(r, t)  PROVE student[s] = "deleted"
      <4>1. t # s /\ student' = [student EXCEPT ![t] = "deleted"]
        BY <1>5, <3>1 DEF DeleteStudent
      <4> QED
        BY <1>1, <4>1
    <3>2. ASSUME ~\E t \in Students : DeleteStudent(r, t)  PROVE student' = student
      BY <1>5, <3>2 DEF Ask, DeleteEnrollmentPhotos, Reload, ReconcileLists, ReconcilePlans,
                        ReconcileNext, RequestLost
    <3> QED
      BY <3>1, <3>2
  <2>2. Explained(s)
    BY <2>1 DEF Orphans, Explained
  <2>3. Begins(req[r], req'[r]) \/ Plans(req[r], req'[r]) \/ Follows(req[r], req'[r])
    BY <1>5, AskEffect
  <2>4. req'[r].who = s => req'[r].photos = {}
    <3>1. CASE Begins(req[r], req'[r])
      BY <3>1 DEF Begins
    <3>2. CASE Plans(req[r], req'[r])
      BY <1>1, <3>2 DEF Plans, WellFormed
    <3>3. CASE RequestLost(r)
      <4>1. Over(req[r], req'[r])
        BY <1>1, <3>3, AnsweredEffect DEF RequestLost
      <4> QED
        BY <1>1, <4>1 DEF Over
    <3>4. CASE ReconcileNext(r)
      <4>1. Taken(req[r], req'[r]) /\ req[r].step = "next"
        BY <1>1, <3>4, NextEffect DEF ReconcileNext, At
      <4> QED
        BY <1>1, <4>1, IdleFields DEF Taken, WellFormed
    <3>5. CASE req[r].step = "idle" /\ Follows(req[r], req'[r])
      <4>1. req[r].photos = {}
        BY <1>1, <3>5 DEF WellFormed
      <4> QED
        BY <3>5, <4>1 DEF Follows
    <3>6. CASE ReconcilePlans(r)
      BY <1>1, <3>6, PlanEffect DEF ReconcilePlans, At, WellFormed
    <3> QED
      BY <1>5, <2>3, <3>1, <3>2, <3>3, <3>4, <3>5, <3>6
         DEF Ask, DeleteEnrollmentPhotos, DeleteStudent, Reload, ReconcileLists, Begin
  <2>5. \A q \in Requests : req'[q].who = s => UploadsOf(req'[q].photos) \subseteq missed'[s]
    BY <1>2, <2>2, <2>4, NoUploads DEF Explained, Elsewhere
  <2>6. Erasing(s) => 0 \in missed'[s] \/ Erasing(s)'
    <3> SUFFICES ASSUME NEW q \in Requests, req[q].who = s, req[q].op \in {"erase", "reconcile"}
                 PROVE  0 \in missed'[s] \/ Erasing(s)'
      BY DEF Erasing
    <3>1. CASE q # r
      BY <1>2, <3>1 DEF Elsewhere, Erasing
    <3>2. CASE q = r
      <4>1. req[r].step \notin {"idle", "plan", "next"}
        BY <1>1, <3>2 DEF WellFormed
      <4>2. RequestLost(r)
        BY <1>5, <4>1 DEF Ask, DeleteEnrollmentPhotos, DeleteStudent, Reload, ReconcileLists, Begin,
                      ReconcilePlans, ReconcileNext, At
      <4> QED
        BY <1>1, <3>2, <4>2 DEF RequestLost
    <3> QED
      BY <3>1, <3>2
  <2> QED
    BY <1>2, <2>2, <2>5, <2>6 DEF Explained
<1> QED
  BY <1>3, <1>4, <1>5

LEMMA ServeExplains ==
  ASSUME Base, WorkOK, NEW r \in Requests, Serve(r), NEW s \in Students, Explained(s)
  PROVE  Explained(s)'
<1>1. /\ dir \in [Students -> SUBSET Photos] /\ old \in [Students -> SUBSET Photos]
      /\ tmp \in [Students -> SUBSET Photos]
      /\ missed \in [Students -> SUBSET (0..MaxOps)] /\ s # Nobody
      /\ req \in [Requests -> Request] /\ WellFormed(req[r]) /\ req[r] \in Request
  BY BaseParts, EnrollmentAssumption DEF Base
<1>2. AtWork(req[r]) /\ Elsewhere(r) /\ InService(req[r])
  BY ServeEffect DEF WorkOK
<1>3. /\ req'[r].photos \subseteq req[r].photos
      /\ req'[r].who = Nobody \/ (req'[r].who = req[r].who /\ req'[r].op = req[r].op)
  <2>1. CASE GoesOn(r)
    BY <2>1 DEF GoesOn, Moved
  <2>2. CASE Selected(r)
    BY <1>2, <2>2 DEF Selected, Kept, AtWork
  <2>3. CASE Ends(r)
    BY <1>2, <2>3, OverFollows DEF Ends, Over, Follows
  <2>4. CASE Scanned(r)
    BY <2>4 DEF Scanned
  <2> QED
    BY <2>1, <2>2, <2>3, <2>4, ServeEffect
<1>4. CASE ~Publish(r) /\ s # req[r].who
  <2>1. Same(s)
    BY <1>4, ServeElsewhere
  <2>2. \A q \in Requests : req'[q].who = s => req'[q] = req[q]
    BY <1>1, <1>2, <1>3, <1>4 DEF Elsewhere
  <2>3. Erasing(s) => Erasing(s)'
    BY <1>2, <1>4 DEF Erasing, Elsewhere
  <2> QED
    BY <2>1, <2>2, <2>3 DEF Explained, Same
<1>5. CASE Publish(r)
  <2>1. req[r].op = "reload" /\ req'[r] = Idle
    BY <1>1, <1>5 DEF Publish, At, WellFormed
  <2>2. \A q \in Requests : req'[q].who = s => req'[q] = req[q]
    BY <1>1, <1>2, <2>1, IdleFields DEF Elsewhere
  <2>3. Erasing(s) => Erasing(s)'
    BY <1>2, <2>1 DEF Erasing, Elsewhere
  <2> QED
    BY <1>5, <2>2, <2>3, PublishEffect DEF Explained
<1>6. CASE ~Publish(r) /\ s = req[r].who
  <2>1. ASSUME missed[s] \subseteq missed'[s]
        PROVE  \A q \in Requests : req'[q].who = s => UploadsOf(req'[q].photos) \subseteq missed'[s]
    <3> SUFFICES ASSUME NEW q \in Requests, req'[q].who = s
                 PROVE  UploadsOf(req'[q].photos) \subseteq missed'[s]
      OBVIOUS
    <3>1. req[q].who = s /\ req'[q].photos \subseteq req[q].photos
      BY <1>1, <1>2, <1>3, <1>6 DEF Elsewhere
    <3> QED
      BY <2>1, <3>1, UploadsMonotone DEF Explained
  <2>2. CASE req[r].step \in EnrollSteps \cup {"scan"}
    <3>1. missed' = missed
      BY <1>6, <2>2 DEF Serve, Write, Analyze, ClearOld, MoveAside, MoveIn, MoveInFails, EnrollFails,
              DropOld, Index, RemoveDir, RemoveTmp, RemoveOld, Forget, RemoveFails, Scan, At, history,
              EnrollSteps
    <3>2. dir'[s] \cup old'[s] \subseteq dir[s] \cup old[s] \cup req[r].photos
      <4>1. CASE Write(r) \/ Analyze(r) \/ EnrollFails(r) \/ Index(r) \/ Scan(r)
        BY <4>1 DEF Write, Analyze, EnrollFails, Index, Scan, folders
      <4>2. CASE ClearOld(r) \/ DropOld(r)
        BY <1>1, <1>6, <4>2 DEF ClearOld, DropOld
      <4>3. CASE MoveAside(r)
        BY <1>1, <1>6, <4>3 DEF MoveAside
      <4>4. CASE MoveIn(r)
        BY <1>1, <1>2, <1>6, <4>4 DEF MoveIn, At, AtWork
      <4>5. CASE MoveInFails(r)
        BY <1>1, <1>6, <4>5 DEF MoveInFails
      <4> QED
        BY <1>6, <2>2, <4>1, <4>2, <4>3, <4>4, <4>5
           DEF Serve, RemoveDir, RemoveTmp, RemoveOld, Forget, RemoveFails, At, EnrollSteps
    <3>3. UploadsOf(req[r].photos) \subseteq missed[s]
      BY <1>6 DEF Explained
    <3>4. UploadsOf(dir'[s] \cup old'[s]) \subseteq
            UploadsOf(dir[s] \cup old[s]) \cup UploadsOf(req[r].photos)
      BY <3>2 DEF UploadsOf
    <3>5. req[r].op \notin {"erase", "reconcile"}
      BY <1>1, <2>2 DEF WellFormed
    <3>6. Erasing(s) => Erasing(s)'
      BY <1>2, <3>5 DEF Erasing, Elsewhere
    <3> QED
      BY <2>1, <3>1, <3>3, <3>4, <3>6 DEF Explained
  <2>3. CASE RemoveDir(r) \/ RemoveTmp(r) \/ RemoveOld(r)
    <3>1. missed' = missed
      BY <2>3 DEF RemoveDir, RemoveTmp, RemoveOld, history
    <3>2. req'[r].who = s /\ req'[r].op = req[r].op
      BY <1>1, <1>6, <2>3, GoToEffect DEF RemoveDir, RemoveTmp, RemoveOld, Moved, Steps, EraseSteps
    <3>3. req[r].op \in {"erase", "reconcile"}
      BY <1>1, <2>3 DEF RemoveDir, RemoveTmp, RemoveOld, At, WellFormed, EraseSteps
    <3>4. Erasing(s)'
      BY <3>2, <3>3 DEF Erasing
    <3> QED
      BY <2>1, <3>1, <3>4 DEF Explained
  <2>4. CASE Forget(r)
    <3>1. dir[s] = {} /\ old[s] = {} /\ dir' = dir /\ old' = old
      BY <1>2, <1>6, <2>4 DEF Forget, At, AtWork, folders
    <3>2. missed'[s] = missed[s] \ {0}
      BY <1>1, <1>6, <2>4 DEF Forget
    <3>3. ASSUME NEW q \in Requests, req'[q].who = s
          PROVE  UploadsOf(req'[q].photos) \subseteq missed'[s]
      <4>1. q # r /\ req'[q] = req[q]
        <5>1. req'[r].who = Nobody
          BY <1>1, <2>4, ReleaseEffect DEF Forget, Over
        <5> QED
          BY <1>1, <1>2, <3>3, <5>1 DEF Elsewhere
      <4>2. UploadsOf(req[q].photos) \subseteq missed[s]
        BY <3>3, <4>1 DEF Explained
      <4>3. UploadsOf(req[q].photos) \subseteq 1..MaxOps
        BY <1>1, RequestFields, PhotoParts
      <4>4. 0 \notin 1..MaxOps
        BY EnrollmentAssumption
      <4> QED
        BY <3>2, <4>1, <4>2, <4>3, <4>4
    <3> QED
      BY <3>1, <3>3, NoUploads DEF Explained
  <2>5. CASE RemoveFails(r)
    <3>1. missed'[s] = missed[s] \cup {0}
      BY <1>1, <1>6, <2>5 DEF RemoveFails
    <3> QED
      BY <2>1, <3>1 DEF Explained
  <2> QED
    BY <1>6, <2>2, <2>3, <2>4, <2>5
       DEF Serve, Write, Analyze, ClearOld, MoveAside, MoveIn, MoveInFails, EnrollFails,
           DropOld, Index, Scan, At, EnrollSteps
<1> QED
  BY <1>4, <1>5, <1>6

LEMMA OrphansStep ==
  ASSUME Base, WorkOK, [Next]_vars, NEW s \in Students, Orphans(s)
  PROVE  Orphans(s)'
<1> SUFFICES ASSUME student'[s] = "deleted"  PROVE Explained(s)'
  BY DEF Orphans, Explained
<1>1. student \in [Students -> {"none", "active", "inactive", "deleted"}] /\ s # Nobody
  BY BaseParts, EnrollmentAssumption
<1>2. CASE Aside
  <2>1. student[s] = "deleted"
    BY <1>1, <1>2 DEF Aside, ChangeStudent, ViewLists, ViewChecks, ViewOpens, ViewEnds, vars
  <2> QED
    BY <1>2, <2>1, AsideEffect DEF Orphans, Explained, Erasing
<1>3. CASE Crash
  <2>1. Explained(s) /\ UNCHANGED <<dir, old>>
    BY <1>3, CrashKeeps DEF Orphans, Explained
  <2>2. /\ missed[s] \subseteq missed'[s]
        /\ (\E r \in Requests : /\ InService(req[r]) /\ req[r].who = s
                                /\ req[r].op # "enroll") => 0 \in missed'[s]
    BY <1>3 DEF Crash
  <2>3. \A q \in Requests : req'[q].who = s => req'[q] = req[q]
    BY <1>1, <1>3, CrashEffect DEF Over
  <2>4. Erasing(s) => 0 \in missed'[s] \/ Erasing(s)'
    BY <1>3, <2>2, CrashEffect DEF Erasing
  <2> QED
    BY <2>1, <2>2, <2>3, <2>4 DEF Explained
<1>4. ASSUME NEW r \in Requests, Ask(r)  PROVE Explained(s)'
  BY <1>4, AskExplains
<1>5. ASSUME NEW r \in Requests, Acquire(r)  PROVE Explained(s)'
  <2>1. /\ UNCHANGED <<dir, old, missed>> /\ student' = student
        /\ \A q \in Requests : /\ req'[q].who = req[q].who /\ req'[q].op = req[q].op
                               /\ req'[q].photos = req[q].photos
    BY <1>5, AcquireEffect DEF Elsewhere, Moved, Acquire
  <2> QED
    BY <2>1 DEF Orphans, Explained, Erasing
<1>6. ASSUME NEW r \in Requests, Serve(r)  PROVE Explained(s)'
  <2>1. student' = student
    BY <1>6 DEF Serve, Write, Analyze, ClearOld, MoveAside, MoveIn, MoveInFails, EnrollFails,
              DropOld, Index, RemoveDir, RemoveTmp, RemoveOld, Forget, RemoveFails, Scan, Publish
  <2> QED
    BY <1>6, <2>1, ServeExplains DEF Orphans, Explained
<1> QED
  BY <1>2, <1>3, <1>4, <1>5, <1>6, NextKinds

\* Photos of a deleted student are left only by an erasure that failed, or by an upload
\* that was on its way when the student was deleted (OrphansExplained).
THEOREM OrphansAreExplained == Spec => []OrphansExplained
<1>1. Init => OrphansOK
  BY DEF Init, OrphansOK, Orphans
<1>2. Base /\ WorkOK /\ OrphansOK /\ [Next]_vars => OrphansOK'
  <2> SUFFICES ASSUME Base, WorkOK, OrphansOK, [Next]_vars
               PROVE  OrphansOK'
    OBVIOUS
  <2>1. \A s \in Students : Orphans(s)'
    BY OrphansStep DEF OrphansOK
  <2> QED
    BY <2>1 DEF OrphansOK, Orphans, Erasing
<1>3. OrphansOK => OrphansExplained
  <2> SUFFICES ASSUME OrphansOK, NEW s \in Students, student[s] = "deleted",
                      \A r \in Requests : req[r].who # s
               PROVE  0 \in missed[s] \/ UploadsOf(dir[s]) \subseteq missed[s]
    BY DEF OrphansExplained
  <2>1. 0 \in missed[s] \/ UploadsOf(dir[s] \cup old[s]) \subseteq missed[s]
    BY DEF OrphansOK, Orphans, Erasing
  <2> QED
    BY <2>1 DEF UploadsOf
<1> QED
  BY <1>1, <1>2, <1>3, Founded, PTL DEF Spec

----------------------------------------------------------------------------
(* A photo served is of the set that was listed *)

LEMMA ServeInView ==
  ASSUME Base, WorkOK, NEW r \in Requests, Serve(r), Watched, ServedFromListedSet
  PROVE  Watched' /\ ServedFromListedSet'
<1>1. /\ dir \in [Students -> SUBSET Photos] /\ old \in [Students -> SUBSET Photos]
      /\ tmp \in [Students -> SUBSET Photos] /\ view \in View
      /\ view.step # "idle" => view.who \in Students
  BY BaseParts DEF Base
<1>2. AtWork(req[r])
  BY DEF WorkOK
<1> DEFINE s == req[r].who
<1>3. CASE MoveIn(r) \/ RemoveDir(r)
  <2>1. Interrupt(s)
    BY <1>3 DEF MoveIn, RemoveDir
  <2>2. /\ view'.step = view.step /\ view'.who = view.who /\ view'.listed = view.listed
        /\ view'.served = view.served /\ view' \in View
        /\ view.replaced => view'.replaced
        /\ view.who = s /\ view.step = "open" => view'.replaced
    BY <1>1, <2>1, InterruptEffect
  <2>3. view.who \in Students /\ view.who # s =>
          dir'[view.who] = dir[view.who] /\ old'[view.who] = old[view.who]
    BY <1>1, <1>3 DEF MoveIn, RemoveDir
  <2> QED
    BY <1>1, <2>2, <2>3 DEF Watched, ServedFromListedSet
<1>4. CASE ~(MoveIn(r) \/ RemoveDir(r))
  <2>1. view' = view
    BY <1>4 DEF Serve, Write, Analyze, ClearOld, MoveAside, MoveInFails, EnrollFails,
              DropOld, Index, RemoveTmp, RemoveOld, Forget, RemoveFails, Scan, Publish
  <2>2. ASSUME view.step = "open", ~view.replaced
        PROVE  /\ dir'[view.who] \subseteq view.listed
               /\ dir'[view.who] = {} => old'[view.who] \subseteq view.listed
    <3> DEFINE t == view.who
    <3>1. /\ t \in Students /\ dir[t] \subseteq view.listed
          /\ dir[t] = {} => old[t] \subseteq view.listed
      BY <1>1, <2>2 DEF Watched
    <3> HIDE DEF t
    <3>2. CASE Publish(r)
      BY <3>1, <3>2, PublishEffect DEF t
    <3>3. CASE ~Publish(r) /\ t # s
      BY <3>1, <3>3, ServeElsewhere DEF Same, t
    <3>4. CASE t = s /\ (Write(r) \/ Analyze(r) \/ EnrollFails(r) \/ Index(r) \/ RemoveTmp(r)
                         \/ Forget(r) \/ Scan(r))
      BY <3>1, <3>4 DEF Write, Analyze, EnrollFails, Index, RemoveTmp, Forget, Scan, folders, t
    <3>5. CASE t = s /\ (ClearOld(r) \/ DropOld(r) \/ RemoveOld(r))
      <4>1. dir' = dir /\ old'[t] \subseteq old[t]
        BY <1>1, <3>1, <3>5 DEF ClearOld, DropOld, RemoveOld
      <4> QED
        BY <3>1, <4>1 DEF t
    <3>6. CASE t = s /\ MoveAside(r)
      <4>1. \/ dir' = dir /\ old' = old
            \/ dir'[t] = {} /\ old'[t] = IF dir[t] # {} THEN dir[t] ELSE old[t]
        BY <1>1, <3>1, <3>6 DEF MoveAside
      <4> QED
        BY <3>1, <4>1 DEF t
    <3>7. CASE t = s /\ MoveInFails(r)
      <4>1. dir[t] = {}
        BY <1>2, <3>7 DEF MoveInFails, At, AtWork
      <4>2. (dir'[t] = old[t] /\ old'[t] = {}) \/ (dir' = dir /\ old' = old)
        BY <1>1, <3>1, <3>7 DEF MoveInFails
      <4> QED
        BY <3>1, <4>1, <4>2 DEF t
    <3>8. CASE t = s /\ RemoveFails(r)
      <4>1. \/ dir'[t] \subseteq dir[t] /\ dir'[t] # {}
            \/ dir' = dir /\ old'[t] \subseteq old[t]
        <5>1. \/ \E rest \in (SUBSET dir[t]) \ {{}} : dir' = [dir EXCEPT ![t] = rest]
              \/ dir' = dir /\ (\E rest \in (SUBSET old[t]) \ {{}} : old' = [old EXCEPT ![t] = rest])
              \/ dir' = dir /\ old' = old
          BY <3>8 DEF RemoveFails, t
        <5>2. CASE \E rest \in (SUBSET dir[t]) \ {{}} : dir' = [dir EXCEPT ![t] = rest]
          BY <1>1, <3>1, <5>2
        <5>3. CASE dir' = dir /\ (\E rest \in (SUBSET old[t]) \ {{}} : old' = [old EXCEPT ![t] = rest])
          BY <1>1, <3>1, <5>3
        <5> QED
          BY <5>1, <5>2, <5>3
      <4> QED
        BY <3>1, <4>1 DEF t
    <3> QED
      BY <1>4, <3>2, <3>3, <3>4, <3>5, <3>6, <3>7, <3>8 DEF Serve
  <2> QED
    BY <2>1, <2>2 DEF Watched, ServedFromListedSet
<1> QED
  BY <1>3, <1>4

LEMMA AsideInView ==
  ASSUME Base, Aside, Watched, ServedFromListedSet
  PROVE  Watched' /\ ServedFromListedSet'
<1>1. /\ dir \in [Students -> SUBSET Photos] /\ view \in View
      /\ view.step # "idle" => view.who \in Students
  BY BaseParts DEF Base
<1>2. UNCHANGED <<dir, old>>
  BY AsideEffect
<1>3. ASSUME NEW s \in Students, ViewLists(s)  PROVE Watched' /\ ServedFromListedSet'
  BY <1>1, <1>3, ListsEffect DEF Watched, ServedFromListedSet
<1>4. ASSUME NEW name \in Names, ViewChecks(name)  PROVE Watched' /\ ServedFromListedSet'
  <2>1. /\ view'.step = "open" /\ view'.who = view.who /\ view'.listed = view.listed
        /\ view'.served = {}
    BY <1>1, <1>4, ChecksEffect
  <2>2. view.listed = dir[view.who] /\ dir[view.who] # {}
    BY <1>4 DEF ViewChecks, SameVersion
  <2> QED
    BY <1>2, <2>1, <2>2 DEF Watched, ServedFromListedSet
<1>5. ASSUME ViewOpens  PROVE Watched' /\ ServedFromListedSet'
  <2>1. view.step = "open"
    BY <1>5 DEF ViewOpens
  <2>2. /\ view'.step = "listed" /\ view'.who = view.who /\ view'.listed = view.listed
        /\ view'.served = {p \in dir[view.who] : p[2] = view.name}
        /\ view'.replaced = view.replaced
    BY <1>1, <1>5, <2>1, OpensEffect
  <2> QED
    BY <2>1, <2>2 DEF Watched, ServedFromListedSet
<1>6. ASSUME ViewEnds  PROVE Watched' /\ ServedFromListedSet'
  BY <1>6, NotLookingFields DEF ViewEnds, Watched, ServedFromListedSet
<1>7. ASSUME view' = view  PROVE Watched' /\ ServedFromListedSet'
  BY <1>2, <1>7 DEF Watched, ServedFromListedSet
<1> QED
  BY <1>3, <1>4, <1>5, <1>6, <1>7 DEF Aside, ChangeStudent, vars

LEMMA WatchedStep ==
  ASSUME Base, WorkOK, [Next]_vars, Watched, ServedFromListedSet
  PROVE  Watched' /\ ServedFromListedSet'
<1>1. CASE Aside
  BY <1>1, AsideInView
<1>2. CASE Crash
  BY <1>2, CrashKeeps DEF Watched, ServedFromListedSet
<1>3. ASSUME NEW r \in Requests, Ask(r) \/ Acquire(r)  PROVE Watched' /\ ServedFromListedSet'
  <2>1. view' = view
    BY <1>3 DEF Ask, Acquire, UploadEnrollmentPhotos, DeleteEnrollmentPhotos, DeleteStudent, Reload,
              ReconcileLists, ReconcilePlans, ReconcileNext, RequestLost
  <2> QED
    BY <1>3, <2>1, AskEffect, AcquireEffect DEF Watched, ServedFromListedSet
<1>4. ASSUME NEW r \in Requests, Serve(r)  PROVE Watched' /\ ServedFromListedSet'
  BY <1>4, ServeInView
<1> QED
  BY <1>1, <1>2, <1>3, <1>4, NextKinds

\* The photo that is served is of the set whose version was listed (ServedFromListedSet),
\* though the thread that serves it takes no lock.
THEOREM ServedAsListed == Spec => []ServedFromListedSet
<1>1. Init => Watched /\ ServedFromListedSet
  BY NotLookingFields DEF Init, Watched, ServedFromListedSet
<1>2. /\ Base /\ WorkOK /\ Watched /\ ServedFromListedSet /\ [Next]_vars
      => Watched' /\ ServedFromListedSet'
  BY WatchedStep
<1> QED
  BY <1>1, <1>2, Founded, PTL DEF Spec

----------------------------------------------------------------------------
(* The refinement of PhotoSets *)

Held(s) == IF Swapping(s) THEN old[s] ELSE dir[s]

HeldNow == [s \in Students |-> IF Swapping(s) THEN old[s] ELSE dir[s]]

LEMMA HeldFields == HeldNow = [s \in Students |-> HeldNow[s]] /\ \A s \in Students : HeldNow[s] = Held(s)
BY DEF HeldNow, Held

LEMMA HeldFieldsNext ==
  HeldNow' = [s \in Students |-> HeldNow'[s]] /\ \A s \in Students : HeldNow'[s] = Held(s)'
BY DEF HeldNow, Held

\* The sets in place are the same for all students but s.
OnlyHeld(s) == HeldNow' = [HeldNow EXCEPT ![s] = HeldNow'[s]]

LEMMA ServeHeld ==
  ASSUME Base, WorkOK, NEW r \in Requests, Serve(r), ~Publish(r),
         NEW s \in Students, s = req[r].who
  PROVE  /\ OnlyHeld(s)
         /\ HeldNow[s] = IF req[r].step = "in" THEN old[s] ELSE dir[s]
         /\ HeldNow'[s] = IF req'[r].step = "in" THEN old'[s] ELSE dir'[s]
<1>1. InService(req[r]) /\ (req'[r].who = s \/ req'[r].step # "in")
  BY ServeEffect, OverFollows DEF GoesOn, Moved, Selected, Kept, Ends, Scanned, InService
<1>2. ASSUME NEW t \in Students, t # s  PROVE HeldNow'[t] = HeldNow[t]
  <2>1. ~Swapping(t) /\ ~Swapping(t)'
    BY <1>1, <1>2, SwappingServed, SwappingAfter
  <2>2. dir'[t] = dir[t]
    BY <1>2, ServeElsewhere DEF Same
  <2> QED
    BY <2>1, <2>2, HeldFields, HeldFieldsNext DEF Held
<1>3. OnlyHeld(s)
  BY <1>2, HeldFields, HeldFieldsNext DEF OnlyHeld
<1>4. Swapping(s) <=> req[r].step = "in"
  BY <1>1, SwappingServed
<1>5. Swapping(s)' <=> req'[r].step = "in"
  BY <1>1, SwappingAfter
<1>6. HeldNow[s] = Held(s) /\ HeldNow'[s] = Held(s)'
  BY HeldFields, HeldFieldsNext
<1>7. Held(s) = IF req[r].step = "in" THEN old[s] ELSE dir[s]
  BY <1>4 DEF Held
<1>8. Held(s)' = IF req'[r].step = "in" THEN old'[s] ELSE dir'[s]
  BY <1>5 DEF Held
<1> QED
  BY <1>3, <1>6, <1>7, <1>8

\* The steps that PhotoSets takes, in terms of HeldNow.
LEMMA ContractSteps ==
  ASSUME NEW s \in Students
  PROVE  /\ HeldNow'[s] # {} /\ OneUpload(HeldNow'[s]) /\ OnlyHeld(s) /\ known' = known
              => Contract!Next
         /\ HeldNow'[s] \subseteq HeldNow[s] /\ OnlyHeld(s) /\ known' = known
              => Contract!Next
         /\ HeldNow[s] # {} /\ known' = [known EXCEPT ![s] = HeldNow[s]] /\ HeldNow' = HeldNow
              => Contract!Next
         /\ HeldNow[s] = {} /\ known' = [known EXCEPT ![s] = {}] /\ HeldNow' = HeldNow
              => Contract!Next
<1>1. ASSUME HeldNow'[s] # {}, OneUpload(HeldNow'[s]), OnlyHeld(s), known' = known
      PROVE  Contract!Next
  <2>1. Contract!Replace(s)
    BY <1>1 DEF Contract!Replace, Contract!OfOneUpload, OneUpload, OnlyHeld, HeldNow
  <2> QED
    BY <2>1 DEF Contract!Next
<1>2. ASSUME HeldNow'[s] \subseteq HeldNow[s], OnlyHeld(s), known' = known
      PROVE  Contract!Next
  <2>1. Contract!Erase(s)
    BY <1>2 DEF Contract!Erase, OnlyHeld, HeldNow
  <2> QED
    BY <2>1 DEF Contract!Next
<1>3. ASSUME HeldNow[s] # {}, known' = [known EXCEPT ![s] = HeldNow[s]], HeldNow' = HeldNow
      PROVE  Contract!Next
  <2>1. Contract!Encode(s)
    BY <1>3 DEF Contract!Encode, HeldNow
  <2> QED
    BY <2>1 DEF Contract!Next
<1>4. ASSUME HeldNow[s] = {}, known' = [known EXCEPT ![s] = {}], HeldNow' = HeldNow
      PROVE  Contract!Next
  <2>1. Contract!Forget(s)
    BY <1>4 DEF Contract!Forget, HeldNow
  <2> QED
    BY <2>1 DEF Contract!Next
<1> QED
  BY <1>1, <1>2, <1>3, <1>4

LEMMA ContractStutters ==
  ASSUME HeldNow' = HeldNow, known' = known
  PROVE  UNCHANGED Contract!vars
BY DEF HeldNow, Contract!vars

LEMMA ServeImplements ==
  ASSUME Base, WorkOK, NEW r \in Requests, Serve(r)
  PROVE  [Contract!Next]_(Contract!vars)
<1> DEFINE s == req[r].who
<1>1. /\ dir \in [Students -> SUBSET Photos] /\ old \in [Students -> SUBSET Photos]
      /\ tmp \in [Students -> SUBSET Photos] /\ known \in [Students -> SUBSET Photos]
      /\ req \in [Requests -> Request]
  BY BaseParts
<1>2. AtWork(req[r]) /\ InService(req[r]) /\ WellFormed(req[r])
  BY ServeEffect DEF WorkOK, Base
<1>3. CASE Publish(r)
  <2>1. req[r].step = "publish" /\ req'[r].step # "in"
    BY <1>1, <1>3, IdleFields DEF Publish, At
  <2>2. \A t \in Students : ~Swapping(t) /\ ~Swapping(t)'
    BY <1>2, <2>1, SwappingServed, SwappingAfter
  <2>3. UNCHANGED dir /\ known' = dir
    BY <1>3, PublishEffect
  <2>4. \A t \in Students : HeldNow[t] = dir[t] /\ HeldNow'[t] = dir[t]
    BY <2>2, <2>3, HeldFields, HeldFieldsNext DEF Held
  <2>5. HeldNow = dir /\ HeldNow' = dir
    BY <1>1, <2>4, HeldFields, HeldFieldsNext
  <2>6. Contract!Reload
    BY <2>3, <2>5 DEF Contract!Reload, HeldNow
  <2> QED
    BY <2>6 DEF Contract!Next
<1>4. CASE Scan(r)
  <2>1. req[r].step = "scan" /\ req'[r].step # "in" /\ UNCHANGED <<dir, known>>
    BY <1>1, <1>4, ScanEffect DEF Scan, At, folders
  <2>2. \A t \in Students : ~Swapping(t) /\ ~Swapping(t)'
    BY <1>2, <2>1, SwappingServed, SwappingAfter
  <2>3. \A t \in Students : HeldNow'[t] = HeldNow[t]
    BY <2>1, <2>2, HeldFields, HeldFieldsNext DEF Held
  <2>4. HeldNow' = HeldNow
    BY <2>3, HeldFields, HeldFieldsNext
  <2> QED
    BY <2>1, <2>4, ContractStutters
<1>5. CASE ~Publish(r) /\ ~Scan(r)
  <2>1. s \in Students
    BY <1>5, ServedStudent DEF Serve, Write, Analyze, ClearOld, MoveAside, MoveIn, MoveInFails,
              EnrollFails, DropOld, Index, RemoveDir, RemoveTmp, RemoveOld, Forget, RemoveFails, At,
              EnrollSteps, EraseSteps
  <2>2. /\ OnlyHeld(s)
        /\ HeldNow[s] = IF req[r].step = "in" THEN old[s] ELSE dir[s]
        /\ HeldNow'[s] = IF req'[r].step = "in" THEN old'[s] ELSE dir'[s]
    <3>1. PICK t \in Students : t = s
      BY <2>1
    <3> QED
      BY <1>5, <3>1, ServeHeld
  <2>3. ASSUME HeldNow'[s] = HeldNow[s]  PROVE HeldNow' = HeldNow
    BY <2>1, <2>2, <2>3, HeldFields, HeldFieldsNext DEF OnlyHeld
  <2> HIDE DEF s
  <2>4. CASE Write(r) \/ Analyze(r) \/ EnrollFails(r) \/ ClearOld(r) \/ DropOld(r)
             \/ RemoveTmp(r) \/ RemoveOld(r)
    <3>1. req[r].step # "in" /\ UNCHANGED <<dir, known>>
      BY <2>4 DEF Write, Analyze, EnrollFails, ClearOld, DropOld, RemoveTmp, RemoveOld, At
    <3>2. CASE EnrollFails(r)
      <4>1. Release(r)
        BY <3>2 DEF EnrollFails
      <4>2. req'[r].step # "in"
        BY <1>1, <4>1, ReleaseEffect, <1>2, OverFollows DEF InService
      <4> QED
        BY <2>2, <2>3, <3>1, <4>2, ContractStutters
    <3>3. CASE ~EnrollFails(r)
      <4>0. ~Onward(req[r].step, "in")
        BY <2>4, <3>3 DEF Write, Analyze, ClearOld, DropOld, RemoveTmp, RemoveOld, At, Onward
      <4>1. GoesOn(r) => Onward(req[r].step, req'[r].step)
        BY DEF GoesOn
      <4>2. Selected(r) \/ Scanned(r) => req'[r].step # "in"
        BY DEF Selected, Kept, Scanned
      <4>3. Ends(r) => req'[r].step # "in"
        BY <1>2, OverFollows DEF Ends, InService
      <4>4. Onward(req[r].step, req'[r].step) => req'[r].step # "in"
        BY <4>0
      <4>5. req'[r].step # "in"
        BY <4>1, <4>2, <4>3, <4>4, ServeEffect
      <4> QED
        BY <2>2, <2>3, <3>1, <4>5, ContractStutters
    <3> QED
      BY <3>2, <3>3
  <2>5. CASE MoveAside(r)
    <3>1. req[r].step = "aside" /\ known' = known
      BY <2>5 DEF MoveAside, At
    <3>2. CASE dir[s] # {} /\ old[s] # {}
      <4>1. UNCHANGED dir /\ Release(r)
        BY <2>5, <3>2 DEF MoveAside, s
      <4>2. req'[r].step # "in"
        BY <1>1, <4>1, ReleaseEffect, <1>2, OverFollows DEF InService
      <4> QED
        BY <2>2, <2>3, <3>1, <4>1, <4>2, ContractStutters
    <3>3. CASE ~(dir[s] # {} /\ old[s] # {})
      <4>1. /\ old'[s] = IF dir[s] # {} THEN dir[s] ELSE old[s]
            /\ GoTo(r, "in")
        BY <1>1, <2>1, <2>5, <3>3 DEF MoveAside, s
      <4>2. req'[r].step = "in"
        BY <1>1, <4>1, GoToEffect DEF Moved, Steps, EnrollSteps
      <4>3. CASE dir[s] # {} \/ old[s] = {}
        BY <2>2, <2>3, <3>1, <4>1, <4>2, <4>3, ContractStutters
      <4>4. CASE dir[s] = {} /\ old[s] # {}
        <5>1. HeldNow'[s] = old[s] /\ OneUpload(old[s])
          BY <2>1, <2>2, <4>1, <4>2, <4>4 DEF WorkOK
        <5> QED
          BY <2>1, <2>2, <3>1, <4>4, <5>1, ContractSteps
      <4> QED
        BY <4>3, <4>4
    <3> QED
      BY <3>2, <3>3
  <2>6. CASE MoveIn(r)
    <3>1. /\ dir'[s] = req[r].photos /\ req[r].photos # {} /\ known' = known
          /\ OneUpload(req[r].photos) /\ req[r].step = "in" /\ GoTo(r, "drop")
      BY <1>1, <1>2, <2>1, <2>6 DEF MoveIn, At, AtWork, WorkOK, s
    <3>2. req'[r].step = "drop"
      BY <1>1, <3>1, GoToEffect DEF Moved, Steps, EnrollSteps
    <3> QED
      BY <2>1, <2>2, <3>1, <3>2, ContractSteps
  <2>7. CASE MoveInFails(r)
    <3>1. req[r].step = "in" /\ known' = known /\ dir[s] = {} /\ Release(r)
      BY <1>2, <2>7 DEF MoveInFails, At, AtWork, s
    <3>2. req'[r].step # "in"
      BY <1>1, <3>1, ReleaseEffect, <1>2, OverFollows DEF InService
    <3>3. dir'[s] \subseteq old[s]
      BY <1>1, <2>1, <2>7, <3>1 DEF MoveInFails, s
    <3> QED
      BY <2>1, <2>2, <3>1, <3>2, <3>3, ContractSteps
  <2>8. CASE Index(r)
    <3>1. /\ dir[s] = req[r].photos /\ req[r].photos # {} /\ req[r].step = "index" /\ dir' = dir
          /\ known' = [known EXCEPT ![s] = req[r].photos] /\ Release(r)
      BY <1>2, <2>8 DEF Index, At, AtWork, folders, s
    <3>2. req'[r].step # "in"
      BY <1>1, <3>1, ReleaseEffect, <1>2, OverFollows DEF InService
    <3>3. HeldNow[s] = req[r].photos /\ HeldNow' = HeldNow
      BY <2>2, <2>3, <3>1, <3>2
    <3> QED
      BY <2>1, <3>1, <3>3, ContractSteps
  <2>9. CASE RemoveDir(r)
    <3>1. dir'[s] = {} /\ known' = known /\ req[r].step = "rm_dir" /\ GoTo(r, "rm_tmp")
      BY <1>1, <2>1, <2>9 DEF RemoveDir, At, s
    <3>2. req'[r].step = "rm_tmp"
      BY <1>1, <3>1, GoToEffect DEF Moved, Steps, EraseSteps
    <3> QED
      BY <2>1, <2>2, <3>1, <3>2, ContractSteps
  <2>10. CASE Forget(r)
    <3>1. /\ dir[s] = {} /\ dir' = dir /\ req[r].step = "forget" /\ Release(r)
          /\ known' = [known EXCEPT ![s] = {}]
      BY <1>2, <2>10 DEF Forget, At, AtWork, folders, s
    <3>2. req'[r].step # "in"
      BY <1>1, <3>1, ReleaseEffect, <1>2, OverFollows DEF InService
    <3>3. HeldNow[s] = {} /\ HeldNow' = HeldNow
      BY <2>2, <2>3, <3>1, <3>2
    <3> QED
      BY <2>1, <3>1, <3>3, ContractSteps
  <2>11. CASE RemoveFails(r)
    <3>1. known' = known /\ Release(r) /\ req[r].step # "in"
      BY <2>11 DEF RemoveFails, At
    <3>2. dir'[s] \subseteq dir[s]
      BY <1>1, <2>1, <2>11 DEF RemoveFails, s
    <3>3. req'[r].step # "in"
      BY <1>1, <3>1, ReleaseEffect, <1>2, OverFollows DEF InService
    <3> QED
      BY <2>1, <2>2, <3>1, <3>2, <3>3, ContractSteps
  <2> QED
    BY <1>5, <2>4, <2>5, <2>6, <2>7, <2>8, <2>9, <2>10, <2>11 DEF Serve
<1> QED
  BY <1>3, <1>4, <1>5

LEMMA ContractStep ==
  ASSUME Base, WorkOK, [Next]_vars
  PROVE  [Contract!Next]_(Contract!vars)
<1>1. ASSUME UNCHANGED <<dir, old, known>>, \A s \in Students : Swapping(s)' <=> Swapping(s)
      PROVE  UNCHANGED Contract!vars
  <2>1. \A s \in Students : HeldNow'[s] = HeldNow[s]
    BY <1>1, HeldFields, HeldFieldsNext DEF Held
  <2>2. HeldNow' = HeldNow
    BY <2>1, HeldFields, HeldFieldsNext
  <2> QED
    BY <1>1, <2>2, ContractStutters
<1>2. CASE Aside
  <2>1. UNCHANGED <<dir, old, known, req>>
    BY <1>2, AsideEffect
  <2>2. \A s \in Students : Swapping(s)' <=> Swapping(s)
    BY <2>1 DEF Swapping, At
  <2> QED
    BY <1>1, <2>1, <2>2
<1>3. CASE Crash
  <2>1. UNCHANGED dir /\ known' = dir
    BY <1>3, CrashKeeps
  <2>2. \A s \in Students : ~Swapping(s)'
    BY <1>3, CrashEffect DEF Swapping, At, InService
  <2>3. \A s \in Students : Swapping(s) => dir[s] = {}
    BY DEF Swapping, At, WorkOK, AtWork
  <2>4. \A s \in Students : HeldNow'[s] = dir[s] /\ (HeldNow[s] = dir[s] \/ dir[s] = {})
    BY <2>1, <2>2, <2>3, HeldFields, HeldFieldsNext DEF Held
  <2>5. dir \in [Students -> SUBSET Photos]
    BY BaseParts
  <2>6. HeldNow' = dir
    BY <2>4, <2>5, HeldFieldsNext
  <2>7. /\ HeldNow' \in [Students -> {HeldNow[s] : s \in Students} \cup {{}}]
        /\ \A s \in Students : HeldNow'[s] \in {HeldNow[s], {}}
        /\ known' = HeldNow'
    BY <2>1, <2>4, <2>5, <2>6
  <2>8. Contract!Restart
    BY <2>7 DEF Contract!Restart, HeldNow
  <2> QED
    BY <2>8 DEF Contract!Next
<1>4. ASSUME NEW r \in Requests, Ask(r) \/ Acquire(r)  PROVE UNCHANGED Contract!vars
  <2>1. UNCHANGED <<dir, old, known>> /\ Elsewhere(r)
    BY <1>4, AskEffect, AcquireEffect
  <2>2. req[r].step # "in" /\ req'[r].step # "in"
    BY <1>4, AskEffect, AcquireEffect DEF InService
  <2>3. \A s \in Students : Swapping(s)' <=> Swapping(s)
    BY <2>1, <2>2, SwappingKept DEF Elsewhere
  <2> QED
    BY <1>1, <2>1, <2>3
<1>5. ASSUME NEW r \in Requests, Serve(r)  PROVE [Contract!Next]_(Contract!vars)
  BY <1>5, ServeImplements
<1> QED
  BY <1>2, <1>3, <1>4, <1>5, NextKinds

\* The two renames of an exchange are one replacement, a restart takes what is in place,
\* and every other step of the folders and the index is one of PhotoSets, or none
\* (ImplementsPhotoSets).
THEOREM FoldersImplementPhotoSets == Spec => ImplementsPhotoSets
<1>1. Init => Contract!Init
  <2> SUFFICES ASSUME Init  PROVE Contract!Init
    OBVIOUS
  <2>1. \A s \in Students : ~Swapping(s)
    BY IdleFields DEF Init, Swapping, At
  <2> QED
    BY <2>1 DEF Init, Contract!Init, NoPhotos
<1>2. Base /\ WorkOK /\ [Next]_vars => [Contract!Next]_(Contract!vars)
  BY ContractStep
<1> QED
  BY <1>1, <1>2, Founded, PTL DEF Spec, ImplementsPhotoSets, Contract!Spec

=============================================================================
