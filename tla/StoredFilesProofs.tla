-------------------------- MODULE StoredFilesProofs --------------------------
(***************************************************************************)
(* What StoredFiles promises holds for any owners, requests and bounds:    *)
(* nothing that is in use is removed, and nothing is left behind.          *)
(*                                                                         *)
(* The argument is about who has a file in hand.  Until it is recorded, a  *)
(* file is one request's alone (Fresh).  Once it is, it hangs in one place *)
(* (Placed), so a request that is about to write can tell which files its  *)
(* statement makes unused (Doomed), and what a request removes is unused   *)
(* for good (Discarded), since no file is recorded twice.  For the second  *)
(* property, every kind of stored thing has somebody who answers for it    *)
(* (Parked, Kept, Mirrored), and a request at its statement knows of all   *)
(* the files the statement makes unused, or was overtaken (Informed).      *)
(***************************************************************************)
EXTENDS StoredFiles, TLAPS

Deleting == {"deleteOwner", "deletePhoto", "deleteDocument"}

\* The steps at which an upload is still the request's own.
Before == {"parked", "store", "look", "write"}

\* What `files` and `kept` are at each step of an upload.
Batch(q) ==
  \E a, b \in Files :
    /\ a <= b /\ q.files = a..b
    /\ q.step = "parked" => q.kept = {}
    /\ q.step = "store" => \E k \in a..b : q.kept = a..(k - 1)
    /\ q.step \in {"look", "write"} => q.kept = q.files
    /\ q.step = "discard" => q.kept \subseteq q.files

\* What the other fields of a request are at each step.
Shaped(q) ==
  /\ q.step \in {"idle", "read", "put"} => q.todo = {} /\ q.half = {}
  /\ q.step = "idle" <=> q.op = "none"
  /\ q.step \in {"read", "put"} <=> q.op = "thumb"
  /\ q.op = "thumb" => \E f \in Files : q.files = {f}
  /\ q.step \in {"parked", "store", "discard"} => q.op \in Uploading
  /\ q.step # "remove" => q.half = {}
  /\ q.step \in Before \cup {"discard"} /\ q.op \in Uploading => Batch(q)
  /\ ~(q.step \in Before \cup {"discard"} /\ q.op \in Uploading) => q.kept = {}
  /\ q.step \in {"idle", "remove"} \/ q.op \in Deleting => q.files = {}
  /\ q.step \in {"parked", "store", "discard"} \/ (q.step = "look" /\ q.op \in Uploading)
       => q.todo = {}
  /\ q.step \in Before =>
       /\ q.op \in Attaching => q.on \in Hangings \ {{}} /\ q.todo = {}
       /\ q.op \in Replacing => \E f \in Files : q.files = {f}
       /\ q.op \in Replacing \cup {"deleteOwner"} => \E o \in Owners : q.on = {o}

AllShaped == \A r \in Requests : Shaped(req[r])

\* The files that r is to record or to remove, as one set whatever it does.
Hand(q) == IF q.op = "thumb" THEN {} ELSE q.files \cup q.todo \cup q.half

\* No file has been seen that was not uploaded.
Uploaded ==
  /\ \A f \in Recorded : f <= uploads
  /\ \A r \in Requests : \A f \in Hand(req[r]) : f <= uploads

\* A file hangs in one place.
Placed ==
  /\ \A f \in Files, o \in Owners : row[f] # {} => slot[o] # f
  /\ \A o1, o2 \in Owners : slot[o1] = slot[o2] /\ slot[o1] # NoFile => o1 = o2

\* r has files that are not recorded yet.
Holds(q) == q.step \in Before /\ q.op \in Uploading

\* They are its own.
Fresh ==
  \A r \in Requests : Holds(req[r]) =>
    /\ req[r].files \cap Recorded = {}
    /\ req[r].files \cap req[r].todo = {}
    /\ \A q \in Requests \ {r} : req[r].files \cap Hand(req[q]) = {}

\* What a request is to remove after its statement, the statement makes unused.
Doomed ==
  \A r \in Requests : req[r].step \in {"look", "write"} =>
    \A f \in req[r].todo :
      /\ \A o \in Owners : slot[o] = f =>
           o \in req[r].on /\ req[r].op \in Replacing \cup {"deleteOwner"}
      /\ row[f] # {} =>
           \/ req[r].op \in {"deletePhoto", "deleteDocument"}
           \/ req[r].op = "deleteOwner" /\ req[r].on \subseteq row[f]

\* What is being removed is used no more.
Discarded ==
  \A r \in Requests : \A f \in Recorded :
    /\ req[r].step = "remove" /\ f \in req[r].todo => f \in unsure
    /\ req[r].step = "discard" /\ f \in req[r].files => f \in unsure

\* What was put is there until the request has recorded it.
KeptArePut == \A r \in Requests : Holds(req[r]) => \A f \in req[r].kept : <<"object", f>> \in stored

\* The statement of r makes no files unused but those r knows, or did not hear of.
Informed ==
  \A r \in Requests : req[r].step = "write" => \A o \in req[r].on :
    /\ req[r].op = "deleteOwner" /\ req[r].on \cap Users = {} =>
         \A f \in Files : o \in row[f] => f \in req[r].todo \cup req[r].behind
    /\ (req[r].op = "deleteOwner" /\ req[r].on \cap Users # {}) \/ req[r].op \in Replacing =>
         slot[o] \in req[r].todo \cup req[r].behind \cup {NoFile}

\* Temporary files are those of uploads that are not stored yet, or failed.
Parked ==
  \A f \in Files : <<"tmp", f>> \in stored \ missed =>
    \E r \in Requests :
      /\ req[r].step \in {"parked", "store", "discard"}
      /\ f \in req[r].files
      /\ req[r].step = "store" => f \notin req[r].kept

\* Objects are in use, or somebody is to record or remove them.
Kept ==
  \A f \in Files : <<"object", f>> \in stored \ missed =>
    \/ f \in Recorded
    \/ \E r \in Requests :
         \/ f \in req[r].kept
         \/ req[r].step = "remove" /\ f \in req[r].todo

\* Thumbnails, and those about to be, have an original, or are to be removed.
Mirrored ==
  \A f \in Files :
    (<<"thumb", f>> \in stored \/ Making(f)) /\ <<"thumb", f>> \notin missed =>
      \/ <<"object", f>> \in stored
      \/ \E r \in Requests : req[r].step = "remove" /\ f \in req[r].todo \cup req[r].half

----------------------------------------------------------------------------
(* Requests and their fields *)

Steps == {"idle", "parked", "store", "look", "write", "discard", "remove", "read", "put"}

Ops == {"none", "deleteOwner", "deletePhoto", "deleteDocument", "thumb"} \cup Uploading

LEMMA IdleIsARequest ==
  /\ Idle \in Request /\ Idle.step = "idle" /\ Idle.op = "none" /\ Idle.on = {}
  /\ Idle.files = {} /\ Idle.kept = {} /\ Idle.todo = {} /\ Idle.half = {} /\ Idle.behind = {}
BY DEF Idle, Request

LEMMA RequestFields ==
  ASSUME NEW q \in Request
  PROVE  /\ q.step \in Steps /\ q.op \in Ops /\ q.on \subseteq Owners
         /\ q.files \subseteq Files /\ q.kept \subseteq Files /\ q.todo \subseteq Files
         /\ q.half \subseteq Files /\ q.behind \subseteq Files
BY DEF Request, Steps, Ops

LEMMA WithStep ==
  ASSUME NEW q \in Request, NEW x \in Steps
  PROVE  LET w == [q EXCEPT !.step = x] IN
           /\ w \in Request /\ w.step = x /\ w.op = q.op /\ w.on = q.on /\ w.files = q.files
           /\ w.kept = q.kept /\ w.todo = q.todo /\ w.half = q.half /\ w.behind = q.behind
BY DEF Request, Steps

LEMMA WithOp ==
  ASSUME NEW q \in Request, NEW x \in Ops
  PROVE  LET w == [q EXCEPT !.op = x] IN
           /\ w \in Request /\ w.step = q.step /\ w.op = x /\ w.on = q.on /\ w.files = q.files
           /\ w.kept = q.kept /\ w.todo = q.todo /\ w.half = q.half /\ w.behind = q.behind
BY DEF Request, Ops

LEMMA WithOn ==
  ASSUME NEW q \in Request, NEW x \in SUBSET Owners
  PROVE  LET w == [q EXCEPT !.on = x] IN
           /\ w \in Request /\ w.step = q.step /\ w.op = q.op /\ w.on = x /\ w.files = q.files
           /\ w.kept = q.kept /\ w.todo = q.todo /\ w.half = q.half /\ w.behind = q.behind
BY DEF Request

LEMMA WithFiles ==
  ASSUME NEW q \in Request, NEW x \in SUBSET Files
  PROVE  LET w == [q EXCEPT !.files = x] IN
           /\ w \in Request /\ w.step = q.step /\ w.op = q.op /\ w.on = q.on /\ w.files = x
           /\ w.kept = q.kept /\ w.todo = q.todo /\ w.half = q.half /\ w.behind = q.behind
BY DEF Request

LEMMA WithKept ==
  ASSUME NEW q \in Request, NEW x \in SUBSET Files
  PROVE  LET w == [q EXCEPT !.kept = x] IN
           /\ w \in Request /\ w.step = q.step /\ w.op = q.op /\ w.on = q.on /\ w.files = q.files
           /\ w.kept = x /\ w.todo = q.todo /\ w.half = q.half /\ w.behind = q.behind
BY DEF Request

LEMMA WithTodo ==
  ASSUME NEW q \in Request, NEW x \in SUBSET Files
  PROVE  LET w == [q EXCEPT !.todo = x] IN
           /\ w \in Request /\ w.step = q.step /\ w.op = q.op /\ w.on = q.on /\ w.files = q.files
           /\ w.kept = q.kept /\ w.todo = x /\ w.half = q.half /\ w.behind = q.behind
BY DEF Request

LEMMA WithHalf ==
  ASSUME NEW q \in Request, NEW x \in SUBSET Files
  PROVE  LET w == [q EXCEPT !.half = x] IN
           /\ w \in Request /\ w.step = q.step /\ w.op = q.op /\ w.on = q.on /\ w.files = q.files
           /\ w.kept = q.kept /\ w.todo = q.todo /\ w.half = x /\ w.behind = q.behind
BY DEF Request

LEMMA WithBehind ==
  ASSUME NEW q \in Request, NEW x \in SUBSET Files
  PROVE  LET w == [q EXCEPT !.behind = x] IN
           /\ w \in Request /\ w.step = q.step /\ w.op = q.op /\ w.on = q.on /\ w.files = q.files
           /\ w.kept = q.kept /\ w.todo = q.todo /\ w.half = q.half /\ w.behind = x
BY DEF Request

\* Only the request of r changes.
Others(r) == \A q \in Requests \ {r} : req'[q] = req[q]

LEMMA OneRequest ==
  ASSUME req \in [Requests -> Request], NEW r \in Requests, NEW w \in Request,
         req' = [req EXCEPT ![r] = w]
  PROVE  req' \in [Requests -> Request] /\ req'[r] = w /\ Others(r)
BY DEF Others

LEMMA ShapedOthers ==
  ASSUME AllShaped, NEW r \in Requests, Others(r), Shaped(req'[r])
  PROVE  AllShaped'
<1> SUFFICES ASSUME NEW q \in Requests PROVE Shaped(req'[q])
  BY DEF AllShaped, Shaped, Batch
<1> QED BY DEF AllShaped, Others

\* The one thing Min and Max are asked for.
LEMMA FirstOfRange ==
  ASSUME NEW S, NEW k \in Nat, NEW b \in Nat, S = k..b, k <= b
  PROVE  Min(S) = k /\ Max(S) = b
<1>1. k \in S /\ \A y \in S : k =< y
  OBVIOUS
<1>2. b \in S /\ \A y \in S : b >= y
  OBVIOUS
<1>3. \A x \in S : (\A y \in S : x =< y) => x = k
  OBVIOUS
<1>4. \A x \in S : (\A y \in S : x >= y) => x = b
  OBVIOUS
<1>5. Min(S) = k
  BY <1>1, <1>3 DEF Min
<1>6. Max(S) = b
  BY <1>2, <1>4 DEF Max
<1> QED BY <1>5, <1>6

----------------------------------------------------------------------------
(* What the steps do to the request that takes them *)

Typed == req' \in [Requests -> Request]

\* A step of r that leaves the database alone.
Aside(r) ==
  /\ Typed /\ Others(r) /\ Shaped(req'[r])
  /\ UNCHANGED <<slot, row, unsure>>
  /\ owner' \in [Owners -> {"none", "there", "gone"}]
  /\ linked' \subseteq Files /\ used' \in 0..MaxOps

\* r goes on with the same files.
SameFiles(r) ==
  /\ req'[r].op = req[r].op /\ req'[r].on = req[r].on /\ req'[r].files = req[r].files
  /\ req'[r].half = req[r].half /\ req'[r].behind = req[r].behind

UploadBegins(r) ==
  /\ Aside(r) /\ missed' = missed
  /\ uploads' \in 0..MaxFiles /\ uploads <= uploads'
  /\ stored' = stored \cup ({"tmp"} \X req'[r].files)
  /\ req[r].step = "idle"
  /\ req'[r].step = "parked"
  /\ \A f \in req'[r].files : uploads < f /\ f <= uploads'
  /\ req'[r].todo = {} /\ req'[r].half = {} /\ req'[r].op \in Uploading

LEMMA UploadEffect ==
  ASSUME TypeOK, NEW r \in Requests, NEW op \in Uploading, NEW on \in SUBSET Owners,
         NEW n \in Nat \ {0}, Upload(r, op, on, n),
         op \in Attaching => on \in Hangings \ {{}},
         op \in Replacing => n = 1 /\ \E o \in Owners : on = {o}
  PROVE  UploadBegins(r)
<1> DEFINE new == (uploads + 1)..(uploads + n)
           w1 == [Idle EXCEPT !.step = "parked"]
           w2 == [w1 EXCEPT !.op = op]
           w3 == [w2 EXCEPT !.on = on]
           w4 == [w3 EXCEPT !.files = new]
<1>1. /\ uploads \in Nat /\ n \in Nat /\ MaxFiles \in Nat /\ uploads + n <= MaxFiles /\ n >= 1
      /\ uploads' = uploads + n
  BY StoredFilesAssumption DEF TypeOK, Upload
<1>2. new \subseteq Files /\ \A f \in new : uploads < f /\ f <= uploads + n
  BY <1>1 DEF Files
<1>3. w1 \in Request /\ w1.step = "parked" /\ w1.kept = {} /\ w1.todo = {} /\ w1.half = {}
  BY IdleIsARequest, WithStep DEF Steps
<1> HIDE DEF w1
<1>4. /\ w2 \in Request /\ w2.step = "parked" /\ w2.op = op
      /\ w2.kept = {} /\ w2.todo = {} /\ w2.half = {}
  BY <1>3, WithOp DEF Ops
<1> HIDE DEF w2
<1>5. /\ w3 \in Request /\ w3.step = "parked" /\ w3.op = op /\ w3.on = on
      /\ w3.kept = {} /\ w3.todo = {} /\ w3.half = {}
  BY <1>4, WithOn
<1> HIDE DEF w3
<1>6. /\ w4 \in Request /\ w4.step = "parked" /\ w4.op = op /\ w4.on = on /\ w4.files = new
      /\ w4.kept = {} /\ w4.todo = {} /\ w4.half = {}
  BY <1>2, <1>5, WithFiles
<1>7. req' = [req EXCEPT ![r] = w4] /\ used' \in 0..MaxOps
  BY StoredFilesAssumption DEF Upload, Begin, Count, TypeOK, w1, w2, w3
<1> HIDE DEF w4
<1>8. req' \in [Requests -> Request] /\ req'[r] = w4 /\ Others(r)
  BY <1>6, <1>7, OneRequest DEF TypeOK
<1>9. op \in Replacing => \E f \in Files : new = {f}
  <2>1. n = 1 => new = {uploads + 1} /\ uploads + 1 \in Files
    BY <1>1, <1>2
  <2> QED BY <2>1
<1>10. Batch(w4)
  <2>1. uploads + 1 \in Files /\ uploads + n \in Files
    BY <1>1 DEF Files
  <2> QED BY <1>1, <1>6, <2>1 DEF Batch
<1>11. op \notin {"none", "thumb"} /\ op \notin Deleting
  BY DEF Uploading, Attaching, Replacing, Deleting
<1>12. Shaped(w4)
  <2> HIDE DEF new
  <2> QED BY <1>6, <1>9, <1>10, <1>11 DEF Shaped, Before, Deleting
<1>13. stored' = stored \cup ({"tmp"} \X new) /\ UNCHANGED <<tables, linked, history>> /\ req[r].step = "idle"
  BY DEF Upload, Begin, At
<1>14. uploads' \in 0..MaxFiles /\ uploads <= uploads'
  BY <1>1
<1> HIDE DEF new
<1> QED
  BY <1>1, <1>2, <1>6, <1>7, <1>8, <1>12, <1>13, <1>14
  DEF UploadBegins, Aside, Typed, tables, history, TypeOK

\* A request to delete, with the one file it is about, if it is about one.
DeleteBegins(r) ==
  /\ Aside(r) /\ missed' = missed /\ uploads' = uploads /\ stored' = stored
  /\ req[r].step = "idle"
  /\ req'[r].step = "look" /\ req'[r].op \in Deleting
  /\ req'[r].files = {} /\ req'[r].half = {}
  /\ \A f \in req'[r].todo : row[f] # {} /\ req'[r].op \in {"deletePhoto", "deleteDocument"}

LEMMA DeleteEffect ==
  ASSUME TypeOK, NEW r \in Requests, NEW op \in Deleting, NEW on \in SUBSET Owners,
         NEW F \in SUBSET Files, Delete(r, op, on, F),
         op = "deleteOwner" => \E o \in Owners : on = {o},
         \A f \in F : row[f] # {} /\ op \in {"deletePhoto", "deleteDocument"}
  PROVE  DeleteBegins(r)
<1> DEFINE w1 == [Idle EXCEPT !.step = "look"]
           w2 == [w1 EXCEPT !.op = op]
           w3 == [w2 EXCEPT !.on = on]
           w4 == [w3 EXCEPT !.todo = F]
<1>3. /\ w1 \in Request /\ w1.step = "look" /\ w1.files = {} /\ w1.kept = {} /\ w1.todo = {}
      /\ w1.half = {}
  BY IdleIsARequest, WithStep DEF Steps
<1> HIDE DEF w1
<1>4. /\ w2 \in Request /\ w2.step = "look" /\ w2.op = op /\ w2.files = {} /\ w2.kept = {}
      /\ w2.half = {}
  BY <1>3, WithOp DEF Ops, Deleting
<1> HIDE DEF w2
<1>5. /\ w3 \in Request /\ w3.step = "look" /\ w3.op = op /\ w3.on = on /\ w3.files = {}
      /\ w3.kept = {} /\ w3.half = {}
  BY <1>4, WithOn
<1> HIDE DEF w3
<1>6. /\ w4 \in Request /\ w4.step = "look" /\ w4.op = op /\ w4.on = on /\ w4.files = {}
      /\ w4.kept = {} /\ w4.half = {} /\ w4.todo = F
  BY <1>5, WithTodo
<1>7. req' = [req EXCEPT ![r] = w4] /\ used' \in 0..MaxOps
  BY StoredFilesAssumption DEF Delete, Begin, Count, TypeOK, w1, w2, w3
<1> HIDE DEF w4
<1>8. req' \in [Requests -> Request] /\ req'[r] = w4 /\ Others(r)
  BY <1>6, <1>7, OneRequest DEF TypeOK
<1>9. op \notin {"none", "thumb"} /\ op \notin Uploading /\ op \notin Attaching /\ op \notin Replacing
  BY DEF Uploading, Attaching, Replacing, Deleting
<1>10. Shaped(w4)
  BY <1>6, <1>9 DEF Shaped, Before
<1>11. UNCHANGED <<tables, stored, linked, uploads, history>> /\ req[r].step = "idle"
  BY DEF Delete, Begin, At
<1> QED
  BY <1>6, <1>7, <1>8, <1>10, <1>11 DEF DeleteBegins, Aside, Typed, tables, history, TypeOK

LEMMA IdleIsShaped == Shaped(Idle)
BY IdleIsARequest DEF Shaped, Before, Attaching, Replacing, Uploading, Deleting

SomeFiles(F) == F \subseteq Files

\* A request that only removes, or is done.
LEMMA RemovingFields ==
  ASSUME NEW r \in Requests, req[r].op \in Ops \ {"none", "thumb"},
         NEW T, SomeFiles(T), NEW H, SomeFiles(H), NEW w, w = Removing(r, T, H)
  PROVE  /\ w \in Request /\ Shaped(w) /\ w.files = {} /\ w.kept = {} /\ w.todo = T /\ w.half = H
         /\ w.step \in {"idle", "remove"} /\ (T \cup H # {} => w.step = "remove")
         /\ w.op # "thumb"
<1> DEFINE w1 == [Idle EXCEPT !.step = "remove"]
           w2 == [w1 EXCEPT !.op = req[r].op]
           w3 == [w2 EXCEPT !.todo = T]
           w4 == [w3 EXCEPT !.half = H]
<1>1. w1 \in Request /\ w1.step = "remove" /\ w1.files = {} /\ w1.kept = {}
  BY IdleIsARequest, WithStep DEF Steps
<1> HIDE DEF w1
<1>2. w2 \in Request /\ w2.step = "remove" /\ w2.op = req[r].op /\ w2.files = {} /\ w2.kept = {}
  BY <1>1, WithOp
<1> HIDE DEF w2
<1>3. /\ w3 \in Request /\ w3.step = "remove" /\ w3.op = req[r].op /\ w3.files = {} /\ w3.kept = {}
      /\ w3.todo = T
  BY <1>2, WithTodo DEF SomeFiles
<1> HIDE DEF w3
<1>4. /\ w4 \in Request /\ w4.step = "remove" /\ w4.op = req[r].op /\ w4.files = {} /\ w4.kept = {}
      /\ w4.todo = T /\ w4.half = H
  BY <1>3, WithHalf DEF SomeFiles
<1>5. Removing(r, T, H) = IF T \cup H = {} THEN Idle ELSE w4
  BY DEF Removing, w1, w2, w3
<1> HIDE DEF w4
<1>6. Shaped(w4)
  BY <1>4 DEF Shaped, Before
<1>7. CASE T \cup H = {}
  <2>1. w = Idle /\ T = {} /\ H = {}
    BY <1>5, <1>7
  <2> QED BY <2>1, <1>7, IdleIsARequest, IdleIsShaped
<1>8. CASE T \cup H # {}
  <2>1. w = w4
    BY <1>5, <1>8
  <2>2. w4.op # "thumb"
    BY <1>4
  <2> QED BY <1>4, <1>6, <2>1, <2>2
<1> QED BY <1>7, <1>8

\* The step of r changes and nothing else of it.
LEMMA StepEffect ==
  ASSUME TypeOK, NEW r \in Requests, NEW x \in Steps,
         req' = [req EXCEPT ![r].step = x]
  PROVE  /\ Typed /\ Others(r) /\ SameFiles(r) /\ req'[r].step = x
         /\ req'[r].kept = req[r].kept /\ req'[r].todo = req[r].todo
<1> DEFINE w == [req[r] EXCEPT !.step = x]
<1>1. req[r] \in Request
  BY DEF TypeOK
<1>2. /\ w \in Request /\ w.step = x /\ w.op = req[r].op /\ w.on = req[r].on
      /\ w.files = req[r].files /\ w.kept = req[r].kept /\ w.todo = req[r].todo
      /\ w.half = req[r].half /\ w.behind = req[r].behind
  BY <1>1, WithStep
<1>3. req' = [req EXCEPT ![r] = w]
  BY DEF TypeOK
<1> HIDE DEF w
<1> QED BY <1>2, <1>3, OneRequest DEF TypeOK, Typed, SameFiles

\* An upload is looked at: it will be stored, or discarded.
Verifies(r) ==
  /\ Aside(r) /\ UNCHANGED <<missed, uploads, stored>>
  /\ SameFiles(r) /\ req[r].step = "parked" /\ req'[r].step \in {"store", "discard"}
  /\ req'[r].kept = {} /\ req'[r].todo = {}

LEMMA VerifyEffect ==
  ASSUME TypeOK, AllShaped, NEW r \in Requests, VerifyFileContents(r)
  PROVE  Verifies(r)
<1>1. PICK x \in {"store", "discard"} : req' = [req EXCEPT ![r].step = x]
  BY DEF VerifyFileContents
<1>2. req[r].step = "parked" /\ UNCHANGED <<tables, stored, linked, uploads, used, history>>
  BY DEF VerifyFileContents, At
<1>3. /\ Typed /\ Others(r) /\ SameFiles(r) /\ req'[r].step = x
      /\ req'[r].kept = req[r].kept /\ req'[r].todo = req[r].todo
  BY <1>1, StepEffect DEF Steps
<1>4. Shaped(req[r])
  BY DEF AllShaped
<1>5. /\ req[r].op \in Uploading /\ req[r].kept = {} /\ req[r].todo = {} /\ req[r].half = {}
      /\ Batch(req[r])
  BY <1>2, <1>4 DEF Shaped, Batch, Before
<1>6. Batch(req'[r])
  <2>1. PICK a, b \in Files : a <= b /\ req[r].files = a..b
    BY <1>5 DEF Batch
  <2>2. a \in a..b /\ {} = a..(a - 1) /\ a \in Nat /\ b \in Nat
    BY <2>1 DEF Files
  <2> QED BY <1>3, <1>5, <2>1, <2>2 DEF Batch, SameFiles
<1>7. Shaped(req'[r])
  <2>1. req[r].op \notin {"none", "thumb"} /\ req[r].op \notin Deleting
    BY <1>5 DEF Uploading, Attaching, Replacing, Deleting
  <2> QED
    BY <1>2, <1>3, <1>4, <1>5, <1>6, <2>1 DEF Shaped, SameFiles, Before
<1> QED BY <1>2, <1>3, <1>5, <1>7 DEF Verifies, Aside, tables, history, TypeOK

\* One file of an upload is put; its temporary copy goes, or is left behind.
Persists(r) ==
  /\ Aside(r) /\ uploads' = uploads
  /\ SameFiles(r) /\ req[r].step = "store" /\ req[r].op \in Uploading
  /\ req'[r].step \in {"store", "look"} /\ req'[r].todo = {}
  /\ \E f \in req[r].files :
       /\ req'[r].kept = req[r].kept \cup {f}
       /\ missed \subseteq missed' /\ missed' \subseteq missed \cup {<<"tmp", f>>}
       /\ \/ stored' = (stored \cup {<<"object", f>>}) \ {<<"tmp", f>>}
          \/ stored' = stored \cup {<<"object", f>>} /\ <<"tmp", f>> \in missed'

LEMMA PersistEffect ==
  ASSUME TypeOK, AllShaped, NEW r \in Requests, PersistUpload(r)
  PROVE  Persists(r)
<1> DEFINE f == Min(req[r].files \ req[r].kept)
           last == f = Max(req[r].files)
           w1 == [req[r] EXCEPT !.kept = @ \cup {f}]
           w2 == [w1 EXCEPT !.step = IF last THEN "look" ELSE "store"]
<1>1. req[r].step = "store" /\ UNCHANGED <<tables, linked, uploads, unsure>>
  BY DEF PersistUpload, At
<1>2. Shaped(req[r]) /\ req[r] \in Request
  BY DEF AllShaped, TypeOK
<1>3. req[r].op \in Uploading /\ req[r].todo = {} /\ req[r].half = {} /\ Batch(req[r])
  BY <1>1, <1>2 DEF Shaped, Before
<1>4. PICK a, b \in Files : a <= b /\ req[r].files = a..b /\ \E k \in a..b : req[r].kept = a..(k - 1)
  BY <1>1, <1>3 DEF Batch
<1>5. PICK k \in a..b : req[r].kept = a..(k - 1)
  BY <1>4
<1>6. a \in Nat /\ b \in Nat /\ k \in Nat /\ k <= b /\ a <= k
  BY <1>5 DEF Files
<1>7. f = k /\ Max(req[r].files) = b
  <2>1. req[r].files \ req[r].kept = k..b
    BY <1>4, <1>5, <1>6
  <2> QED BY <1>4, <1>6, <2>1, FirstOfRange
<1>8. f \in req[r].files /\ f \in Files /\ req[r].kept \cup {f} = a..k
  <2>1. k \in a..b /\ a..(k - 1) \cup {k} = a..k
    BY <1>5, <1>6
  <2>2. req[r].files \subseteq Files
    BY <1>2, RequestFields
  <2> HIDE DEF f
  <2> QED BY <1>4, <1>5, <1>7, <2>1, <2>2
<1>9. /\ w1 \in Request /\ w1.step = "store" /\ w1.op = req[r].op /\ w1.on = req[r].on
      /\ w1.files = req[r].files /\ w1.kept = req[r].kept \cup {f} /\ w1.todo = req[r].todo
      /\ w1.half = req[r].half /\ w1.behind = req[r].behind
  <2>1. req[r].kept \cup {f} \in SUBSET Files
    BY <1>2, <1>8, RequestFields
  <2> HIDE DEF f
  <2> QED BY <1>1, <1>2, <2>1, WithKept
<1> HIDE DEF w1
<1>10. /\ w2 \in Request /\ w2.step = (IF last THEN "look" ELSE "store") /\ w2.op = req[r].op
       /\ w2.on = req[r].on /\ w2.files = req[r].files /\ w2.kept = req[r].kept \cup {f}
       /\ w2.todo = req[r].todo /\ w2.half = req[r].half /\ w2.behind = req[r].behind
  <2> HIDE DEF last
  <2>1. (IF last THEN "look" ELSE "store") \in Steps
    BY DEF Steps
  <2> HIDE DEF f
  <2> QED BY <1>9, <2>1, WithStep
<1>11. req' = [req EXCEPT ![r] = w2]
  BY DEF PersistUpload, w1, TypeOK
<1>12. /\ missed \subseteq missed' /\ missed' \subseteq missed \cup {<<"tmp", f>>}
       /\ \/ stored' = (stored \cup {<<"object", f>>}) \ {<<"tmp", f>>}
          \/ stored' = stored \cup {<<"object", f>>} /\ <<"tmp", f>> \in missed'
  BY DEF PersistUpload, Put
<1>a. used' \in 0..MaxOps
  <2>1. UNCHANGED used \/ Count
    BY DEF PersistUpload
  <2> QED BY <2>1, StoredFilesAssumption DEF Count, TypeOK
<1> HIDE DEF w2, f
<1>13. Typed /\ Others(r) /\ req'[r] = w2
  BY <1>10, <1>11, OneRequest DEF TypeOK, Typed
<1>14. last => f = b
  BY <1>7
<1>15. ~last => k + 1 \in a..b /\ req[r].kept \cup {f} = a..((k + 1) - 1)
  BY <1>4, <1>6, <1>7, <1>8
<1>16. last => req[r].kept \cup {f} = req[r].files
  BY <1>4, <1>7, <1>8, <1>14
<1> HIDE DEF last
<1>17. Batch(w2)
  BY <1>4, <1>10, <1>15, <1>16 DEF Batch
<1>18. Shaped(w2)
  <2>1. req[r].op \notin {"none", "thumb"} /\ req[r].op \notin Deleting
    BY <1>3 DEF Uploading, Attaching, Replacing, Deleting
  <2> QED
    BY <1>1, <1>2, <1>3, <1>10, <1>17, <2>1 DEF Shaped, Before
<1> QED
  BY <1>1, <1>3, <1>8, <1>10, <1>12, <1>a, <1>13, <1>18
  DEF Persists, Aside, SameFiles, tables, TypeOK

\* A put fails, and may have worked all the same; the upload will be discarded.
FailsToPut(r) ==
  /\ Aside(r) /\ uploads' = uploads
  /\ SameFiles(r) /\ req[r].step = "store" /\ req[r].op \in Uploading
  /\ req'[r].step = "discard" /\ req'[r].kept = req[r].kept /\ req'[r].todo = {}
  /\ \E f \in Files :
       /\ missed \subseteq missed' /\ missed' \subseteq missed \cup {<<"object", f>>}
       /\ stored \subseteq stored' /\ stored' \subseteq stored \cup {<<"object", f>>}
       /\ stored' # stored => <<"object", f>> \in missed'

LEMMA PutFailsEffect ==
  ASSUME TypeOK, AllShaped, NEW r \in Requests, PutFails(r)
  PROVE  FailsToPut(r)
<1> DEFINE f == Min(req[r].files \ req[r].kept)
<1>1. /\ req[r].step = "store" /\ UNCHANGED <<tables, linked, uploads, unsure>>
      /\ req' = [req EXCEPT ![r].step = "discard"] /\ Count
  BY DEF PutFails, At
<1>2. Shaped(req[r]) /\ req[r] \in Request
  BY DEF AllShaped, TypeOK
<1>3. req[r].op \in Uploading /\ req[r].todo = {} /\ req[r].half = {} /\ Batch(req[r])
  BY <1>1, <1>2 DEF Shaped, Before
<1>4. PICK a, b \in Files : a <= b /\ req[r].files = a..b /\ \E k \in a..b : req[r].kept = a..(k - 1)
  BY <1>1, <1>3 DEF Batch
<1>5. PICK k \in a..b : req[r].kept = a..(k - 1)
  BY <1>4
<1>6. a \in Nat /\ b \in Nat /\ k \in Nat /\ k <= b /\ a <= k
  BY <1>5 DEF Files
<1>7. f = k
  <2>1. req[r].files \ req[r].kept = k..b
    BY <1>4, <1>5, <1>6
  <2> QED BY <1>6, <2>1, FirstOfRange
<1>8. f \in Files
  <2>1. req[r].files \subseteq Files
    BY <1>2, RequestFields
  <2> HIDE DEF f
  <2> QED BY <1>4, <1>5, <1>7, <2>1
<1>9. /\ missed \subseteq missed' /\ missed' \subseteq missed \cup {<<"object", f>>}
      /\ stored \subseteq stored' /\ stored' \subseteq stored \cup {<<"object", f>>}
      /\ stored' # stored => <<"object", f>> \in missed'
  BY DEF PutFails, Put
<1> HIDE DEF f
<1>10. /\ Typed /\ Others(r) /\ SameFiles(r) /\ req'[r].step = "discard"
       /\ req'[r].kept = req[r].kept /\ req'[r].todo = req[r].todo
  BY <1>1, StepEffect DEF Steps
<1>11. Batch(req'[r])
  BY <1>4, <1>5, <1>6, <1>10 DEF Batch, SameFiles
<1>12. Shaped(req'[r])
  <2>1. req[r].op \notin {"none", "thumb"} /\ req[r].op \notin Deleting
    BY <1>3 DEF Uploading, Attaching, Replacing, Deleting
  <2> QED
    BY <1>3, <1>10, <1>11, <2>1 DEF Shaped, SameFiles, Before
<1>13. used' \in 0..MaxOps
  BY <1>1, StoredFilesAssumption DEF Count, TypeOK
<1> QED
  BY <1>1, <1>3, <1>8, <1>9, <1>10, <1>12, <1>13 DEF FailsToPut, Aside, tables, TypeOK

\* The temporary files go, and the objects will.
Discards(r) ==
  /\ Aside(r) /\ UNCHANGED <<missed, uploads>>
  /\ stored' = stored \ ({"tmp"} \X req[r].files)
  /\ req[r].step = "discard" /\ req[r].op \in Uploading
  /\ req'[r].files = {} /\ req'[r].kept = {} /\ req'[r].half = {} /\ req'[r].todo = req[r].kept
  /\ req[r].kept \subseteq req[r].files
  /\ req'[r].step \in {"idle", "remove"} /\ (req[r].kept # {} => req'[r].step = "remove")

LEMMA DiscardEffect ==
  ASSUME TypeOK, AllShaped, NEW r \in Requests, DiscardUploads(r)
  PROVE  Discards(r)
<1>1. /\ req[r].step = "discard" /\ UNCHANGED <<tables, linked, uploads, used, history>>
      /\ req' = [req EXCEPT ![r] = Removing(r, req[r].kept, {})] /\ stored' = stored \ ({"tmp"} \X req[r].files)
  BY DEF DiscardUploads, At
<1>2. Shaped(req[r]) /\ req[r] \in Request
  BY DEF AllShaped, TypeOK
<1>3. req[r].op \in Uploading /\ Batch(req[r]) /\ req[r].kept \subseteq Files
  BY <1>1, <1>2, RequestFields DEF Shaped, Before
<1>4. req[r].kept \subseteq req[r].files
  BY <1>1, <1>3 DEF Batch
<1>5. req[r].op \in Ops \ {"none", "thumb"}
  BY <1>3 DEF Ops, Uploading, Attaching, Replacing
<1> DEFINE N == {}
<1> DEFINE w == Removing(r, req[r].kept, N)
<1>0. N = {} /\ w = Removing(r, req[r].kept, N)
  OBVIOUS
<1>b. req' = [req EXCEPT ![r] = w]
  BY <1>1
<1> HIDE DEF w, N
<1>6. /\ w \in Request /\ Shaped(w) /\ w.files = {} /\ w.kept = {} /\ w.todo = req[r].kept
      /\ w.half = {} /\ w.step \in {"idle", "remove"} /\ (req[r].kept # {} => w.step = "remove")
  <2>1. SomeFiles(N) /\ SomeFiles(req[r].kept) /\ req[r].kept \cup N = req[r].kept
    BY <1>0, <1>3 DEF SomeFiles
  <2> QED BY <1>0, <1>5, <2>1, RemovingFields
<1>7. Typed /\ Others(r) /\ req'[r] = w
  BY <1>b, <1>6, OneRequest DEF TypeOK, Typed
<1> QED BY <1>1, <1>3, <1>4, <1>6, <1>7 DEF Discards, Aside, tables, history, TypeOK

\* r gives up.
GivesUp(r) == Aside(r) /\ uploads' = uploads /\ stored' = stored /\ req'[r] = Idle

LEMMA HangUpEffect ==
  ASSUME TypeOK, NEW r \in Requests, HangUp(r)
  PROVE  /\ GivesUp(r) /\ req[r].step = "discard"
         /\ missed' = missed \cup ({"tmp", "object"} \X req[r].files)
<1>1. /\ req[r].step = "discard" /\ UNCHANGED <<tables, stored, linked, uploads, unsure>>
      /\ req' = [req EXCEPT ![r] = Idle] /\ Count
      /\ missed' = missed \cup ({"tmp", "object"} \X req[r].files)
  BY DEF HangUp, At
<1>2. Typed /\ Others(r) /\ req'[r] = Idle
  BY <1>1, IdleIsARequest, OneRequest DEF TypeOK, Typed
<1>3. used' \in 0..MaxOps
  BY <1>1, StoredFilesAssumption DEF Count, TypeOK
<1> QED BY <1>1, <1>2, <1>3, IdleIsShaped DEF GivesUp, Aside, tables, TypeOK

\* A refused upload will be discarded; anything else is over.
Refuses(r) ==
  /\ Aside(r) /\ UNCHANGED <<missed, uploads, stored>>
  /\ req[r].step \in {"look", "write"}
  /\ \/ /\ req[r].op \in Uploading /\ SameFiles(r)
        /\ req'[r].step = "discard" /\ req'[r].kept = req[r].kept /\ req'[r].todo = {}
     \/ req[r].op \notin Uploading /\ req'[r] = Idle

LEMMA RefusedFields ==
  ASSUME TypeOK, AllShaped, NEW r \in Requests, req[r].step \in {"look", "write"}, 
         req[r].op \in Uploading
  PROVE  LET w == [req[r] EXCEPT !.step = "discard", !.todo = {}] IN
           /\ w \in Request /\ Shaped(w) /\ w.step = "discard" /\ w.op = req[r].op
           /\ w.on = req[r].on /\ w.files = req[r].files /\ w.kept = req[r].kept
           /\ w.todo = {} /\ w.half = req[r].half /\ w.behind = req[r].behind
<1> DEFINE w1 == [req[r] EXCEPT !.step = "discard"]
           w2 == [w1 EXCEPT !.todo = {}]
<1>1. Shaped(req[r]) /\ req[r] \in Request
  BY DEF AllShaped, TypeOK
<1>2. /\ w1 \in Request /\ w1.step = "discard" /\ w1.op = req[r].op /\ w1.on = req[r].on
      /\ w1.files = req[r].files /\ w1.kept = req[r].kept
      /\ w1.half = req[r].half /\ w1.behind = req[r].behind
  BY <1>1, WithStep DEF Steps
<1> HIDE DEF w1
<1>3. /\ w2 \in Request /\ w2.step = "discard" /\ w2.op = req[r].op /\ w2.on = req[r].on
      /\ w2.files = req[r].files /\ w2.kept = req[r].kept /\ w2.todo = {}
      /\ w2.half = req[r].half /\ w2.behind = req[r].behind
  BY <1>2, WithTodo
<1>4. w2 = [req[r] EXCEPT !.step = "discard", !.todo = {}]
  BY DEF w1
<1> HIDE DEF w2
<1>5. Batch(req[r]) /\ req[r].half = {}
  BY <1>1 DEF Shaped, Before
<1>6. Batch(w2)
  BY <1>3, <1>5 DEF Batch
<1>7. req[r].op \notin {"none", "thumb"} /\ req[r].op \notin Deleting
  BY DEF Uploading, Attaching, Replacing, Deleting
<1>8. Shaped(w2)
  BY <1>3, <1>5, <1>6, <1>7 DEF Shaped, Before
<1> QED BY <1>3, <1>4, <1>8

LEMMA RefusalEffect ==
  ASSUME TypeOK, AllShaped, NEW r \in Requests, req[r].step \in {"look", "write"}, Refused(r),
         UNCHANGED <<tables, stored, linked, uploads, history>>, used' \in 0..MaxOps
  PROVE  Refuses(r)
<1>1. CASE req[r].op \in Uploading
  <2> DEFINE w == [req[r] EXCEPT !.step = "discard", !.todo = {}]
  <2>1. req' = [req EXCEPT ![r] = w]
    BY <1>1 DEF Refused, TypeOK
  <2>2. /\ w \in Request /\ Shaped(w) /\ w.step = "discard" /\ w.op = req[r].op
        /\ w.on = req[r].on /\ w.files = req[r].files /\ w.kept = req[r].kept
        /\ w.todo = {} /\ w.half = req[r].half /\ w.behind = req[r].behind
    BY <1>1, RefusedFields
  <2> HIDE DEF w
  <2>3. Typed /\ Others(r) /\ req'[r] = w
    BY <2>1, <2>2, OneRequest DEF TypeOK, Typed
  <2> QED BY <1>1, <2>2, <2>3 DEF Refuses, Aside, SameFiles, tables, history, TypeOK
<1>2. CASE req[r].op \notin Uploading
  <2>1. req' = [req EXCEPT ![r] = Idle]
    BY <1>2 DEF Refused, TypeOK
  <2>2. Typed /\ Others(r) /\ req'[r] = Idle
    BY <2>1, IdleIsARequest, OneRequest DEF TypeOK, Typed
  <2> QED BY <1>2, <2>2, IdleIsShaped DEF Refuses, Aside, tables, history, TypeOK
<1> QED BY <1>1, <1>2

\* r has looked, and knows what is to be removed.
Plans(r) ==
  /\ Aside(r) /\ UNCHANGED <<missed, uploads, stored>>
  /\ SameFiles(r) /\ req[r].step = "look" /\ req'[r].step = "write"
  /\ req'[r].kept = req[r].kept /\ req'[r].todo = FilesToRemove(r)

LEMMA LookEffect ==
  ASSUME TypeOK, AllShaped, NEW r \in Requests, Look(r)
  PROVE  Plans(r) \/ Refuses(r)
<1>1. /\ req[r].step = "look" /\ UNCHANGED <<tables, stored, linked, uploads, used, history>>
      /\ \/ req' = [req EXCEPT ![r].step = "write", ![r].todo = FilesToRemove(r)]
         \/ Refused(r)
  BY DEF Look, At
<1>2. CASE Refused(r)
  BY <1>1, <1>2, RefusalEffect DEF TypeOK
<1>3. CASE req' = [req EXCEPT ![r].step = "write", ![r].todo = FilesToRemove(r)]
  <2> DEFINE w1 == [req[r] EXCEPT !.step = "write"]
             w2 == [w1 EXCEPT !.todo = FilesToRemove(r)]
  <2>1. Shaped(req[r]) /\ req[r] \in Request
    BY DEF AllShaped, TypeOK
  <2>2. req[r].todo \in SUBSET Files /\ req[r].on \in SUBSET Owners
    BY <2>1, RequestFields
  <2>3. FilesToRemove(r) \in SUBSET Files
    BY <2>2 DEF FilesToRemove, Listed, TypeOK
  <2>4. /\ w1 \in Request /\ w1.step = "write" /\ w1.op = req[r].op /\ w1.on = req[r].on
        /\ w1.files = req[r].files /\ w1.kept = req[r].kept
        /\ w1.half = req[r].half /\ w1.behind = req[r].behind
    BY <2>1, WithStep DEF Steps
  <2>5. req' = [req EXCEPT ![r] = w2]
    BY <1>3 DEF TypeOK, w1
  <2> HIDE DEF w1
  <2>6. /\ w2 \in Request /\ w2.step = "write" /\ w2.op = req[r].op /\ w2.on = req[r].on
        /\ w2.files = req[r].files /\ w2.kept = req[r].kept /\ w2.todo = FilesToRemove(r)
        /\ w2.half = req[r].half /\ w2.behind = req[r].behind
    BY <2>3, <2>4, WithTodo
  <2> HIDE DEF w2
  <2>7. Typed /\ Others(r) /\ req'[r] = w2
    BY <2>5, <2>6, OneRequest DEF TypeOK, Typed
  <2>8. req[r].op \in Uploading => Batch(req[r]) /\ Batch(w2)
    BY <1>1, <2>1, <2>6 DEF Shaped, Before, Batch
  <2>9. req[r].op \in Attaching => FilesToRemove(r) = {}
    <3>1. req[r].op \in Attaching => req[r].op \notin {"deleteOwner"} \cup Replacing
      BY DEF Attaching, Replacing
    <3> QED BY <1>1, <2>1, <3>1 DEF Shaped, FilesToRemove, Uploading
  <2>10. Shaped(w2)
    BY <1>1, <2>1, <2>6, <2>8, <2>9 DEF Shaped, Before
  <2> QED BY <1>1, <2>6, <2>7, <2>10 DEF Plans, Aside, SameFiles, tables, history, TypeOK
<1> QED BY <1>1, <1>2, <1>3

LEMMA WriteFailsEffect ==
  ASSUME TypeOK, AllShaped, NEW r \in Requests, WriteFails(r)
  PROVE  Refuses(r)
<1>1. /\ req[r].step = "write" /\ Refused(r) /\ UNCHANGED <<tables, stored, linked, uploads, history>>
      /\ Count \/ UNCHANGED used
  BY DEF WriteFails, At
<1>2. used' \in 0..MaxOps
  BY <1>1, StoredFilesAssumption DEF Count, TypeOK
<1> QED BY <1>1, <1>2, RefusalEffect

\* An object is removed, its thumbnail comes next.
RemovesObject(r) ==
  /\ Aside(r) /\ UNCHANGED <<missed, uploads>>
  /\ req[r].step = "remove" /\ req'[r].step = "remove"
  /\ req'[r].files = {} /\ req'[r].kept = {} /\ req'[r].op = req[r].op
  /\ \E f \in req[r].todo :
       /\ stored' = stored \ {<<"object", f>>}
       /\ req'[r].todo = req[r].todo \ {f} /\ req'[r].half = req[r].half \cup {f}

LEMMA RemoveObjectEffect ==
  ASSUME TypeOK, AllShaped, NEW r \in Requests, RemoveObject(r)
  PROVE  RemovesObject(r)
<1>1. PICK f \in req[r].todo :
        /\ req[r].step = "remove" /\ UNCHANGED <<tables, linked, uploads, used, history>>
        /\ stored' = stored \ {<<"object", f>>}
        /\ req' = [req EXCEPT ![r].todo = @ \ {f}, ![r].half = @ \cup {f}]
  BY DEF RemoveObject, At, Remove
<1> DEFINE w1 == [req[r] EXCEPT !.todo = @ \ {f}]
           w2 == [w1 EXCEPT !.half = @ \cup {f}]
<1>2. Shaped(req[r]) /\ req[r] \in Request
  BY DEF AllShaped, TypeOK
<1>3. /\ req[r].todo \ {f} \in SUBSET Files /\ req[r].half \cup {f} \in SUBSET Files
      /\ req[r].op \in Ops
  BY <1>2, RequestFields
<1>4. /\ w1 \in Request /\ w1.step = "remove" /\ w1.op = req[r].op /\ w1.files = req[r].files
      /\ w1.kept = req[r].kept /\ w1.todo = req[r].todo \ {f} /\ w1.half = req[r].half
  BY <1>1, <1>2, <1>3, WithTodo
<1> HIDE DEF w1
<1>5. /\ w2 \in Request /\ w2.step = "remove" /\ w2.op = req[r].op /\ w2.files = req[r].files
      /\ w2.kept = req[r].kept /\ w2.todo = req[r].todo \ {f} /\ w2.half = req[r].half \cup {f}
  BY <1>3, <1>4, WithHalf
<1>6. req' = [req EXCEPT ![r] = w2]
  BY <1>1 DEF w1, TypeOK
<1> HIDE DEF w2
<1>7. Typed /\ Others(r) /\ req'[r] = w2
  BY <1>5, <1>6, OneRequest DEF TypeOK, Typed
<1>8. req[r].files = {} /\ req[r].kept = {} /\ req[r].op \notin {"none", "thumb"}
  BY <1>1, <1>2 DEF Shaped, Before
<1>9. Shaped(w2)
  BY <1>5, <1>8 DEF Shaped, Before
<1> QED BY <1>1, <1>5, <1>7, <1>8, <1>9 DEF RemovesObject, Aside, tables, history, TypeOK

\* A thumbnail is removed; one that is being made may come after it.
RemovesThumbnail(r) ==
  /\ Aside(r) /\ UNCHANGED uploads
  /\ req[r].step = "remove" /\ req'[r].step \in {"idle", "remove"}
  /\ req'[r].files = {} /\ req'[r].kept = {} /\ req'[r].op # "thumb"
  /\ \E f \in req[r].half :
       /\ stored' = stored \ {<<"thumb", f>>}
       /\ missed' = IF Making(f) THEN missed \cup {<<"thumb", f>>} ELSE missed
       /\ req'[r].todo = req[r].todo /\ req'[r].half = req[r].half \ {f}
  /\ req'[r].todo \cup req'[r].half # {} => req'[r].step = "remove"

\* A removal fails, or worked unanswered.
FailsToRemove(r) ==
  /\ Aside(r) /\ UNCHANGED uploads
  /\ req[r].step = "remove" /\ req'[r].step \in {"idle", "remove"}
  /\ req'[r].files = {} /\ req'[r].kept = {} /\ req'[r].op # "thumb"
  /\ \/ \E f \in req[r].todo :
          /\ stored' \in {stored, stored \ {<<"object", f>>}}
          /\ missed' = missed \cup ({"object", "thumb"} \X {f})
          /\ req'[r].todo = req[r].todo \ {f} /\ req'[r].half = req[r].half
     \/ \E f \in req[r].half :
          /\ stored' \in {stored, stored \ {<<"thumb", f>>}}
          /\ missed' = missed \cup {<<"thumb", f>>}
          /\ req'[r].todo = req[r].todo /\ req'[r].half = req[r].half \ {f}
  /\ req'[r].todo \cup req'[r].half # {} => req'[r].step = "remove"

\* What is left to remove, T and H.
LEMMA RemovingEffect ==
  ASSUME TypeOK, AllShaped, NEW r \in Requests, req[r].step = "remove",
         NEW T, SomeFiles(T), NEW H, SomeFiles(H),
         NEW w, w = Removing(r, T, H), req' = [req EXCEPT ![r] = w]
  PROVE  /\ Typed /\ Others(r) /\ Shaped(req'[r]) /\ req'[r].step \in {"idle", "remove"}
         /\ req'[r].files = {} /\ req'[r].kept = {} /\ req'[r].op # "thumb"
         /\ req'[r].todo = T /\ req'[r].half = H
         /\ (T \cup H # {} => req'[r].step = "remove")
<1>1. Shaped(req[r]) /\ req[r] \in Request
  BY DEF AllShaped, TypeOK
<1>2. req[r].op \in Ops
  BY <1>1, RequestFields
<1>3. req[r].op \in Ops \ {"none", "thumb"}
  BY <1>1, <1>2 DEF Shaped
<1>4. /\ w \in Request /\ Shaped(w) /\ w.files = {} /\ w.kept = {} /\ w.todo = T /\ w.half = H
      /\ w.step \in {"idle", "remove"} /\ (T \cup H # {} => w.step = "remove") /\ w.op # "thumb"
  BY <1>3, RemovingFields
<1>5. Typed /\ Others(r) /\ req'[r] = w
  BY <1>4, OneRequest DEF TypeOK, Typed
<1> QED BY <1>4, <1>5

LEMMA RemoveThumbnailEffect ==
  ASSUME TypeOK, AllShaped, NEW r \in Requests, RemoveThumbnail(r)
  PROVE  RemovesThumbnail(r)
<1>1. PICK f \in req[r].half :
        /\ UNCHANGED <<tables, linked, uploads, used, unsure>>
        /\ stored' = stored \ {<<"thumb", f>>}
        /\ missed' = IF Making(f) THEN missed \cup {<<"thumb", f>>} ELSE missed
        /\ req' = [req EXCEPT ![r] = Removing(r, req[r].todo, req[r].half \ {f})]
  BY DEF RemoveThumbnail, Remove, TypeOK
<1>2. req[r].step = "remove"
  <2>1. Shaped(req[r]) /\ req[r].half # {}
    BY <1>1 DEF AllShaped
  <2> QED BY <2>1 DEF Shaped
<1>3. PICK T, H : T = req[r].todo /\ H = req[r].half \ {f}
  OBVIOUS
<1>4. SomeFiles(T) /\ SomeFiles(H)
  BY <1>3, RequestFields DEF SomeFiles, TypeOK
<1>5. PICK w : w = Removing(r, T, H) /\ req' = [req EXCEPT ![r] = w]
  BY <1>1, <1>3
<1>6. /\ Typed /\ Others(r) /\ Shaped(req'[r]) /\ req'[r].step \in {"idle", "remove"}
      /\ req'[r].files = {} /\ req'[r].kept = {} /\ req'[r].op # "thumb"
      /\ req'[r].todo = T /\ req'[r].half = H
      /\ (T \cup H # {} => req'[r].step = "remove")
  BY <1>2, <1>4, <1>5, RemovingEffect
<1> QED BY <1>1, <1>2, <1>3, <1>6 DEF RemovesThumbnail, Aside, tables, TypeOK

LEMMA RemoveFailsEffect ==
  ASSUME TypeOK, AllShaped, NEW r \in Requests, RemoveFails(r)
  PROVE  FailsToRemove(r)
<1>1. /\ req[r].step = "remove" /\ UNCHANGED <<tables, linked, uploads, unsure>>
      /\ used' \in 0..MaxOps
  BY StoredFilesAssumption DEF RemoveFails, At, Count, TypeOK
<1>2. ASSUME NEW f \in req[r].todo,
             req' = [req EXCEPT ![r] = Removing(r, req[r].todo \ {f}, req[r].half)],
             stored' \in {stored, stored \ {<<"object", f>>}},
             missed' = missed \cup ({"object", "thumb"} \X {f})
      PROVE  FailsToRemove(r)
  <2>1. PICK T, H : T = req[r].todo \ {f} /\ H = req[r].half
    OBVIOUS
  <2>2. SomeFiles(T) /\ SomeFiles(H)
    BY <2>1, RequestFields DEF SomeFiles, TypeOK
  <2>3. PICK w : w = Removing(r, T, H) /\ req' = [req EXCEPT ![r] = w]
    BY <1>2, <2>1
  <2>4. /\ Typed /\ Others(r) /\ Shaped(req'[r]) /\ req'[r].step \in {"idle", "remove"}
        /\ req'[r].files = {} /\ req'[r].kept = {} /\ req'[r].op # "thumb"
        /\ req'[r].todo = T /\ req'[r].half = H
        /\ (T \cup H # {} => req'[r].step = "remove")
    BY <1>1, <2>2, <2>3, RemovingEffect
  <2> QED BY <1>1, <1>2, <2>1, <2>4 DEF FailsToRemove, Aside, tables, TypeOK
<1>3. ASSUME NEW f \in req[r].half,
             req' = [req EXCEPT ![r] = Removing(r, req[r].todo, req[r].half \ {f})],
             stored' \in {stored, stored \ {<<"thumb", f>>}},
             missed' = missed \cup {<<"thumb", f>>}
      PROVE  FailsToRemove(r)
  <2>1. PICK T, H : T = req[r].todo /\ H = req[r].half \ {f}
    OBVIOUS
  <2>2. SomeFiles(T) /\ SomeFiles(H)
    BY <2>1, RequestFields DEF SomeFiles, TypeOK
  <2>3. PICK w : w = Removing(r, T, H) /\ req' = [req EXCEPT ![r] = w]
    BY <1>3, <2>1
  <2>4. /\ Typed /\ Others(r) /\ Shaped(req'[r]) /\ req'[r].step \in {"idle", "remove"}
        /\ req'[r].files = {} /\ req'[r].kept = {} /\ req'[r].op # "thumb"
        /\ req'[r].todo = T /\ req'[r].half = H
        /\ (T \cup H # {} => req'[r].step = "remove")
    BY <1>1, <2>2, <2>3, RemovingEffect
  <2> QED BY <1>1, <1>3, <2>1, <2>4 DEF FailsToRemove, Aside, tables, TypeOK
<1>4. \/ \E f \in req[r].todo :
           /\ req' = [req EXCEPT ![r] = Removing(r, req[r].todo \ {f}, req[r].half)]
           /\ stored' \in {stored, stored \ {<<"object", f>>}}
           /\ missed' = missed \cup ({"object", "thumb"} \X {f})
      \/ \E f \in req[r].half :
           /\ req' = [req EXCEPT ![r] = Removing(r, req[r].todo, req[r].half \ {f})]
           /\ stored' \in {stored, stored \ {<<"thumb", f>>}}
           /\ missed' = missed \cup {<<"thumb", f>>}
  BY DEF RemoveFails, Remove, TypeOK
<1> QED BY <1>2, <1>3, <1>4

\* Somebody looks at a file; a thumbnail of it may be made.
AsksThumbnail(r) ==
  /\ Aside(r) /\ UNCHANGED <<missed, uploads, stored>>
  /\ req[r].step = "idle" /\ req'[r].step = "read" /\ req'[r].op = "thumb"
  /\ req'[r].kept = {} /\ req'[r].todo = {} /\ req'[r].half = {}

LEMMA GetThumbnailEffect ==
  ASSUME TypeOK, NEW r \in Requests, GetThumbnail(r)
  PROVE  AsksThumbnail(r)
<1>1. PICK f \in linked :
        /\ Begin(r, [Idle EXCEPT !.step = "read", !.op = "thumb", !.files = {f}])
        /\ UNCHANGED <<tables, stored, linked, uploads, history>>
  BY DEF GetThumbnail
<1> DEFINE w1 == [Idle EXCEPT !.step = "read"]
           w2 == [w1 EXCEPT !.op = "thumb"]
           w3 == [w2 EXCEPT !.files = {f}]
<1>2. w1 \in Request /\ w1.step = "read" /\ w1.kept = {} /\ w1.todo = {} /\ w1.half = {}
  BY IdleIsARequest, WithStep DEF Steps
<1> HIDE DEF w1
<1>3. /\ w2 \in Request /\ w2.step = "read" /\ w2.op = "thumb"
      /\ w2.kept = {} /\ w2.todo = {} /\ w2.half = {}
  BY <1>2, WithOp DEF Ops
<1> HIDE DEF w2
<1>4. f \in Files
  BY <1>1 DEF TypeOK
<1>5. /\ w3 \in Request /\ w3.step = "read" /\ w3.op = "thumb" /\ w3.files = {f}
      /\ w3.kept = {} /\ w3.todo = {} /\ w3.half = {}
  BY <1>3, <1>4, WithFiles
<1>6. req' = [req EXCEPT ![r] = w3] /\ used' \in 0..MaxOps /\ req[r].step = "idle"
  BY <1>1, StoredFilesAssumption DEF Begin, Count, At, TypeOK, w1, w2
<1> HIDE DEF w3
<1>7. Typed /\ Others(r) /\ req'[r] = w3
  BY <1>5, <1>6, OneRequest DEF TypeOK, Typed
<1>8. Shaped(w3)
  BY <1>4, <1>5 DEF Shaped, Before, Uploading, Attaching, Replacing, Deleting
<1> QED BY <1>1, <1>5, <1>6, <1>7, <1>8 DEF AsksThumbnail, Aside, tables, history, TypeOK

\* The original is there, and a thumbnail of it will be put.
ReadsOriginal(r) ==
  /\ Aside(r) /\ UNCHANGED <<missed, uploads, stored>>
  /\ SameFiles(r) /\ req[r].step = "read" /\ req'[r].step = "put" /\ req[r].op = "thumb"
  /\ req'[r].kept = {} /\ req'[r].todo = {}
  /\ \A f \in Files : req[r].files = {f} => <<"object", f>> \in stored

LEMMA ReadOriginalEffect ==
  ASSUME TypeOK, AllShaped, NEW r \in Requests, ReadOriginal(r)
  PROVE  \/ ReadsOriginal(r)
         \/ GivesUp(r) /\ missed' = missed /\ req[r].step = "read"
<1>1. /\ req[r].step = "read" /\ UNCHANGED <<tables, stored, linked, uploads, used, history>>
      /\ \/ /\ \E f \in req[r].files : <<"object", f>> \in stored
            /\ req' = [req EXCEPT ![r].step = "put"]
         \/ req' = [req EXCEPT ![r] = Idle]
  BY DEF ReadOriginal, At, Get, TypeOK
<1>2. Shaped(req[r]) /\ req[r] \in Request
  BY DEF AllShaped, TypeOK
<1>3. CASE req' = [req EXCEPT ![r] = Idle]
  <2>1. Typed /\ Others(r) /\ req'[r] = Idle
    BY <1>3, IdleIsARequest, OneRequest DEF TypeOK, Typed
  <2> QED BY <1>1, <2>1, IdleIsShaped DEF GivesUp, Aside, tables, history, TypeOK
<1>4. CASE /\ \E f \in req[r].files : <<"object", f>> \in stored
           /\ req' = [req EXCEPT ![r].step = "put"]
  <2>1. /\ Typed /\ Others(r) /\ SameFiles(r) /\ req'[r].step = "put"
        /\ req'[r].kept = req[r].kept /\ req'[r].todo = req[r].todo
    BY <1>4, StepEffect DEF Steps
  <2>2. req[r].op = "thumb" /\ req[r].kept = {} /\ req[r].todo = {} /\ req[r].half = {}
    BY <1>1, <1>2 DEF Shaped, Before
  <2>3. Shaped(req'[r])
    BY <1>2, <2>1, <2>2 DEF Shaped, SameFiles, Before, Uploading, Attaching, Replacing, Deleting
  <2> QED BY <1>1, <1>4, <2>1, <2>2, <2>3 DEF ReadsOriginal, Aside, tables, history, TypeOK
<1> QED BY <1>1, <1>3, <1>4

\* The thumbnail is put, or not.
PutsThumbnail(r) ==
  /\ Aside(r) /\ UNCHANGED <<missed, uploads>>
  /\ req[r].step = "put" /\ req'[r] = Idle
  /\ \E f \in Files :
       /\ req[r].files = {f}
       /\ stored' \in {stored, stored \cup {<<"thumb", f>>}}

LEMMA PutThumbnailEffect ==
  ASSUME TypeOK, AllShaped, NEW r \in Requests, PutThumbnail(r)
  PROVE  PutsThumbnail(r)
<1>1. /\ req[r].step = "put" /\ UNCHANGED <<tables, linked, uploads, used, history>>
      /\ \E f \in req[r].files : stored' \in {stored, stored \cup {<<"thumb", f>>}}
      /\ req' = [req EXCEPT ![r] = Idle]
  BY DEF PutThumbnail, At, Put
<1>2. \E f \in Files : req[r].files = {f}
  <2>1. Shaped(req[r])
    BY DEF AllShaped
  <2> QED BY <1>1, <2>1 DEF Shaped
<1>3. Typed /\ Others(r) /\ req'[r] = Idle
  BY <1>1, IdleIsARequest, OneRequest DEF TypeOK, Typed
<1> QED BY <1>1, <1>2, <1>3, IdleIsShaped DEF PutsThumbnail, Aside, tables, history, TypeOK

----------------------------------------------------------------------------
(* Steps that leave the database alone *)

\* The request of everybody else is the same but for what it has not heard of.
Rest(r) ==
  \A q \in Requests \ {r} :
    /\ req'[q].step = req[q].step /\ req'[q].op = req[q].op /\ req'[q].on = req[q].on
    /\ req'[q].files = req[q].files /\ req'[q].kept = req[q].kept
    /\ req'[q].todo = req[q].todo /\ req'[q].half = req[q].half

\* What Doomed and Informed say of one request.
DoomedOne(q) ==
  \A f \in q.todo :
    /\ \A o \in Owners : slot[o] = f => o \in q.on /\ q.op \in Replacing \cup {"deleteOwner"}
    /\ row[f] # {} =>
         \/ q.op \in {"deletePhoto", "deleteDocument"}
         \/ q.op = "deleteOwner" /\ q.on \subseteq row[f]

InformedOne(q) ==
  \A o \in q.on :
    /\ q.op = "deleteOwner" /\ q.on \cap Users = {} =>
         \A f \in Files : o \in row[f] => f \in q.todo \cup q.behind
    /\ (q.op = "deleteOwner" /\ q.on \cap Users # {}) \/ q.op \in Replacing =>
         slot[o] \in q.todo \cup q.behind \cup {NoFile}

\* r takes no new files in hand but recorded ones, and removes only what it was to
\* remove.
Calm(r) ==
  /\ Aside(r)
  /\ uploads' = uploads
  /\ Hand(req'[r]) \subseteq Hand(req[r]) \cup Recorded
  /\ Holds(req'[r]) =>
       /\ Holds(req[r]) /\ req'[r].files = req[r].files /\ req'[r].todo \subseteq Recorded
       /\ \A f \in req'[r].kept : f \in req[r].kept \/ <<"object", f>> \in stored'
  /\ req'[r].step = "remove" =>
       \/ req[r].step = "remove" /\ req'[r].todo \subseteq req[r].todo
       \/ req[r].step = "discard" /\ req'[r].todo \subseteq req[r].files
  /\ req'[r].step = "discard" => Holds(req[r]) /\ req'[r].files = req[r].files
  /\ \A f \in Files : <<"object", f>> \in stored \ stored' =>
       req[r].step = "remove" /\ f \in req[r].todo
  /\ req'[r].step \in {"look", "write"} => DoomedOne(req'[r])
  /\ req'[r].step = "write" => InformedOne(req'[r])

\* The part of the invariant that the first property needs.
Safe ==
  /\ AllShaped /\ Uploaded /\ Placed /\ Fresh /\ Doomed /\ Discarded /\ KeptArePut /\ Informed
  /\ RowsHaveObjects

LEMMA RecordedFiles ==
  ASSUME TypeOK
  PROVE  Recorded \subseteq Files
BY DEF Recorded, TypeOK

LEMMA HandFiles ==
  ASSUME TypeOK, NEW q \in Requests
  PROVE  Hand(req[q]) \subseteq Files /\ req[q].files \subseteq Files
BY RequestFields DEF Hand, TypeOK

LEMMA AsideRecorded ==
  ASSUME NEW r \in Requests, Aside(r)
  PROVE  Recorded' = Recorded
BY DEF Aside, Recorded

\* What has been put is part of the upload.
LEMMA KeptAreFiles ==
  ASSUME NEW q, q.step \in Before \cup {"discard"}, Batch(q)
  PROVE  q.kept \subseteq q.files
<1>1. PICK a, b \in Files :
        /\ a <= b /\ q.files = a..b
        /\ q.step = "parked" => q.kept = {}
        /\ q.step = "store" => \E k \in a..b : q.kept = a..(k - 1)
        /\ q.step \in {"look", "write"} => q.kept = q.files
        /\ q.step = "discard" => q.kept \subseteq q.files
  BY DEF Batch
<1>2. CASE q.step = "store"
  <2>1. PICK k \in a..b : q.kept = a..(k - 1)
    BY <1>1, <1>2
  <2>2. a \in Nat /\ b \in Nat /\ k \in Nat /\ k <= b
    BY <2>1 DEF Files
  <2>3. a..(k - 1) \subseteq a..b
    BY <2>2
  <2> QED BY <1>1, <2>1, <2>3
<1> QED BY <1>1, <1>2 DEF Before

LEMMA CalmSafe ==
  ASSUME TypeOK, Safe, NEW r \in Requests, Calm(r)
  PROVE  Safe'
<1>1. Recorded' = Recorded /\ Others(r) /\ slot' = slot /\ row' = row /\ unsure' = unsure
  BY AsideRecorded DEF Calm, Aside
<1>2. AllShaped'
  BY ShapedOthers DEF Calm, Aside, Safe
<1>3. Uploaded'
  <2>1. \A f \in Recorded' : f <= uploads'
    BY <1>1 DEF Safe, Uploaded, Calm
  <2>2. ASSUME NEW q \in Requests, NEW f \in Hand(req'[q])
        PROVE  f <= uploads'
    <3>1. f \in Hand(req[q]) \cup Recorded
      BY <1>1, <2>2 DEF Calm, Others
    <3> QED BY <3>1 DEF Safe, Uploaded, Calm
  <2>3. \A q \in Requests : \A f \in Hand(req'[q]) : f <= uploads'
    BY <2>2
  <2> QED BY <2>1, <2>3 DEF Uploaded, Hand
<1>4. Placed'
  BY <1>1 DEF Safe, Placed
<1>5. Fresh'
  <2> SUFFICES ASSUME NEW p \in Requests, Holds(req'[p])
               PROVE  /\ req'[p].files \cap Recorded = {}
                      /\ req'[p].files \cap req'[p].todo = {}
                      /\ \A q \in Requests \ {p} : req'[p].files \cap Hand(req'[q]) = {}
    BY <1>1 DEF Fresh, Holds, Hand
  <2>1. /\ Holds(req[p]) /\ req'[p].files = req[p].files
        /\ req'[p].todo \subseteq req[p].todo \cup Recorded
    BY <1>1 DEF Calm, Others
  <2>2. /\ req[p].files \cap Recorded = {} /\ req[p].files \cap req[p].todo = {}
        /\ \A q \in Requests \ {p} : req[p].files \cap Hand(req[q]) = {}
    BY <2>1 DEF Safe, Fresh
  <2>3. \A q \in Requests \ {p} : Hand(req'[q]) \subseteq Hand(req[q]) \cup Recorded
    BY <1>1 DEF Calm, Others
  <2> QED BY <2>1, <2>2, <2>3
<1>6. Doomed'
  <2> SUFFICES ASSUME NEW p \in Requests, req'[p].step \in {"look", "write"}
               PROVE  DoomedOne(req'[p])
    BY <1>1 DEF Doomed, DoomedOne
  <2>1. CASE p = r
    BY <2>1 DEF Calm
  <2>2. CASE p # r
    BY <1>1, <2>2 DEF Others, Safe, Doomed, DoomedOne
  <2> QED BY <2>1, <2>2
<1>7. Discarded'
  <2> SUFFICES ASSUME NEW p \in Requests, NEW f \in Recorded
               PROVE  /\ req'[p].step = "remove" /\ f \in req'[p].todo => f \in unsure
                      /\ req'[p].step = "discard" /\ f \in req'[p].files => f \in unsure
    BY <1>1 DEF Discarded
  <2>1. CASE p # r
    BY <1>1, <2>1 DEF Others, Safe, Discarded
  <2>2. CASE p = r
    <3>1. /\ req[r].step = "remove" /\ f \in req[r].todo => f \in unsure
          /\ req[r].step = "discard" /\ f \in req[r].files => f \in unsure
      BY DEF Safe, Discarded
    <3>2. Holds(req[r]) => f \notin req[r].files
      BY DEF Safe, Fresh
    <3> QED BY <2>2, <3>1, <3>2 DEF Calm
  <2> QED BY <2>1, <2>2
<1>8. KeptArePut'
  <2> SUFFICES ASSUME NEW p \in Requests, Holds(req'[p]), NEW f \in req'[p].kept
               PROVE  <<"object", f>> \in stored'
    BY DEF KeptArePut, Holds
  <2>1. Holds(req[p])
    BY <1>1 DEF Calm, Others
  <2>2. f \in req[p].kept \/ <<"object", f>> \in stored'
    BY <1>1 DEF Calm, Others
  <2>3. CASE f \in req[p].kept
    <3>1. <<"object", f>> \in stored /\ f \in Files
      BY <2>1, <2>3, RequestFields DEF Safe, KeptArePut, TypeOK
    <3>2. f \in req[p].files
      <4>1. Batch(req[p])
        BY <2>1 DEF Safe, AllShaped, Shaped, Holds
      <4> QED BY <2>1, <2>3, <4>1, KeptAreFiles DEF Holds
    <3>3. ~(req[r].step = "remove" /\ f \in req[r].todo)
      <4>1. CASE p = r
        BY <2>1, <4>1 DEF Holds, Before
      <4>2. CASE p # r
        <5>1. f \notin Hand(req[r])
          BY <2>1, <3>2, <4>2 DEF Safe, Fresh
        <5>2. req[r].step = "remove" => req[r].op # "thumb"
          BY DEF Safe, AllShaped, Shaped
        <5> QED BY <5>1, <5>2 DEF Hand
      <4> QED BY <4>1, <4>2
    <3> QED BY <3>1, <3>3 DEF Calm
  <2> QED BY <2>2, <2>3
<1>9. Informed'
  <2> SUFFICES ASSUME NEW p \in Requests, req'[p].step = "write"
               PROVE  InformedOne(req'[p])
    BY <1>1 DEF Informed, InformedOne
  <2>1. CASE p = r
    BY <2>1 DEF Calm
  <2>2. CASE p # r
    BY <1>1, <2>2 DEF Others, Safe, Informed, InformedOne
  <2> QED BY <2>1, <2>2
<1>10. RowsHaveObjects'
  <2> SUFFICES ASSUME NEW f \in Recorded \ unsure
               PROVE  <<"object", f>> \in stored'
    BY <1>1 DEF RowsHaveObjects
  <2>1. <<"object", f>> \in stored /\ f \in Files
    BY RecordedFiles DEF Safe, RowsHaveObjects
  <2>2. ~(req[r].step = "remove" /\ f \in req[r].todo)
    BY DEF Safe, Discarded
  <2> QED BY <2>1, <2>2 DEF Calm
<1> QED BY <1>2, <1>3, <1>4, <1>5, <1>6, <1>7, <1>8, <1>9, <1>10 DEF Safe

LEMMA DeleteIsCalm ==
  ASSUME TypeOK, Safe, NEW r \in Requests, DeleteBegins(r)
  PROVE  Calm(r)
<1>1. req'[r].op \notin Uploading /\ req'[r].op # "thumb"
  BY DEF DeleteBegins, Deleting, Uploading, Attaching, Replacing
<1>2. req'[r].todo \subseteq Recorded
  <2>1. req'[r] \in Request
    BY DEF DeleteBegins, Aside, Typed
  <2>2. req'[r].todo \subseteq Files
    BY <2>1, RequestFields
  <2> QED BY <2>2 DEF DeleteBegins, Recorded
<1>3. Hand(req'[r]) \subseteq Recorded
  BY <1>1, <1>2 DEF Hand, DeleteBegins
<1>4. DoomedOne(req'[r])
  <2>1. \A f \in req'[r].todo, o \in Owners : slot[o] # f
    <3>1. \A f \in req'[r].todo : f \in Files /\ row[f] # {}
      BY <1>2, RecordedFiles DEF DeleteBegins
    <3> QED BY <3>1 DEF Safe, Placed
  <2> QED BY <2>1 DEF DoomedOne, DeleteBegins
<1> QED BY <1>1, <1>3, <1>4 DEF Calm, DeleteBegins, Holds

LEMMA VerifyIsCalm ==
  ASSUME TypeOK, Safe, NEW r \in Requests, Verifies(r)
  PROVE  Calm(r)
<1>1. Shaped(req[r])
  BY DEF Safe, AllShaped
<1>2. req[r].op \in Uploading /\ req[r].todo = {}
  BY <1>1 DEF Verifies, Shaped
<1>3. Hand(req'[r]) \subseteq Hand(req[r])
  BY <1>2 DEF Hand, Verifies, SameFiles
<1> QED BY <1>2, <1>3 DEF Calm, Verifies, Holds, Before, SameFiles

LEMMA PersistIsCalm ==
  ASSUME TypeOK, Safe, NEW r \in Requests, Persists(r)
  PROVE  Calm(r)
<1>1. Shaped(req[r])
  BY DEF Safe, AllShaped
<1>2. req[r].todo = {}
  BY <1>1 DEF Persists, Shaped
<1>3. Hand(req'[r]) \subseteq Hand(req[r])
  BY <1>2 DEF Hand, Persists, SameFiles
<1>4. PICK g \in req[r].files :
        /\ req'[r].kept = req[r].kept \cup {g}
        /\ \/ stored' = (stored \cup {<<"object", g>>}) \ {<<"tmp", g>>}
           \/ stored' = stored \cup {<<"object", g>>}
  BY DEF Persists
<1>5. \A f \in req'[r].kept : f \in req[r].kept \/ <<"object", f>> \in stored'
  BY <1>4
<1>6. \A f \in Files : <<"object", f>> \notin stored \ stored'
  BY <1>4
<1>7. DoomedOne(req'[r]) /\ req'[r].todo = {}
  BY DEF DoomedOne, Persists
<1> QED BY <1>3, <1>5, <1>6, <1>7 DEF Calm, Persists, Holds, Before, SameFiles

LEMMA PutFailsIsCalm ==
  ASSUME TypeOK, Safe, NEW r \in Requests, FailsToPut(r)
  PROVE  Calm(r)
<1>1. Hand(req'[r]) \subseteq Hand(req[r])
  BY DEF Hand, FailsToPut, SameFiles
<1> QED BY <1>1 DEF Calm, FailsToPut, Holds, Before, SameFiles

LEMMA DiscardIsCalm ==
  ASSUME TypeOK, Safe, NEW r \in Requests, Discards(r)
  PROVE  Calm(r)
<1>1. Hand(req'[r]) \subseteq Hand(req[r])
  BY DEF Hand, Discards, Uploading, Attaching, Replacing
<1> QED BY <1>1 DEF Calm, Discards, Holds, Before

LEMMA GiveUpIsCalm ==
  ASSUME TypeOK, Safe, NEW r \in Requests, GivesUp(r)
  PROVE  Calm(r)
<1>1. Hand(req'[r]) = {}
  BY IdleIsARequest DEF Hand, GivesUp
<1> QED BY <1>1, IdleIsARequest DEF Calm, GivesUp, Holds, Before

LEMMA RefusalIsCalm ==
  ASSUME TypeOK, Safe, NEW r \in Requests, Refuses(r)
  PROVE  Calm(r)
<1>1. CASE req[r].op \in Uploading /\ SameFiles(r) /\ req'[r].step = "discard" /\ req'[r].todo = {}
  <2>1. Hand(req'[r]) \subseteq Hand(req[r])
    BY <1>1 DEF Hand, SameFiles
  <2> QED BY <1>1, <2>1 DEF Calm, Refuses, Holds, Before, SameFiles
<1>2. CASE req'[r] = Idle
  <2>1. Hand(req'[r]) = {}
    BY <1>2, IdleIsARequest DEF Hand
  <2> QED BY <1>2, <2>1, IdleIsARequest DEF Calm, Refuses, Holds, Before
<1> QED BY <1>1, <1>2 DEF Refuses

LEMMA PlanIsCalm ==
  ASSUME TypeOK, Safe, NEW r \in Requests, Plans(r)
  PROVE  Calm(r)
<1>1. Shaped(req[r]) /\ req[r] \in Request
  BY DEF Safe, AllShaped, TypeOK
<1>2. req[r].op # "thumb" /\ req[r].on \subseteq Owners /\ req[r].step = "look"
  BY <1>1, RequestFields DEF Plans, Shaped
<1>3. /\ req'[r].step = "write" /\ req'[r].op = req[r].op /\ req'[r].on = req[r].on
      /\ req'[r].files = req[r].files /\ req'[r].kept = req[r].kept /\ req'[r].half = req[r].half
      /\ req'[r].todo = FilesToRemove(r)
  BY DEF Plans, SameFiles
<1>4. req[r].op \in Replacing \cup {"deleteOwner"} => \E o \in Owners : req[r].on = {o}
  BY <1>1, <1>2 DEF Shaped, Before
<1>5. CASE req[r].op = "deleteOwner" /\ req[r].on \cap Users = {}
  <2>1. PICK o \in Owners : req[r].on = {o}
    BY <1>4, <1>5
  <2>2. FilesToRemove(r) = {f \in Files : o \in row[f]}
    BY <1>5, <2>1 DEF FilesToRemove, Listed
  <2>3. FilesToRemove(r) \subseteq Recorded
    BY <2>2 DEF Recorded
  <2>4. DoomedOne(req'[r])
    BY <1>3, <1>5, <2>1, <2>2 DEF DoomedOne, Safe, Placed
  <2>5. InformedOne(req'[r])
    BY <1>3, <1>5, <2>1, <2>2 DEF InformedOne, Replacing
  <2>6. Hand(req'[r]) \subseteq Hand(req[r]) \cup Recorded
    BY <1>2, <1>3, <2>3 DEF Hand
  <2> QED BY <1>2, <1>3, <2>3, <2>4, <2>5, <2>6 DEF Calm, Plans, Holds, Before
<1>6. CASE \/ req[r].op = "deleteOwner" /\ req[r].on \cap Users # {}
           \/ req[r].op \in Replacing
  <2>1. PICK o \in Owners : req[r].on = {o}
    BY <1>4, <1>6
  <2>2. FilesToRemove(r) = {slot[o]} \ {NoFile}
    BY <1>6, <2>1 DEF FilesToRemove, Replacing
  <2>3. FilesToRemove(r) \subseteq Recorded
    BY <2>2 DEF Recorded, TypeOK
  <2>4. DoomedOne(req'[r])
    <3>1. ASSUME NEW f \in FilesToRemove(r)
          PROVE  f \in Files /\ slot[o] = f /\ f # NoFile
      BY <2>2, <3>1 DEF TypeOK
    <3>2. \A f \in FilesToRemove(r) : row[f] = {}
      BY <3>1 DEF Safe, Placed
    <3>3. \A f \in FilesToRemove(r), p \in Owners : slot[p] = f => p = o
      BY <3>1 DEF Safe, Placed
    <3> QED BY <1>3, <1>6, <2>1, <3>2, <3>3 DEF DoomedOne
  <2>5. InformedOne(req'[r])
    <3>1. ~(req[r].op = "deleteOwner" /\ req[r].on \cap Users = {})
      BY <1>6 DEF Replacing
    <3> QED BY <1>3, <2>1, <2>2, <3>1 DEF InformedOne
  <2>6. Hand(req'[r]) \subseteq Hand(req[r]) \cup Recorded
    BY <1>2, <1>3, <2>3 DEF Hand
  <2> QED BY <1>2, <1>3, <2>3, <2>4, <2>5, <2>6 DEF Calm, Plans, Holds, Before
<1>7. CASE req[r].op \notin {"deleteOwner"} \cup Replacing
  <2>1. FilesToRemove(r) = req[r].todo
    BY <1>7 DEF FilesToRemove
  <2>2. Hand(req'[r]) = Hand(req[r])
    BY <1>3, <2>1 DEF Hand
  <2>3. DoomedOne(req'[r])
    BY <1>2, <1>3, <2>1 DEF DoomedOne, Safe, Doomed
  <2>4. InformedOne(req'[r])
    BY <1>3, <1>7 DEF InformedOne
  <2>5. req[r].op \in Uploading => req[r].todo = {}
    BY <1>1, <1>2 DEF Shaped
  <2> QED BY <1>2, <1>3, <2>1, <2>2, <2>3, <2>4, <2>5 DEF Calm, Plans, Holds, Before
<1> QED BY <1>5, <1>6, <1>7

LEMMA RemoveObjectIsCalm ==
  ASSUME TypeOK, Safe, NEW r \in Requests, RemovesObject(r)
  PROVE  Calm(r)
<1>1. Shaped(req[r])
  BY DEF Safe, AllShaped
<1>2. req[r].op # "thumb" /\ req[r].files = {}
  BY <1>1 DEF RemovesObject, Shaped
<1>3. PICK f \in req[r].todo :
       /\ stored' = stored \ {<<"object", f>>}
       /\ req'[r].todo = req[r].todo \ {f} /\ req'[r].half = req[r].half \cup {f}
  BY DEF RemovesObject
<1>4. Hand(req'[r]) \subseteq Hand(req[r])
  BY <1>2, <1>3 DEF Hand, RemovesObject
<1>5. \A g \in Files : <<"object", g>> \in stored \ stored' => g \in req[r].todo
  BY <1>3
<1> QED BY <1>3, <1>4, <1>5 DEF Calm, RemovesObject, Holds, Before

LEMMA RemoveThumbnailIsCalm ==
  ASSUME TypeOK, Safe, NEW r \in Requests, RemovesThumbnail(r)
  PROVE  Calm(r)
<1>1. Shaped(req[r])
  BY DEF Safe, AllShaped
<1>2. req[r].op # "thumb" /\ req[r].files = {}
  BY <1>1 DEF RemovesThumbnail, Shaped
<1>3. PICK f \in req[r].half :
       /\ stored' = stored \ {<<"thumb", f>>}
       /\ req'[r].todo = req[r].todo /\ req'[r].half = req[r].half \ {f}
  BY DEF RemovesThumbnail
<1>4. Hand(req'[r]) \subseteq Hand(req[r])
  BY <1>2, <1>3 DEF Hand, RemovesThumbnail
<1>5. \A g \in Files : <<"object", g>> \notin stored \ stored'
  BY <1>3
<1> QED BY <1>3, <1>4, <1>5 DEF Calm, RemovesThumbnail, Holds, Before

LEMMA RemoveFailsIsCalm ==
  ASSUME TypeOK, Safe, NEW r \in Requests, FailsToRemove(r)
  PROVE  Calm(r)
<1>1. Shaped(req[r])
  BY DEF Safe, AllShaped
<1>2. req[r].op # "thumb" /\ req[r].files = {}
  BY <1>1 DEF FailsToRemove, Shaped
<1>3. /\ req'[r].todo \subseteq req[r].todo /\ req'[r].half \subseteq req[r].half
      /\ \A g \in Files : <<"object", g>> \in stored \ stored' => g \in req[r].todo
  BY DEF FailsToRemove
<1>4. Hand(req'[r]) \subseteq Hand(req[r])
  BY <1>2, <1>3 DEF Hand, FailsToRemove
<1> QED BY <1>3, <1>4 DEF Calm, FailsToRemove, Holds, Before

LEMMA ThumbnailIsCalm ==
  ASSUME TypeOK, Safe, NEW r \in Requests,
         AsksThumbnail(r) \/ ReadsOriginal(r) \/ PutsThumbnail(r)
  PROVE  Calm(r)
<1>1. Hand(req'[r]) = {}
  BY IdleIsARequest DEF Hand, AsksThumbnail, ReadsOriginal, PutsThumbnail, SameFiles
<1>2. req'[r].step \in {"idle", "read", "put"}
  BY IdleIsARequest DEF AsksThumbnail, ReadsOriginal, PutsThumbnail
<1>3. Aside(r) /\ uploads' = uploads /\ \A g \in Files : <<"object", g>> \notin stored \ stored'
  BY DEF AsksThumbnail, ReadsOriginal, PutsThumbnail
<1> QED BY <1>1, <1>2, <1>3 DEF Calm, Holds, Before

LEMMA UploadSafe ==
  ASSUME TypeOK, Safe, NEW r \in Requests, UploadBegins(r)
  PROVE  Safe'
<1>1. /\ Recorded' = Recorded /\ Others(r) /\ slot' = slot /\ row' = row /\ unsure' = unsure
      /\ uploads <= uploads' /\ uploads \in Nat /\ uploads' \in Nat
  BY AsideRecorded DEF UploadBegins, Aside, TypeOK
<1>2. AllShaped'
  BY ShapedOthers DEF UploadBegins, Aside, Safe
<1>3. /\ Hand(req'[r]) = req'[r].files /\ req'[r].step = "parked" /\ req'[r].kept = {}
      /\ req'[r].todo = {}
  <2>1. Shaped(req'[r])
    BY DEF UploadBegins, Aside
  <2>2. Batch(req'[r])
    BY <2>1 DEF UploadBegins, Shaped, Before
  <2>3. req'[r].op # "thumb"
    BY DEF UploadBegins, Uploading, Attaching, Replacing
  <2> QED BY <2>2, <2>3 DEF UploadBegins, Hand, Batch
<1>4. \A f \in Files : f \in Nat
  BY DEF Files
<1>5. \A f \in req'[r].files : f \in Nat /\ uploads < f /\ f <= uploads'
  <2>1. req'[r] \in Request
    BY DEF UploadBegins, Aside, Typed
  <2>2. req'[r].files \subseteq Files
    BY <2>1, RequestFields
  <2> QED BY <1>4, <2>2 DEF UploadBegins
<1>6. \A f \in Recorded : f \in Nat /\ f <= uploads
  BY <1>4, RecordedFiles DEF Safe, Uploaded
<1>7. \A q \in Requests : \A f \in Hand(req[q]) : f \in Nat /\ f <= uploads
  BY <1>4, HandFiles DEF Safe, Uploaded
<1>8. Uploaded'
  <2>1. \A f \in Recorded' : f <= uploads'
    BY <1>1, <1>6
  <2>2. ASSUME NEW q \in Requests, NEW f \in Hand(req'[q])
        PROVE  f <= uploads'
    <3>1. CASE q = r
      BY <1>3, <1>5, <2>2, <3>1
    <3>2. CASE q # r
      <4>1. f \in Nat /\ f <= uploads
        BY <1>1, <1>7, <2>2, <3>2 DEF Others
      <4> QED BY <1>1, <4>1
    <3> QED BY <3>1, <3>2
  <2>3. \A q \in Requests : \A f \in Hand(req'[q]) : f <= uploads'
    BY <2>2
  <2> QED BY <2>1, <2>3 DEF Uploaded, Hand
<1>9. Placed'
  BY <1>1 DEF Safe, Placed
<1>10. Fresh'
  <2> SUFFICES ASSUME NEW p \in Requests, Holds(req'[p])
               PROVE  /\ req'[p].files \cap Recorded = {}
                      /\ req'[p].files \cap req'[p].todo = {}
                      /\ \A q \in Requests \ {p} : req'[p].files \cap Hand(req'[q]) = {}
    BY <1>1 DEF Fresh, Holds, Hand
  <2>1. \A f \in Recorded : f \notin req'[r].files
    BY <1>1, <1>5, <1>6
  <2>2. \A q \in Requests : \A f \in Hand(req[q]) : f \notin req'[r].files
    BY <1>1, <1>5, <1>7
  <2>3. CASE p = r
    BY <1>1, <1>3, <2>1, <2>2, <2>3 DEF Others
  <2>4. CASE p # r
    <3>1. /\ Holds(req[p]) /\ req'[p] = req[p]
      BY <1>1, <2>4 DEF Others
    <3>2. /\ req[p].files \cap Recorded = {} /\ req[p].files \cap req[p].todo = {}
          /\ \A q \in Requests \ {p} : req[p].files \cap Hand(req[q]) = {}
      BY <3>1 DEF Safe, Fresh
    <3>3. req[p].files \subseteq Hand(req[p])
      BY <3>1 DEF Hand, Holds, Uploading, Attaching, Replacing
    <3>4. req[p].files \cap Hand(req'[r]) = {}
      BY <1>3, <2>2, <3>3
    <3> QED BY <1>1, <3>1, <3>2, <3>4 DEF Others
  <2> QED BY <2>3, <2>4
<1>11. Doomed'
  BY <1>1, <1>3 DEF Safe, Doomed, Others
<1>12. Discarded'
  BY <1>1, <1>3 DEF Safe, Discarded, Others
<1>13. KeptArePut'
  BY <1>1, <1>3 DEF Safe, KeptArePut, Others, Holds, UploadBegins
<1>14. Informed'
  BY <1>1, <1>3 DEF Safe, Informed, Others
<1>15. RowsHaveObjects'
  BY <1>1 DEF Safe, RowsHaveObjects, UploadBegins
<1> QED BY <1>2, <1>8, <1>9, <1>10, <1>11, <1>12, <1>13, <1>14, <1>15 DEF Safe

----------------------------------------------------------------------------
(* Steps that change the database *)

\* What a statement may do to the rows, and what of it r answers for.
Changed(r) ==
  /\ owner' \in [Owners -> {"none", "there", "gone"}]
  /\ slot' \in [Owners -> Files \cup {NoFile}]
  /\ row' \in [Files -> Hangings]
  /\ linked' \subseteq Files
  /\ \A f \in Files :
       \/ row'[f] = row[f] \/ row'[f] = {}
       \/ req[r].op \in Attaching /\ f \in req[r].files /\ row'[f] = req[r].on
  /\ \A o \in Owners :
       \/ slot'[o] = slot[o] \/ slot'[o] = NoFile
       \/ req[r].op \in Replacing /\ o \in req[r].on /\ slot'[o] \in req[r].files
  /\ \A f \in Recorded' : f \notin req[r].todo /\ f \notin Returned(r)
  /\ \A f \in Recorded : f \in Recorded' \/ f \in req[r].todo \cup Returned(r) \cup req[r].behind
  /\ req[r].op \in Uploading => req[r].files \subseteq Recorded'
  /\ Placed'

\* What r removes that it had not listed is in the columns of the rows deleted.
LEMMA ReturnedFiles ==
  ASSUME TypeOK, NEW r \in Requests
  PROVE  /\ Returned(r) \subseteq Recorded /\ Returned(r) \subseteq Files
         /\ req[r].op # "deleteOwner" => Returned(r) = {}
  <1>1. req[r].on \subseteq Owners
    BY RequestFields DEF TypeOK
  <1>2. \A o \in Owners : slot[o] \in Files \cup {NoFile}
    BY DEF TypeOK
  <1> QED BY <1>1, <1>2 DEF Returned, Recorded

LEMMA AttachChanges ==
  ASSUME TypeOK, Safe, NEW r \in Requests, req[r].step = "write", req[r].op \in Attaching,
         Effect(r)
  PROVE  Changed(r)
<1>1. Shaped(req[r]) /\ req[r] \in Request
  BY DEF Safe, AllShaped, TypeOK
<1>2. req[r].on \in Hangings \ {{}} /\ req[r].todo = {} /\ req[r].op \in Uploading
  BY <1>1 DEF Shaped, Before, Uploading
<1>3. /\ row' = [f \in Files |-> IF f \in req[r].files THEN req[r].on ELSE row[f]]
      /\ owner' = owner /\ slot' = slot /\ linked' = linked \cup Linked(r)
  <2>1. req[r].op # "deleteOwner"
    BY DEF Attaching
  <2>2. Record(r)
    BY <1>2, <2>1 DEF Effect
  <2> QED BY <2>2 DEF Record
<1>4. Returned(r) = {}
  BY ReturnedFiles DEF Attaching
<1>5. req[r].files \cap Recorded = {} /\ req[r].files \subseteq Files
  BY <1>1, <1>2, RequestFields DEF Safe, Fresh, Holds, Before
<1>6. \A f \in Files : row'[f] = IF f \in req[r].files THEN req[r].on ELSE row[f]
  BY <1>3
<1>7. \A f \in Recorded : f \in Recorded'
  BY <1>3, <1>5, <1>6 DEF Recorded
<1>8. Placed'
  <2>1. \A f \in req[r].files, o \in Owners : slot[o] # f
    BY <1>5 DEF Recorded
  <2> QED BY <1>3, <1>6, <2>1 DEF Placed, Safe
<1>9. linked' \subseteq Files
  BY <1>3, <1>5 DEF Linked, TypeOK
<1>10. row' \in [Files -> Hangings]
  BY <1>2, <1>3 DEF TypeOK
<1>11. req[r].files \subseteq Recorded'
  BY <1>2, <1>5, <1>6 DEF Recorded
<1> QED BY <1>2, <1>3, <1>4, <1>6, <1>7, <1>8, <1>9, <1>10, <1>11 DEF Changed, TypeOK

LEMMA ReplaceChanges ==
  ASSUME TypeOK, Safe, NEW r \in Requests, req[r].step = "write", req[r].op \in Replacing,
         Effect(r)
  PROVE  Changed(r)
<1>1. Shaped(req[r]) /\ req[r] \in Request
  BY DEF Safe, AllShaped, TypeOK
<1>2. PICK g \in Files, p \in Owners : req[r].files = {g} /\ req[r].on = {p}
  BY <1>1 DEF Shaped, Before
<1>3. req[r].op \in Uploading /\ req[r].op \notin Attaching /\ req[r].op # "deleteOwner"
  BY DEF Uploading, Attaching, Replacing
<1>4. Max(req[r].files) = g
  <2>1. g \in Nat /\ g..g = {g} /\ g <= g
    BY DEF Files
  <2> QED BY <1>2, <2>1, FirstOfRange
<1>5. /\ slot' = [o \in Owners |-> IF o = p THEN g ELSE slot[o]]
      /\ owner' = [o \in Owners |-> IF o = p THEN "there" ELSE owner[o]]
      /\ row' = row /\ linked' = linked \cup Linked(r)
  BY <1>2, <1>3, <1>4 DEF Effect, Record
<1>6. Returned(r) = {}
  BY <1>3, ReturnedFiles
<1>7. g \notin Recorded /\ g \notin req[r].todo
  BY <1>2, <1>3 DEF Safe, Fresh, Holds, Before
<1>8. g # NoFile
  BY DEF Files, NoFile
<1>9. row[g] = {} /\ \A o \in Owners : slot[o] # g
  BY <1>7 DEF Recorded
<1>10. Placed'
  BY <1>5, <1>8, <1>9 DEF Placed, Safe
<1>11. \A f \in req[r].todo : f \in Files /\ row[f] = {} /\ \A o \in Owners : slot[o] = f => o = p
  <2>1. req[r].todo \subseteq Files
    BY <1>1, RequestFields
  <2>2. \A f \in req[r].todo :
          /\ \A o \in Owners : slot[o] = f => o \in req[r].on
          /\ row[f] # {} => req[r].op \in {"deletePhoto", "deleteDocument", "deleteOwner"}
    BY DEF Safe, Doomed
  <2> QED BY <1>2, <1>3, <2>1, <2>2 DEF Uploading, Attaching, Replacing
<1>12. \A f \in Recorded' : f \notin req[r].todo
  BY <1>5, <1>7, <1>11 DEF Recorded
<1>13. \A f \in Recorded : f \in Recorded' \/ f \in req[r].todo \cup req[r].behind
  <2>1. slot[p] \in req[r].todo \cup req[r].behind \cup {NoFile}
    BY <1>2 DEF Safe, Informed
  <2>2. ASSUME NEW f \in Recorded, f \notin Recorded'
        PROVE  slot[p] = f /\ f # NoFile
    BY <1>5, <2>2 DEF Recorded, Files, NoFile
  <2> QED BY <2>1, <2>2
<1>14. linked' \subseteq Files
  BY <1>2, <1>5 DEF Linked, TypeOK
<1>15. slot' \in [Owners -> Files \cup {NoFile}] /\ owner' \in [Owners -> {"none", "there", "gone"}]
  BY <1>5 DEF TypeOK
<1>16. \A o \in Owners : slot'[o] = slot[o] \/ (o \in req[r].on /\ slot'[o] \in req[r].files)
  BY <1>2, <1>5
<1>17. req[r].files \subseteq Recorded'
  BY <1>2, <1>5 DEF Recorded
<1> QED
  BY <1>5, <1>6, <1>10, <1>12, <1>13, <1>14, <1>15, <1>16, <1>17 DEF Changed, TypeOK

LEMMA DeleteOwnerChanges ==
  ASSUME TypeOK, Safe, NEW r \in Requests, req[r].step = "write", req[r].op = "deleteOwner",
         Effect(r)
  PROVE  Changed(r)
<1>1. Shaped(req[r]) /\ req[r] \in Request
  BY DEF Safe, AllShaped, TypeOK
<1>2. PICK p \in Owners : req[r].on = {p}
  BY <1>1 DEF Shaped, Before
<1>3. req[r].op \notin Uploading /\ req[r].op \notin Replacing
  BY DEF Uploading, Attaching, Replacing
<1>4. /\ owner' = [owner EXCEPT ![p] = "gone"] /\ slot' = [slot EXCEPT ![p] = NoFile]
      /\ row' = Cascade(p) /\ linked' = linked
  BY <1>2, <1>3 DEF Effect
<1>5. \A f \in Files : row'[f] = IF p \in row[f] THEN {} ELSE row[f]
  BY <1>4 DEF Cascade
<1>6. \A o \in Owners : slot'[o] = IF o = p THEN NoFile ELSE slot[o]
  BY <1>4 DEF TypeOK
<1>7. Returned(r) = IF p \in Users THEN {} ELSE {slot[p]} \ {NoFile}
  BY <1>2 DEF Returned
<1>8. \A f \in Files : f # NoFile
  BY DEF Files, NoFile
<1>9. Placed'
  BY <1>5, <1>6, <1>8 DEF Placed, Safe
<1>10. \A f \in req[r].todo : f \notin Recorded'
  <2>1. \A f \in req[r].todo :
          /\ \A o \in Owners : slot[o] = f => o = p
          /\ row[f] # {} => p \in row[f]
    BY <1>2 DEF Safe, Doomed
  <2> QED BY <1>5, <1>6, <1>8, <2>1 DEF Recorded
<1>11. \A f \in Returned(r) : f \notin Recorded'
  <2>1. ASSUME NEW f \in Files, slot[p] = f
        PROVE  row[f] = {} /\ \A o \in Owners : slot[o] = f => o = p
    BY <1>8, <2>1 DEF Safe, Placed
  <2>2. Returned(r) \subseteq Files /\ \A f \in Returned(r) : slot[p] = f
    BY <1>7, ReturnedFiles
  <2>3. ASSUME NEW f \in Returned(r)
        PROVE  f \notin Recorded'
    <3>1. f \in Files /\ slot[p] = f /\ row[f] = {} /\ \A o \in Owners : slot[o] = f => o = p
      BY <2>1, <2>2, <2>3
    <3> QED BY <1>5, <1>6, <1>8, <3>1 DEF Recorded
  <2> QED BY <2>3
<1>12. ASSUME NEW f \in Recorded, f \notin Recorded'
       PROVE  f \in req[r].todo \cup Returned(r) \cup req[r].behind
  <2>1. f \in Files /\ (p \in row[f] \/ slot[p] = f)
    BY <1>5, <1>6, <1>12 DEF Recorded
  <2>2. CASE p \in Users
    <3>1. p \notin row[f]
      <4>1. row[f] \in Hangings
        BY <2>1 DEF TypeOK
      <4>2. p \notin Albums \cup Materials \cup Students
        BY <2>2, StoredFilesAssumption
      <4> QED BY <4>1, <4>2 DEF Hangings
    <3>2. slot[p] \in req[r].todo \cup req[r].behind \cup {NoFile}
      BY <1>2, <2>2 DEF Safe, Informed
    <3> QED BY <1>8, <2>1, <3>1, <3>2
  <2>3. CASE p \notin Users
    <3>1. p \in row[f] => f \in req[r].todo \cup req[r].behind
      BY <1>2, <2>1, <2>3 DEF Safe, Informed
    <3>2. slot[p] = f => f \in Returned(r)
      BY <1>7, <1>8, <2>1, <2>3
    <3> QED BY <2>1, <3>1, <3>2
  <2> QED BY <2>2, <2>3
<1>13. row' \in [Files -> Hangings]
  <2>1. {} \in Hangings
    BY DEF Hangings
  <2> QED BY <1>4, <2>1 DEF Cascade, TypeOK
<1>14. /\ slot' \in [Owners -> Files \cup {NoFile}]
       /\ owner' \in [Owners -> {"none", "there", "gone"}] /\ linked' \subseteq Files
  BY <1>4 DEF TypeOK
<1> QED
  BY <1>3, <1>5, <1>6, <1>9, <1>10, <1>11, <1>12, <1>13, <1>14 DEF Changed

LEMMA DeleteFileChanges ==
  ASSUME TypeOK, Safe, NEW r \in Requests, req[r].step = "write",
         req[r].op \in {"deletePhoto", "deleteDocument"}, Effect(r)
  PROVE  Changed(r)
<1>1. req[r].op \notin Uploading /\ req[r].op \notin Replacing /\ req[r].op # "deleteOwner"
  BY DEF Uploading, Attaching, Replacing
<1>2. /\ row' = [f \in Files |-> IF f \in req[r].todo THEN {} ELSE row[f]]
      /\ owner' = owner /\ slot' = slot /\ linked' = linked
  BY <1>1 DEF Effect
<1>3. Returned(r) = {}
  BY <1>1, ReturnedFiles
<1>4. \A f \in Files : row'[f] = IF f \in req[r].todo THEN {} ELSE row[f]
  BY <1>2
<1>5. \A f \in req[r].todo, o \in Owners : slot[o] # f
  BY <1>1 DEF Safe, Doomed
<1>6. \A f \in Recorded' : f \notin req[r].todo
  BY <1>2, <1>4, <1>5 DEF Recorded
<1>7. \A f \in Recorded : f \in Recorded' \/ f \in req[r].todo
  BY <1>2, <1>4 DEF Recorded
<1>8. Placed'
  BY <1>2, <1>4 DEF Placed, Safe
<1>9. row' \in [Files -> Hangings]
  <2>1. {} \in Hangings
    BY DEF Hangings
  <2> QED BY <1>2, <2>1 DEF TypeOK
<1> QED BY <1>1, <1>2, <1>3, <1>4, <1>6, <1>7, <1>8, <1>9 DEF Changed, TypeOK

LEMMA EffectChanges ==
  ASSUME TypeOK, Safe, NEW r \in Requests, req[r].step = "write", Effect(r)
  PROVE  Changed(r)
<1>1. Shaped(req[r]) /\ req[r] \in Request
  BY DEF Safe, AllShaped, TypeOK
<1>2. req[r].op \in Ops \ {"none", "thumb"}
  BY <1>1, RequestFields DEF Shaped
<1>3. \/ req[r].op \in Attaching \/ req[r].op \in Replacing \/ req[r].op = "deleteOwner"
      \/ req[r].op \in {"deletePhoto", "deleteDocument"}
  BY <1>2 DEF Ops, Uploading
<1> QED
  BY <1>3, AttachChanges, ReplaceChanges, DeleteOwnerChanges, DeleteFileChanges

\* Who is told of what r has recorded.
Hears(r) ==
  \A q \in Requests \ {r} :
    /\ req[q].behind \subseteq req'[q].behind
    /\ q \in Unaware(r) => req[r].files \subseteq req'[q].behind

\* What a statement, heard or not, leaves of the request.
Answered(r) ==
  /\ Typed /\ Rest(r) /\ Hears(r) /\ Shaped(req'[r])
  /\ UNCHANGED <<uploads, stored>>
  /\ unsure \subseteq unsure'
  /\ \/ /\ req'[r].step \in {"idle", "remove"} /\ req'[r].files = {} /\ req'[r].kept = {}
        /\ req'[r].half = {} /\ req'[r].todo \subseteq req[r].todo \cup Returned(r)
     \/ /\ req'[r].step = "discard" /\ req[r].op \in Uploading
        /\ req'[r].op = req[r].op /\ req'[r].files = req[r].files /\ req'[r].kept = req[r].kept
        /\ req'[r].todo = {} /\ req'[r].half = {}
        /\ req[r].files \subseteq unsure'

LEMMA ShapedRest ==
  ASSUME TypeOK, AllShaped, NEW r \in Requests, Rest(r), Shaped(req'[r]), Typed
  PROVE  AllShaped'
<1> SUFFICES ASSUME NEW q \in Requests PROVE Shaped(req'[q])
  BY DEF AllShaped, Shaped, Batch
<1>1. CASE q = r
  BY <1>1
<1>2. CASE q # r
  <2>1. /\ req'[q].step = req[q].step /\ req'[q].op = req[q].op /\ req'[q].on = req[q].on
        /\ req'[q].files = req[q].files /\ req'[q].kept = req[q].kept
        /\ req'[q].todo = req[q].todo /\ req'[q].half = req[q].half
    BY <1>2 DEF Rest
  <2>2. Shaped(req[q])
    BY DEF AllShaped
  <2>3. Batch(req[q]) => Batch(req'[q])
    BY <2>1 DEF Batch
  <2> QED BY <2>1, <2>2, <2>3 DEF Shaped
<1> QED BY <1>1, <1>2

LEMMA ChangeSafe ==
  ASSUME TypeOK, Safe, NEW r \in Requests, req[r].step = "write", Changed(r), Answered(r)
  PROVE  Safe'
<1> DEFINE F == IF req[r].op \in Uploading THEN req[r].files ELSE {}
<1>1. Shaped(req[r]) /\ req[r] \in Request
  BY DEF Safe, AllShaped, TypeOK
<1>2. req[r].op # "thumb" /\ req[r].half = {}
  BY <1>1 DEF Shaped
<1>3. /\ F \cap Recorded = {} /\ F \cap req[r].todo = {}
      /\ \A q \in Requests \ {r} : F \cap Hand(req[q]) = {}
  BY DEF Safe, Fresh, Holds, Before
<1>4. F \subseteq req[r].files /\ req[r].files \subseteq Files /\ req[r].files \subseteq Hand(req[r])
  BY <1>1, <1>2, RequestFields DEF Hand
<1>5. Recorded' \subseteq Recorded \cup F
  <2> SUFFICES ASSUME NEW f \in Files, row'[f] # {} \/ \E o \in Owners : slot'[o] = f
               PROVE  f \in Recorded \cup F
    BY DEF Recorded
  <2>1. f # NoFile
    BY DEF Files, NoFile
  <2>2. CASE row'[f] # {}
    BY <2>2 DEF Changed, Recorded, Uploading
  <2>3. CASE \E o \in Owners : slot'[o] = f
    BY <2>1, <2>3 DEF Changed, Recorded, Uploading
  <2> QED BY <2>2, <2>3
<1>6. /\ Hand(req'[r]) \subseteq Hand(req[r]) \cup Recorded
      /\ ~Holds(req'[r])
  BY <1>2, ReturnedFiles DEF Hand, Answered, Holds, Before
<1>7. \A q \in Requests \ {r} : Hand(req'[q]) = Hand(req[q]) /\ (Holds(req'[q]) <=> Holds(req[q]))
  BY DEF Answered, Rest, Hand, Holds
<1>8. AllShaped'
  BY ShapedRest DEF Safe, Answered
<1>9. Uploaded'
  <2>1. \A f \in Recorded' : f <= uploads'
    BY <1>4, <1>5 DEF Safe, Uploaded, Answered
  <2>2. ASSUME NEW q \in Requests, NEW f \in Hand(req'[q])
        PROVE  f <= uploads'
    <3>1. f \in Hand(req[q]) \cup Recorded
      BY <1>6, <1>7, <2>2
    <3> QED BY <3>1 DEF Safe, Uploaded, Answered
  <2>3. \A q \in Requests : \A f \in Hand(req'[q]) : f <= uploads'
    BY <2>2
  <2> QED BY <2>1, <2>3 DEF Uploaded, Hand
<1>10. Fresh'
  <2> SUFFICES ASSUME NEW p \in Requests, Holds(req'[p])
               PROVE  /\ req'[p].files \cap Recorded' = {}
                      /\ req'[p].files \cap req'[p].todo = {}
                      /\ \A q \in Requests \ {p} : req'[p].files \cap Hand(req'[q]) = {}
    BY DEF Fresh, Holds, Hand
  <2>1. p # r /\ Holds(req[p])
    BY <1>6, <1>7
  <2>2. req'[p].files = req[p].files /\ req'[p].todo = req[p].todo
    BY <2>1 DEF Answered, Rest
  <2>3. /\ req[p].files \cap Recorded = {} /\ req[p].files \cap req[p].todo = {}
        /\ \A q \in Requests \ {p} : req[p].files \cap Hand(req[q]) = {}
    BY <2>1 DEF Safe, Fresh
  <2>4. req[p].files \cap F = {}
    BY <1>4, <2>1, <2>3
  <2>5. \A q \in Requests \ {p} : Hand(req'[q]) \subseteq Hand(req[q]) \cup Recorded
    BY <1>6, <1>7
  <2> QED BY <1>5, <2>2, <2>3, <2>4, <2>5
<1>11. ASSUME NEW q \in Requests \ {r}
       PROVE  /\ \A f \in Hand(req[q]) \cap Files :
                   /\ \A o \in Owners : slot'[o] = f => slot[o] = f
                   /\ row'[f] # {} => row'[f] = row[f]
  <2>1. F \cap Hand(req[q]) = {}
    BY <1>3
  <2>2. ASSUME NEW f \in Hand(req[q]) \cap Files
        PROVE  /\ \A o \in Owners : slot'[o] = f => slot[o] = f
               /\ row'[f] # {} => row'[f] = row[f]
    <3>1. f \notin F /\ f # NoFile
      BY <2>1 DEF Files, NoFile
    <3> QED BY <3>1 DEF Changed, Uploading
  <2> QED BY <2>2
<1>12. Doomed'
  <2> SUFFICES ASSUME NEW p \in Requests, req'[p].step \in {"look", "write"}, NEW f \in req'[p].todo
               PROVE  /\ \A o \in Owners : slot'[o] = f =>
                           o \in req'[p].on /\ req'[p].op \in Replacing \cup {"deleteOwner"}
                      /\ row'[f] # {} =>
                           \/ req'[p].op \in {"deletePhoto", "deleteDocument"}
                           \/ req'[p].op = "deleteOwner" /\ req'[p].on \subseteq row'[f]
    BY DEF Doomed
  <2>1. p # r
    BY DEF Answered
  <2>2. /\ req'[p].step = req[p].step /\ req'[p].op = req[p].op /\ req'[p].on = req[p].on
        /\ req'[p].todo = req[p].todo
    BY <2>1 DEF Answered, Rest
  <2>3. /\ \A o \in Owners : slot[o] = f =>
             o \in req[p].on /\ req[p].op \in Replacing \cup {"deleteOwner"}
        /\ row[f] # {} =>
             \/ req[p].op \in {"deletePhoto", "deleteDocument"}
             \/ req[p].op = "deleteOwner" /\ req[p].on \subseteq row[f]
    BY <2>2 DEF Safe, Doomed
  <2>4. f \in Hand(req[p]) \cap Files
    <3>1. req[p].op # "thumb"
      BY <2>2 DEF Safe, AllShaped, Shaped
    <3> QED BY <2>2, <3>1, RequestFields DEF Hand, TypeOK
  <2>5. /\ \A o \in Owners : slot'[o] = f => slot[o] = f
        /\ row'[f] # {} => row'[f] = row[f]
    BY <1>11, <2>1, <2>4
  <2> QED BY <2>2, <2>3, <2>5
<1>13. Discarded'
  <2> SUFFICES ASSUME NEW p \in Requests, NEW f \in Recorded'
               PROVE  /\ req'[p].step = "remove" /\ f \in req'[p].todo => f \in unsure'
                      /\ req'[p].step = "discard" /\ f \in req'[p].files => f \in unsure'
    BY DEF Discarded
  <2>1. CASE p = r
    BY <2>1 DEF Answered, Changed
  <2>2. CASE p # r
    <3>1. /\ req'[p].step = req[p].step /\ req'[p].op = req[p].op
          /\ req'[p].files = req[p].files /\ req'[p].todo = req[p].todo
      BY <2>2 DEF Answered, Rest
    <3>2. CASE f \in Recorded
      BY <3>1, <3>2 DEF Safe, Discarded, Answered
    <3>3. CASE f \in F
      <4>1. f \notin Hand(req[p])
        BY <1>3, <2>2, <3>3
      <4>2. req[p].step \in {"remove", "discard"} => req[p].op # "thumb"
        BY DEF Safe, AllShaped, Shaped
      <4> QED BY <3>1, <4>1, <4>2 DEF Hand
    <3> QED BY <1>5, <3>2, <3>3
  <2> QED BY <2>1, <2>2
<1>14. KeptArePut'
  <2> SUFFICES ASSUME NEW p \in Requests, Holds(req'[p]), NEW f \in req'[p].kept
               PROVE  <<"object", f>> \in stored'
    BY DEF KeptArePut, Holds
  <2>1. p # r /\ Holds(req[p])
    BY <1>6, <1>7
  <2> QED BY <2>1 DEF Answered, Rest, Safe, KeptArePut
<1>15. Informed'
  <2> SUFFICES ASSUME NEW p \in Requests, req'[p].step = "write", NEW o \in req'[p].on
               PROVE  /\ req'[p].op = "deleteOwner" /\ req'[p].on \cap Users = {} =>
                           \A f \in Files : o \in row'[f] => f \in req'[p].todo \cup req'[p].behind
                      /\ (req'[p].op = "deleteOwner" /\ req'[p].on \cap Users # {})
                         \/ req'[p].op \in Replacing =>
                           slot'[o] \in req'[p].todo \cup req'[p].behind \cup {NoFile}
    BY DEF Informed
  <2>1. p # r
    BY DEF Answered
  <2>2. /\ req'[p].step = req[p].step /\ req'[p].op = req[p].op /\ req'[p].on = req[p].on
        /\ req'[p].todo = req[p].todo
    BY <2>1 DEF Answered, Rest
  <2>3. /\ req[p].behind \subseteq req'[p].behind
        /\ p \in Unaware(r) => req[r].files \subseteq req'[p].behind
    BY <2>1 DEF Answered, Hears
  <2>4. /\ req[p].op = "deleteOwner" /\ req[p].on \cap Users = {} =>
             \A f \in Files : o \in row[f] => f \in req[p].todo \cup req[p].behind
        /\ (req[p].op = "deleteOwner" /\ req[p].on \cap Users # {})
           \/ req[p].op \in Replacing =>
             slot[o] \in req[p].todo \cup req[p].behind \cup {NoFile}
    BY <2>2 DEF Safe, Informed
  <2>5. o \in req[r].on => p \in Unaware(r)
    BY <2>1, <2>2 DEF Unaware, At
  <2>6. o \in Owners
    BY <2>2, RequestFields DEF TypeOK
  <2>7. slot'[o] \in {slot[o], NoFile} \/ slot'[o] \in req'[p].behind
    BY <2>3, <2>5, <2>6 DEF Changed
  <2>8. \A f \in Files : o \in row'[f] => o \in row[f] \/ f \in req'[p].behind
    BY <2>3, <2>5 DEF Changed
  <2> QED BY <2>2, <2>3, <2>4, <2>7, <2>8
<1>16. RowsHaveObjects'
  <2> SUFFICES ASSUME NEW f \in Recorded', f \notin unsure'
               PROVE  <<"object", f>> \in stored'
    BY DEF RowsHaveObjects
  <2>1. CASE f \in Recorded
    BY <2>1 DEF Safe, RowsHaveObjects, Answered
  <2>2. CASE f \in F
    <3>1. req[r].op \in Uploading /\ Batch(req[r])
      BY <1>1, <2>2 DEF Shaped, Before
    <3>2. f \in req[r].kept
      BY <2>2, <3>1 DEF Batch
    <3> QED BY <3>1, <3>2 DEF Safe, KeptArePut, Holds, Before, Answered
  <2> QED BY <1>5, <2>1, <2>2
<1> QED
  BY <1>8, <1>9, <1>10, <1>12, <1>13, <1>14, <1>15, <1>16 DEF Safe, Changed

\* What others hear of r, and what becomes of r.
LEMMA ToldEffect ==
  ASSUME TypeOK, NEW r \in Requests, req[r].step = "write",
         NEW w \in Request, req' = [Told(r) EXCEPT ![r] = w]
  PROVE  Typed /\ Rest(r) /\ Hears(r) /\ req'[r] = w
<1>1. \A q \in Requests : req[q] \in Request
  BY DEF TypeOK
<1>2. ASSUME NEW q \in Requests
      PROVE  LET b == [req[q] EXCEPT !.behind = req[q].behind \cup req[r].files] IN
               /\ b \in Request /\ b.step = req[q].step /\ b.op = req[q].op /\ b.on = req[q].on
               /\ b.files = req[q].files /\ b.kept = req[q].kept /\ b.todo = req[q].todo
               /\ b.half = req[q].half /\ b.behind = req[q].behind \cup req[r].files
  <2>1. req[q].behind \cup req[r].files \in SUBSET Files
    BY <1>1, RequestFields
  <2> QED BY <1>1, <2>1, WithBehind
<1> DEFINE B(q) == [req[q] EXCEPT !.behind = req[q].behind \cup req[r].files]
<1>3. Told(r) = [q \in Requests |-> IF q \in Unaware(r) THEN B(q) ELSE req[q]]
  BY DEF Told
<1>4. \A q \in Requests :
        /\ B(q) \in Request /\ B(q).step = req[q].step /\ B(q).op = req[q].op
        /\ B(q).on = req[q].on /\ B(q).files = req[q].files /\ B(q).kept = req[q].kept
        /\ B(q).todo = req[q].todo /\ B(q).half = req[q].half
        /\ B(q).behind = req[q].behind \cup req[r].files
  BY <1>2
<1> HIDE DEF B
<1>5. Told(r) \in [Requests -> Request]
  BY <1>1, <1>3, <1>4
<1>6. /\ req' \in [Requests -> Request] /\ req'[r] = w
      /\ \A q \in Requests \ {r} : req'[q] = IF q \in Unaware(r) THEN B(q) ELSE req[q]
  BY <1>3, <1>5
<1>7. Rest(r)
  <2> SUFFICES ASSUME NEW q \in Requests \ {r}
               PROVE  /\ req'[q].step = req[q].step /\ req'[q].op = req[q].op
                      /\ req'[q].on = req[q].on /\ req'[q].files = req[q].files
                      /\ req'[q].kept = req[q].kept /\ req'[q].todo = req[q].todo
                      /\ req'[q].half = req[q].half
    BY DEF Rest
  <2>1. CASE q \in Unaware(r)
    BY <1>4, <1>6, <2>1
  <2>2. CASE q \notin Unaware(r)
    BY <1>6, <2>2
  <2> QED BY <2>1, <2>2
<1>8. Hears(r)
  BY <1>4, <1>6 DEF Hears
<1> QED BY <1>6, <1>7, <1>8 DEF Typed

\* A statement has worked and r knows it.
Writes(r) ==
  /\ Changed(r) /\ Answered(r) /\ req[r].step = "write" /\ unsure' = unsure /\ used' = used
  /\ req'[r].files = {} /\ req'[r].kept = {} /\ req'[r].half = {} /\ req'[r].op # "thumb"
  /\ req'[r].step \in {"idle", "remove"}
  /\ req'[r].todo = req[r].todo \cup Returned(r)
  /\ req'[r].todo # {} => req'[r].step = "remove"
  /\ missed' = missed \cup Overtaken(r, req[r].todo \cup Returned(r))

LEMMA WriteEffect ==
  ASSUME TypeOK, Safe, NEW r \in Requests, Write(r)
  PROVE  Writes(r)
<1>1. /\ req[r].step = "write" /\ Effect(r) /\ UNCHANGED <<stored, uploads, used, unsure>>
      /\ req' = [Told(r) EXCEPT ![r] = Removing(r, req[r].todo \cup Returned(r), {})]
      /\ missed' = missed \cup Overtaken(r, req[r].todo \cup Returned(r))
  BY DEF Write, At, ToRemove
<1>2. Shaped(req[r]) /\ req[r] \in Request
  BY DEF Safe, AllShaped, TypeOK
<1>3. PICK T, N : T = req[r].todo \cup Returned(r) /\ N = {}
  OBVIOUS
<1>4. PICK w : w = Removing(r, T, N) /\ req' = [Told(r) EXCEPT ![r] = w]
  BY <1>1, <1>3
<1>5. SomeFiles(T) /\ SomeFiles(N) /\ T \cup N = T
  BY <1>2, <1>3, RequestFields, ReturnedFiles DEF SomeFiles
<1>6. req[r].op \in Ops \ {"none", "thumb"}
  BY <1>1, <1>2, RequestFields DEF Shaped
<1>7. /\ w \in Request /\ Shaped(w) /\ w.files = {} /\ w.kept = {} /\ w.todo = T /\ w.half = N
      /\ w.step \in {"idle", "remove"} /\ (T \cup N # {} => w.step = "remove") /\ w.op # "thumb"
  BY <1>4, <1>5, <1>6, RemovingFields
<1>8. Typed /\ Rest(r) /\ Hears(r) /\ req'[r] = w
  BY <1>1, <1>4, <1>7, ToldEffect
<1>9. Changed(r)
  BY <1>1, EffectChanges
<1>10. Answered(r)
  BY <1>1, <1>3, <1>7, <1>8 DEF Answered
<1> QED BY <1>1, <1>3, <1>5, <1>7, <1>8, <1>9, <1>10 DEF Writes

\* A statement has worked and r takes it for a failure.
WritesUnheard(r) ==
  /\ Changed(r) /\ Answered(r) /\ req[r].step = "write" /\ used' \in 0..MaxOps
  /\ unsure' \subseteq Files
  /\ \/ req[r].op \notin Uploading /\ req'[r] = Idle
     \/ /\ req[r].op \in Uploading /\ req'[r].step = "discard" /\ req'[r].op = req[r].op
        /\ req'[r].files = req[r].files /\ req'[r].kept = req[r].kept
  /\ missed' = missed \cup ({"object"} \X (req[r].todo \cup (Recorded \ Recorded')))

LEMMA AnswerLostEffect ==
  ASSUME TypeOK, Safe, NEW r \in Requests, AnswerLost(r)
  PROVE  WritesUnheard(r)
<1>1. /\ req[r].step = "write" /\ Effect(r) /\ Count /\ UNCHANGED <<stored, uploads>>
      /\ unsure' = unsure \cup req[r].files
      /\ missed' = missed \cup ({"object"} \X (req[r].todo \cup (Recorded \ Recorded')))
      /\ req' = [Told(r) EXCEPT ![r] = IF Told(r)[r].op \in Uploading
                                       THEN [Told(r)[r] EXCEPT !.step = "discard", !.todo = {}] ELSE Idle]
  BY DEF AnswerLost, At
<1>2. Shaped(req[r]) /\ req[r] \in Request
  BY DEF Safe, AllShaped, TypeOK
<1>3. Told(r)[r] = req[r]
  BY DEF Told, Unaware
<1>4. Changed(r)
  BY <1>1, EffectChanges
<1>5. used' \in 0..MaxOps /\ unsure' \subseteq Files
  BY <1>1, <1>2, RequestFields, StoredFilesAssumption DEF Count, TypeOK
<1>6. CASE req[r].op \in Uploading
  <2>1. PICK w : /\ w = [req[r] EXCEPT !.step = "discard", !.todo = {}]
                 /\ req' = [Told(r) EXCEPT ![r] = w]
    BY <1>1, <1>3, <1>6
  <2>2. /\ w \in Request /\ Shaped(w) /\ w.step = "discard" /\ w.op = req[r].op
        /\ w.on = req[r].on /\ w.files = req[r].files /\ w.kept = req[r].kept
        /\ w.todo = {} /\ w.half = req[r].half /\ w.behind = req[r].behind
    BY <1>1, <1>6, <2>1, RefusedFields DEF Safe
  <2>3. Typed /\ Rest(r) /\ Hears(r) /\ req'[r] = w
    BY <1>1, <2>1, <2>2, ToldEffect
  <2>4. req[r].half = {}
    BY <1>1, <1>2 DEF Shaped
  <2>5. Answered(r)
    BY <1>1, <1>6, <2>2, <2>3, <2>4 DEF Answered
  <2> QED BY <1>1, <1>4, <1>5, <1>6, <2>2, <2>3, <2>5 DEF WritesUnheard
<1>7. CASE req[r].op \notin Uploading
  <2>1. req' = [Told(r) EXCEPT ![r] = Idle]
    BY <1>1, <1>3, <1>7
  <2>2. Typed /\ Rest(r) /\ Hears(r) /\ req'[r] = Idle
    BY <1>1, <2>1, IdleIsARequest, ToldEffect
  <2>3. Answered(r)
    BY <1>1, <2>2, IdleIsARequest, IdleIsShaped DEF Answered
  <2> QED BY <1>1, <1>4, <1>5, <1>7, <2>2, <2>3 DEF WritesUnheard
<1> QED BY <1>6, <1>7

----------------------------------------------------------------------------
(* Crashes, and steps without a request *)

\* Everybody's work is over.
Dies ==
  /\ Typed /\ \A r \in Requests : req'[r] = Idle
  /\ UNCHANGED <<slot, row, owner, linked, uploads, stored, unsure>>
  /\ used' \in 0..MaxOps
  /\ missed' = missed \cup (Places \X UNION {Hand(req[r]) : r \in Requests})

LEMMA CrashEffect ==
  ASSUME TypeOK, Crash
  PROVE  Dies
<1>1. /\ req' = [r \in Requests |-> Idle] /\ Count
      /\ UNCHANGED <<tables, stored, linked, uploads, unsure>>
      /\ missed' = missed \cup (Places \X UNION {InHand(r) : r \in Requests})
  BY DEF Crash
<1>2. \A r \in Requests : InHand(r) = Hand(req[r])
  BY DEF InHand, Hand
<1>3. {InHand(r) : r \in Requests} = {Hand(req[r]) : r \in Requests}
  BY <1>2
<1>4. used' \in 0..MaxOps
  BY <1>1, StoredFilesAssumption DEF Count, TypeOK
<1> QED BY <1>1, <1>3, <1>4, IdleIsARequest DEF Dies, Typed, tables

LEMMA CrashSafe ==
  ASSUME TypeOK, Safe, Dies
  PROVE  Safe'
<1>1. Recorded' = Recorded
  BY DEF Dies, Recorded
<1>2. \A r \in Requests : Hand(req'[r]) = {} /\ ~Holds(req'[r])
  BY IdleIsARequest DEF Dies, Hand, Holds, Before
<1>3. AllShaped'
  <2>1. \A r \in Requests : Shaped(req'[r])
    BY IdleIsShaped DEF Dies
  <2> QED BY <2>1 DEF AllShaped, Shaped, Batch
<1>4. Uploaded'
  BY <1>1, <1>2 DEF Safe, Uploaded, Dies, Hand
<1>5. Placed'
  BY DEF Safe, Placed, Dies
<1>6. Fresh'
  BY <1>2 DEF Fresh, Holds
<1>7. Doomed' /\ Discarded' /\ Informed'
  BY IdleIsARequest DEF Doomed, Discarded, Informed, Dies
<1>8. KeptArePut'
  BY <1>2 DEF KeptArePut, Holds
<1>9. RowsHaveObjects'
  BY <1>1 DEF Safe, RowsHaveObjects, Dies
<1> QED BY <1>3, <1>4, <1>5, <1>6, <1>7, <1>8, <1>9 DEF Safe

\* Nothing changes but who is there and who has a link.
Idles ==
  /\ UNCHANGED <<slot, row, req, uploads, stored, history>>
  /\ owner' \in [Owners -> {"none", "there", "gone"}]
  /\ linked' \subseteq Files /\ used' \in 0..MaxOps

LEMMA IdlesEffect ==
  ASSUME TypeOK, \/ CreateAlbum
                 \/ \E f \in Files : LinkExpires(f)
                 \/ UNCHANGED vars
  PROVE  Idles
<1>1. CASE CreateAlbum
  <2>1. used' \in 0..MaxOps
    BY <1>1, StoredFilesAssumption DEF CreateAlbum, Count, TypeOK
  <2> QED BY <1>1, <2>1 DEF CreateAlbum, Idles, TypeOK
<1>2. CASE \E f \in Files : LinkExpires(f)
  BY <1>2 DEF LinkExpires, Idles, tables, TypeOK
<1>3. CASE UNCHANGED vars
  BY <1>3 DEF vars, tables, history, Idles, TypeOK
<1> QED BY <1>1, <1>2, <1>3

LEMMA IdlesSafe ==
  ASSUME TypeOK, Safe, Idles
  PROVE  Safe'
<1>1. Recorded' = Recorded
  BY DEF Idles, Recorded
<1> QED
  BY <1>1
  DEF Idles, history, Safe, AllShaped, Uploaded, Placed, Fresh, Doomed, Discarded, KeptArePut,
      Informed, RowsHaveObjects, Unaware, At

----------------------------------------------------------------------------
(* Every step is one of these *)

\* Somebody hangs up, or waits for a thumbnail that is being made.
HangsUp(r) ==
  /\ GivesUp(r) /\ req[r].step = "discard"
  /\ missed' = missed \cup ({"tmp", "object"} \X req[r].files)

Waits(r) == GivesUp(r) /\ missed' = missed /\ req[r].step = "read"

Quiet(r) ==
  \/ DeleteBegins(r) \/ Verifies(r) \/ Persists(r) \/ FailsToPut(r) \/ Discards(r) \/ HangsUp(r)
  \/ Refuses(r) \/ Plans(r) \/ RemovesObject(r) \/ RemovesThumbnail(r) \/ FailsToRemove(r)
  \/ AsksThumbnail(r) \/ ReadsOriginal(r) \/ Waits(r) \/ PutsThumbnail(r)

Uploads(r) ==
  \/ AddAlbumPhotos(r) \/ UploadStudentDocuments(r) \/ SubmitStudentWork(r)
  \/ UploadStudentPhoto(r) \/ UploadMyProfilePhoto(r) \/ CreateMaterial(r) \/ UpdateMaterial(r)

Deletes(r) ==
  \/ DeleteAlbum(r) \/ DeleteMaterial(r) \/ DeleteStudent(r) \/ DeleteUser(r)
  \/ DeleteAlbumPhoto(r) \/ DeleteStudentDocument(r)

LEMMA UploadsBegin ==
  ASSUME TypeOK, NEW r \in Requests, Uploads(r)
  PROVE  UploadBegins(r)
<1>1. 1 \in Nat \ {0} /\ \A n \in 1..MaxBatch : n \in Nat \ {0}
  OBVIOUS
<1>2. ASSUME NEW op \in Uploading, NEW o \in Owners, Upload(r, op, {o}, 1), op \in Replacing
      PROVE  UploadBegins(r)
  <2>1. op \notin Attaching /\ {o} \in SUBSET Owners
    BY <1>2 DEF Attaching, Replacing
  <2> QED BY <1>1, <1>2, <2>1, UploadEffect
<1>3. ASSUME NEW op \in Attaching, NEW on \in Hangings \ {{}}, NEW n \in Nat \ {0},
             Upload(r, op, on, n)
      PROVE  UploadBegins(r)
  <2>1. op \in Uploading /\ op \notin Replacing
    BY DEF Uploading, Attaching, Replacing
  <2>2. on \in SUBSET Owners
    BY DEF Hangings, Owners
  <2> QED BY <1>3, <2>1, <2>2, UploadEffect
<1>4. CASE AddAlbumPhotos(r)
  <2>1. PICK a \in Albums, n \in 1..MaxBatch : Upload(r, "photos", {a}, n)
    BY <1>4 DEF AddAlbumPhotos
  <2>2. {a} \in Hangings \ {{}} /\ "photos" \in Attaching
    BY DEF Hangings, Attaching
  <2> QED BY <1>1, <1>3, <2>1, <2>2
<1>5. CASE UploadStudentDocuments(r)
  <2>1. PICK s \in Students, n \in 1..MaxBatch : Upload(r, "document", {s}, n)
    BY <1>5 DEF UploadStudentDocuments
  <2>2. {s} \in Hangings \ {{}} /\ "document" \in Attaching
    BY DEF Hangings, Attaching
  <2> QED BY <1>1, <1>3, <2>1, <2>2
<1>6. CASE SubmitStudentWork(r)
  <2>1. PICK m \in Materials, s \in Students : Upload(r, "submission", {m, s}, 1)
    BY <1>6 DEF SubmitStudentWork
  <2>2. {m, s} \in Hangings \ {{}} /\ "submission" \in Attaching
    BY DEF Hangings, Attaching
  <2> QED BY <1>1, <1>3, <2>1, <2>2
<1>7. /\ {"studentPhoto", "profile", "newMaterial", "material"} \subseteq Replacing
      /\ Replacing \subseteq Uploading
  BY DEF Replacing, Uploading
<1>8. CASE UploadStudentPhoto(r)
  <2>1. PICK s \in Students : Upload(r, "studentPhoto", {s}, 1)
    BY <1>8 DEF UploadStudentPhoto
  <2> QED BY <1>2, <1>7, <2>1 DEF Owners
<1>9. CASE UploadMyProfilePhoto(r)
  <2>1. PICK u \in Users : Upload(r, "profile", {u}, 1)
    BY <1>9 DEF UploadMyProfilePhoto
  <2> QED BY <1>2, <1>7, <2>1 DEF Owners
<1>10. CASE CreateMaterial(r)
  <2>1. PICK m \in Materials : Upload(r, "newMaterial", {m}, 1)
    BY <1>10 DEF CreateMaterial
  <2> QED BY <1>2, <1>7, <2>1 DEF Owners
<1>11. CASE UpdateMaterial(r)
  <2>1. PICK m \in Materials : Upload(r, "material", {m}, 1)
    BY <1>11 DEF UpdateMaterial
  <2> QED BY <1>2, <1>7, <2>1 DEF Owners
<1> QED BY <1>4, <1>5, <1>6, <1>8, <1>9, <1>10, <1>11 DEF Uploads

LEMMA DeletesBegin ==
  ASSUME TypeOK, NEW r \in Requests, Deletes(r)
  PROVE  DeleteBegins(r)
<1>1. ASSUME NEW o \in Owners, Delete(r, "deleteOwner", {o}, {})
      PROVE  DeleteBegins(r)
  <2>1. /\ "deleteOwner" \in Deleting /\ {o} \in SUBSET Owners /\ {} \in SUBSET Files
        /\ \A f \in {} : row[f] # {} /\ "deleteOwner" \in {"deletePhoto", "deleteDocument"}
    BY DEF Deleting
  <2> QED BY <1>1, <2>1, DeleteEffect
<1>2. ASSUME NEW op \in {"deletePhoto", "deleteDocument"}, NEW on \in SUBSET Owners,
             NEW f \in Files, row[f] # {}, Delete(r, op, on, {f})
      PROVE  DeleteBegins(r)
  <2>1. op \in Deleting /\ op # "deleteOwner" /\ {f} \in SUBSET Files
    BY DEF Deleting
  <2>2. \A g \in {f} : row[g] # {} /\ op \in {"deletePhoto", "deleteDocument"}
    BY <1>2
  <2> QED BY <1>2, <2>1, <2>2, DeleteEffect
<1>3. CASE DeleteAlbum(r) \/ DeleteMaterial(r) \/ DeleteStudent(r) \/ DeleteUser(r)
  <2>1. \E o \in Owners : Delete(r, "deleteOwner", {o}, {})
    BY <1>3 DEF DeleteAlbum, DeleteMaterial, DeleteStudent, DeleteUser, Owners
  <2> QED BY <1>1, <2>1
<1>4. CASE DeleteAlbumPhoto(r)
  <2>1. PICK f \in Files : row[f] \cap Albums # {} /\ Delete(r, "deletePhoto", row[f], {f})
    BY <1>4 DEF DeleteAlbumPhoto
  <2>2. row[f] \in SUBSET Owners /\ row[f] # {}
    BY <2>1 DEF TypeOK, Hangings, Owners
  <2> QED BY <1>2, <2>1, <2>2
<1>5. CASE DeleteStudentDocument(r)
  <2>1. PICK f \in Files, s \in Students : row[f] = {s} /\ Delete(r, "deleteDocument", {s}, {f})
    BY <1>5 DEF DeleteStudentDocument
  <2>2. {s} \in SUBSET Owners /\ row[f] # {}
    BY <2>1 DEF Owners
  <2> QED BY <1>2, <2>1, <2>2
<1> QED BY <1>3, <1>4, <1>5 DEF Deletes

\* The way the other lemmas look at a step.
StepOf(r) == UploadBegins(r) \/ Quiet(r) \/ Writes(r) \/ WritesUnheard(r)

LEMMA WaysToStep ==
  ASSUME TypeOK, Safe, [Next]_vars
  PROVE  (\E r \in Requests : StepOf(r)) \/ Dies \/ Idles
<1>1. \/ CreateAlbum \/ \E f \in Files : LinkExpires(f)
      \/ Crash
      \/ UNCHANGED vars
      \/ \E r \in Requests :
           \/ Uploads(r) \/ Deletes(r)
           \/ VerifyFileContents(r) \/ PersistUpload(r) \/ PutFails(r) \/ DiscardUploads(r)
           \/ HangUp(r) \/ Look(r) \/ Write(r) \/ WriteFails(r) \/ AnswerLost(r)
           \/ RemoveObject(r) \/ RemoveThumbnail(r) \/ RemoveFails(r)
           \/ GetThumbnail(r) \/ ReadOriginal(r) \/ PutThumbnail(r)
  BY DEF Next, Uploads, Deletes
<1>2. AllShaped
  BY DEF Safe
<1>3. ASSUME NEW r \in Requests,
           \/ Uploads(r) \/ Deletes(r)
           \/ VerifyFileContents(r) \/ PersistUpload(r) \/ PutFails(r) \/ DiscardUploads(r)
           \/ HangUp(r) \/ Look(r) \/ Write(r) \/ WriteFails(r) \/ AnswerLost(r)
           \/ RemoveObject(r) \/ RemoveThumbnail(r) \/ RemoveFails(r)
           \/ GetThumbnail(r) \/ ReadOriginal(r) \/ PutThumbnail(r)
      PROVE  StepOf(r)
  <2>1. CASE Uploads(r)
    BY <2>1, UploadsBegin DEF StepOf
  <2>2. CASE Deletes(r)
    BY <2>2, DeletesBegin DEF StepOf, Quiet
  <2>3. CASE VerifyFileContents(r)
    BY <1>2, <2>3, VerifyEffect DEF StepOf, Quiet
  <2>4. CASE PersistUpload(r)
    BY <1>2, <2>4, PersistEffect DEF StepOf, Quiet
  <2>5. CASE PutFails(r)
    BY <1>2, <2>5, PutFailsEffect DEF StepOf, Quiet
  <2>6. CASE DiscardUploads(r)
    BY <1>2, <2>6, DiscardEffect DEF StepOf, Quiet
  <2>7. CASE HangUp(r)
    BY <2>7, HangUpEffect DEF StepOf, Quiet, HangsUp
  <2>8. CASE Look(r)
    BY <1>2, <2>8, LookEffect DEF StepOf, Quiet
  <2>9. CASE Write(r)
    BY <2>9, WriteEffect DEF StepOf
  <2>10. CASE WriteFails(r)
    BY <1>2, <2>10, WriteFailsEffect DEF StepOf, Quiet
  <2>11. CASE AnswerLost(r)
    BY <2>11, AnswerLostEffect DEF StepOf
  <2>12. CASE RemoveObject(r)
    BY <1>2, <2>12, RemoveObjectEffect DEF StepOf, Quiet
  <2>13. CASE RemoveThumbnail(r)
    BY <1>2, <2>13, RemoveThumbnailEffect DEF StepOf, Quiet
  <2>14. CASE RemoveFails(r)
    BY <1>2, <2>14, RemoveFailsEffect DEF StepOf, Quiet
  <2>15. CASE GetThumbnail(r)
    BY <2>15, GetThumbnailEffect DEF StepOf, Quiet
  <2>16. CASE ReadOriginal(r)
    BY <1>2, <2>16, ReadOriginalEffect DEF StepOf, Quiet, Waits
  <2>17. CASE PutThumbnail(r)
    BY <1>2, <2>17, PutThumbnailEffect DEF StepOf, Quiet
  <2> QED
    BY <1>3, <2>1, <2>2, <2>3, <2>4, <2>5, <2>6, <2>7, <2>8, <2>9, <2>10, <2>11, <2>12, <2>13,
       <2>14, <2>15, <2>16, <2>17
<1>4. CASE \E r \in Requests :
           \/ Uploads(r) \/ Deletes(r)
           \/ VerifyFileContents(r) \/ PersistUpload(r) \/ PutFails(r) \/ DiscardUploads(r)
           \/ HangUp(r) \/ Look(r) \/ Write(r) \/ WriteFails(r) \/ AnswerLost(r)
           \/ RemoveObject(r) \/ RemoveThumbnail(r) \/ RemoveFails(r)
           \/ GetThumbnail(r) \/ ReadOriginal(r) \/ PutThumbnail(r)
  BY <1>3, <1>4
<1>5. CASE Crash
  BY <1>5, CrashEffect
<1>6. CASE CreateAlbum \/ (\E f \in Files : LinkExpires(f)) \/ UNCHANGED vars
  BY <1>6, IdlesEffect
<1> QED BY <1>1, <1>4, <1>5, <1>6

LEMMA QuietIsCalm ==
  ASSUME TypeOK, Safe, NEW r \in Requests, Quiet(r)
  PROVE  Calm(r)
<1>1. CASE HangsUp(r) \/ Waits(r)
  BY <1>1, GiveUpIsCalm DEF HangsUp, Waits
<1>2. CASE DeleteBegins(r)
  BY <1>2, DeleteIsCalm
<1>3. CASE Verifies(r)
  BY <1>3, VerifyIsCalm
<1>4. CASE Persists(r)
  BY <1>4, PersistIsCalm
<1>5. CASE FailsToPut(r)
  BY <1>5, PutFailsIsCalm
<1>6. CASE Discards(r)
  BY <1>6, DiscardIsCalm
<1>7. CASE Refuses(r)
  BY <1>7, RefusalIsCalm
<1>8. CASE Plans(r)
  BY <1>8, PlanIsCalm
<1>9. CASE RemovesObject(r)
  BY <1>9, RemoveObjectIsCalm
<1>10. CASE RemovesThumbnail(r)
  BY <1>10, RemoveThumbnailIsCalm
<1>11. CASE FailsToRemove(r)
  BY <1>11, RemoveFailsIsCalm
<1>12. CASE AsksThumbnail(r) \/ ReadsOriginal(r) \/ PutsThumbnail(r)
  BY <1>12, ThumbnailIsCalm
<1> QED
  BY <1>1, <1>2, <1>3, <1>4, <1>5, <1>6, <1>7, <1>8, <1>9, <1>10, <1>11, <1>12 DEF Quiet

----------------------------------------------------------------------------
(* Types, and files in use *)

LEMMA InitSafe == Init => TypeOK /\ Safe
<1> SUFFICES ASSUME Init PROVE TypeOK /\ Safe
  OBVIOUS
<1>1. /\ slot = [o \in Owners |-> NoFile] /\ row = [f \in Files |-> {}]
      /\ req = [r \in Requests |-> Idle]
  BY DEF Init
<1>2. Recorded = {}
  <2>1. \A f \in Files : f # NoFile
    BY DEF Files, NoFile
  <2> QED BY <1>1, <2>1 DEF Recorded
<1>3. TypeOK
  <2>1. 0 \in 0..MaxFiles /\ 0 \in 0..MaxOps
    BY StoredFilesAssumption
  <2>2. {} \in Hangings
    BY DEF Hangings
  <2>3. owner \in [Owners -> {"none", "there", "gone"}]
    BY DEF Init
  <2> QED BY <1>1, <2>1, <2>2, <2>3, IdleIsARequest DEF Init, TypeOK
<1>4. \A r \in Requests : req[r] = Idle
  BY <1>1
<1>5. \A r \in Requests : Hand(req[r]) = {} /\ ~Holds(req[r]) /\ Shaped(req[r])
  BY <1>4, IdleIsARequest, IdleIsShaped DEF Hand, Holds, Before
<1>6. AllShaped /\ Uploaded /\ Fresh /\ KeptArePut
  BY <1>2, <1>5 DEF AllShaped, Uploaded, Fresh, KeptArePut
<1>7. Placed
  BY <1>1 DEF Placed
<1>8. Doomed /\ Discarded /\ Informed
  BY <1>4, IdleIsARequest DEF Doomed, Discarded, Informed
<1>9. RowsHaveObjects
  BY <1>2 DEF RowsHaveObjects
<1> QED BY <1>3, <1>6, <1>7, <1>8, <1>9 DEF Safe

LEMMA StepSafe ==
  ASSUME TypeOK, Safe, [Next]_vars
  PROVE  Safe'
<1>1. ASSUME NEW r \in Requests, StepOf(r) PROVE Safe'
  <2>1. CASE Writes(r) \/ WritesUnheard(r)
    BY <2>1, ChangeSafe DEF Writes, WritesUnheard
  <2> QED BY <1>1, <2>1, UploadSafe, QuietIsCalm, CalmSafe DEF StepOf
<1> QED BY <1>1, WaysToStep, CrashSafe, IdlesSafe

LEMMA StepTyped ==
  ASSUME TypeOK, Safe, [Next]_vars
  PROVE  TypeOK'
<1>1. ASSUME NEW r \in Requests, Aside(r), uploads' \in 0..MaxFiles,
             stored' \subseteq Places \X Files, missed' \subseteq Places \X Files
      PROVE  TypeOK'
  BY <1>1 DEF TypeOK, Aside, Typed
<1>2. ASSUME NEW r \in Requests
      PROVE  req[r].todo \subseteq Files /\ req[r].half \subseteq Files /\ req[r].files \subseteq Files
  BY RequestFields DEF TypeOK
<1>3. ASSUME NEW r \in Requests, UploadBegins(r) PROVE TypeOK'
  <2>1. req'[r].files \subseteq Files
    BY <1>3, RequestFields DEF UploadBegins, Aside, Typed
  <2>2. stored' \subseteq Places \X Files
    BY <1>3, <2>1 DEF UploadBegins, Places, TypeOK
  <2> QED BY <1>1, <1>3, <2>2 DEF UploadBegins, TypeOK
<1>4. ASSUME NEW r \in Requests, Quiet(r) PROVE TypeOK'
  <2>1. Aside(r) /\ uploads' = uploads
    BY <1>4, QuietIsCalm DEF Calm
  <2>2. stored' \subseteq Places \X Files /\ missed' \subseteq Places \X Files
    <3>1. CASE Persists(r)
      <4>1. PICK f \in req[r].files :
              /\ missed' \subseteq missed \cup {<<"tmp", f>>}
              /\ stored' \subseteq stored \cup {<<"object", f>>}
        BY <3>1 DEF Persists
      <4>2. f \in Files
        BY <1>2
      <4> QED BY <4>1, <4>2 DEF Places, TypeOK
    <3>2. CASE FailsToPut(r)
      BY <3>2 DEF FailsToPut, Places, TypeOK
    <3>3. CASE HangsUp(r)
      BY <1>2, <3>3 DEF HangsUp, GivesUp, Places, TypeOK
    <3>4. CASE RemovesThumbnail(r)
      <4>1. PICK f \in req[r].half :
              /\ stored' \subseteq stored /\ missed' \subseteq missed \cup {<<"thumb", f>>}
        BY <3>4 DEF RemovesThumbnail
      <4>2. f \in Files
        BY <1>2
      <4> QED BY <4>1, <4>2 DEF Places, TypeOK
    <3>5. CASE FailsToRemove(r)
      <4>1. PICK f \in req[r].todo \cup req[r].half :
              /\ stored' \subseteq stored
              /\ missed' \subseteq missed \cup {<<"object", f>>, <<"thumb", f>>}
        BY <3>5 DEF FailsToRemove
      <4>2. f \in Files
        BY <1>2
      <4> QED BY <4>1, <4>2 DEF Places, TypeOK
    <3>6. CASE PutsThumbnail(r)
      BY <3>6 DEF PutsThumbnail, Places, TypeOK
    <3>7. CASE \/ DeleteBegins(r) \/ Verifies(r) \/ Refuses(r) \/ Plans(r)
               \/ AsksThumbnail(r) \/ ReadsOriginal(r) \/ Waits(r)
      BY <3>7 DEF DeleteBegins, Verifies, Refuses, Plans, AsksThumbnail, ReadsOriginal, Waits,
                  GivesUp, TypeOK
    <3>8. CASE Discards(r) \/ RemovesObject(r)
      BY <3>8 DEF Discards, RemovesObject, TypeOK
    <3> QED BY <1>4, <3>1, <3>2, <3>3, <3>4, <3>5, <3>6, <3>7, <3>8 DEF Quiet
  <2> QED BY <1>1, <2>1, <2>2 DEF TypeOK
<1>5. ASSUME NEW r \in Requests, Writes(r) \/ WritesUnheard(r) PROVE TypeOK'
  <2>1. Changed(r) /\ Answered(r)
    BY <1>5 DEF Writes, WritesUnheard
  <2>2. used' \in 0..MaxOps /\ unsure' \subseteq Files
    BY <1>5 DEF Writes, WritesUnheard, TypeOK
  <2>3. missed' \subseteq Places \X Files
    <3>1. CASE Writes(r)
      <4>1. \A x \in Overtaken(r, req[r].todo \cup Returned(r)) : x \in {"object"} \X Files
        BY RecordedFiles DEF Overtaken
      <4> QED BY <3>1, <4>1 DEF Writes, Places, TypeOK
    <3>2. CASE WritesUnheard(r)
      BY <1>2, <3>2, RecordedFiles DEF WritesUnheard, Places, TypeOK
    <3> QED BY <1>5, <3>1, <3>2
  <2> QED BY <2>1, <2>2, <2>3 DEF Changed, Answered, Typed, TypeOK
<1>6. ASSUME Dies PROVE TypeOK'
  <2>1. UNION {Hand(req[r]) : r \in Requests} \subseteq Files
    BY HandFiles
  <2> QED BY <1>6, <2>1 DEF Dies, Typed, Places, TypeOK
<1>7. ASSUME Idles PROVE TypeOK'
  BY <1>7 DEF Idles, history, TypeOK
<1> QED BY <1>3, <1>4, <1>5, <1>6, <1>7, WaysToStep DEF StepOf

\* Every variable keeps its type.
THEOREM TypeCorrect == Spec => []TypeOK
<1>1. Init => TypeOK /\ Safe
  BY InitSafe
<1>2. TypeOK /\ Safe /\ [Next]_vars => (TypeOK /\ Safe)'
  BY StepSafe, StepTyped
<1> QED BY <1>1, <1>2, PTL DEF Spec

\* Whatever a row names can be served (removeStoredFiles, discardUploads): a request
\* removes only what its own statement has made unused, or an upload of its own that
\* was not recorded, unless the backend never learned that it was.
THEOREM FilesInUseStay == Spec => []RowsHaveObjects
<1>1. Init => TypeOK /\ Safe
  BY InitSafe
<1>2. TypeOK /\ Safe /\ [Next]_vars => (TypeOK /\ Safe)'
  BY StepSafe, StepTyped
<1>3. Safe => RowsHaveObjects
  BY DEF Safe
<1> QED BY <1>1, <1>2, <1>3, PTL DEF Spec

----------------------------------------------------------------------------
(* Nothing is left behind: what a step leaves unanswered for *)

\* q answers for the temporary file, the object, the thumbnail of f.
Parks(q, f) ==
  /\ q.step \in {"parked", "store", "discard"} /\ f \in q.files
  /\ q.step = "store" => f \notin q.kept
Keeps(q, f) == f \in q.kept \/ (q.step = "remove" /\ f \in q.todo)
Clears(q, f) == q.step = "remove" /\ f \in q.todo \cup q.half
Makes(q, f) == q.step = "put" /\ q.files = {f}

\* A step of r drops no file it answered for, and takes on those that are new.
Accounts(r) ==
  /\ Rest(r)
  /\ missed \subseteq missed'
  /\ \A f \in Files :
       /\ Parks(req[r], f) \/ <<"tmp", f>> \notin stored =>
            Parks(req'[r], f) \/ <<"tmp", f>> \notin stored' \ missed'
       /\ Keeps(req[r], f) \/ f \in Recorded \/ <<"object", f>> \notin stored =>
            Keeps(req'[r], f) \/ f \in Recorded' \/ <<"object", f>> \notin stored' \ missed'
       /\ <<"object", f>> \in stored =>
            \/ <<"object", f>> \in stored' \/ <<"thumb", f>> \in missed'
            \/ Clears(req'[r], f)
       /\ Clears(req[r], f) =>
            \/ <<"thumb", f>> \in missed' \/ Clears(req'[r], f)
            \/ <<"thumb", f>> \notin stored' /\ ~Making(f)
       /\ <<"thumb", f>> \in stored' => <<"thumb", f>> \in stored \/ Making(f)
       /\ Makes(req'[r], f) => <<"object", f>> \in stored'

Answers == Parked /\ Kept /\ Mirrored

LEMMA AccountsAnswer ==
  ASSUME Answers, NEW r \in Requests, Accounts(r)
  PROVE  Answers'
<1>1. \A q \in Requests \ {r}, f \in Files :
        /\ Parks(req[q], f) <=> Parks(req'[q], f)
        /\ Keeps(req[q], f) <=> Keeps(req'[q], f)
        /\ Clears(req[q], f) <=> Clears(req'[q], f)
        /\ Makes(req[q], f) <=> Makes(req'[q], f)
  BY DEF Accounts, Rest, Parks, Keeps, Clears, Makes
<1>2. Parked'
  <2> SUFFICES ASSUME NEW f \in Files, <<"tmp", f>> \in stored' \ missed'
               PROVE  \E q \in Requests : Parks(req'[q], f)
    BY DEF Parked, Parks
  <2>1. \/ <<"tmp", f>> \notin stored
        \/ \E q \in Requests : Parks(req[q], f)
    BY DEF Answers, Parked, Parks, Accounts
  <2>2. CASE <<"tmp", f>> \notin stored \/ Parks(req[r], f)
    BY <2>2 DEF Accounts
  <2>3. CASE \E q \in Requests \ {r} : Parks(req[q], f)
    BY <1>1, <2>3
  <2> QED BY <2>1, <2>2, <2>3
<1>3. Kept'
  <2> SUFFICES ASSUME NEW f \in Files, <<"object", f>> \in stored' \ missed'
               PROVE  f \in Recorded' \/ \E q \in Requests : Keeps(req'[q], f)
    BY DEF Kept, Keeps
  <2>1. \/ <<"object", f>> \notin stored \/ f \in Recorded
        \/ \E q \in Requests : Keeps(req[q], f)
    BY DEF Answers, Kept, Keeps, Accounts
  <2>2. CASE <<"object", f>> \notin stored \/ f \in Recorded \/ Keeps(req[r], f)
    BY <2>2 DEF Accounts
  <2>3. CASE \E q \in Requests \ {r} : Keeps(req[q], f)
    BY <1>1, <2>3
  <2> QED BY <2>1, <2>2, <2>3
<1>4. Mirrored'
  <2> SUFFICES ASSUME NEW f \in Files, <<"thumb", f>> \notin missed',
                      <<"thumb", f>> \in stored' \/ \E q \in Requests : Makes(req'[q], f)
               PROVE  <<"object", f>> \in stored' \/ \E q \in Requests : Clears(req'[q], f)
    BY DEF Mirrored, Clears, Makes, Making, At
  <2>1. <<"thumb", f>> \notin missed
    BY DEF Accounts
  <2>2. CASE Makes(req'[r], f)
    BY <2>2 DEF Accounts
  <2>3. CASE <<"thumb", f>> \in stored' \/ \E q \in Requests \ {r} : Makes(req'[q], f)
    <3>1. <<"thumb", f>> \in stored' \/ Making(f)
      BY <1>1, <2>3 DEF Making, Makes, At
    <3>2. <<"thumb", f>> \in stored \/ Making(f)
      BY <3>1 DEF Accounts
    <3>3. <<"object", f>> \in stored \/ \E q \in Requests : Clears(req[q], f)
      BY <2>1, <3>2 DEF Answers, Mirrored, Clears
    <3>4. CASE <<"object", f>> \in stored
      BY <3>4 DEF Accounts
    <3>5. CASE Clears(req[r], f)
      BY <3>1, <3>5 DEF Accounts
    <3>6. CASE \E q \in Requests \ {r} : Clears(req[q], f)
      BY <1>1, <3>6
    <3> QED BY <3>3, <3>4, <3>5, <3>6
  <2> QED BY <2>2, <2>3
<1> QED BY <1>2, <1>3, <1>4 DEF Answers

\* The step at which r is, and with it what its fields can be.
LEMMA ShapeFields ==
  ASSUME NEW q, Shaped(q)
  PROVE  /\ q.step \in {"idle", "remove", "read", "put"} \/ q.op \notin Uploading => q.kept = {}
         /\ q.step \in Before \cup {"discard"} /\ q.op \in Uploading => q.kept \subseteq q.files
         /\ q.step \in {"look", "write"} /\ q.op \in Uploading => q.kept = q.files
         /\ q.step \in {"parked", "store", "discard"} => q.op \in Uploading
         /\ q.step = "parked" => q.kept = {}
<1>1. CASE q.step \in Before \cup {"discard"} /\ q.op \in Uploading
  <2>1. Batch(q) /\ q.kept \subseteq q.files
    BY <1>1, KeptAreFiles DEF Shaped
  <2> QED BY <1>1, <2>1 DEF Batch, Before, Shaped
<1>2. CASE ~(q.step \in Before \cup {"discard"} /\ q.op \in Uploading)
  BY <1>2 DEF Shaped, Before
<1> QED BY <1>1, <1>2

LEMMA OthersRest == ASSUME NEW r, Others(r) PROVE Rest(r)
BY DEF Others, Rest

\* A step that removes nothing and puts nothing, after which r answers for what it did.
LEMMA SettledAccounts ==
  ASSUME TypeOK, Safe, NEW r \in Requests, Aside(r),
         stored' = stored, missed \subseteq missed',
         \A f \in Files : Parks(req[r], f) => Parks(req'[r], f) \/ <<"tmp", f>> \in missed',
         \A f \in Files : Keeps(req[r], f) => Keeps(req'[r], f) \/ <<"object", f>> \in missed',
         \A f \in Files : ~Clears(req[r], f),
         \A f \in Files : Makes(req'[r], f) => <<"object", f>> \in stored
  PROVE  Accounts(r)
<1>1. Rest(r) /\ Recorded' = Recorded
  BY AsideRecorded, OthersRest DEF Aside
<1> QED BY <1>1 DEF Accounts

LEMMA UploadAccounts ==
  ASSUME TypeOK, Safe, NEW r \in Requests, UploadBegins(r)
  PROVE  Accounts(r)
<1>1. Rest(r) /\ Recorded' = Recorded /\ Shaped(req[r]) /\ req[r].step = "idle"
  BY AsideRecorded, OthersRest DEF UploadBegins, Aside, Safe, AllShaped
<1>2. /\ \A f \in Files : ~Parks(req[r], f) /\ ~Keeps(req[r], f) /\ ~Clears(req[r], f)
      /\ \A f \in req'[r].files : Parks(req'[r], f)
      /\ \A f \in Files : ~Makes(req'[r], f)
  BY <1>1, ShapeFields DEF Parks, Keeps, Clears, Makes, UploadBegins
<1>3. \A f \in Files : <<"tmp", f>> \in stored' => <<"tmp", f>> \in stored \/ f \in req'[r].files
  BY DEF UploadBegins
<1>4. /\ missed' = missed
      /\ \A f \in Files : /\ <<"object", f>> \in stored' <=> <<"object", f>> \in stored
                          /\ <<"thumb", f>> \in stored' <=> <<"thumb", f>> \in stored
  BY DEF UploadBegins
<1> QED BY <1>1, <1>2, <1>3, <1>4 DEF Accounts

LEMMA QuietlySettled ==
  ASSUME TypeOK, Safe, NEW r \in Requests,
         \/ DeleteBegins(r) \/ Verifies(r) \/ HangsUp(r) \/ Refuses(r) \/ Plans(r)
         \/ AsksThumbnail(r) \/ ReadsOriginal(r) \/ Waits(r)
  PROVE  Accounts(r)
<1>1. Shaped(req[r]) /\ req[r].files \subseteq Files
  BY HandFiles DEF Safe, AllShaped
<1>2. CASE DeleteBegins(r) \/ AsksThumbnail(r) \/ Waits(r)
  <2>1. \A f \in Files : /\ ~Parks(req[r], f) /\ ~Keeps(req[r], f) /\ ~Clears(req[r], f)
                         /\ ~Makes(req'[r], f)
    BY <1>1, <1>2, ShapeFields, IdleIsARequest
    DEF DeleteBegins, AsksThumbnail, Waits, GivesUp, Parks, Keeps, Clears, Makes
  <2>2. Aside(r) /\ stored' = stored /\ missed' = missed
    BY <1>2 DEF DeleteBegins, AsksThumbnail, Waits, GivesUp
  <2> QED BY <2>1, <2>2, SettledAccounts
<1>3. CASE Verifies(r)
  <2>1. \A f \in Files : /\ Parks(req[r], f) => Parks(req'[r], f)
                         /\ ~Keeps(req[r], f) /\ ~Clears(req[r], f) /\ ~Makes(req'[r], f)
    BY <1>1, <1>3, ShapeFields DEF Verifies, SameFiles, Parks, Keeps, Clears, Makes
  <2> QED BY <1>3, <2>1, SettledAccounts DEF Verifies
<1>4. CASE HangsUp(r)
  <2>1. req[r].step = "discard" /\ req'[r] = Idle /\ req[r].kept \subseteq req[r].files
    BY <1>1, <1>4, ShapeFields DEF HangsUp, GivesUp
  <2>2. \A f \in req[r].files : <<"tmp", f>> \in missed' /\ <<"object", f>> \in missed'
    BY <1>4 DEF HangsUp
  <2>3. \A f \in Files : ~Clears(req[r], f) /\ ~Makes(req'[r], f)
    BY <2>1, IdleIsARequest DEF Clears, Makes
  <2>4. \A f \in Files : Parks(req[r], f) => <<"tmp", f>> \in missed'
    BY <2>2 DEF Parks
  <2>5. \A f \in Files : Keeps(req[r], f) => <<"object", f>> \in missed'
    BY <2>1, <2>2 DEF Keeps
  <2>6. Aside(r) /\ stored' = stored /\ missed \subseteq missed'
    BY <1>4 DEF HangsUp, GivesUp
  <2> QED BY <2>3, <2>4, <2>5, <2>6, SettledAccounts
<1>5. CASE Refuses(r)
  <2>1. \A f \in Files : /\ ~Parks(req[r], f) /\ ~Clears(req[r], f) /\ ~Makes(req'[r], f)
    BY <1>5, IdleIsARequest DEF Refuses, Parks, Clears, Makes
  <2>2. \A f \in Files : Keeps(req[r], f) => Keeps(req'[r], f)
    BY <1>1, <1>5, ShapeFields DEF Refuses, Keeps
  <2> QED BY <1>5, <2>1, <2>2, SettledAccounts DEF Refuses
<1>6. CASE Plans(r)
  <2>1. \A f \in Files : /\ ~Parks(req[r], f) /\ ~Clears(req[r], f) /\ ~Makes(req'[r], f)
                         /\ Keeps(req[r], f) => Keeps(req'[r], f)
    BY <1>6 DEF Plans, Parks, Clears, Makes, Keeps
  <2> QED BY <1>6, <2>1, SettledAccounts DEF Plans
<1>7. CASE ReadsOriginal(r)
  <2>1. \A f \in Files : /\ ~Parks(req[r], f) /\ ~Keeps(req[r], f) /\ ~Clears(req[r], f)
                         /\ Makes(req'[r], f) => <<"object", f>> \in stored
    BY <1>1, <1>7, ShapeFields DEF ReadsOriginal, SameFiles, Parks, Keeps, Clears, Makes
  <2> QED BY <1>7, <2>1, SettledAccounts DEF ReadsOriginal
<1> QED BY <1>2, <1>3, <1>4, <1>5, <1>6, <1>7

LEMMA PersistAccounts ==
  ASSUME TypeOK, Safe, NEW r \in Requests, Persists(r)
  PROVE  Accounts(r)
<1>1. Rest(r) /\ Recorded' = Recorded /\ Shaped(req'[r])
  BY AsideRecorded, OthersRest DEF Persists, Aside
<1>2. PICK g \in req[r].files :
        /\ req'[r].kept = req[r].kept \cup {g}
        /\ missed \subseteq missed'
        /\ \/ stored' = (stored \cup {<<"object", g>>}) \ {<<"tmp", g>>}
           \/ stored' = stored \cup {<<"object", g>>} /\ <<"tmp", g>> \in missed'
  BY DEF Persists
<1>3. /\ <<"tmp", g>> \notin stored' \ missed'
      /\ \A f \in Files : /\ <<"tmp", f>> \in stored' => <<"tmp", f>> \in stored
                          /\ <<"object", f>> \in stored' => <<"object", f>> \in stored \/ f = g
                          /\ <<"object", f>> \in stored => <<"object", f>> \in stored'
                          /\ <<"thumb", f>> \in stored' <=> <<"thumb", f>> \in stored
  BY <1>2
<1>4. \A f \in Files : Parks(req[r], f) /\ f # g => Parks(req'[r], f)
  <2>1. req'[r].step = "look" => req'[r].kept = req'[r].files
    BY <1>1, ShapeFields DEF Persists, SameFiles
  <2> QED BY <1>2, <2>1 DEF Parks, Persists, SameFiles
<1>5. \A f \in Files : Keeps(req[r], f) \/ f = g => Keeps(req'[r], f)
  BY <1>2 DEF Keeps, Persists
<1>6. \A f \in Files : ~Clears(req[r], f) /\ ~Makes(req'[r], f)
  BY DEF Clears, Makes, Persists
<1> QED BY <1>1, <1>2, <1>3, <1>4, <1>5, <1>6 DEF Accounts

LEMMA PutFailsAccounts ==
  ASSUME TypeOK, Safe, NEW r \in Requests, FailsToPut(r)
  PROVE  Accounts(r)
<1>1. Rest(r) /\ Recorded' = Recorded
  BY AsideRecorded, OthersRest DEF FailsToPut, Aside
<1>2. PICK g \in Files :
       /\ missed \subseteq missed'
       /\ stored \subseteq stored' /\ stored' \subseteq stored \cup {<<"object", g>>}
       /\ stored' # stored => <<"object", g>> \in missed'
  BY DEF FailsToPut
<1>3. \A f \in Files : /\ <<"tmp", f>> \in stored' => <<"tmp", f>> \in stored
                       /\ <<"object", f>> \in stored' \ missed' => <<"object", f>> \in stored
                       /\ <<"object", f>> \in stored => <<"object", f>> \in stored'
                       /\ <<"thumb", f>> \in stored' => <<"thumb", f>> \in stored
  BY <1>2
<1>4. \A f \in Files : /\ Parks(req[r], f) => Parks(req'[r], f)
                       /\ Keeps(req[r], f) => Keeps(req'[r], f)
                       /\ ~Clears(req[r], f) /\ ~Makes(req'[r], f)
  BY DEF FailsToPut, SameFiles, Parks, Keeps, Clears, Makes
<1> QED BY <1>1, <1>2, <1>3, <1>4 DEF Accounts

LEMMA DiscardAccounts ==
  ASSUME TypeOK, Safe, NEW r \in Requests, Discards(r)
  PROVE  Accounts(r)
<1>1. Rest(r) /\ Recorded' = Recorded
  BY AsideRecorded, OthersRest DEF Discards, Aside
<1>2. \A f \in Files : /\ <<"tmp", f>> \in stored' => <<"tmp", f>> \in stored /\ f \notin req[r].files
                       /\ <<"object", f>> \in stored' <=> <<"object", f>> \in stored
                       /\ <<"thumb", f>> \in stored' <=> <<"thumb", f>> \in stored
  BY DEF Discards
<1>3. \A f \in Files : /\ Parks(req[r], f) => f \in req[r].files
                       /\ Keeps(req[r], f) => Keeps(req'[r], f)
                       /\ ~Clears(req[r], f) /\ ~Makes(req'[r], f)
  BY DEF Discards, Parks, Keeps, Clears, Makes
<1> QED BY <1>1, <1>2, <1>3 DEF Accounts, Discards

LEMMA RemoveObjectAccounts ==
  ASSUME TypeOK, Safe, NEW r \in Requests, RemovesObject(r)
  PROVE  Accounts(r)
<1>1. Rest(r) /\ Recorded' = Recorded /\ Shaped(req[r])
  BY AsideRecorded, OthersRest DEF RemovesObject, Aside, Safe, AllShaped
<1>2. PICK g \in req[r].todo :
        /\ stored' = stored \ {<<"object", g>>}
        /\ req'[r].todo = req[r].todo \ {g} /\ req'[r].half = req[r].half \cup {g}
  BY DEF RemovesObject
<1>3. \A f \in Files : /\ <<"tmp", f>> \in stored' <=> <<"tmp", f>> \in stored
                       /\ <<"object", f>> \in stored' => <<"object", f>> \in stored /\ f # g
                       /\ <<"object", f>> \in stored => <<"object", f>> \in stored' \/ f = g
                       /\ <<"thumb", f>> \in stored' <=> <<"thumb", f>> \in stored
  BY <1>2
<1>4. req[r].step = "remove" /\ req'[r].step = "remove" /\ req[r].kept = {} /\ missed' = missed
  BY <1>1, ShapeFields DEF RemovesObject
<1>5. \A f \in Files : /\ ~Parks(req[r], f) /\ ~Makes(req'[r], f)
                       /\ Keeps(req[r], f) /\ f # g => Keeps(req'[r], f)
                       /\ Clears(req[r], f) \/ f = g => Clears(req'[r], f)
  BY <1>2, <1>4 DEF Parks, Keeps, Clears, Makes
<1> QED BY <1>1, <1>3, <1>4, <1>5 DEF Accounts

LEMMA RemoveThumbnailAccounts ==
  ASSUME TypeOK, Safe, NEW r \in Requests, RemovesThumbnail(r)
  PROVE  Accounts(r)
<1>1. Rest(r) /\ Recorded' = Recorded /\ Shaped(req[r])
  BY AsideRecorded, OthersRest DEF RemovesThumbnail, Aside, Safe, AllShaped
<1>2. PICK g \in req[r].half :
        /\ stored' = stored \ {<<"thumb", g>>}
        /\ missed' = IF Making(g) THEN missed \cup {<<"thumb", g>>} ELSE missed
        /\ req'[r].todo = req[r].todo /\ req'[r].half = req[r].half \ {g}
  BY DEF RemovesThumbnail
<1>3. \A f \in Files : /\ <<"tmp", f>> \in stored' <=> <<"tmp", f>> \in stored
                       /\ <<"object", f>> \in stored' <=> <<"object", f>> \in stored
                       /\ <<"thumb", f>> \in stored' => <<"thumb", f>> \in stored /\ f # g
  BY <1>2
<1>4. /\ req[r].step = "remove" /\ req'[r].step \in {"idle", "remove"} /\ req[r].kept = {}
      /\ missed \subseteq missed' /\ (Making(g) => <<"thumb", g>> \in missed')
      /\ req'[r].todo \cup req'[r].half # {} => req'[r].step = "remove"
  BY <1>1, <1>2, ShapeFields DEF RemovesThumbnail
<1>5. \A f \in Files : /\ ~Parks(req[r], f) /\ ~Makes(req'[r], f)
                       /\ Keeps(req[r], f) => Keeps(req'[r], f)
                       /\ Clears(req[r], f) /\ f # g => Clears(req'[r], f)
  BY <1>2, <1>4 DEF Parks, Keeps, Clears, Makes
<1> QED BY <1>1, <1>3, <1>4, <1>5 DEF Accounts

LEMMA RemoveFailsAccounts ==
  ASSUME TypeOK, Safe, NEW r \in Requests, FailsToRemove(r)
  PROVE  Accounts(r)
<1>1. Rest(r) /\ Recorded' = Recorded /\ Shaped(req[r])
  BY AsideRecorded, OthersRest DEF FailsToRemove, Aside, Safe, AllShaped
<1>2. /\ req[r].step = "remove" /\ req'[r].step \in {"idle", "remove"} /\ req[r].kept = {}
      /\ req'[r].todo \cup req'[r].half # {} => req'[r].step = "remove"
  BY <1>1, ShapeFields DEF FailsToRemove
<1>3. CASE \E f \in req[r].todo :
             /\ stored' \in {stored, stored \ {<<"object", f>>}}
             /\ missed' = missed \cup ({"object", "thumb"} \X {f})
             /\ req'[r].todo = req[r].todo \ {f} /\ req'[r].half = req[r].half
  <2>1. PICK g \in req[r].todo :
          /\ stored' \in {stored, stored \ {<<"object", g>>}}
          /\ missed' = missed \cup ({"object", "thumb"} \X {g})
          /\ req'[r].todo = req[r].todo \ {g} /\ req'[r].half = req[r].half
    BY <1>3
  <2>2. /\ <<"object", g>> \in missed' /\ <<"thumb", g>> \in missed' /\ missed \subseteq missed'
        /\ \A f \in Files : /\ <<"tmp", f>> \in stored' <=> <<"tmp", f>> \in stored
                            /\ <<"object", f>> \in stored' => <<"object", f>> \in stored
                            /\ <<"object", f>> \in stored => <<"object", f>> \in stored' \/ f = g
                            /\ <<"thumb", f>> \in stored' <=> <<"thumb", f>> \in stored
    BY <2>1
  <2>3. \A f \in Files : /\ ~Parks(req[r], f) /\ ~Makes(req'[r], f)
                         /\ Keeps(req[r], f) /\ f # g => Keeps(req'[r], f)
                         /\ Clears(req[r], f) /\ f # g => Clears(req'[r], f)
    BY <1>2, <2>1 DEF Parks, Keeps, Clears, Makes
  <2> QED BY <1>1, <2>2, <2>3 DEF Accounts
<1>4. CASE \E f \in req[r].half :
             /\ stored' \in {stored, stored \ {<<"thumb", f>>}}
             /\ missed' = missed \cup {<<"thumb", f>>}
             /\ req'[r].todo = req[r].todo /\ req'[r].half = req[r].half \ {f}
  <2>1. PICK g \in req[r].half :
          /\ stored' \in {stored, stored \ {<<"thumb", g>>}}
          /\ missed' = missed \cup {<<"thumb", g>>}
          /\ req'[r].todo = req[r].todo /\ req'[r].half = req[r].half \ {g}
    BY <1>4
  <2>2. /\ <<"thumb", g>> \in missed' /\ missed \subseteq missed'
        /\ \A f \in Files : /\ <<"tmp", f>> \in stored' <=> <<"tmp", f>> \in stored
                            /\ <<"object", f>> \in stored' <=> <<"object", f>> \in stored
                            /\ <<"thumb", f>> \in stored' => <<"thumb", f>> \in stored
    BY <2>1
  <2>3. \A f \in Files : /\ ~Parks(req[r], f) /\ ~Makes(req'[r], f)
                         /\ Keeps(req[r], f) => Keeps(req'[r], f)
                         /\ Clears(req[r], f) /\ f # g => Clears(req'[r], f)
    BY <1>2, <2>1 DEF Parks, Keeps, Clears, Makes
  <2> QED BY <1>1, <2>2, <2>3 DEF Accounts
<1> QED BY <1>3, <1>4 DEF FailsToRemove

LEMMA PutThumbnailAccounts ==
  ASSUME TypeOK, Safe, NEW r \in Requests, PutsThumbnail(r)
  PROVE  Accounts(r)
<1>1. Rest(r) /\ Recorded' = Recorded /\ Shaped(req[r])
  BY AsideRecorded, OthersRest DEF PutsThumbnail, Aside, Safe, AllShaped
<1>2. PICK g \in Files : req[r].files = {g} /\ stored' \in {stored, stored \cup {<<"thumb", g>>}}
  BY DEF PutsThumbnail
<1>3. /\ \A f \in Files : /\ <<"tmp", f>> \in stored' <=> <<"tmp", f>> \in stored
                          /\ <<"object", f>> \in stored' <=> <<"object", f>> \in stored
                          /\ <<"thumb", f>> \in stored' => <<"thumb", f>> \in stored \/ f = g
      /\ Making(g)
  BY <1>2 DEF Making, PutsThumbnail, At
<1>4. \A f \in Files : /\ ~Parks(req[r], f) /\ ~Keeps(req[r], f) /\ ~Clears(req[r], f)
                       /\ ~Makes(req'[r], f)
  BY <1>1, ShapeFields, IdleIsARequest DEF PutsThumbnail, Parks, Keeps, Clears, Makes
<1> QED BY <1>1, <1>3, <1>4 DEF Accounts, PutsThumbnail

\* A statement leaves only what r removes, or has recorded as missed.
LEMMA ChangeAccounts ==
  ASSUME TypeOK, Safe, NEW r \in Requests, Writes(r) \/ WritesUnheard(r)
  PROVE  Accounts(r)
<1>1. /\ Changed(r) /\ Answered(r) /\ req[r].step = "write" /\ Rest(r) /\ stored' = stored
      /\ missed \subseteq missed' /\ Shaped(req[r])
  BY DEF Writes, WritesUnheard, Answered, Safe, AllShaped
<1>2. \A f \in Files : /\ ~Parks(req[r], f) /\ ~Clears(req[r], f) /\ ~Makes(req'[r], f)
  BY <1>1 DEF Answered, Parks, Clears, Makes
<1>3. ASSUME NEW f \in Files, Keeps(req[r], f)
      PROVE  f \in Recorded'
  <2>1. f \in req[r].kept
    BY <1>1, <1>3 DEF Keeps
  <2>2. req[r].op \in Uploading /\ f \in req[r].files
    BY <1>1, <2>1, ShapeFields
  <2> QED BY <1>1, <2>2 DEF Changed
<1>4. ASSUME NEW f \in Recorded, f \notin Recorded'
      PROVE  Keeps(req'[r], f) \/ <<"object", f>> \in missed'
  <2>1. CASE Writes(r)
    <3>1. f \in req[r].todo \cup Returned(r) \cup req[r].behind
      BY <1>1, <1>4 DEF Changed
    <3>2. CASE f \in req[r].todo \cup Returned(r)
      BY <2>1, <3>2 DEF Writes, Keeps
    <3>3. CASE f \in req[r].behind \ (req[r].todo \cup Returned(r))
      <4>1. <<"object", f>> \in Overtaken(r, req[r].todo \cup Returned(r))
        BY <1>4, <3>3 DEF Overtaken
      <4> QED BY <2>1, <4>1 DEF Writes
    <3> QED BY <3>1, <3>2, <3>3
  <2>2. CASE WritesUnheard(r)
    BY <1>4, <2>2 DEF WritesUnheard
  <2> QED BY <2>1, <2>2
<1> QED BY <1>1, <1>2, <1>3, <1>4 DEF Accounts

LEMMA CrashAnswers ==
  ASSUME TypeOK, Safe, Answers, Dies
  PROVE  Answers'
<1>1. \A r \in Requests : Shaped(req[r])
  BY DEF Safe, AllShaped
<1>2. \A r \in Requests : req'[r].step = "idle"
  BY IdleIsARequest DEF Dies
<1>3. \A r \in Requests : \A f \in Hand(req[r]), p \in Places : <<p, f>> \in missed'
  BY DEF Dies
<1>4. \A r \in Requests, f \in Files :
        Parks(req[r], f) \/ Keeps(req[r], f) \/ Clears(req[r], f) => f \in Hand(req[r])
  <2> SUFFICES ASSUME NEW r \in Requests, NEW f \in Files,
                      Parks(req[r], f) \/ Keeps(req[r], f) \/ Clears(req[r], f)
               PROVE  f \in Hand(req[r])
    OBVIOUS
  <2>1. Shaped(req[r])
    BY <1>1
  <2>2. req[r].op # "thumb" /\ f \in req[r].files \cup req[r].todo \cup req[r].half
    <3>1. CASE f \in req[r].kept
      <4>1. /\ req[r].step \in Before \cup {"discard"} /\ req[r].op \in Uploading
            /\ f \in req[r].files
        BY <2>1, <3>1, ShapeFields DEF Shaped
      <4> QED BY <4>1 DEF Uploading, Attaching, Replacing
    <3>2. CASE f \notin req[r].kept
      BY <2>1, <3>2 DEF Shaped, Parks, Keeps, Clears
    <3> QED BY <3>1, <3>2
  <2> QED BY <2>2 DEF Hand
<1>5. /\ stored' = stored /\ Recorded' = Recorded /\ missed \subseteq missed'
      /\ Places = {"tmp", "object", "thumb"}
  BY DEF Dies, Recorded, Places
<1>6. Parked'
  <2> SUFFICES ASSUME NEW f \in Files, <<"tmp", f>> \in stored \ missed'
               PROVE  FALSE
    BY <1>5 DEF Parked
  <2>1. \E r \in Requests : Parks(req[r], f)
    BY <1>5 DEF Answers, Parked, Parks
  <2> QED BY <1>3, <1>4, <1>5, <2>1
<1>7. Kept'
  <2> SUFFICES ASSUME NEW f \in Files, <<"object", f>> \in stored \ missed'
               PROVE  f \in Recorded
    BY <1>5 DEF Kept
  <2>1. f \in Recorded \/ \E r \in Requests : Keeps(req[r], f)
    BY <1>5 DEF Answers, Kept, Keeps
  <2> QED BY <1>3, <1>4, <1>5, <2>1
<1>8. Mirrored'
  <2> SUFFICES ASSUME NEW f \in Files, <<"thumb", f>> \in stored \ missed'
               PROVE  <<"object", f>> \in stored
    BY <1>2, <1>5 DEF Mirrored, Making, At
  <2>1. <<"object", f>> \in stored \/ \E r \in Requests : Clears(req[r], f)
    BY <1>5 DEF Answers, Mirrored, Clears
  <2> QED BY <1>3, <1>4, <1>5, <2>1
<1> QED BY <1>6, <1>7, <1>8 DEF Answers

LEMMA StepAnswers ==
  ASSUME TypeOK, Safe, Answers, [Next]_vars
  PROVE  Answers'
<1>1. ASSUME NEW r \in Requests, StepOf(r) PROVE Accounts(r)
  BY <1>1, UploadAccounts, QuietlySettled, PersistAccounts, PutFailsAccounts, DiscardAccounts,
     RemoveObjectAccounts, RemoveThumbnailAccounts, RemoveFailsAccounts, PutThumbnailAccounts,
     ChangeAccounts
  DEF StepOf, Quiet
<1>2. Idles => Answers'
  <2>1. Idles => Recorded' = Recorded
    BY DEF Idles, Recorded
  <2> QED BY <2>1 DEF Idles, history, Answers, Parked, Kept, Mirrored, Making, At
<1> QED BY <1>1, <1>2, AccountsAnswer, CrashAnswers, WaysToStep

\* Whoever answers for a thing has it in hand.
LEMMA NobodyForgets ==
  ASSUME TypeOK, AllShaped, Answers
  PROVE  NothingLeftBehind
<1> SUFFICES ASSUME NEW x \in stored \ missed PROVE Wanted(x)
  BY DEF NothingLeftBehind
<1>1. PICK p \in Places, f \in Files : x = <<p, f>>
  BY DEF TypeOK
<1>2. \A r \in Requests : /\ InHand(r) = Hand(req[r]) /\ Shaped(req[r])
                          /\ req[r].step \in {"parked", "store", "discard", "remove"} => req[r].op # "thumb"
  BY DEF InHand, Hand, AllShaped, Shaped
<1>3. CASE p = "tmp"
  <2>1. PICK r \in Requests : req[r].step \in {"parked", "store", "discard"} /\ f \in req[r].files
    BY <1>1, <1>3 DEF Answers, Parked
  <2> QED BY <1>1, <1>2, <2>1 DEF Wanted, Hand
<1>4. CASE p = "object"
  <2>1. CASE f \in Recorded
    BY <1>1, <1>4, <2>1 DEF Wanted
  <2>2. CASE f \notin Recorded
    <3>1. PICK r \in Requests : f \in req[r].kept \/ (req[r].step = "remove" /\ f \in req[r].todo)
      BY <1>1, <1>4, <2>2 DEF Answers, Kept
    <3>2. f \in req[r].kept => f \in req[r].files /\ req[r].op \in Uploading
      <4>1. Shaped(req[r])
        BY <1>2
      <4> QED BY <4>1, ShapeFields DEF Shaped
    <3>3. req[r].op \in Uploading => req[r].op # "thumb"
      BY DEF Uploading, Attaching, Replacing
    <3> QED BY <1>1, <1>2, <3>1, <3>2, <3>3 DEF Wanted, Hand
  <2> QED BY <2>1, <2>2
<1>5. CASE p = "thumb"
  <2>1. \/ <<"object", f>> \in stored
        \/ \E r \in Requests : req[r].step = "remove" /\ f \in req[r].todo \cup req[r].half
    BY <1>1, <1>5 DEF Answers, Mirrored
  <2> QED BY <1>1, <1>2, <1>5, <2>1 DEF Wanted, Hand
<1> QED BY <1>3, <1>4, <1>5 DEF Places

\* Nothing stays that no row names and nobody is to remove, but for what a failure, a
\* lost answer or connection, a crash or an overlap in time kept from being removed
\* (discardUploads, removeStoredFiles, the cascades of the schema).
THEOREM NothingIsLeft == Spec => []NothingLeftBehind
<1>1. Init => TypeOK /\ Safe /\ Answers
  <2>1. ASSUME Init PROVE Answers
    <3>1. stored = {} /\ \A r \in Requests : req[r].step = "idle"
      BY <2>1, IdleIsARequest DEF Init
    <3> QED BY <3>1 DEF Answers, Parked, Kept, Mirrored, Making, At
  <2> QED BY <2>1, InitSafe
<1>2. TypeOK /\ Safe /\ Answers /\ [Next]_vars => (TypeOK /\ Safe /\ Answers)'
  BY StepSafe, StepTyped, StepAnswers
<1>3. TypeOK /\ Safe /\ Answers => NothingLeftBehind
  BY NobodyForgets DEF Safe
<1> QED BY <1>1, <1>2, <1>3, PTL DEF Spec
=============================================================================
