---------------------------- MODULE StoredFiles -----------------------------
(***************************************************************************)
(* The uploaded files: photos of albums, documents and photos of students, *)
(* materials, submitted work, profile pictures, and their thumbnails       *)
(* (middleware/upload.js, lib/fileStorage.js, lib/thumbnails.js, the       *)
(* drivers in storage/, and the controllers that record or remove a file). *)
(*                                                                         *)
(* A file is in three places one after the other: a temporary directory    *)
(* while it is looked at, the storage, and, as a thumbnail, the storage    *)
(* again.  A row of the database says which files are in use.  None of     *)
(* these can be changed together with another: an upload is stored before  *)
(* it is recorded and taken back when the request is answered with a       *)
(* failure, and what a request replaces or deletes is removed after the    *)
(* database has been changed, on the strength of what was read before it.  *)
(*                                                                         *)
(* Rows that hang on an owner (album photos, documents, submissions) go    *)
(* with it; other files are a column of their owner, replaced in place.    *)
(***************************************************************************)
EXTENDS Naturals, FiniteSets, FiniteSetsExt

CONSTANTS
  Albums, Materials, Students, Users,   \* what a file can belong to
  Requests,    \* requests in flight at one time
  MaxFiles,    \* bound: files uploaded
  MaxBatch,    \* bound: files in one upload (the code: 20 photos, 10 documents)
  MaxOps       \* bound: requests and failures, together

Owners == Albums \cup Materials \cup Students \cup Users
Files == 1..MaxFiles
NoFile == 0

ASSUME StoredFilesAssumption ==
  /\ MaxFiles \in Nat /\ MaxBatch \in Nat /\ MaxOps \in Nat
  /\ Albums \cap Students = {}
  /\ Materials \cap (Albums \cup Students) = {}
  /\ Users \cap (Albums \cup Materials \cup Students) = {}

VARIABLES
  owner,     \* owner[o]: the row of o
  slot,      \* slot[o]: the file in the column of o
  row,       \* row[f]: what the row of f hangs on, nothing when there is no such row
  stored,    \* the pairs <<place, file>> that exist
  linked,    \* files somebody has a good link to, one that also gives the thumbnail
  req,       \* req[r]: the request r is serving
  uploads,   \* how many files there have been
  used,      \* how much of MaxOps is used up
  (* history *)
  missed,    \* what may be left behind, as a failure or an overlap kept it from being removed
  unsure     \* files taken back though recorded: the statement's answer was lost

tables == <<owner, slot, row>>
history == <<missed, unsure>>
vars == <<tables, stored, linked, req, uploads, used, history>>

Places == {"tmp", "object", "thumb"}

\* Uploads that create rows, and uploads into a column of their owner.
Attaching == {"photos", "document", "submission"}
Replacing == {"newMaterial", "material", "studentPhoto", "profile"}
Uploading == Attaching \cup Replacing

Request ==
  [step   : {"idle", "parked", "store", "look", "write", "discard", "remove", "read", "put"},
   op     : {"none", "deleteOwner", "deletePhoto", "deleteDocument", "thumb"} \cup Uploading,
   on     : SUBSET Owners,   \* the rows the request names
   files  : SUBSET Files,    \* req.files
   kept   : SUBSET Files,    \* those with `stored` set
   todo   : SUBSET Files,    \* files to remove from the storage when all is done
   half   : SUBSET Files,    \* of which only the thumbnail is still to be removed
   behind : SUBSET Files]    \* history: recorded on these rows since the request looked

Idle == [step |-> "idle", op |-> "none", on |-> {}, files |-> {}, kept |-> {},
         todo |-> {}, half |-> {}, behind |-> {}]

\* What a row of files can hang on.
Hangings == {{}} \cup {{o} : o \in Albums \cup Students}
                 \cup {{m, s} : m \in Materials, s \in Students}

TypeOK ==
  /\ owner \in [Owners -> {"none", "there", "gone"}]
  /\ slot \in [Owners -> Files \cup {NoFile}]
  /\ row \in [Files -> Hangings]
  /\ stored \subseteq Places \X Files
  /\ linked \subseteq Files
  /\ req \in [Requests -> Request]
  /\ uploads \in 0..MaxFiles /\ used \in 0..MaxOps
  /\ missed \subseteq Places \X Files
  /\ unsure \subseteq Files

There(owners) == \A o \in owners : owner[o] = "there"

\* Nothing has been uploaded yet: no album or material is there, or they are
\* without files.
Init ==
  /\ \E new \in {{}, Albums \cup Materials} :
       owner = [o \in Owners |-> IF o \in new THEN "none" ELSE "there"]
  /\ slot = [o \in Owners |-> NoFile]
  /\ row = [f \in Files |-> {}]
  /\ stored = {} /\ linked = {}
  /\ req = [r \in Requests |-> Idle]
  /\ uploads = 0 /\ used = 0
  /\ missed = {} /\ unsure = {}

Count == used < MaxOps /\ used' = used + 1

At(r, step) == req[r].step = step

Begin(r, fields) ==
  /\ Count
  /\ At(r, "idle")
  /\ req' = [req EXCEPT ![r] = fields]

Recorded == {f \in Files : row[f] # {} \/ \E o \in Owners : slot[o] = f}

\* The files that r is to record or to remove.
InHand(r) ==
  IF req[r].op = "thumb" THEN {} ELSE req[r].files \cup req[r].todo \cup req[r].half

----------------------------------------------------------------------------
(* The drivers *)

Put(place, f) == stored \cup {<<place, f>>}

Get(place, f) == <<place, f>> \in stored

\* Nothing there to remove is no error.
Remove(place, f) == stored \ {<<place, f>>}

\* What r still has to remove, when that is all it has to do.
Removing(r, todo, half) ==
  IF todo \cup half = {} THEN Idle
  ELSE [Idle EXCEPT !.step = "remove", !.op = req[r].op, !.todo = todo, !.half = half]

----------------------------------------------------------------------------
(* The requests *)

\* multer has parked n files in the temporary directory.
Upload(r, op, on, n) ==
  /\ uploads + n <= MaxFiles
  /\ uploads' = uploads + n
  /\ LET new == (uploads + 1)..(uploads + n)
     IN /\ Begin(r, [Idle EXCEPT !.step = "parked", !.op = op, !.on = on, !.files = new])
        /\ stored' = stored \cup ({"tmp"} \X new)
  /\ UNCHANGED <<tables, linked, history>>

AddAlbumPhotos(r) ==
  \E a \in Albums, n \in 1..MaxBatch : owner[a] # "none" /\ Upload(r, "photos", {a}, n)

UploadStudentDocuments(r) ==
  \E s \in Students, n \in 1..MaxBatch : Upload(r, "document", {s}, n)

SubmitStudentWork(r) ==
  \E m \in Materials, s \in Students :
    owner[m] # "none" /\ Upload(r, "submission", {m, s}, 1)

UploadStudentPhoto(r) == \E s \in Students : Upload(r, "studentPhoto", {s}, 1)

\* The session is checked before anything is parked (requireAuth).
UploadMyProfilePhoto(r) ==
  \E u \in Users : owner[u] = "there" /\ Upload(r, "profile", {u}, 1)

\* createMaterial: ids are never given out twice.
CreateMaterial(r) ==
  \E m \in Materials :
    /\ owner[m] = "none" /\ \A q \in Requests : m \notin req[q].on
    /\ Upload(r, "newMaterial", {m}, 1)

\* updateMaterial with a new file; without one it touches no file.
UpdateMaterial(r) ==
  \E m \in Materials : owner[m] # "none" /\ Upload(r, "material", {m}, 1)

Delete(r, op, on, files) ==
  /\ Begin(r, [Idle EXCEPT !.step = "look", !.op = op, !.on = on, !.todo = files])
  /\ UNCHANGED <<tables, stored, linked, uploads, history>>

DeleteAlbum(r) == \E a \in Albums : Delete(r, "deleteOwner", {a}, {})
DeleteMaterial(r) == \E m \in Materials : owner[m] # "none" /\ Delete(r, "deleteOwner", {m}, {})
DeleteStudent(r) == \E s \in Students : Delete(r, "deleteOwner", {s}, {})

\* deleteUser and deleteMyAccount
DeleteUser(r) == \E u \in Users : Delete(r, "deleteOwner", {u}, {})

DeleteAlbumPhoto(r) ==
  \E f \in Files : row[f] \cap Albums # {} /\ Delete(r, "deletePhoto", row[f], {f})

\* A document hangs on a student alone, a submission on a material too.
DeleteStudentDocument(r) ==
  \E f \in Files : \E s \in Students : row[f] = {s} /\ Delete(r, "deleteDocument", {s}, {f})

CreateAlbum ==
  \E a \in Albums :
    /\ Count
    /\ owner[a] = "none"
    /\ owner' = [owner EXCEPT ![a] = "there"]
    /\ UNCHANGED <<slot, row, stored, linked, req, uploads, history>>

----------------------------------------------------------------------------
(* Uploading: middleware/upload.js, before any controller runs *)

\* A file whose content is not of its declared type refuses the whole upload.
VerifyFileContents(r) ==
  /\ At(r, "parked")
  /\ \E step \in {"store", "discard"} : req' = [req EXCEPT ![r].step = step]
  /\ UNCHANGED <<tables, stored, linked, uploads, used, history>>

\* persistUploads: one file after the other is put and unlinked; a failing
\* unlink is ignored.
PersistUpload(r) ==
  /\ At(r, "store")
  /\ LET f == Min(req[r].files \ req[r].kept)
     IN /\ req' = [req EXCEPT ![r].kept = @ \cup {f},
                              ![r].step = IF f = Max(req[r].files) THEN "look" ELSE "store"]
        /\ \/ /\ stored' = Put("object", f) \ {<<"tmp", f>>}
              /\ UNCHANGED <<used, missed>>
           \/ /\ Count
              /\ stored' = Put("object", f)
              /\ missed' = missed \cup {<<"tmp", f>>}
  /\ UNCHANGED <<tables, linked, uploads, unsure>>

\* A put fails, or is not answered within its 30 seconds and works all the same.
PutFails(r) ==
  /\ Count
  /\ At(r, "store")
  /\ LET f == Min(req[r].files \ req[r].kept)
     IN \/ UNCHANGED <<stored, missed>>
        \/ /\ stored' = Put("object", f)
           /\ missed' = missed \cup {<<"object", f>>}
  /\ req' = [req EXCEPT ![r].step = "discard"]
  /\ UNCHANGED <<tables, linked, uploads, unsure>>

\* When the response of a failed request has been sent: the temporary files go,
\* then the objects.
DiscardUploads(r) ==
  /\ At(r, "discard")
  /\ stored' = stored \ ({"tmp"} \X req[r].files)
  /\ req' = [req EXCEPT ![r] = Removing(r, req[r].kept, {})]
  /\ UNCHANGED <<tables, linked, uploads, used, history>>

\* The client hangs up first: there is no "finish", and nothing is discarded.
HangUp(r) ==
  /\ Count
  /\ At(r, "discard")
  /\ missed' = missed \cup ({"tmp", "object"} \X req[r].files)
  /\ req' = [req EXCEPT ![r] = Idle]
  /\ UNCHANGED <<tables, stored, linked, uploads, unsure>>

----------------------------------------------------------------------------
(* The controllers: a look at the database, then one statement or transaction *)

\* Mutation: deleteMaterial does not ask for the submissions.
ListedHere(o) == {f \in Files : row[f] = {o}}

\* The rows that go with o.
Listed(o) == {f \in Files : o \in row[f]}

\* The files a request will remove, as of the moment it looks: the ones listed, or
\* the one in the column.  Materials and students give theirs up when they are
\* deleted; an account is asked for it before.
FilesToRemove(r) ==
  IF req[r].op = "deleteOwner" /\ req[r].on \cap Users = {}
  THEN UNION {Listed(o) : o \in req[r].on}
  ELSE IF req[r].op \in {"deleteOwner"} \cup Replacing
       THEN {slot[o] : o \in req[r].on} \ {NoFile}
       ELSE req[r].todo

\* The request finds what it is about, or leaves that to its statement.
Finds(r) ==
  CASE req[r].op \in Attaching \cup {"studentPhoto"} -> There(req[r].on)
    [] req[r].op \in {"deletePhoto", "deleteDocument"} -> \A f \in req[r].todo : row[f] = req[r].on
    [] req[r].op = "deleteOwner" /\ req[r].on \subseteq Users -> There(req[r].on)
    [] OTHER -> TRUE

\* A 4xx or 5xx: an upload is discarded.
Refused(r) ==
  req' = [req EXCEPT ![r] = IF @.op \in Uploading THEN [@ EXCEPT !.step = "discard", !.todo = {}]
                            ELSE Idle]

Look(r) ==
  /\ At(r, "look")
  /\ \/ /\ Finds(r)
        /\ req' = [req EXCEPT ![r].step = "write", ![r].todo = FilesToRemove(r)]
     \/ Refused(r)   \* not found, not allowed, or not valid
  /\ UNCHANGED <<tables, stored, linked, uploads, used, history>>

\* Mutation: what the row says after the update is taken for the previous file.
RemovedNow(r, gone) == req[r].todo \cup gone \cup (IF req[r].op = "material" THEN req[r].files ELSE {})

\* What is removed at last; `gone` is in the columns of the rows deleted, which all
\* deletions but those of accounts return.
ToRemove(r, gone) == req[r].todo \cup gone

\* A link to a document is signed as one (getStudentDocumentLink), and then gives
\* the whole file only.
Linked(r) == IF req[r].op = "document" THEN {} ELSE req[r].files

\* The files of r are recorded; a request that has looked at these rows does not know.
Record(r) ==
  /\ IF req[r].op \in Attaching
     THEN /\ row' = [f \in Files |-> IF f \in req[r].files THEN req[r].on ELSE row[f]]
          /\ UNCHANGED <<owner, slot>>
     ELSE /\ slot' = [o \in Owners |-> IF o \in req[r].on THEN Max(req[r].files) ELSE slot[o]]
          /\ owner' = [o \in Owners |-> IF o \in req[r].on THEN "there" ELSE owner[o]]
          /\ UNCHANGED row
  /\ linked' = linked \cup Linked(r)

Unaware(r) == {q \in Requests \ {r} : At(q, "write") /\ req[q].on \cap req[r].on # {}}

\* Mutation: rows are only cut loose from what is deleted.
CutLoose(o) == [f \in Files |-> row[f] \ {o}]

\* ON DELETE CASCADE
Cascade(o) == [f \in Files |-> IF o \in row[f] THEN {} ELSE row[f]]

\* Files recorded behind the back of a request that now makes them unused.
Overtaken(r, removed) ==
  {"object"} \X {f \in req[r].behind \ removed : f \in Recorded /\ f \notin Recorded'}

\* What the statement does to the tables and hence to the links.
Effect(r) ==
  CASE req[r].op \in Uploading -> Record(r)
    [] req[r].op = "deleteOwner" ->
         \E o \in req[r].on :
           /\ owner' = [owner EXCEPT ![o] = "gone"]
           /\ slot' = [slot EXCEPT ![o] = NoFile]
           /\ row' = Cascade(o)
           /\ UNCHANGED linked
    [] OTHER ->
         /\ row' = [f \in Files |-> IF f \in req[r].todo THEN {} ELSE row[f]]
         /\ UNCHANGED <<owner, slot, linked>>

\* The statement finds its rows; deleteMany is content with none.
Works(r) ==
  CASE req[r].op \in {"newMaterial", "deleteDocument"} -> TRUE
    [] req[r].op = "deletePhoto" -> \A f \in req[r].todo : row[f] # {}
    [] OTHER -> There(req[r].on)

Returned(r) ==
  IF req[r].op = "deleteOwner" THEN {slot[o] : o \in req[r].on \ Users} \ {NoFile} ELSE {}

Told(r) ==
  [q \in Requests |-> IF q \in Unaware(r) THEN [req[q] EXCEPT !.behind = @ \cup req[r].files]
                      ELSE req[q]]

Write(r) ==
  /\ At(r, "write")
  /\ Works(r)
  /\ Effect(r)
  /\ LET files == ToRemove(r, Returned(r))
     IN /\ req' = [Told(r) EXCEPT ![r] = Removing(r, files, {})]
        /\ missed' = missed \cup Overtaken(r, files)
  /\ UNCHANGED <<stored, uploads, used, unsure>>

\* P2025, a foreign key, or another failure: nothing is written.
WriteFails(r) ==
  /\ At(r, "write")
  /\ Works(r) => Count
  /\ ~Works(r) => UNCHANGED used
  /\ Refused(r)
  /\ UNCHANGED <<tables, stored, linked, uploads, history>>

\* The statement is carried out but its answer is lost: the request fails all the same.
AnswerLost(r) ==
  /\ Count
  /\ At(r, "write")
  /\ Works(r)
  /\ Effect(r)
  /\ req' = [Told(r) EXCEPT ![r] = IF @.op \in Uploading
                                   THEN [@ EXCEPT !.step = "discard", !.todo = {}] ELSE Idle]
  /\ missed' = missed \cup ({"object"} \X (req[r].todo \cup (Recorded \ Recorded')))
  /\ unsure' = unsure \cup req[r].files
  /\ UNCHANGED <<stored, uploads>>

----------------------------------------------------------------------------
(* removeStoredFiles: per file the object, then its thumbnail, all files at once *)

\* A thumbnail of f is about to be put, made from the original as it was.
Making(f) == \E q \in Requests : At(q, "put") /\ req[q].files = {f}

RemoveObject(r) ==
  \E f \in req[r].todo :
    /\ At(r, "remove")
    /\ stored' = Remove("object", f)
    /\ req' = [req EXCEPT ![r].todo = @ \ {f}, ![r].half = @ \cup {f}]
    /\ UNCHANGED <<tables, linked, uploads, used, history>>

RemoveThumbnail(r) ==
  \E f \in req[r].half :
    /\ stored' = Remove("thumb", f)
    /\ missed' = IF Making(f) THEN missed \cup {<<"thumb", f>>} ELSE missed
    /\ req' = [req EXCEPT ![r] = Removing(r, @.todo, @.half \ {f})]
    /\ UNCHANGED <<tables, linked, uploads, used, unsure>>

\* A removal fails, or works unanswered: it is logged, and the thumbnail of an
\* object that seems not to go is not tried.
RemoveFails(r) ==
  /\ Count
  /\ At(r, "remove")
  /\ \/ \E f \in req[r].todo :
          /\ req' = [req EXCEPT ![r] = Removing(r, @.todo \ {f}, @.half)]
          /\ stored' \in {stored, Remove("object", f)}
          /\ missed' = missed \cup ({"object", "thumb"} \X {f})
     \/ \E f \in req[r].half :
          /\ req' = [req EXCEPT ![r] = Removing(r, @.todo, @.half \ {f})]
          /\ stored' \in {stored, Remove("thumb", f)}
          /\ missed' = missed \cup {<<"thumb", f>>}
  /\ UNCHANGED <<tables, linked, uploads, unsure>>

----------------------------------------------------------------------------
(* Looking at a file: files.controller.js, lib/thumbnails.js *)

\* getFile with ?v=thumb, for which no thumbnail is stored.  A link is good for the
\* time it is signed for, whatever happens to the file.
GetThumbnail(r) ==
  \E f \in linked :
    /\ ~Get("thumb", f)
    /\ Begin(r, [Idle EXCEPT !.step = "read", !.op = "thumb", !.files = {f}])
    /\ UNCHANGED <<tables, stored, linked, uploads, history>>

\* createThumbnail, unless one is in flight, in which case that one is waited for.
\* Without an original there is nothing to serve (404).
ReadOriginal(r) ==
  /\ At(r, "read")
  /\ req' = [req EXCEPT ![r] =
               IF \E f \in @.files : Get("object", f) /\ ~Making(f)
               THEN [@ EXCEPT !.step = "put"] ELSE Idle]
  /\ UNCHANGED <<tables, stored, linked, uploads, used, history>>

\* It is served in any case, and may not get stored.
PutThumbnail(r) ==
  /\ At(r, "put")
  /\ \E f \in req[r].files : stored' \in {stored, Put("thumb", f)}
  /\ req' = [req EXCEPT ![r] = Idle]
  /\ UNCHANGED <<tables, linked, uploads, used, history>>

\* Links to what is in use are signed anew with every answer.
LinkExpires(f) ==
  /\ f \in linked \ Recorded
  /\ linked' = linked \ {f}
  /\ UNCHANGED <<tables, stored, req, uploads, used, history>>

\* The server dies: what its requests had in hand stays where it is.
Crash ==
  /\ Count
  /\ \E r \in Requests : ~At(r, "idle")
  /\ missed' = missed \cup (Places \X UNION {InHand(r) : r \in Requests})
  /\ req' = [r \in Requests |-> Idle]
  /\ UNCHANGED <<tables, stored, linked, uploads, unsure>>

----------------------------------------------------------------------------

Next ==
  \/ CreateAlbum
  \/ \E r \in Requests :
       \/ AddAlbumPhotos(r) \/ UploadStudentDocuments(r) \/ SubmitStudentWork(r)
       \/ UploadStudentPhoto(r) \/ UploadMyProfilePhoto(r) \/ CreateMaterial(r) \/ UpdateMaterial(r)
       \/ DeleteAlbum(r) \/ DeleteMaterial(r) \/ DeleteStudent(r) \/ DeleteUser(r)
       \/ DeleteAlbumPhoto(r) \/ DeleteStudentDocument(r)
       \/ VerifyFileContents(r) \/ PersistUpload(r) \/ PutFails(r) \/ DiscardUploads(r) \/ HangUp(r)
       \/ Look(r) \/ Write(r) \/ WriteFails(r) \/ AnswerLost(r)
       \/ RemoveObject(r) \/ RemoveThumbnail(r) \/ RemoveFails(r)
       \/ GetThumbnail(r) \/ ReadOriginal(r) \/ PutThumbnail(r)
  \/ \E f \in Files : LinkExpires(f)
  \/ Crash

Spec == Init /\ [][Next]_vars

----------------------------------------------------------------------------
(* Properties *)

\* Whatever a row names can be served: an upload is stored before it is recorded,
\* and neither a failed request nor a replacement or deletion that overlaps it
\* removes a file in use.  Only a statement that worked without the backend
\* learning of it may lose one.
RowsHaveObjects == \A f \in Recorded \ unsure : <<"object", f>> \in stored

\* A thing that is still to be used, or to be removed, by somebody.
Wanted(x) ==
  \/ \E r \in Requests : x[2] \in InHand(r)
  \/ x[1] = "object" /\ x[2] \in Recorded
  \/ x[1] = "thumb" /\ <<"object", x[2]>> \in stored

\* "Every rejected request would leave its upload behind as an orphan", "the
\* student's records don't outlive the student", the thumbnail is "a copy of the
\* same child's photo": nothing is left that no row names, temporary files and
\* thumbnails included, but for what a failure, a lost connection or a crash kept
\* from being removed, a file recorded between another request's look at these
\* rows and its statement, and a thumbnail made while its original was removed.
NothingLeftBehind == \A x \in stored \ missed : Wanted(x)

=============================================================================
