# ECCD SmartTrack backend: a TLA+ verification project

This directory models and verifies the backend of ECCD SmartTrack (a Node/Express
service on Postgres, a Python face service and an ESP32 tag gateway): what happens
to a child's attendance record when camera frames, tag sightings, teachers and
timers all work on it at once.  Paths below are relative to the repository root.

Contents: [the system](#the-system) · [what makes each part correct](#what-makes-each-part-correct) ·
[plan](#plan) · [the modules and the code](#the-modules-and-the-code) ·
[runs](#runs-and-what-they-show) · [bounds](#bounds-and-why-they-are-enough) ·
[fairness](#fairness) · [proofs](#what-is-proved) · [findings](#findings) ·
[not modelled](#what-is-not-modelled) · [how to run it](#how-to-run-it)

## The system

| part | files | state it keeps | operations that change it |
|---|---|---|---|
| Signal evidence and verification | `src/services/attendanceVerification.service.js` | `attendance_signals` (one row per session, student, kind), `attendance_verifications` | `recordSignal`, `markVerified` |
| Attendance by hand | `src/controllers/attendance.controller.js`, `attendanceBulk.controller.js` | `attendance` (one row per student and day) | `updateAttendance`, `markPickedUp`, `recordAttendance`, `importAttendance` |
| Readings | `attendanceFrame.controller.js`, `attendanceGateway.controller.js`, `src/lib/activeSession.js` | heartbeats in memory (`lib/hardwareStatus.js`) | a camera frame or a batch of tag sightings becomes calls of `recordSignal` |
| Live sessions | `attendanceSession.controller.js`, `lib/sessionCleanup.js`, `services/pickupWatch.service.js` | `attendance_sessions` | start, stop, automatic start and close, reminder, stale sweep |
| Pickup watch | `services/pickupWatch.service.js`, `lib/pickupJob.js`, `pickupCheck.controller.js` | `pickup_checks`, `unhealthyAt` in memory, pickups in `attendance` | run of the watch, prompt, automatic pickup, undo, answer |
| One-time codes and sign-in | `auth.controller.js`, `users.controller.js` (`issueAccountOtp` ...), `utils/otp.js`, `lib/otpCleanup.js`, `middleware/auth.js` | `password_reset_otps`, `account_action_otps`, `User.tokenVersion` | issue, check, consume, reset, change, delete, cleanup |
| Accounts | `users.controller.js` | `User` | register, update, delete; the last admin stays |
| Students, parents, centers | `students.controller.js`, `centers.controller.js` | `Student`, `Center`, the parent links | create, move, delete, import |
| Face enrolment | `enrollmentPhotos.controller.js`, `services/enrollmentReconcile.js`, `services/recognitionClient.js`, `face-recognition-service/app.py` | the photos on disk, the index in memory | enrol, re-enrol, unenrol, reload, reconcile |
| Tags and gateway | `bleDevices.controller.js`, `gatewayAuth.js`, `lib/hardwareStatus.js`, `esp32-ble-gateway/esp32-ble-gateway.ino` | `BleDevice`, the firmware's registry and hit counts | register, enable, remove; scan, batch, retry, refresh |
| Files | `middleware/upload.js`, `lib/fileStorage.js`, `lib/thumbnails.js`, `src/storage/*`, albums, materials, documents, profile photos | rows, objects in a store, thumbnails, temporary files | upload, replace, delete, look at |
| Notifications | `attendanceNotification.service.js`, `notifications.controller.js`, push, SMS, mail | notification rows | create, mark read, deliver on three channels |
| Calendar and work | weekly goals, no-class days, submissions, events | one row each | single statements |
| Plumbing | validation, rate limits, audit, routes, dashboards | counters | nothing that the parts above depend on |

**How they interact.**  All parts share the database and nothing else, apart from
three pieces of process memory (heartbeats, the watch's outage clock, the face
index).  A reading finds the center's active session and calls `recordSignal`,
which may mark the student present; a teacher writes the same row through the
roster.  The watch (every 10 s) reads the records of the day, opens and closes the
center's session on its own account, reads the signals that readings leave and
writes pickups that a teacher's answer or edit may race.  The sweep (every minute)
and a teacher's start or stop change the same sessions.  Parents are notified after
each write, by whoever decided that the write was one.

**What is hard.**  Almost no handler runs in a database transaction, and each is a
sequence of awaited statements, so two requests (and the watch, and the sweep) can
interleave between any two of them.  Correctness rests on a handful of guarded
`updateMany` statements ("only one caller wins").  The hard behaviours are hence:
overlapping readings of one student (lost updates of the hit count; each half of a
pair deciding without the other); a hand edit against an automatic write; a run of
the watch that acts on what it read several statements ago; prompts that expire
while a run is due; sessions that change between lookup and close; crashes that
leave a session running; midnight between two statements.  `PROJECT.json` lists
each hazard at its line.

## What makes each part correct

* *Evidence.*  A student counts as seen only after `minHits` readings of **each**
  kind, however they overlap; and once both signals stand, somebody decides.
* *Entries.*  The system never overrules a teacher's "present"; it may overrule an
  "absent".  Evidence is kept for automatic entries only.  An arrival is announced
  once.
* *Pickups.*  Only present, not yet picked-up students are picked up; the watch
  asks first, acts on silence only, in a window, with working hardware; it undoes its
  own pickups only, and only when both signals have seen the student since; nobody
  silent is forgotten.
* *Sessions.*  Stop means stop: the watch does not reopen what was stopped within
  the window.  Nobody's session is ended by the watch but its own.  A closed session
  stays closed and keeps its end.  A session is reminded about once, and ends in
  bounded time.
* *Codes.*  A code works once, for five guesses, for ten minutes; only the newest
  one works; a password change ends the older tokens and codes.
* *Families.*  Children and parents are of one center; a parent without children is
  inactive; some admin remains.
* *Enrolment.*  The index matches against the photos that are in place; a set is replaced as a
  whole, erased for good, and lost only to a crash; a deleted student's photos go too.
* *Gateway.*  It keeps off as told and no longer, and follows the session and the list of tags through
  every failure; while it is heard from, it counts as online.
* *Files.*  Whatever a row names can be served, and what no row names any more, of a child
  above all, is nowhere: not in the store, not as a thumbnail, not in the temporary directory.

## Plan

Written, in this order: `Signals`, `DayRecord`, `DayContract` (the abstract
specification of everything that writes a record), `Attendance`, `LiveSessions`,
`PickupWatch` (implements `DayContract` too), `AttendanceProofs`, `AccountCodes`,
`PhotoSets` (the abstract specification of the photos) and `FaceEnrollment` (implements
it), `Families`, `Gateway`, `ClockOfSilence` (composes the gateway with the watch), `StoredFiles`;
then, beside each component, the module of its proofs: `AccountCodesProofs`, `LiveSessionsProofs`,
`FaceEnrollmentProofs`, `PickupWatchProofs`, `FamiliesProofs`, `StoredFilesProofs`, `GatewayProofs`.

Every safety property of a passing run is now a theorem.  What could come next are
the parts of the source that no module covers yet ([below](#what-is-not-modelled)), the most worthwhile
being the calendar a session depends on and the batching of readings.

## The modules and the code

`Signals.tla` is the pure half of the verification service.  `MergeSignal`,
`IsSignalPresent` and `Verified` are `mergeSignal`, `isSignalPresent` and
`evaluate`.  A score is reduced to `good`, whether it passes its threshold: the mean
of a good and a bad score can land on either side, so `MergeSignal` is a set.  Hits
above `MinHits` are never told apart.  Camera readings are always good (only confident
matches are passed on); tag readings may be weak.

`DayRecord.tla` is the attendance row of one student for today, with its writers
as functions from row to row; `by` remembers who wrote the status last (the code
infers it from the evidence row).  `DayContract.tla` is the abstract specification: every
writer is one atomic step from the row it *finds*.

`Attendance.tla`: `Requests` in flight, each a small program with one action per
statement.

| actions | code |
|---|---|
| `ReadOwnSignal`, `WriteOwnSignal`, `ReadOtherSignal`, `MarkVerified` | `recordSignal`: read, merge and upsert, read the other half, guarded `markVerified` |
| `Edit`, `EditWrite`, `EditDropEvidence` | `updateAttendance`: read, upsert (and announce), drop evidence |
| `Bulk`, `BulkWrite`, `BulkDropEvidence` | `recordAttendance` and `importAttendance`: read, write all in one transaction, drop the evidence of what was written |
| `Pickup`, `PickupWrite` | `markPickedUp`: read and check, update by id |
| `WatchPicksUp`, `WatchPutsBack` | the two guarded writes of the pickup watch |
| `Fail` | a statement throws and the rest of the handler is not run |

A request takes down its instant when it begins or before it (an HTTP request can
wait), hence `now` is any earlier instant.  History variables count sightings,
corrections and announcements.

`LiveSessions.tla`: sessions of all centers; `Start*` is `startSession`'s find,
close and create; `Stop`; a run of the watch from `WatchBegin` over the snapshot of
active sessions, the reminders and the centers one by one
(`WatchKeeps`, `WatchFinishes`, `WatchClosesOld`, `WatchLooks`, `WatchCreates` are the
branches of `ensureAutoSession` and the loop body); `Sweep`; `Crash` and `Boot`.
Which students wait is a nondeterministic choice, because no session rule depends
on more.  `StartCreate` and `WatchCreates` may meet the one-active-session index
and then fail, as in the code.

`PickupWatch.tla`: one center, one window.  A run is `WatchBegin`, `WatchRecords`, the
session's statement (`WatchOpens`, `WatchCloses`, `WatchKeepsSession`), `WatchReads`
(outage test, then `decidePickupAction` for everybody) and one write per student
(`WatchPicksUp`, `WatchPrompts`, `WatchPutsBack`).  Around it: readings, the two
statements of an answer and of a manual pickup, edits, tags, starts and
stops, hardware, restarts, and a failing statement.  Readings and session changes are
atomic here; their interleavings are the subjects of the two modules above.

`AccountCodes.tla`: one account, its codes, its password and the tokens given out.
`ForgotPassword`, `IssueFind`, `IssueRetire` and `IssueCreate` are the statements of
`issuePasswordResetOtp`; `RequestCode` enters `issueAccountOtp` at the third of them.
`UseCode` and `Claim` are the look-up and the claimed guess that `resetPassword` and
`checkAccountOtp` share; then a reset runs its transaction (`ResetPassword`), a change
consumes, reads the user and writes (`ConsumeAccountOtp`, `ReadUser`, `ChangeMyPassword`),
a deletion reads the user, consumes and deletes.  `Login` and `LoginUpdate` are the two
halves of `login` around its write, `Accepted` is `requireAuth`.  Codes are numbered in the order of
their `createdAt`; a guess is only right or wrong; an account keeps its email.

`FaceEnrollment.tla`: students' photos in three places, the row, the folders (`dir`, `tmp`,
`old` are `<id>`, `<id>.tmp`, `<id>.old`) and the index in memory (`known`).  The backend's half:
`UploadEnrollmentPhotos`, `DeleteEnrollmentPhotos`, `DeleteStudent`, `ChangeStudent`, `Reload`, and a
reconciliation that lists (`ReconcileLists`), looks the students up (`ReconcilePlans`) and erases
one after the other (`ReconcileNext`).  The service's half, under its lock (`Acquire`): `enroll`
is `Write`, `Analyze`, `ClearOld`, `MoveAside`, `MoveIn`, `DropOld`, `Index`, with `EnrollFails` and
`MoveInFails` as its two ways to fail; `unenroll` is `RemoveDir`, `RemoveTmp`, `RemoveOld`, `Forget`;
a reload is `Scan` and `Publish`.  `Crash` loses the index and the requests, and keeps the
folders.  `View*` is somebody who lists the photos and then looks at one, without the lock.
`PhotoSets.tla` is the promise: a set is replaced as a whole and lost only as it says.  The
refinement maps the set in the middle of an exchange to the one set aside.

`Families.tla`: accounts, students, links and centers in one record `db`, because a
transaction changes them together.  A request reads what it decides on in one step
(`RegisterUser`, `UpdateUser`, `DeleteMyAccount`, `DeleteUser`, `CreateStudent`, `UpdateStudent`, `DeleteStudent`)
and commits in another (`AccountCommits`, `StudentCommits`, `StudentDeleted`,
`ParentsDeactivated`); what others commit in between makes it `late`.  `TeacherMoved` is
`resolveStudentsOfMovedTeacher`, `LinkedAccounts` is `linkAccountsByEmail`, `LinksAreRight` and
`ParentsAreAt` are the checks of centers that throw inside the transaction.

`Gateway.tla`: the firmware's `loop`, with `loc` for where it is and `left` for how long it still
waits there.  `BackOff`, `Connect`/`Connected`, `AskRegistry`/`SkipRegistry`, `CheckIn`, `Scan`, `Report`
and `Silence` are its branches; `Reply`, `Reject` and `NoReply` are the ways a call returns (the
effects of `refreshRegistry`, `postSightings` and `noteFailure` included); `Handle` is the backend
that reads whether a session runs or which tags there are, and may do so well before the
device has the reply.  The surroundings start and stop sessions, enable and disable tags, break
and mend the network, and cut the power.  The clock `ms` wraps, and the deadlines
`backoffUntil` and `retryAt`, which the code keeps as absolute times, wrap with it.

`ClockOfSilence.tla` extends `Gateway` with `lastSeenAt` and its throttled touch (`HeardFrom`), the
test whether the gateway is online, and the run of the watch that restarts the clock of
silence when it is not (`RunPickupWatch`).

`StoredFiles.tla`: files in the temporary directory (`tmp`), the storage (`object`) and as
thumbnails (`thumb`); what rows say of them is `row` (rows that hang on an owner and go with it)
and `slot` (a column of the owner, replaced in place).  An upload is parked, looked at
(`VerifyFileContents`), stored file by file (`PersistUpload`, `PutFails`), and then its
controller looks at the database (`Look`) and writes (`Write`, `WriteFails`, and `AnswerLost` when
the statement works and its answer does not arrive).  A failure discards the upload once the response is out
(`DiscardUploads`), unless nobody waits for it (`HangUp`).  What was replaced or deleted is removed at the end,
object before thumbnail (`RemoveObject`, `RemoveThumbnail`, `RemoveFails`).  `GetThumbnail`, `ReadOriginal` and
`PutThumbnail` make one when somebody looks; links outlive what they show (`LinkExpires`).  `Put`, `Get` and `Remove`
are the storage drivers.  The history variables keep what a failure or an overlap left behind
(`missed`) and what was taken back though recorded (`unsure`).

The `MC*` modules add only symmetry sets and the window's value.

## Runs and what they show

| run | asks |
|---|---|
| `Attendance` | two requests of any kind, interleaved statement by statement with the watch's writes, clock and failures: all seven properties below hold |
| `LiveSessions` | starts, stops, runs of the watch, sweeps, crashes over a day and a half |
| `PickupWatch` | a whole window, two prompts before the automatic pickup, and an undo by two readings; any two events of the rest of the world, or four readings |
| `Gateway` | one device, two tags of which it can keep one, any two changes of the surroundings, over several wraps of its clock: it keeps off as told and always finds its way back |
| `FaceEnrollment` | two requests that may overlap, any five uploads, erasures, reloads, reconciliations, failures and crashes, and a viewer |
| `Families` | two requests that may overlap, from six databases of two centers |
| `AccountCodes` | two requests, any five of issuing, using, signing in, disabling, deleting and failing, with the cleanup |
| `StoredFiles` | two requests that may overlap, any four of uploads of up to two files, replacements, deletions of a file or its owner, looks, failures, hang-ups and crashes |
| `AttendancePickup`, `AttendanceArrival`, `PickupAnswer`, `ClockOfSilence` | four sentences of the documentation that the code does not keep (see findings) |

`Attendance`: `VerifiedOnlyAfterRepeatedSightings` (lost updates of the hit count can only
lose hits), `NoPairMissed` (of two concurrent halves one sees the other, because each
writes before it reads), `HandEntryNeverVerified`, `SystemArrivalAnnouncedOnce`,
`HandEntryStands`, and `ImplementsContract`, the refinement of `DayContract`.

`LiveSessions`: `StopMeansStop`, `TeacherSessionsStand`, `StaleClosedInTime`.

`PickupWatch`: `SilentStudentsPickedUp`, `PickupNeedsSilence`,
`TeacherAskedFirst`, `UndoneOnlyWhenSeen`, `PickupAnnouncedOnce`, `KeepsContract` (the
watch's steps are steps of `DayContract`; it starts from a day already marked, hence
the step property instead of `Contract!Spec`).

`AccountCodes`: `GuessesBounded`, `ActionCodeWorksOnce`, `TokensFollowPassword` (a sign-in half-way
through a reset gets a token that is already void, because it signs the version it
read), `MailedCodeIsGood`.  Not claimed, because the code does not ensure it: a
password change that has passed all its checks before a reset still overwrites the
password the reset has set.

`FaceEnrollment`: `PreviousStays` (whatever fails, the set before is still there, in place or aside),
`ErasedIsGone` (nothing erased comes back, not from a folder left behind, a late reload or
an undo), `IndexFollowsDisk`, `OrphansExplained`, `ServedFromListedSet`, and `ImplementsPhotoSets`, the
refinement of `PhotoSets`.

`Families`: `AccountsFollowChildren` (a parent's account works exactly while it has a child),
`FamiliesStayTogether` (no step takes a parent and a child to different centers),
`LastAdminStays`.

`Gateway`: `TypeOK` (never more tags than there is room for), `SilentAsTold` (nothing is sent in
the time a 401 or a 429 asks for, and the device does not stay silent longer),
`FollowsTheSession` (liveness: when a session goes on and the device is let in, the tag is heard
and its readings are recorded again and again; when there is none any more, the device
comes to rest).

`StoredFiles`: `RowsHaveObjects` (neither a failed upload nor an overlapping replacement or
deletion removes a file that a row names) and `NothingLeftBehind` (nothing is stored that no row names, save
what is still being worked on and what a named failure or overlap left).

Some properties name their exceptions, and the exceptions are facts of the code: a
run acts on what it had read, so news that came later (`late`) can be ignored once;
a student whose tag was enabled during the silence is marked without having
been asked; a failing statement of the watch delays or skips a prompt; a crash between
the two renames leaves a photo set aside; a request overtaken by another commits on checks that
are old; a parent moved along with a child's teacher may be a former Teacher whose own students are not
looked at; the turn of the loop in which the device is refused goes on; a file recorded between
another request's look and its statement, and a thumbnail made while its original goes, are left
behind; an upload whose statement works unheard is taken back though recorded.

Every property has a mutant in `PROJECT.json`: a definition changed the way a
bug would (a dropped guard, a swapped order) that makes TLC report it violated.
The mutated forms stand in the modules next to the definitions they replace,
with a comment that begins "Mutation:".

## Bounds and why they are enough

* `MaxOps` bounds how many requests (or events) begin.  In `Attendance` six operations
  with two in flight allow `MinHits = 2` readings of each kind and two corrections,
  or two pairs that race.  One student is enough because no handler relates two
  (a bulk edit writes each independently); the proofs cover any number.
* `Window`, `MaxClock`: freshness is tested on both sides of its limit with `Window = 0`
  and two instants.  In `PickupWatch` the timeline covers opening, two prompts,
  automatic pickup and closing of the window.  An event of a teacher, the hardware or a
  failure costs two of `MaxOps = 4`, a reading one.  The timeline
  is longer than the bound in `SilentStudentsPickedUp`, so that the bound can be missed.
* `MaxSessions = 3`, `DayLen = 4`, `MaxClock = 6` in `LiveSessions`: two days, so midnight falls
  between any two statements, with a window on each; one center, because the code treats
  centers independently (every statement is keyed by the center).
* `MaxCodes = 2`, `MaxAttempts = 2`, `Lifetime = 1` in `AccountCodes`: a code and its successor, a guess too many
  by two requests at once, and an instant on either side of the expiry; five operations
  are an issue, a use by each of two requests, and two disturbances.
* `MaxPhotos = 2`, one student, two requests and `MaxOps = 5` in `FaceEnrollment`: an upload, its successor
  or an erasure, a reload or a reconciliation, and two failures or crashes.  Students share only
  the lock, the index (replaced per student, except by a reload) and a reconciliation.
* `Families`: two Admins, two Teachers, two Parents, two students, two centers, two requests that
  overlap or follow each other, from six databases with one family, two families with a child
  in common, and a family whose last child has gone.  Somebody who was moved, disabled or left
  childless by an earlier request is in a starting database, so two requests reach what
  longer sequences would.
* `Gateway`: one tick is the shortest wait of the loop.  The durations are as small as they can be
  with their order kept (a list lasts longer than its retry, 401 costs more than 429); the clock
  wraps after 8, so that it wraps while a deadline stands.  `MaxChanges = 2` bounds changes of the
  surroundings, lost calls on a good network and silent scans; calls lost while the network is down are free.
  `MaxTags = 1` of two tags: one is always too many.
* `ClockOfSilence`: the durations of the code in steps of two seconds, and a network that answers
  within one; `Absent` is the least the configuration allows (two minutes).
* `StoredFiles`: one album, one material, one student and one account, three files, batches of two, two
  requests and `MaxOps = 4`: an upload, its replacement or the deletion of it or of its owner, and two more among
  thumbnails, submissions and failures.  It starts before anything was uploaded, with albums and materials there or
  yet to be created.  Files of different owners never meet, but for a submission, which hangs on two.
* `PickupAnswer` starts from the same model with the shortest timers (`To = 6`, `AbsentFor = 3`, `MaxClock = 5`) that
  `TimersAssumption` allows: an answer, an automatic pickup and two readings fit.
* `Delay` bounds how long an answer takes between its arrival and its statement.
* `CHECK_DEADLOCK FALSE` everywhere but in `Gateway`: the models stop when `MaxClock` and `MaxOps` are used up,
  and a backend with nothing to do may rest.  The firmware must never stop, and does not.

## Fairness

`Gateway` assumes weak fairness of one thing: that the loop goes on, time included, and a
request it sends is answered or fails.  That is what a microcontroller that is switched on
and an HTTP call with a timeout give.  Nothing is assumed of sessions, tags, the network, or of what the
scans hear, beyond the `<>[]` that `FollowsTheSession` itself asks for; every tag in `enabled` is near, and silent
scans are among the bounded changes.

Elsewhere no fairness is assumed.  "Eventually" properties are stated as bounds: the timers are part of
the models as guards of `Tick` (the clock does not pass the instant at which a sweep or a
new run of the watch is due), which is what `setInterval` gives a process that is
not stuck, and `SilentStudentsPickedUp` and `StaleClosedInTime` then say by when.
While the process is down (`Crash`) the clock runs freely; at the boot the sweep is due at once, and
`StaleClosedInTime` holds again as soon as it has run.  A run of the watch that outlasts `RunEvery` is not covered.

## What is proved

Every safety property and every refinement of the passing runs is a theorem of the specification: eight modules,
41 theorems, for all values of the constants.  A run checks each of the properties on the
small instances above, but for those of the last two theorems, about `ClockOfSilence`.  A property is seldom inductive, so each module names what else has to hold;
that list is the actual argument for why the code is right, and is worth more than the theorem.

**Assumptions.**  Besides types and disjointness:

* `TimersAssumption` (`PickupWatch`): the watch has time to ask before the silence is long enough.  The job runs
  every 10 s (`pickupJob.js:5`), prompts come every 60 s and stay open for 15 s
  (`pickupWatch.service.js:34-35`), `PICKUP_ABSENT_MIN` is from 2 to 60 minutes (`env.js:106`).
* `StartAssumption` (`Families`): the database a run starts from, empty or not, is one that requests leave which do
  not overlap and make no use of the exceptions that the properties name: links have both ends, an account with children
  works, a parent's without children does not.
* `GatewayAssumption`: durations are positive, and there are finitely many tags, which are numbers.
* `StoredFilesAssumption`: albums, materials, students and users are different things.

**`AttendanceProofs`** (7 theorems).

* `TypeCorrect`: the base of all the others.
* `VerifiedMeansSeenRepeatedly`.  `VerifiedOnlyAfterRepeatedSightings` is not inductive: a row in the
  database and a row in a request's memory must each be covered by sightings
  (`SightingsBacked`).  `SightingsGrow` shows that sightings only grow.
* `PairsAreDecided`.  `NoPairMissed` needs that no row is stamped in the future
  (`NothingFromTheFuture`), since otherwise time alone could complete a pair; `EvidenceAppears`,
  `ClockStep`, `DeciderMoves` and `UndecidedStays` are the ways the premise and the
  conclusion can change.
* `HandEntriesCarryNoEvidence`: inductive as it stands.
* `AutomaticArrivalAnnouncedOnce` follows from `AnnouncementsLeft`, which counts what may
  still be announced given the record's present status.
* `HandEntriesStand` and `RequestsImplementContract` rest on `WaysToWrite`: every step
  writes the records in one of the contract's ways or not at all.

**`LiveSessionsProofs`** (4).  Numbers not given yet have no row, and a center has one active session at most (`RowsOK`).
`TeachersSessionsStand` needs that a start which is about to close a session has found one of another day
(`FoundIsOld`).  The watch works from a snapshot, so `StopMeansStopAlways` relates what it read to what is so by now: of
the centers it still has to visit, the snapshot shows the only session of its own that may be running (`SnapCurrent`);
where it is about to open one, all of its own have ended (`AllEnded`), and those of the day before the window opened
(`EndedBefore`).  `StaleAreClosedInTime` needs that the timer of the sweep is never overdue, and that what
runs was not stale when it fired last (`SweepOK`).

**`PickupWatchProofs`** (7).  `ClockOK` (nothing is stamped in the future) and `RunOK` (what a run has decided is about
somebody it has read) carry the rest.

* `PickupsAreAnnouncedOnce` from `Told`: announcements are at most the returns, plus one while picked up.
* `UndoOnlyWhenSeen` from `SamePickup`: between a run's read and its guarded write, an automatic pickup
  can be lost but not exchanged for another.
* `SilenceIsNeeded` from `HeardOK`: every sign of a student is counted in one of the stamps a run looks at.
* `TeachersAreAskedFirst` and `SilentArePickedUp` are about time, and rest on `SettledOK`: after every run, each student
  who is here was marked, asked, or need not have been; together with the period of the runs and
  `PromptsEnd` nobody falls between two runs.  `BackOK` says the same of students who came back.
* `WatchKeepsContract`: each write is a step of `DayContract` from the row it finds.

**`AccountCodesProofs`** (5).  Codes to come are blank (`FutureBlank`), and a request past its search holds a code of the
kind it looked for (`RecordsFound`): both are needed everywhere.  `GuessesAreBounded` needs that what is guessed is what
the row counts (`GuessesCounted`); `ActionCodesWorkOnce` that a code that has worked is used up
(`WorkedIsUsed`); `TokensFollowThePassword` that no token and no half-finished sign-in is ahead of the account, and
one level with it was given for the password in force (`VersionsLevel`); `MailedCodesAreGood` that the newest
code is stored and unused until something that the property names has happened to it (`MailedGood`).

**`FaceEnrollmentProofs`** (7).  `Locked`: the request at work in the service is the one that holds the lock.  So the folders of
its student are as its step says (`AtWork`), the others' are settled (`LevelOK`), and what is written was not
there before (`Apart`, `WrittenOK`).  `OrphansOK` follows deleted students through a reconciliation
that listed them earlier; `Watched` the viewer between check and opening.  `FoldersImplementPhotoSets` maps every write,
rename and crash to a step of `PhotoSets` or a stutter.

**`FamiliesProofs`** (4).  The invariant is three things: types; `ReferencesHold`, that links
and teachers have both ends; and `Current`, that what a request has read is still so unless another has committed
since (`late`).  On them rest the lemmas about each kind of transaction (what it does to accounts, links
and centers, whatever the database), of which `Accounts` is the step of `AccountsFollowChildren`.

**`StoredFilesProofs`** (3).  A file is, until it is recorded, the one request's that put it (`Fresh`), and once it is, it hangs in one
place (`Placed`).  So a request knows which files its statement makes unused (`Doomed`), and what it removes
stays unused (`Discarded`): `FilesInUseStay`.  For `NothingIsLeft` somebody answers for each stored thing: `Parked` for
temporary files, `Kept` for objects, `Mirrored` for thumbnails, and a request at its statement
knows of all the files that it makes unused, or was overtaken (`Informed`).

**`GatewayProofs`** (4).  `InStep`: while neither clock nor deadline has wrapped, the deadline is as far
ahead of the clock as the device still owes, or reached.  `Past`: a turn of the loop that
got past the comparison owes nothing but what it is told meanwhile.  Both give `DeviceKeepsOff`.  The type of the list's age needs how long a turn
may have taken (`Paced`), the list's length an argument about finite sets of numbers (`ListedFits`).
`WatchLeavesGatewayAlone` carries all this over to `ClockOfSilence`, whose steps are those of the gateway or leave it
alone.  `RunsSeeOutages` is the sound half of what finding 4 is about: because the row is never ahead of the last request
(`RowNotAhead`), no run of the watch counts on through an outage; the finding is that it sees outages
which there are not.

**What the proofs changed in the models.**  Three times an invariant could not be proved because it was false beyond
the bounds of its run: an enrolment's undo could show a viewer an older set after an erasure that had failed half-way
(`Interrupt` now counts it as a replacement); a parent who is moved along with a teacher may be a former Teacher who
still has students (an exception of `FamiliesStayTogether` now); and a failed upload that had stored nothing yet
never gave up its place among `Requests` (`DiscardUploads`).

**Model-checked only.**  `FollowsTheSession`, a liveness property under fairness, and `ENABLED` are outside what the provers
can do.  The four violations under "Findings" are counterexamples, which are found and not proved.

## Findings

Four places where the code does less than its documentation says.  Each is a run that
TLC must find violated; the quotations are in `PROJECT.json`.

1. `AttendancePickup`: the manual pickup checks a copy and updates by id alone, so an edit to
   absent in between leaves an *absent* record that is picked up
   (`attendance.controller.js:186`, against `docs/SMART_ATTENDANCE.md:140`).
2. `AttendanceArrival`: whether an edit is an arrival is decided before the write, so it may be
   announced twice (`attendance.controller.js:119`, against `SMART_ATTENDANCE.md:134`).
3. `PickupAnswer`: a teacher's "picked up" that loses to the watch stays an automatic pickup,
   and is undone when the student is seen (`pickupWatch.service.js:421`, against
   `SMART_ATTENDANCE.md:159` and `:165`).
4. `ClockOfSilence`: a gateway in perfect order counts as offline now and then.  Its `lastSeenAt` is
   refreshed by a request that finds it more than 30 s old (`gatewayAuth.js:37`), and at 30 s it is offline
   (`hardwareStatus.js:9-13`).  From then to its next request, up to 12 s when no tag is heard, a run of the
   watch (every 10 s) takes it for an outage and starts the clock of every student over, so
   prompts and automatic pickups (1 and 5 minutes of silence) may be put off again and again
   (against `SMART_ATTENDANCE.md:160` and `:167`).  With a refresh
   after 8 s the property holds in the same model.

Facts of the code met while modelling that no run is about:

* `updateAttendance` may delete the evidence of the verification that has just overridden its
  mark (`attendance.controller.js:145`): the record then looks like one made by hand, which
  `schema.prisma:366` says a record without evidence is.
* The two renames of an enrolment are not "one atomic rename" (`app.py:162-169`): a crash between them leaves
  the student without a set and the old one in `<id>.old`, which no list shows and the next
  enrolment deletes.  `PreviousStays` and `PhotoSets` say exactly that much.
* A photo asked for under the version of a list is checked and then opened (`app.py:320-336`): an upload in between
  serves one of the new set; so does an erasure that fails half-way, after which the undo of a failing enrolment
  restores an older one.  `ServedFromListedSet` leaves that moment out.
* A Teacher who becomes an Admin skips `resolveStudentsOfMovedTeacher` (`users.controller.js:546`) and a Teacher
  who is deleted leaves the students without one; both separate families from their center.  A parent who is moved
  along with a child's teacher may be a former Teacher who still has students; nobody looks at those (`:234`).
* `linkStudentsByEmail` (`users.controller.js:599`) links a child to a disabled account without enabling
  it; `linkAccountsByEmail` (`students.controller.js:136`) enables it.
* Two requests for a reset code that arrive together (a double-click) both pass the cooldown, and the
  second code takes the place of the first (`auth.controller.js:96`; the comment at `:18` means to prevent it).
* A reminder to stop is claimed by one conditional update before anybody is told
  (`pickupWatch.service.js:178`): sent at most once, and not at all when the process dies in between.
* The last automatic pickup closes the session (`pickupWatch.service.js:280`), and no reading
  can put that student back any more.
* A thumbnail made while its photo is deleted stays, and is served as long as links to it are good
  (`thumbnails.js:51`, `fileStorage.js:45`).  Two replacements of one file that overlap
  (`materials.controller.js:72`), or photos added while their album is deleted (`albums.controller.js:158`), leave an
  object no row names.  So does an upload whose client hangs up before the failure is
  sent (`upload.js:138`).  `NothingLeftBehind` leaves out these and no others.
* Two Admins who delete their accounts, or each other's, at the same moment leave none
  (`users.controller.js:815`), and nothing keeps the last Admin from giving up the role.
* After a 401 or 429 the firmware keeps the deadline as an absolute time of a clock that wraps
  after 49.7 days (`esp32-ble-gateway.ino:357`, and `:368` for the list of tags).  After a wrap the comparison
  holds again until the clock has come round to the old deadline: a device that was refused once may fall
  silent for as long as it had been up.  `SilentAsTold` leaves the wrap out; `FollowsTheSession` shows that it
  ends, unless the deadline for the list falls into the last moments before the wrap,
  which a turn of the loop may step over each time (`RetryInReach`).
* The firmware keeps the first 50 tags (`.ino:294`); the list it asks for has no limit.

## What is not modelled

* Edits of past days (they touch no live state), read-only endpoints, formatting, validation,
  audit, routing, rate limits.
* Duplicates within one bulk list; several sessions of one student in `Attendance` (a new session
  starts from no signal rows; `PickupWatch` has that as `current`).
* Delivery of notifications: after the commit it is attempted once per channel and errors are
  swallowed.  The models count that one was triggered.
* Matching of faces and radio strength: numeric, reduced to `good`.
* In `StoredFiles`: titles, the students an album or material is for, lists, content types and their
  detection, streaming, and the one-off migration between stores (`storage/migrate.js`).
* Several gateways and several centers in `Gateway` (a gateway belongs to no center; it is told that *any*
  session runs), unreadable replies, a device whose clock NTP has not set, the SCAN_ONLY build, and a
  request handled after the device has given it up.
* In `Families`: names, phones, photos, lists, and the codes that guard a deletion (`AccountCodes`).
* Calendar and work records (goals, no-class days, submissions, events): single statements
  with a unique key.

## How to run it

    tlc -workers 2 -config Attendance.cfg MCAttendance.tla
    tlc -workers 2 -config LiveSessions.cfg MCLiveSessions.tla
    tlc -workers 2 -config PickupWatch.cfg MCPickupWatch.tla
    tlc -workers 2 -config AccountCodes.cfg MCAccountCodes.tla
    tlc -workers 2 -config FaceEnrollment.cfg MCFaceEnrollment.tla
    tlc -workers 2 -config Families.cfg MCFamilies.tla
    tlc -workers 2 -config Gateway.cfg MCGateway.tla
    tlc -workers 2 -config StoredFiles.cfg MCStoredFiles.tla
    for p in Attendance LiveSessions PickupWatch AccountCodes \
             FaceEnrollment Families StoredFiles Gateway; do tlapm ${p}Proofs.tla; done

The module of every other configuration is in `PROJECT.json` under `runs`.
