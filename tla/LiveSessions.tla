---------------------------- MODULE LiveSessions ----------------------------
(***************************************************************************)
(* The live attendance sessions: who opens and who closes them.            *)
(*                                                                         *)
(* Teachers press Start and Stop (attendanceSession.controller.js), the    *)
(* pickup watch opens and closes sessions of its own                       *)
(* (pickupWatch.service.js), and a sweep closes what was left running      *)
(* (sessionCleanup.js).  All of them meet at the database, where a partial *)
(* unique index allows one active session per center.                      *)
(*                                                                         *)
(* A start and a run of the watch are sequences of statements; a stop and  *)
(* a sweep are one statement each.  Time is counted in units of the model; *)
(* a day is DayLen of them.                                                *)
(***************************************************************************)
EXTENDS Naturals, FiniteSets

CONSTANTS
  Centers,       \* the centers; the teachers without one count as one more
  Starters,      \* the start requests that may be in flight at once
  DayLen,        \* units in a school day
  Windows,       \* the pickup windows: [from, to) in units of the day
  Grace,         \* REMINDER_GRACE_MIN
  StaleAfter,    \* STALE_AFTER_MS
  CleanupEvery,  \* CLEANUP_INTERVAL_MS
  MaxClock,      \* bound: how long the model runs
  MaxSessions,   \* bound: sessions ever created
  MaxOps         \* bound: starts, stops, runs of the watch and crashes, together

ASSUME SessionsAssumption ==
  /\ DayLen \in Nat \ {0}
  /\ Windows \subseteq [from : 0..DayLen, to : 0..DayLen]
  /\ Grace \in Nat
  /\ StaleAfter \in Nat
  /\ CleanupEvery \in Nat \ {0}
  /\ MaxSessions \in Nat
  /\ Centers # {}

VARIABLES
  clock,      \* the server's clock
  up,         \* is the server running
  nextSweep,  \* when the sweep's timer fires next
  sess,       \* attendance_sessions by id
  created,    \* how many ids are taken
  req,        \* req[r]: what start request r is doing and has read
  watch,      \* the run of the pickup watch: at most one at a time
  used,       \* how much of MaxOps is used up
  (* history *)
  closer      \* closer[i]: who closed session i, and which day they took it to be

vars == <<clock, up, nextSweep, sess, created, req, watch, used, closer>>

Ids == 1..MaxSessions

Day(t) == t \div DayLen

\* The instant of a unit of the day of t (instantAtMinute).
Instant(t, unit) == Day(t) * DayLen + unit

InWindow(t) == {w \in Windows : Instant(t, w.from) <= t /\ t < Instant(t, w.to)}

\* The start of the earliest window open at t.
WindowStart(t) ==
  Instant(t, CHOOSE u \in {w.from : w \in InWindow(t)} :
               \A w \in InWindow(t) : u <= w.from)

Session == [center    : Centers,
            day       : Nat,
            status    : {"unused", "active", "closed"},
            auto      : BOOLEAN,   \* autoStarted
            startedAt : Nat,
            endedAt   : Nat,
            reminded  : BOOLEAN,   \* stopReminderSentAt is set
            window    : Nat]       \* auto: start of the window it was opened for (history)

SomeCenter == CHOOSE c \in Centers : TRUE

Unused == [center |-> SomeCenter, day |-> 0, status |-> "unused", auto |-> FALSE,
           startedAt |-> 0, endedAt |-> 0, reminded |-> FALSE, window |-> 0]

Request == [step : {"idle", "find", "close", "create"}, center : Centers, day : Nat,
            found : Nat]

NoRequest == [step |-> "idle", center |-> SomeCenter, day |-> 0, found |-> 0]

Watch == [step    : {"idle", "snapshot", "remind", "notify", "centers", "look", "create"},
          now     : Nat,                 \* the instant the run began
          snap    : [Centers -> Nat],    \* active session of each center; 0 for none
          queue   : SUBSET Centers,      \* the centers the loop has still to visit
          waiting : SUBSET Centers,      \* those with a student still to be picked up
          at      : Centers]             \* the center being visited

NoWatch == [step |-> "idle", now |-> 0, snap |-> [c \in Centers |-> 0], queue |-> {},
            waiting |-> {}, at |-> SomeCenter]

Closer == [who : {"nobody", "stop", "sweep", "start", "watch"}, day : Nat]

TypeOK ==
  /\ clock \in Nat /\ nextSweep \in Nat /\ used \in Nat
  /\ up \in BOOLEAN
  /\ sess \in [Ids -> Session]
  /\ created \in 0..MaxSessions
  /\ req \in [Starters -> Request]
  /\ \A r \in Starters : req[r].found \in 0..MaxSessions
  /\ watch \in Watch
  /\ \A c \in Centers : watch.snap[c] \in 0..MaxSessions
  /\ closer \in [Ids -> Closer]

Init ==
  /\ clock = 0 /\ up = TRUE /\ nextSweep = 0 /\ used = 0
  /\ sess = [i \in Ids |-> Unused] /\ created = 0
  /\ req = [r \in Starters |-> NoRequest]
  /\ watch = NoWatch
  /\ closer = [i \in Ids |-> [who |-> "nobody", day |-> 0]]

\* Whatever counts against the bound.
Count == used < MaxOps /\ used' = used + 1

ActiveAt(c) == {i \in Ids : sess[i].status = "active" /\ sess[i].center = c}

\* findActiveSession: the active session of a center, 0 for none.
FindActive(c) == IF ActiveAt(c) = {} THEN 0 ELSE CHOOSE i \in ActiveAt(c) : TRUE

\* Mutation: a status the column does not have.
CloseAsEnded(ids, who, day, endedAt) ==
  /\ sess' = [i \in Ids |-> IF i \in ids /\ sess[i].status = "active"
                            THEN [sess[i] EXCEPT !.status = "ended", !.endedAt = endedAt]
                            ELSE sess[i]]
  /\ UNCHANGED closer

\* updateMany ... status: "closed": closes those of `ids` that are still active.
Close(ids, who, day, endedAt) ==
  LET closing == {i \in ids : sess[i].status = "active"} IN
  /\ sess' = [i \in Ids |-> IF i \in closing
                            THEN [sess[i] EXCEPT !.status = "closed", !.endedAt = endedAt]
                            ELSE sess[i]]
  /\ closer' = [i \in Ids |-> IF i \in closing THEN [who |-> who, day |-> day]
                                               ELSE closer[i]]

\* Inserts an active session; the index refuses a second one of the center
\* (P2002), which both callers take as somebody else having opened it.
Create(c, day, auto, window) ==
  IF ActiveAt(c) = {}
  THEN /\ created < MaxSessions
       /\ created' = created + 1
       /\ sess' = [sess EXCEPT ![created + 1] =
                     [center |-> c, day |-> day, status |-> "active", auto |-> auto,
                      startedAt |-> clock, endedAt |-> 0, reminded |-> FALSE,
                      window |-> window]]
  ELSE UNCHANGED <<created, sess>>

----------------------------------------------------------------------------
(* startSession and stopSession *)

\* A teacher presses Start: the request takes down what day it is.
Start(r, c) ==
  /\ up /\ Count
  /\ req[r].step = "idle"
  /\ req' = [req EXCEPT ![r] = [step |-> "find", center |-> c, day |-> Day(clock),
                                found |-> 0]]
  /\ UNCHANGED <<clock, up, nextSweep, sess, created, watch, closer>>

\* Today's session is returned as it is; another day's must be closed first.
StartFind(r) ==
  LET i == FindActive(req[r].center) IN
  /\ req[r].step = "find"
  /\ req' = [req EXCEPT ![r] =
               IF i = 0 THEN [@ EXCEPT !.step = "create"]
               ELSE IF sess[i].day = req[r].day THEN NoRequest
               ELSE [@ EXCEPT !.step = "close", !.found = i]]
  /\ UNCHANGED <<clock, up, nextSweep, sess, created, watch, used, closer>>

\* Closes the session it found, by id, if nobody else has.
StartClose(r) ==
  /\ req[r].step = "close"
  /\ Close({req[r].found}, "start", req[r].day, clock)
  /\ req' = [req EXCEPT ![r].step = "create"]
  /\ UNCHANGED <<clock, up, nextSweep, created, watch, used>>

StartCreate(r) ==
  /\ req[r].step = "create"
  /\ Create(req[r].center, req[r].day, FALSE, 0)
  /\ req' = [req EXCEPT ![r] = NoRequest]
  /\ UNCHANGED <<clock, up, nextSweep, watch, used, closer>>

\* A teacher presses Stop: whatever is active at the center is closed.
Stop(c) ==
  /\ up /\ Count
  /\ Close(ActiveAt(c), "stop", Day(clock), clock)
  /\ UNCHANGED <<clock, up, nextSweep, created, req, watch>>

----------------------------------------------------------------------------
(* The pickup watch: runPickupWatch and its sessions *)

\* The job's timer fires and no run is under way: a run begins, at `now`.
WatchBegin ==
  /\ up /\ Count
  /\ watch.step = "idle"
  /\ watch' = [watch EXCEPT !.step = "snapshot", !.now = clock]
  /\ UNCHANGED <<clock, up, nextSweep, sess, created, req, closer>>

\* Reads every active session, to work with for the rest of the run.
WatchSnapshot ==
  LET snap == [c \in Centers |-> FindActive(c)] IN
  /\ watch.step = "snapshot"
  /\ watch' = [watch EXCEPT !.step = "remind", !.snap = snap,
                            !.queue = {c \in Centers : snap[c] # 0}]
  /\ UNCHANGED <<clock, up, nextSweep, sess, created, req, used, closer>>

\* A window has just ended that session i, still running, was there for.
\* (Only the watch sets `reminded`, so the snapshot's copy is current.)
ReminderDue(i) ==
  /\ ~sess[i].reminded
  /\ \E w \in Windows :
       LET end == Instant(watch.now, w.to) IN
       /\ end <= watch.now /\ watch.now < end + Grace
       /\ sess[i].startedAt < end

\* sendStopReminder claims the session's one reminder; the status is not asked.
Remind(c) ==
  LET i == watch.snap[c] IN
  /\ watch.step = "remind" /\ c \in watch.queue
  /\ ReminderDue(i)
  /\ sess' = [sess EXCEPT ![i].reminded = TRUE]
  /\ watch' = [watch EXCEPT !.step = "notify", !.at = c]
  /\ UNCHANGED <<clock, up, nextSweep, created, req, used, closer>>

\* Then it tells the teachers.
Notify ==
  /\ watch.step = "notify"
  /\ watch' = [watch EXCEPT !.step = "remind", !.queue = @ \ {watch.at}]
  /\ UNCHANGED <<clock, up, nextSweep, sess, created, req, used, closer>>

NoReminder(c) ==
  /\ watch.step = "remind" /\ c \in watch.queue
  /\ ~ReminderDue(watch.snap[c])
  /\ watch' = [watch EXCEPT !.queue = @ \ {c}]
  /\ UNCHANGED <<clock, up, nextSweep, sess, created, req, used, closer>>

\* Outside the pickup windows there is nothing else to do.
WatchOutsideWindow ==
  /\ watch.step = "remind" /\ watch.queue = {}
  /\ InWindow(watch.now) = {}
  /\ watch' = NoWatch
  /\ UNCHANGED <<clock, up, nextSweep, sess, created, req, used, closer>>

\* Reads the records: which centers have students still to be picked up, which
\* have students watched at all.  PickupWatch says how records come to be so.
WatchRecords(waiting, watched) ==
  /\ watch.step = "remind" /\ watch.queue = {}
  /\ InWindow(watch.now) # {}
  /\ waiting \subseteq watched
  /\ LET queue == watched \cup {c \in Centers : watch.snap[c] # 0} IN
     watch' = IF queue = {} THEN NoWatch
              ELSE [watch EXCEPT !.step = "centers", !.waiting = waiting, !.queue = queue]
  /\ UNCHANGED <<clock, up, nextSweep, sess, created, req, used, closer>>

\* On to the next center, or the end of the run.
Leave(c) ==
  watch' = IF watch.queue = {c} THEN NoWatch
           ELSE [watch EXCEPT !.step = "centers", !.queue = @ \ {c}]

\* What the snapshot says of center c: a session runs, it is today's, it is one
\* that the watch itself had opened.
Runs(c) == watch.snap[c] # 0
RunsToday(c) == Runs(c) /\ sess[watch.snap[c]].day = Day(watch.now)
RunsOwn(c) == Runs(c) /\ sess[watch.snap[c]].auto

\* A center with nothing to open or close: today's session serves its waiting
\* students, or nobody waits and no session of the watch's own is running.
WatchKeeps(c) ==
  /\ watch.step = "centers" /\ c \in watch.queue
  /\ IF c \in watch.waiting THEN RunsToday(c) ELSE ~RunsOwn(c)
  /\ Leave(c)
  /\ UNCHANGED <<clock, up, nextSweep, sess, created, req, used, closer>>

\* Mutation: closes what is active at the center by now.
WatchFinishesCenter(c) ==
  /\ watch.step = "centers" /\ c \in watch.queue \ watch.waiting
  /\ RunsOwn(c)
  /\ Close(ActiveAt(c), "watch", Day(watch.now), watch.now)
  /\ Leave(c)
  /\ UNCHANGED <<clock, up, nextSweep, created, req, used>>

\* Everyone is picked up: the session the watch had opened is closed, by id.
WatchFinishes(c) ==
  /\ watch.step = "centers" /\ c \in watch.queue \ watch.waiting
  /\ RunsOwn(c)
  /\ Close({watch.snap[c]}, "watch", Day(watch.now), watch.now)
  /\ Leave(c)
  /\ UNCHANGED <<clock, up, nextSweep, created, req, used>>

\* Somebody waits and a session of another day is still active: it is closed.
WatchClosesOld(c) ==
  /\ watch.step = "centers" /\ c \in watch.queue \cap watch.waiting
  /\ Runs(c) /\ ~RunsToday(c)
  /\ Close({watch.snap[c]}, "watch", Day(watch.now), clock)
  /\ watch' = [watch EXCEPT !.step = "look", !.at = c]
  /\ UNCHANGED <<clock, up, nextSweep, created, req, used>>

\* Mutation: looks back to the start of the run only.
StoppedDuringRun(c) ==
  \E i \in Ids : /\ sess[i].status = "closed" /\ sess[i].auto
                 /\ sess[i].center = c /\ sess[i].day = Day(watch.now)
                 /\ sess[i].endedAt >= watch.now

\* Has a session of the watch's own been stopped here since the window opened?
StoppedInWindow(c) ==
  \E i \in Ids : /\ sess[i].status = "closed" /\ sess[i].auto
                 /\ sess[i].center = c /\ sess[i].day = Day(watch.now)
                 /\ sess[i].endedAt >= WindowStart(watch.now)

\* ensureAutoSession asks so before it opens one: Stop must mean stop.
WatchLooks(c) ==
  /\ \/ /\ watch.step = "centers" /\ c \in watch.queue \cap watch.waiting
        /\ ~Runs(c)
     \/ watch.step = "look" /\ c = watch.at
  /\ IF StoppedInWindow(c)
     THEN Leave(c)
     ELSE watch' = [watch EXCEPT !.step = "create", !.at = c]
  /\ UNCHANGED <<clock, up, nextSweep, sess, created, req, used, closer>>

WatchCreates ==
  LET c == watch.at IN
  /\ watch.step = "create"
  /\ Create(c, Day(watch.now), TRUE, WindowStart(watch.now))
  /\ Leave(c)
  /\ UNCHANGED <<clock, up, nextSweep, req, used, closer>>

\* A statement throws.  In the loop over the centers only that center is given
\* up; anywhere else the run is over.
WatchFails ==
  /\ Count
  /\ \/ /\ watch.step \in {"snapshot", "remind", "notify"}
        /\ watch' = NoWatch
     \/ /\ watch.step = "centers"
        /\ \E c \in watch.queue : Leave(c)
     \/ /\ watch.step \in {"look", "create"}
        /\ Leave(watch.at)
  /\ UNCHANGED <<clock, up, nextSweep, sess, created, req, closer>>

----------------------------------------------------------------------------
(* Time, the sweep, crashes *)

\* closeStaleSessions, when its timer fires.
Sweep ==
  /\ up /\ clock = nextSweep
  /\ nextSweep' = clock + CleanupEvery
  /\ Close({i \in Ids : sess[i].startedAt + StaleAfter < clock}, "sweep", Day(clock), clock)
  /\ UNCHANGED <<clock, up, created, req, watch, used>>

\* Time does not pass a timer that is due on a running server.
Tick ==
  /\ clock < MaxClock
  /\ up => clock < nextSweep
  /\ clock' = clock + 1
  /\ UNCHANGED <<up, nextSweep, sess, created, req, watch, used, closer>>

\* The process dies, and with it every request and the run of the watch.
Crash ==
  /\ up /\ Count
  /\ up' = FALSE
  /\ req' = [r \in Starters |-> NoRequest]
  /\ watch' = NoWatch
  /\ UNCHANGED <<clock, nextSweep, sess, created, closer>>

\* Mutation: the sweep runs on its interval only, not at startup.
BootWithoutSweep ==
  /\ ~up
  /\ up' = TRUE
  /\ nextSweep' = clock + CleanupEvery
  /\ UNCHANGED <<clock, sess, created, req, watch, used, closer>>

\* It comes back, and the sweep runs once at startup.
Boot ==
  /\ ~up
  /\ up' = TRUE
  /\ nextSweep' = clock
  /\ UNCHANGED <<clock, sess, created, req, watch, used, closer>>

Next ==
  \/ \E r \in Starters : \/ \E c \in Centers : Start(r, c)
                         \/ StartFind(r) \/ StartClose(r) \/ StartCreate(r)
  \/ \E c \in Centers : \/ Stop(c)
                        \/ Remind(c) \/ NoReminder(c)
                        \/ WatchKeeps(c) \/ WatchFinishes(c)
                        \/ WatchClosesOld(c) \/ WatchLooks(c)
  \/ \E waiting, watched \in SUBSET Centers : WatchRecords(waiting, watched)
  \/ WatchBegin \/ WatchSnapshot \/ Notify \/ WatchOutsideWindow
  \/ WatchCreates \/ WatchFails
  \/ Sweep \/ Tick \/ Crash \/ Boot

Spec == Init /\ [][Next]_vars

----------------------------------------------------------------------------
(* Properties *)

\* Stop means stop: the watch never opens a session for a pickup window in
\* which an earlier session of its own at that center had already ended, be it
\* by a teacher's Stop, by the sweep or because everyone was picked up
\* (ensureAutoSession), however stale the snapshot its run works with.
StopMeansStop ==
  \A i, j \in 1..created :
    /\ i < j
    /\ sess[i].auto /\ sess[j].auto
    /\ sess[i].center = sess[j].center
    /\ sess[i].day = sess[j].day
    => sess[i].status = "closed" /\ sess[i].endedAt < sess[j].window

\* A session a teacher started today is ended only by a Stop or by the sweep:
\* the watch and other starts, which close what a snapshot showed them, never
\* hit it in the place of the session they meant.
TeacherSessionsStand ==
  \A i \in 1..created :
    sess[i].status = "closed" /\ ~sess[i].auto /\ closer[i].day = sess[i].day
      => closer[i].who \in {"stop", "sweep"}

\* No session is left running: on a running server whose sweep is not due this
\* very moment, an active session is younger than the limit and one interval,
\* also after an outage of any length (startSessionCleanupJob).
StaleClosedInTime ==
  up /\ clock < nextSweep =>
    \A i \in Ids : sess[i].status = "active"
                     => clock < sess[i].startedAt + StaleAfter + CleanupEvery

=============================================================================
