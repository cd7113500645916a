------------------------- MODULE LiveSessionsProofs -------------------------
(***************************************************************************)
(* What LiveSessions promises for every number of centers, requests and    *)
(* sessions, whatever the pickup windows and the timers.                   *)
(***************************************************************************)
EXTENDS LiveSessions, WellFoundedInduction, TLAPS

----------------------------------------------------------------------------
(* Days and windows *)

LEMMA LeastNumber ==
  ASSUME NEW S \in SUBSET Nat, S # {}
  PROVE  \E m \in S : \A n \in S : m <= n
  <1>1. PICK m \in S : \A n \in S : <<n, m>> \notin OpToRel(<, Nat)
    BY NatLessThanWellFounded, WFMin
  <1>2. \A n \in S : ~(n < m)
    BY <1>1 DEF OpToRel
  <1> QED
    BY <1>2

LEMMA DayIsNat == \A t \in Nat : Day(t) \in Nat
  BY SessionsAssumption DEF Day

LEMMA InstantIsNat == \A t, unit \in Nat : Instant(t, unit) \in Nat
  <1>1. DayLen \in Nat
    BY SessionsAssumption
  <1>2. \A d, unit \in Nat : d * DayLen + unit \in Nat
    BY <1>1
  <1> QED
    BY <1>2, DayIsNat DEF Instant

LEMMA WindowFields ==
  ASSUME NEW w \in Windows
  PROVE  w.from \in Nat /\ w.to \in Nat
  BY SessionsAssumption

\* While a window is open, its start is an instant.
LEMMA WindowStartIsNat ==
  ASSUME NEW t \in Nat, InWindow(t) # {}
  PROVE  WindowStart(t) \in Nat
  <1> DEFINE units == {w.from : w \in InWindow(t)}
             Earliest(u) == \A w \in InWindow(t) : u <= w.from
  <1>1. InWindow(t) \subseteq Windows
    BY DEF InWindow
  <1>2. units \in SUBSET Nat /\ units # {}
    BY <1>1, WindowFields
  <1>3. PICK m \in units : \A n \in units : m <= n
    BY <1>2, LeastNumber
  <1>4. Earliest(m)
    BY <1>3
  <1>5. (CHOOSE u \in units : Earliest(u)) \in units
    BY <1>4
  <1> QED
    BY <1>2, <1>5, InstantIsNat DEF WindowStart

LEMMA SomeCenterIsCenter == SomeCenter \in Centers
  BY SessionsAssumption DEF SomeCenter

LEMMA RestIsTyped == NoRequest \in Request /\ NoWatch \in Watch /\ Unused \in Session
  BY SomeCenterIsCenter DEF NoRequest, Request, NoWatch, Watch, Unused, Session

----------------------------------------------------------------------------
(* What the statements do to the rows *)

\* A session goes from unused to active to closed, and a row keeps what it was
\* created with.
RowsGoOn ==
  /\ sess' \in [Ids -> Session] /\ closer' \in [Ids -> Closer]
  /\ created' \in 0..MaxSessions /\ created <= created'
  /\ \A i \in Ids : sess[i].status # "unused" =>
       /\ sess'[i].center = sess[i].center /\ sess'[i].day = sess[i].day
       /\ sess'[i].auto = sess[i].auto /\ sess'[i].window = sess[i].window
       /\ sess'[i].startedAt = sess[i].startedAt
       /\ sess'[i].status # "unused"
  /\ \A i \in Ids : sess[i].status = "closed" =>
       /\ sess'[i].status = "closed" /\ sess'[i].endedAt = sess[i].endedAt
       /\ closer'[i] = closer[i]

Closed(i, who, day, endedAt) ==
  /\ sess'[i].status = "closed" /\ sess'[i].endedAt = endedAt
  /\ closer'[i].who = who /\ closer'[i].day = day

LEMMA CloseResult ==
  ASSUME TypeOK, NEW ids, NEW who \in {"stop", "sweep", "start", "watch"}, NEW day \in Nat,
         NEW endedAt \in Nat, Close(ids, who, day, endedAt), UNCHANGED created
  PROVE  /\ RowsGoOn
         /\ \A i \in Ids : i \in ids /\ sess[i].status = "active" => Closed(i, who, day, endedAt)
         /\ \A i \in Ids : ~(i \in ids /\ sess[i].status = "active") =>
              sess'[i] = sess[i] /\ closer'[i] = closer[i]
  <1> DEFINE closing == {i \in ids : sess[i].status = "active"}
  <1>1. sess' = [i \in Ids |-> IF i \in closing
                               THEN [sess[i] EXCEPT !.status = "closed", !.endedAt = endedAt]
                               ELSE sess[i]]
    BY DEF Close
  <1>2. closer' = [i \in Ids |-> IF i \in closing THEN [who |-> who, day |-> day]
                                                  ELSE closer[i]]
    BY DEF Close
  <1>3. sess \in [Ids -> Session] /\ closer \in [Ids -> Closer]
    BY DEF TypeOK
  <1>4. ASSUME NEW i \in Ids, i \in closing
        PROVE  /\ sess'[i] \in Session
               /\ sess'[i].center = sess[i].center /\ sess'[i].day = sess[i].day
               /\ sess'[i].auto = sess[i].auto /\ sess'[i].window = sess[i].window
               /\ sess'[i].startedAt = sess[i].startedAt
               /\ sess'[i].status = "closed" /\ sess'[i].endedAt = endedAt
    <2> DEFINE row == [sess[i] EXCEPT !.status = "closed"]
    <2>1. sess'[i] = [row EXCEPT !.endedAt = endedAt]
      BY <1>1, <1>4
    <2>2. /\ row \in Session
          /\ row.center = sess[i].center /\ row.day = sess[i].day
          /\ row.auto = sess[i].auto /\ row.window = sess[i].window
          /\ row.startedAt = sess[i].startedAt /\ row.status = "closed"
      BY <1>3 DEF Session
    <2> HIDE DEF row
    <2> QED
      BY <2>1, <2>2 DEF Session
  <1>5. ASSUME NEW i \in Ids, i \notin closing
        PROVE  sess'[i] = sess[i] /\ closer'[i] = closer[i]
    BY <1>1, <1>2, <1>5
  <1>6. sess' \in [Ids -> Session]
    <2>1. \A i \in Ids : sess'[i] \in Session
      BY <1>3, <1>4, <1>5
    <2> QED
      BY <1>1, <2>1
  <1>7. closer' \in [Ids -> Closer]
    BY <1>2, <1>3 DEF Closer
  <1>8. created' \in 0..MaxSessions /\ created <= created'
    BY DEF TypeOK
  <1>9. \A i \in Ids : i \in closing => closer'[i].who = who /\ closer'[i].day = day
    BY <1>2
  <1>10. RowsGoOn
    BY <1>3, <1>4, <1>5, <1>6, <1>7, <1>8 DEF RowsGoOn
  <1> QED
    BY <1>4, <1>5, <1>9, <1>10 DEF Closed

\* A session that is still to come has no row; the others are active or closed,
\* one of them active at each center.
RowsOK ==
  /\ \A i \in Ids : sess[i].status = "unused" <=> i > created
  /\ \A i, j \in Ids :
       /\ sess[i].status = "active" /\ sess[j].status = "active"
       /\ sess[i].center = sess[j].center
       => i = j

NewSession(c, day, auto, window) ==
  [center |-> c, day |-> day, status |-> "active", auto |-> auto,
   startedAt |-> clock, endedAt |-> 0, reminded |-> FALSE, window |-> window]

LEMMA CreateResult ==
  ASSUME TypeOK, RowsOK, NEW c \in Centers, NEW day \in Nat, NEW auto \in BOOLEAN,
         NEW window \in Nat, Create(c, day, auto, window), UNCHANGED closer
  PROVE  /\ RowsGoOn
         /\ \/ UNCHANGED <<created, sess>>
            \/ /\ created + 1 \in Ids /\ created' = created + 1
               /\ ActiveAt(c) = {}
               /\ sess[created + 1].status = "unused"
               /\ sess'[created + 1] = NewSession(c, day, auto, window)
               /\ \A i \in Ids : i # created + 1 => sess'[i] = sess[i]
  <1>1. sess \in [Ids -> Session] /\ closer \in [Ids -> Closer] /\ created \in Nat
        /\ clock \in Nat /\ created \in 0..MaxSessions
    BY DEF TypeOK
  <1>2. CASE UNCHANGED <<created, sess>>
    BY <1>1, <1>2 DEF RowsGoOn
  <1>3. CASE ActiveAt(c) = {}
    <2>1. /\ created < MaxSessions /\ created' = created + 1
          /\ sess' = [sess EXCEPT ![created + 1] = NewSession(c, day, auto, window)]
      BY <1>3 DEF Create, NewSession
    <2>2. created + 1 \in Ids /\ created' \in 0..MaxSessions /\ created <= created'
      BY <1>1, <2>1, SessionsAssumption DEF Ids
    <2>3. NewSession(c, day, auto, window) \in Session
      BY <1>1 DEF NewSession, Session
    <2>4. sess[created + 1].status = "unused"
      BY <1>1, <2>2 DEF RowsOK
    <2>5. RowsGoOn
      BY <1>1, <2>1, <2>2, <2>3, <2>4 DEF RowsGoOn
    <2> QED
      BY <1>1, <1>3, <2>1, <2>2, <2>4, <2>5
  <1> QED
    BY <1>2, <1>3 DEF Create

LEMMA FindActiveResult ==
  ASSUME TypeOK, NEW c \in Centers
  PROVE  /\ FindActive(c) \in 0..MaxSessions
         /\ FindActive(c) # 0 => /\ FindActive(c) \in Ids
                                 /\ sess[FindActive(c)].status = "active"
                                 /\ sess[FindActive(c)].center = c
         /\ FindActive(c) = 0 => ActiveAt(c) = {}
  <1>1. CASE ActiveAt(c) = {}
    BY <1>1, SessionsAssumption DEF FindActive
  <1>2. CASE ActiveAt(c) # {}
    <2>1. FindActive(c) \in ActiveAt(c)
      BY <1>2 DEF FindActive
    <2>2. FindActive(c) \in Ids
      BY <2>1 DEF ActiveAt
    <2> QED
      BY <2>1, <2>2, SessionsAssumption DEF ActiveAt, Ids
  <1> QED
    BY <1>1, <1>2

----------------------------------------------------------------------------
(* Types *)

WatchSteps == {"idle", "snapshot", "remind", "notify", "centers", "look", "create"}

WatchTyped(w) == w \in Watch /\ \A c \in Centers : w.snap[c] \in 0..MaxSessions

\* The ways the watch's own variables are assigned.
LEMMA WatchAssigned ==
  ASSUME NEW w, WatchTyped(w), NEW step \in WatchSteps
  PROVE  /\ \A now \in Nat : WatchTyped([w EXCEPT !.step = step, !.now = now])
         /\ \A snap \in [Centers -> 0..MaxSessions], queue \in SUBSET Centers :
              WatchTyped([w EXCEPT !.step = step, !.snap = snap, !.queue = queue])
         /\ \A c \in Centers : WatchTyped([w EXCEPT !.step = step, !.at = c])
         /\ \A queue \in SUBSET Centers :
              /\ WatchTyped([w EXCEPT !.step = step, !.queue = queue])
              /\ WatchTyped([w EXCEPT !.queue = queue])
              /\ \A waiting \in SUBSET Centers :
                   WatchTyped([w EXCEPT !.step = step, !.waiting = waiting, !.queue = queue])
  <1>1. \A snap \in [Centers -> 0..MaxSessions] : snap \in [Centers -> Nat]
    BY SessionsAssumption
  <1> QED
    BY <1>1 DEF WatchTyped, Watch, WatchSteps

LEMMA NoWatchTyped == WatchTyped(NoWatch)
  BY RestIsTyped, SessionsAssumption DEF WatchTyped, NoWatch

LEMMA LeaveResult ==
  ASSUME TypeOK, NEW c \in Centers, Leave(c)
  PROVE  /\ WatchTyped(watch')
         /\ \/ watch' = NoWatch
            \/ watch' = [watch EXCEPT !.step = "centers", !.queue = @ \ {c}]
  <1>1. WatchTyped(watch)
    BY DEF TypeOK, WatchTyped
  <1>2. watch.queue \ {c} \in SUBSET Centers
    BY DEF TypeOK, Watch
  <1>3. WatchTyped([watch EXCEPT !.step = "centers", !.queue = @ \ {c}])
    BY <1>1, <1>2, WatchAssigned DEF WatchSteps
  <1> QED
    BY <1>3, NoWatchTyped DEF Leave

\* A run that opens and closes sessions is one for an open window.
WatchOK == watch.step \in {"centers", "look", "create"} => InWindow(watch.now) # {}

LEMMA InitBase == Init => TypeOK /\ RowsOK /\ WatchOK
  <1> SUFFICES ASSUME Init PROVE TypeOK /\ RowsOK /\ WatchOK
    OBVIOUS
  <1>1. watch \in Watch /\ \A c \in Centers : watch.snap[c] \in 0..MaxSessions
    BY NoWatchTyped DEF Init, WatchTyped
  <1>2. req \in [Starters -> Request] /\ \A r \in Starters : req[r].found \in 0..MaxSessions
    BY RestIsTyped, SessionsAssumption DEF Init, NoRequest
  <1>3. sess \in [Ids -> Session] /\ closer \in [Ids -> Closer] /\ created \in 0..MaxSessions
    BY RestIsTyped, SessionsAssumption DEF Init, Closer
  <1>4. TypeOK
    BY <1>1, <1>2, <1>3 DEF Init, TypeOK
  <1>5. RowsOK
    BY DEF Init, RowsOK, Unused, Ids
  <1>6. WatchOK
    BY DEF Init, WatchOK, NoWatch
  <1> QED
    BY <1>4, <1>5, <1>6

\* The steps that touch the sessions, and what they do.
Closing ==
  /\ UNCHANGED created
  /\ \E ids : \E who \in {"stop", "sweep", "start", "watch"}, day, endedAt \in Nat :
       Close(ids, who, day, endedAt)

LEMMA RemindResult ==
  ASSUME TypeOK, NEW c \in Centers, Remind(c)
  PROVE  /\ RowsGoOn /\ UNCHANGED <<created, closer>>
         /\ \A i \in Ids : /\ sess'[i].center = sess[i].center /\ sess'[i].day = sess[i].day
                           /\ sess'[i].auto = sess[i].auto
                           /\ sess'[i].window = sess[i].window
                           /\ sess'[i].startedAt = sess[i].startedAt
                           /\ sess'[i].status = sess[i].status
                           /\ sess'[i].endedAt = sess[i].endedAt
  <1>1. sess \in [Ids -> Session] /\ closer \in [Ids -> Closer] /\ created \in 0..MaxSessions
        /\ created \in Nat
    BY DEF TypeOK
  <1>2. sess' = [sess EXCEPT ![watch.snap[c]].reminded = TRUE] /\ UNCHANGED <<created, closer>>
    BY DEF Remind
  <1>3. sess' \in [Ids -> Session]
    BY <1>1, <1>2 DEF Session
  <1>4. \A i \in Ids : /\ sess'[i].center = sess[i].center /\ sess'[i].day = sess[i].day
                       /\ sess'[i].auto = sess[i].auto
                       /\ sess'[i].window = sess[i].window
                       /\ sess'[i].startedAt = sess[i].startedAt
                       /\ sess'[i].status = sess[i].status
                       /\ sess'[i].endedAt = sess[i].endedAt
    BY <1>1, <1>2 DEF Session
  <1> QED
    BY <1>1, <1>2, <1>3, <1>4 DEF RowsGoOn

LEMMA SameRows ==
  ASSUME TypeOK, UNCHANGED <<sess, created, closer>>
  PROVE  RowsGoOn
  BY DEF TypeOK, RowsGoOn

LEMMA RequestFields ==
  ASSUME TypeOK, NEW r \in Starters
  PROVE  req[r] \in Request /\ req[r].center \in Centers /\ req[r].day \in Nat
  BY DEF TypeOK, Request

LEMMA WatchFields ==
  ASSUME TypeOK
  PROVE  /\ WatchTyped(watch) /\ watch.now \in Nat /\ watch.queue \in SUBSET Centers
         /\ watch.at \in Centers /\ watch.waiting \in SUBSET Centers
         /\ watch.step \in WatchSteps
  BY DEF TypeOK, WatchTyped, Watch, WatchSteps

\* What each kind of step does to the sessions.
LEMMA StarterCloses ==
  ASSUME TypeOK, NEW r \in Starters, StartClose(r)
  PROVE  Closing
  BY RequestFields DEF StartClose, Closing, TypeOK

LEMMA TeacherStops ==
  ASSUME TypeOK, NEW c \in Centers, Stop(c)
  PROVE  Closing
  BY DayIsNat DEF Stop, Closing, TypeOK

LEMMA WatchCloses ==
  ASSUME TypeOK, NEW c \in Centers, WatchFinishes(c) \/ WatchClosesOld(c)
  PROVE  Closing
  <1>1. Day(watch.now) \in Nat /\ watch.now \in Nat /\ clock \in Nat
    BY WatchFields, DayIsNat DEF TypeOK
  <1> QED
    BY <1>1 DEF WatchFinishes, WatchClosesOld, Closing

LEMMA SweepCloses ==
  ASSUME TypeOK, Sweep
  PROVE  Closing
  BY DayIsNat DEF Sweep, Closing, TypeOK

Creating ==
  /\ UNCHANGED closer
  /\ \/ \E r \in Starters : Create(req[r].center, req[r].day, FALSE, 0)
     \/ /\ watch.step = "create"
        /\ Create(watch.at, Day(watch.now), TRUE, WindowStart(watch.now))

LEMMA WatchOrStartCreates ==
  ASSUME \/ WatchCreates
         \/ \E r \in Starters : StartCreate(r)
  PROVE  Creating
  BY DEF WatchCreates, StartCreate, Creating

LEMMA CreatingResult ==
  ASSUME TypeOK, RowsOK, WatchOK, Creating
  PROVE  /\ RowsGoOn
         /\ \/ UNCHANGED <<created, sess>>
            \/ /\ created + 1 \in Ids /\ created' = created + 1
               /\ sess[created + 1].status = "unused"
               /\ \A i \in Ids : i # created + 1 => sess'[i] = sess[i]
               /\ \E c \in Centers, day, window \in Nat, auto \in BOOLEAN :
                    /\ ActiveAt(c) = {}
                    /\ sess'[created + 1] = NewSession(c, day, auto, window)
  <1>1. ASSUME NEW r \in Starters, Create(req[r].center, req[r].day, FALSE, 0)
        PROVE  \E c \in Centers, day, window \in Nat, auto \in BOOLEAN :
                 Create(c, day, auto, window)
    BY <1>1, RequestFields
  <1>2. ASSUME watch.step = "create",
               Create(watch.at, Day(watch.now), TRUE, WindowStart(watch.now))
        PROVE  \E c \in Centers, day, window \in Nat, auto \in BOOLEAN :
                 Create(c, day, auto, window)
    <2>1. watch.at \in Centers /\ Day(watch.now) \in Nat /\ WindowStart(watch.now) \in Nat
      BY <1>2, WatchFields, DayIsNat, WindowStartIsNat DEF WatchOK
    <2> QED
      BY <1>2, <2>1
  <1>3. PICK c \in Centers, day \in Nat, window \in Nat, auto \in BOOLEAN :
          Create(c, day, auto, window)
    BY <1>1, <1>2 DEF Creating
  <1> QED
    BY <1>3, CreateResult DEF Creating

\* Every step closes, creates or reminds, or leaves the sessions alone.
LEMMA WritersStep ==
  ASSUME TypeOK, [Next]_vars
  PROVE  \/ UNCHANGED <<sess, created, closer>>
         \/ \E r \in Starters : StartCreate(r) \/ StartClose(r)
         \/ WatchCreates
         \/ \E c \in Centers : \/ Stop(c) \/ WatchFinishes(c) \/ WatchClosesOld(c)
                              \/ Remind(c)
         \/ Sweep
  <1>1. ASSUME NEW r \in Starters, StartFind(r) \/ \E c \in Centers : Start(r, c)
        PROVE  UNCHANGED <<sess, created, closer>>
    BY <1>1 DEF StartFind, Start
  <1>2. ASSUME NEW c \in Centers, NoReminder(c) \/ WatchKeeps(c) \/ WatchLooks(c)
        PROVE  UNCHANGED <<sess, created, closer>>
    BY <1>2 DEF NoReminder, WatchKeeps, WatchLooks
  <1>3. ASSUME \/ WatchBegin \/ WatchSnapshot \/ Notify \/ WatchOutsideWindow \/ WatchFails
               \/ \E waiting, watched \in SUBSET Centers : WatchRecords(waiting, watched)
               \/ Tick \/ Crash \/ Boot \/ UNCHANGED vars
        PROVE  UNCHANGED <<sess, created, closer>>
    BY <1>3 DEF WatchBegin, WatchSnapshot, Notify, WatchOutsideWindow, WatchFails,
                WatchRecords, Tick, Crash, Boot, vars
  <1> QED
    BY <1>1, <1>2, <1>3 DEF Next

LEMMA SessionsStep ==
  ASSUME TypeOK, [Next]_vars
  PROVE  \/ UNCHANGED <<sess, created, closer>>
         \/ Closing \/ Creating
         \/ \E c \in Centers : Remind(c)
  BY WritersStep, StarterCloses, TeacherStops, WatchCloses, SweepCloses, WatchOrStartCreates

LEMMA RowsStep ==
  ASSUME TypeOK, RowsOK, WatchOK, [Next]_vars
  PROVE  RowsGoOn
  BY SessionsStep, SameRows, CloseResult, CreatingResult, RemindResult DEF Closing

LEMMA NextRequestsTyped ==
  TypeOK /\ [Next]_vars => /\ req' \in [Starters -> Request]
                           /\ \A r \in Starters : req'[r].found \in 0..MaxSessions
  <1> DEFINE Typed(q) == q \in Request /\ q.found \in 0..MaxSessions
             AllTyped == /\ req' \in [Starters -> Request]
                         /\ \A r \in Starters : req'[r].found \in 0..MaxSessions
  <1> SUFFICES ASSUME TypeOK, [Next]_vars PROVE AllTyped
    OBVIOUS
  <1>1. ASSUME NEW r \in Starters, NEW q, Typed(q), req' = [req EXCEPT ![r] = q]
        PROVE  AllTyped
    BY <1>1 DEF TypeOK
  <1>2. Typed(NoRequest)
    BY RestIsTyped, SessionsAssumption DEF NoRequest
  <1>3. ASSUME NEW r \in Starters
        PROVE  /\ Typed(req[r]) /\ req[r].center \in Centers
               /\ Typed([req[r] EXCEPT !.step = "create"])
               /\ \A i \in 0..MaxSessions :
                    Typed([req[r] EXCEPT !.step = "close", !.found = i])
    <2>1. req[r] \in Request /\ req[r].found \in 0..MaxSessions
      BY DEF TypeOK
    <2>2. Typed([req[r] EXCEPT !.step = "create"])
      BY <2>1 DEF Request
    <2>3. ASSUME NEW i \in 0..MaxSessions
          PROVE  Typed([req[r] EXCEPT !.step = "close", !.found = i])
      <3>1. i \in Nat
        OBVIOUS
      <3> QED
        BY <2>1, <3>1 DEF Request
    <2> QED
      BY <2>1, <2>2, <2>3 DEF Request
  <1>4. ASSUME NEW r \in Starters, NEW c \in Centers, Start(r, c)
        PROVE  AllTyped
    <2>1. Typed([step |-> "find", center |-> c, day |-> Day(clock), found |-> 0])
      BY DayIsNat, SessionsAssumption DEF TypeOK, Request
    <2> QED
      BY <1>1, <1>4, <2>1 DEF Start
  <1>5. ASSUME NEW r \in Starters, StartFind(r)
        PROVE  AllTyped
    <2> DEFINE i == FindActive(req[r].center)
               next == IF i = 0 THEN [req[r] EXCEPT !.step = "create"]
                       ELSE IF sess[i].day = req[r].day THEN NoRequest
                       ELSE [req[r] EXCEPT !.step = "close", !.found = i]
    <2>1. i \in 0..MaxSessions
      BY <1>3, FindActiveResult
    <2>2. Typed(next)
      BY <1>2, <1>3, <2>1
    <2>3. req' = [req EXCEPT ![r] = next]
      BY <1>5 DEF StartFind
    <2> HIDE DEF next
    <2> QED
      BY <1>1, <2>2, <2>3
  <1>6. ASSUME NEW r \in Starters, StartClose(r)
        PROVE  AllTyped
    <2>1. req' = [req EXCEPT ![r] = [req[r] EXCEPT !.step = "create"]]
      BY <1>6 DEF StartClose
    <2> QED
      BY <1>1, <1>3, <2>1
  <1>7. ASSUME NEW r \in Starters, StartCreate(r)
        PROVE  AllTyped
    BY <1>1, <1>2, <1>7 DEF StartCreate
  <1>8. CASE Crash
    BY <1>2, <1>8 DEF Crash
  <1>9. CASE UNCHANGED req
    BY <1>3, <1>9 DEF TypeOK
  <1>10. ASSUME NEW c \in Centers,
                \/ Stop(c) \/ Remind(c) \/ NoReminder(c)
                \/ WatchKeeps(c) \/ WatchFinishes(c) \/ WatchClosesOld(c) \/ WatchLooks(c)
         PROVE  UNCHANGED req
    BY <1>10 DEF Stop, Remind, NoReminder, WatchKeeps, WatchFinishes, WatchClosesOld,
                 WatchLooks
  <1>11. ASSUME \/ WatchBegin \/ WatchSnapshot \/ Notify \/ WatchOutsideWindow
                \/ \E waiting, watched \in SUBSET Centers : WatchRecords(waiting, watched)
                \/ WatchCreates \/ WatchFails \/ Sweep \/ Tick \/ Boot \/ UNCHANGED vars
         PROVE  UNCHANGED req
    BY <1>11 DEF WatchBegin, WatchSnapshot, Notify, WatchOutsideWindow, WatchRecords,
                 WatchCreates, WatchFails, Sweep, Tick, Boot, vars
  <1> QED
    BY <1>4, <1>5, <1>6, <1>7, <1>8, <1>9, <1>10, <1>11 DEF Next

LEMMA NextWatchTyped == TypeOK /\ [Next]_vars => WatchTyped(watch')
  <1> SUFFICES ASSUME TypeOK, [Next]_vars PROVE WatchTyped(watch')
    OBVIOUS
  <1> USE DEF WatchSteps
  <1>1. clock \in Nat
    BY DEF TypeOK
  <1>2. ASSUME WatchBegin
        PROVE  WatchTyped(watch')
    BY <1>1, <1>2, WatchFields, WatchAssigned DEF WatchBegin
  <1>3. ASSUME WatchSnapshot
        PROVE  WatchTyped(watch')
    <2> DEFINE snap == [c \in Centers |-> FindActive(c)]
    <2>1. snap \in [Centers -> 0..MaxSessions]
      BY FindActiveResult
    <2>2. watch' = [watch EXCEPT !.step = "remind", !.snap = snap,
                                 !.queue = {c \in Centers : snap[c] # 0}]
      BY <1>3 DEF WatchSnapshot
    <2> HIDE DEF snap
    <2> QED
      BY <2>1, <2>2, WatchFields, WatchAssigned
  <1>4. ASSUME NEW c \in Centers, Remind(c)
        PROVE  WatchTyped(watch')
    BY <1>4, WatchFields, WatchAssigned DEF Remind
  <1>5. ASSUME Notify
        PROVE  WatchTyped(watch')
    <2>1. watch.queue \ {watch.at} \in SUBSET Centers
      BY WatchFields
    <2>2. watch' = [watch EXCEPT !.step = "remind", !.queue = watch.queue \ {watch.at}]
      BY <1>5 DEF Notify
    <2> QED
      BY <2>1, <2>2, WatchFields, WatchAssigned
  <1>6. ASSUME NEW c \in Centers, NoReminder(c)
        PROVE  WatchTyped(watch')
    <2>1. watch.queue \ {c} \in SUBSET Centers
      BY WatchFields
    <2>2. watch' = [watch EXCEPT !.queue = watch.queue \ {c}]
      BY <1>6 DEF NoReminder
    <2> QED
      BY <2>1, <2>2, WatchFields, WatchAssigned
  <1>7. ASSUME NEW waiting \in SUBSET Centers, NEW watched \in SUBSET Centers,
               WatchRecords(waiting, watched)
        PROVE  WatchTyped(watch')
    <2> DEFINE queue == watched \cup {c \in Centers : watch.snap[c] # 0}
    <2>1. queue \in SUBSET Centers
      OBVIOUS
    <2>2. \/ watch' = NoWatch
          \/ watch' = [watch EXCEPT !.step = "centers", !.waiting = waiting, !.queue = queue]
      BY <1>7 DEF WatchRecords
    <2> HIDE DEF queue
    <2>3. WatchTyped([watch EXCEPT !.step = "centers", !.waiting = waiting, !.queue = queue])
      BY <2>1, WatchFields, WatchAssigned
    <2> QED
      BY <2>2, <2>3, NoWatchTyped
  <1>8. ASSUME NEW c \in Centers, WatchKeeps(c) \/ WatchFinishes(c)
        PROVE  WatchTyped(watch')
    BY <1>8, LeaveResult DEF WatchKeeps, WatchFinishes
  <1>9. ASSUME NEW c \in Centers, WatchClosesOld(c) \/ WatchLooks(c)
        PROVE  WatchTyped(watch')
    <2>1. \/ Leave(c)
          \/ watch' = [watch EXCEPT !.step = "look", !.at = c]
          \/ watch' = [watch EXCEPT !.step = "create", !.at = c]
      BY <1>9 DEF WatchClosesOld, WatchLooks
    <2>2. \A step \in WatchSteps : WatchTyped([watch EXCEPT !.step = step, !.at = c])
      BY WatchFields, WatchAssigned
    <2> QED
      BY <2>1, <2>2, LeaveResult
  <1>10. ASSUME WatchCreates \/ WatchFails
         PROVE  WatchTyped(watch')
    BY <1>10, LeaveResult, NoWatchTyped, WatchFields DEF WatchCreates, WatchFails
  <1>11. ASSUME WatchOutsideWindow \/ Crash
         PROVE  WatchTyped(watch')
    BY <1>11, NoWatchTyped DEF WatchOutsideWindow, Crash
  <1>12. ASSUME \/ \E r \in Starters : \/ StartFind(r) \/ StartClose(r) \/ StartCreate(r)
                                       \/ \E c \in Centers : Start(r, c)
                \/ \E c \in Centers : Stop(c)
                \/ Sweep \/ Tick \/ Boot \/ UNCHANGED vars
         PROVE  WatchTyped(watch')
    BY <1>12, WatchFields DEF StartFind, StartClose, StartCreate, Start, Stop, Sweep, Tick,
                              Boot, vars
  <1> QED
    BY <1>2, <1>3, <1>4, <1>5, <1>6, <1>7, <1>8, <1>9, <1>10, <1>11, <1>12 DEF Next

LEMMA NextTimesTyped ==
  TypeOK /\ [Next]_vars => clock' \in Nat /\ nextSweep' \in Nat /\ used' \in Nat /\ up' \in BOOLEAN
  <1> SUFFICES ASSUME TypeOK, [Next]_vars
               PROVE  clock' \in Nat /\ nextSweep' \in Nat /\ used' \in Nat /\ up' \in BOOLEAN
    OBVIOUS
  <1>1. clock \in Nat /\ nextSweep \in Nat /\ used \in Nat /\ up \in BOOLEAN
    BY DEF TypeOK
  <1>2. clock' = clock \/ clock' = clock + 1
    BY DEF Next, Start, StartFind, StartClose, StartCreate, Stop, Remind, NoReminder, WatchKeeps,
           WatchFinishes, WatchClosesOld, WatchLooks, WatchRecords, WatchBegin, WatchSnapshot,
           Notify, WatchOutsideWindow, WatchCreates, WatchFails, Sweep, Tick, Crash, Boot, vars
  <1>3. nextSweep' = nextSweep \/ nextSweep' = clock + CleanupEvery \/ nextSweep' = clock
    BY DEF Next, Start, StartFind, StartClose, StartCreate, Stop, Remind, NoReminder, WatchKeeps,
           WatchFinishes, WatchClosesOld, WatchLooks, WatchRecords, WatchBegin, WatchSnapshot,
           Notify, WatchOutsideWindow, WatchCreates, WatchFails, Sweep, Tick, Crash, Boot, vars
  <1>4. used' = used \/ used' = used + 1
    BY DEF Next, Start, StartFind, StartClose, StartCreate, Stop, Remind, NoReminder, WatchKeeps,
           WatchFinishes, WatchClosesOld, WatchLooks, WatchRecords, WatchBegin, WatchSnapshot,
           Notify, WatchOutsideWindow, WatchCreates, WatchFails, Sweep, Tick, Crash, Boot, vars,
           Count
  <1>5. up' = up \/ up' = TRUE \/ up' = FALSE
    BY DEF Next, Start, StartFind, StartClose, StartCreate, Stop, Remind, NoReminder, WatchKeeps,
           WatchFinishes, WatchClosesOld, WatchLooks, WatchRecords, WatchBegin, WatchSnapshot,
           Notify, WatchOutsideWindow, WatchCreates, WatchFails, Sweep, Tick, Crash, Boot, vars
  <1>6. clock + CleanupEvery \in Nat
    BY <1>1, SessionsAssumption
  <1>7. clock' \in Nat /\ nextSweep' \in Nat /\ used' \in Nat
    BY <1>1, <1>2, <1>3, <1>4, <1>6
  <1>8. up' \in BOOLEAN
    BY <1>1, <1>5
  <1> QED
    BY <1>7, <1>8

LEMMA NextRowsOK == TypeOK /\ RowsOK /\ WatchOK /\ [Next]_vars => RowsOK'
  <1> SUFFICES ASSUME TypeOK, RowsOK, WatchOK, [Next]_vars PROVE RowsOK'
    OBVIOUS
  <1>1. CASE UNCHANGED <<sess, created, closer>>
    BY <1>1 DEF RowsOK
  <1>2. CASE Closing
    <2>1. PICK ids : \E who \in {"stop", "sweep", "start", "watch"}, day, endedAt \in Nat :
                       Close(ids, who, day, endedAt)
      BY <1>2 DEF Closing
    <2>2. \A i \in Ids : \/ sess'[i] = sess[i]
                         \/ sess[i].status = "active" /\ sess'[i].status = "closed"
      BY <1>2, <2>1, CloseResult DEF Closing, Closed
    <2> QED
      BY <1>2, <2>2 DEF RowsOK, Closing
  <1>3. ASSUME NEW c \in Centers, Remind(c)
        PROVE  RowsOK'
    BY <1>3, RemindResult DEF RowsOK
  <1>4. CASE Creating
    <2>1. CASE UNCHANGED <<created, sess>>
      BY <2>1 DEF RowsOK
    <2>2. CASE ~UNCHANGED <<created, sess>>
      <3>1. /\ created + 1 \in Ids /\ created' = created + 1
            /\ sess[created + 1].status = "unused"
            /\ \A i \in Ids : i # created + 1 => sess'[i] = sess[i]
        BY <1>4, <2>2, CreatingResult
      <3>2. PICK c \in Centers, day \in Nat, window \in Nat, auto \in BOOLEAN :
              /\ ActiveAt(c) = {}
              /\ sess'[created + 1] = NewSession(c, day, auto, window)
        BY <1>4, <2>2, CreatingResult
      <3>3. sess'[created + 1].status = "active" /\ sess'[created + 1].center = c
        BY <3>2 DEF NewSession
      <3>4. \A i \in Ids : sess'[i].status = "unused" <=> i > created'
        BY <3>1, <3>3 DEF RowsOK, TypeOK, Ids
      <3>5. \A i \in Ids : ~(sess[i].status = "active" /\ sess[i].center = c)
        BY <3>2 DEF ActiveAt
      <3>6. \A i, j \in Ids :
              /\ sess'[i].status = "active" /\ sess'[j].status = "active"
              /\ sess'[i].center = sess'[j].center
              => i = j
        BY <3>1, <3>3, <3>5 DEF RowsOK
      <3> QED
        BY <3>4, <3>6 DEF RowsOK
    <2> QED
      BY <2>1, <2>2
  <1> QED
    BY <1>1, <1>2, <1>3, <1>4, SessionsStep

LEMMA NextWatchOK == TypeOK /\ WatchOK /\ [Next]_vars => WatchOK'
  <1> SUFFICES ASSUME TypeOK, WatchOK, [Next]_vars PROVE WatchOK'
    OBVIOUS
  <1>1. ASSUME NEW c \in Centers, Leave(c), watch.step \in {"centers", "look", "create"}
        PROVE  WatchOK'
    BY <1>1, WatchFields DEF Leave, WatchOK, NoWatch, Watch, WatchTyped, InWindow, Instant, Day
  <1>2. ASSUME watch' = NoWatch
        PROVE  WatchOK'
    BY <1>2 DEF WatchOK, NoWatch
  <1>3. ASSUME watch'.now = watch.now,
               \/ watch'.step \notin {"centers", "look", "create"}
               \/ watch.step \in {"centers", "look", "create"}
        PROVE  WatchOK'
    BY <1>3 DEF WatchOK, InWindow, Instant, Day
  <1>4. watch \in Watch
    BY DEF TypeOK
  <1>5. ASSUME WatchBegin
        PROVE  WatchOK'
    BY <1>4, <1>5 DEF WatchBegin, WatchOK, Watch
  <1>6. ASSUME \/ WatchSnapshot \/ Notify
               \/ \E c \in Centers : Remind(c) \/ NoReminder(c)
        PROVE  WatchOK'
    BY <1>3, <1>4, <1>6 DEF WatchSnapshot, Notify, Remind, NoReminder, Watch
  <1>7. ASSUME NEW waiting, NEW watched, WatchRecords(waiting, watched)
        PROVE  WatchOK'
    BY <1>4, <1>7 DEF WatchRecords, WatchOK, Watch, NoWatch, InWindow, Instant, Day
  <1>8. ASSUME NEW c \in Centers, \/ WatchKeeps(c) \/ WatchFinishes(c) \/ WatchLooks(c)
                                  \/ WatchClosesOld(c)
        PROVE  WatchOK'
    BY <1>1, <1>3, <1>4, <1>8 DEF WatchKeeps, WatchFinishes, WatchLooks, WatchClosesOld, Watch
  <1>9. ASSUME WatchCreates \/ WatchFails
        PROVE  WatchOK'
    BY <1>1, <1>2, <1>9, WatchFields DEF WatchCreates, WatchFails
  <1>10. ASSUME WatchOutsideWindow \/ Crash
         PROVE  WatchOK'
    BY <1>2, <1>10 DEF WatchOutsideWindow, Crash
  <1>11. ASSUME \/ \E r \in Starters : \/ StartFind(r) \/ StartClose(r) \/ StartCreate(r)
                                       \/ \E c \in Centers : Start(r, c)
                \/ \E c \in Centers : Stop(c)
                \/ Sweep \/ Tick \/ Boot \/ UNCHANGED vars
         PROVE  UNCHANGED watch
    BY <1>11 DEF StartFind, StartClose, StartCreate, Start, Stop, Sweep, Tick, Boot, vars
  <1> QED
    BY <1>3, <1>5, <1>6, <1>7, <1>8, <1>9, <1>10, <1>11 DEF Next, WatchOK, InWindow, Instant, Day

LEMMA NextTypeOK == TypeOK /\ RowsOK /\ WatchOK /\ [Next]_vars => TypeOK'
  BY NextRequestsTyped, NextWatchTyped, NextTimesTyped, RowsStep
     DEF TypeOK, RowsGoOn, WatchTyped

\* What every state is like, whatever the timers and the windows.
Base == TypeOK /\ RowsOK /\ WatchOK

LEMMA BaseCorrect == Spec => []Base
  <1>1. Base /\ [Next]_vars => Base'
    BY NextTypeOK, NextRowsOK, NextWatchOK DEF Base
  <1> QED
    BY <1>1, InitBase, PTL DEF Spec, Base

\* The rows, the requests and the watch's run keep their types: in particular
\* the watch never opens a session without a window to open it for.
THEOREM TypeCorrect == Spec => []TypeOK
  BY BaseCorrect, PTL DEF Base

----------------------------------------------------------------------------
(* Teachers' sessions stand *)

LEMMA CreatedIds ==
  ASSUME NEW n \in 0..MaxSessions
  PROVE  1..n \subseteq Ids
  BY SessionsAssumption DEF Ids

\* A start that is about to close a session closes one of another day.
FoundIsOld ==
  \A r \in Starters :
    req[r].step = "close" => /\ req[r].found \in 1..created
                            /\ sess[req[r].found].day # req[r].day

LEMMA InitFoundIsOld == Init => FoundIsOld
  BY DEF Init, FoundIsOld, NoRequest

LEMMA NextFoundIsOld == Base /\ FoundIsOld /\ [Next]_vars => FoundIsOld'
  <1> SUFFICES ASSUME Base, FoundIsOld, [Next]_vars, NEW r \in Starters, req'[r].step = "close"
               PROVE  req'[r].found \in 1..created' /\ sess'[req'[r].found].day # req'[r].day
    BY DEF FoundIsOld
  <1>1. /\ TypeOK /\ RowsOK /\ RowsGoOn /\ created \in Nat /\ created' \in Nat
        /\ created \in 0..MaxSessions
    BY RowsStep DEF Base, TypeOK, RowsGoOn
  <1>2. ASSUME NEW i \in 1..created
        PROVE  i \in 1..created' /\ sess'[i].day = sess[i].day
    <2>1. i \in Ids
      BY <1>1, CreatedIds
    <2>2. sess[i].status # "unused"
      BY <1>1, <2>1 DEF RowsOK
    <2> QED
      BY <1>1, <2>1, <2>2 DEF RowsGoOn
  <1>3. CASE req'[r] = req[r]
    BY <1>2, <1>3 DEF FoundIsOld
  <1>4. CASE req'[r] # req[r]
    <2>1. StartFind(r)
      <3>1. ASSUME NEW q \in Starters, NEW c \in Centers, Start(q, c)
            PROVE  FALSE
        BY <1>1, <1>4, <3>1 DEF Start, TypeOK
      <3>2. ASSUME NEW q \in Starters, StartClose(q) \/ StartCreate(q)
            PROVE  FALSE
        <4>1. [req[q] EXCEPT !.step = "create"].step = "create" /\ NoRequest.step = "idle"
          BY <1>1 DEF TypeOK, Request, NoRequest
        <4>2. \/ req' = [req EXCEPT ![q] = [req[q] EXCEPT !.step = "create"]]
              \/ req' = [req EXCEPT ![q] = NoRequest]
          BY <3>2 DEF StartClose, StartCreate
        <4> QED
          BY <1>1, <1>4, <4>1, <4>2 DEF TypeOK
      <3>3. ASSUME NEW q \in Starters, StartFind(q)
            PROVE  q = r
        BY <1>1, <1>4, <3>3 DEF StartFind, TypeOK
      <3>4. ~Crash
        BY DEF Crash, NoRequest
      <3>5. ASSUME NEW c \in Centers,
                   \/ Stop(c) \/ Remind(c) \/ NoReminder(c)
                   \/ WatchKeeps(c) \/ WatchFinishes(c) \/ WatchClosesOld(c) \/ WatchLooks(c)
            PROVE  FALSE
        BY <1>4, <3>5 DEF Stop, Remind, NoReminder, WatchKeeps, WatchFinishes,
                          WatchClosesOld, WatchLooks
      <3>6. ~\/ WatchBegin \/ WatchSnapshot \/ Notify \/ WatchOutsideWindow
             \/ \E waiting, watched \in SUBSET Centers : WatchRecords(waiting, watched)
             \/ WatchCreates \/ WatchFails \/ Sweep \/ Tick \/ Boot \/ UNCHANGED vars
        BY <1>4 DEF WatchBegin, WatchSnapshot, Notify, WatchOutsideWindow, WatchRecords,
                    WatchCreates, WatchFails, Sweep, Tick, Boot, vars
      <3> QED
        BY <3>1, <3>2, <3>3, <3>4, <3>5, <3>6 DEF Next
    <2> DEFINE i == FindActive(req[r].center)
    <2>2. i # 0 => i \in 1..created
      <3>1. i # 0 => i \in Ids /\ sess[i].status = "active"
        BY <1>1, RequestFields, FindActiveResult
      <3> QED
        BY <1>1, <3>1 DEF RowsOK, Ids
    <2>3. i # 0 /\ sess[i].day # req[r].day
      BY <1>1, <2>1 DEF StartFind, TypeOK, Request, NoRequest
    <2>4. req'[r] = [req[r] EXCEPT !.step = "close", !.found = i]
      BY <1>1, <2>1, <2>3 DEF StartFind, TypeOK
    <2>5. req'[r].found = i /\ req'[r].day = req[r].day
      BY <1>1, <2>4 DEF TypeOK, Request
    <2> QED
      BY <1>2, <2>2, <2>3, <2>5
  <1> QED
    BY <1>3, <1>4

\* The watch and the starts close a session of the watch's own, or of a day
\* other than the one they take it to be.
LEMMA NextTeacherSessionsStand ==
  Base /\ FoundIsOld /\ TeacherSessionsStand /\ [Next]_vars => TeacherSessionsStand'
  <1> SUFFICES ASSUME Base, FoundIsOld, TeacherSessionsStand, [Next]_vars,
                      NEW i \in 1..created',
                      sess'[i].status = "closed", ~sess'[i].auto,
                      closer'[i].day = sess'[i].day
               PROVE  closer'[i].who \in {"stop", "sweep"}
    BY DEF TeacherSessionsStand
  <1>1. TypeOK /\ RowsOK /\ WatchOK /\ RowsGoOn
    BY RowsStep DEF Base
  <1>2. i \in Ids
    BY <1>1, CreatedIds DEF RowsGoOn
  <1>3. ASSUME sess[i].status = "closed"
        PROVE  closer'[i].who \in {"stop", "sweep"}
    <2>1. /\ i \in 1..created /\ closer'[i] = closer[i]
          /\ sess'[i].auto = sess[i].auto /\ sess'[i].day = sess[i].day
      BY <1>1, <1>2, <1>3 DEF RowsGoOn, RowsOK, Ids, TypeOK
    <2> QED
      BY <1>3, <2>1 DEF TeacherSessionsStand
  <1>4. ASSUME NEW ids, NEW who \in {"stop", "sweep", "start", "watch"}, NEW day \in Nat,
               NEW endedAt \in Nat, Close(ids, who, day, endedAt), UNCHANGED created,
               \/ who \in {"stop", "sweep"}
               \/ \A j \in ids \cap Ids : sess[j].auto \/ sess[j].day # day
        PROVE  closer'[i].who \in {"stop", "sweep"}
    <2>1. CASE i \in ids /\ sess[i].status = "active"
      <3>1. closer'[i].who = who /\ closer'[i].day = day
        <4>1. Close(ids, who, day, endedAt) /\ UNCHANGED created
          BY <1>4
        <4>2. Closed(i, who, day, endedAt)
          BY <1>1, <1>2, <2>1, <4>1, CloseResult
        <4> QED
          BY <4>2 DEF Closed
      <3>2. sess'[i].auto = sess[i].auto /\ sess'[i].day = sess[i].day
        BY <1>1, <1>2, <2>1 DEF RowsGoOn
      <3> QED
        BY <1>2, <1>4, <2>1, <3>1, <3>2
    <2>2. CASE ~(i \in ids /\ sess[i].status = "active")
      <3>1. sess'[i] = sess[i]
        BY <1>1, <1>2, <1>4, <2>2, CloseResult
      <3> QED
        BY <1>3, <3>1
    <2> QED
      BY <2>1, <2>2
  <1>5. ASSUME NEW r \in Starters, StartClose(r)
        PROVE  closer'[i].who \in {"stop", "sweep"}
    <2>1. Close({req[r].found}, "start", req[r].day, clock) /\ UNCHANGED created
      BY <1>5 DEF StartClose
    <2>2. \A j \in {req[r].found} \cap Ids : sess[j].day # req[r].day
      BY <1>5 DEF StartClose, FoundIsOld
    <2> QED
      BY <1>1, <1>4, <2>1, <2>2, RequestFields DEF TypeOK
  <1>6. ASSUME NEW c \in Centers, Stop(c)
        PROVE  closer'[i].who \in {"stop", "sweep"}
    BY <1>1, <1>4, <1>6, DayIsNat DEF Stop, TypeOK
  <1>7. ASSUME NEW c \in Centers, WatchFinishes(c)
        PROVE  closer'[i].who \in {"stop", "sweep"}
    <2>1. Close({watch.snap[c]}, "watch", Day(watch.now), watch.now) /\ UNCHANGED created
      BY <1>7 DEF WatchFinishes
    <2>2. \A j \in {watch.snap[c]} \cap Ids : sess[j].auto
      BY <1>7 DEF WatchFinishes, RunsOwn
    <2>3. watch.now \in Nat /\ Day(watch.now) \in Nat
      BY <1>1, WatchFields, DayIsNat
    <2> QED
      BY <1>4, <2>1, <2>2, <2>3
  <1>8. ASSUME NEW c \in Centers, WatchClosesOld(c)
        PROVE  closer'[i].who \in {"stop", "sweep"}
    <2>1. Close({watch.snap[c]}, "watch", Day(watch.now), clock) /\ UNCHANGED created
      BY <1>8 DEF WatchClosesOld
    <2>2. \A j \in {watch.snap[c]} \cap Ids : sess[j].day # Day(watch.now)
      BY <1>8 DEF WatchClosesOld, RunsToday
    <2>3. clock \in Nat /\ Day(watch.now) \in Nat
      BY <1>1, WatchFields, DayIsNat DEF TypeOK
    <2> QED
      BY <1>4, <2>1, <2>2, <2>3
  <1>9. ASSUME Sweep
        PROVE  closer'[i].who \in {"stop", "sweep"}
    BY <1>1, <1>4, <1>9, DayIsNat DEF Sweep, TypeOK
  <1>10. ASSUME NEW c \in Centers, Remind(c)
         PROVE  sess[i].status = "closed"
    BY <1>1, <1>2, <1>10, RemindResult
  <1>11. ASSUME Creating
         PROVE  sess[i].status = "closed"
    <2>1. \/ sess' = sess
          \/ \A j \in Ids : j # created + 1 => sess'[j] = sess[j]
      BY <1>1, <1>11, CreatingResult
    <2>2. CASE ~UNCHANGED <<created, sess>>
      <3>1. PICK c, day, window, auto :
              sess'[created + 1] = NewSession(c, day, auto, window)
        BY <1>1, <1>11, <2>2, CreatingResult
      <3>2. sess'[created + 1].status = "active"
        BY <3>1 DEF NewSession
      <3> QED
        BY <1>2, <2>1, <3>2
    <2> QED
      BY <2>2
  <1>12. ASSUME UNCHANGED <<sess, created, closer>>
         PROVE  sess[i].status = "closed"
    BY <1>12
  <1> QED
    BY <1>1, <1>3, <1>5, <1>6, <1>7, <1>8, <1>9, <1>10, <1>11, <1>12, WritersStep,
       WatchOrStartCreates

\* A session a teacher started today is ended only by a Stop or by the sweep:
\* a start that closes what it found, and the watch that closes what its
\* snapshot showed, do so by id, and an id never comes to mean another session.
THEOREM TeachersSessionsStand == Spec => []TeacherSessionsStand
  <1>1. Init => TeacherSessionsStand
    BY DEF Init, TeacherSessionsStand, Unused, Ids
  <1> QED
    BY <1>1, BaseCorrect, InitFoundIsOld, NextFoundIsOld, NextTeacherSessionsStand,
       PTL DEF Spec

----------------------------------------------------------------------------
(* No session is left running *)

\* A running server's timer is not overdue and not far off; unless it is due
\* now, what runs was not yet stale when it fired last.
SweepOK ==
  /\ up => clock <= nextSweep
  /\ nextSweep <= clock + CleanupEvery
  /\ up /\ clock < nextSweep =>
       \A i \in Ids : sess[i].status = "active"
                        => nextSweep <= sess[i].startedAt + StaleAfter + CleanupEvery

\* Sessions become active when they are created.
LEMMA ActiveStep ==
  ASSUME Base, [Next]_vars, NEW i \in Ids, sess'[i].status = "active"
  PROVE  \/ sess[i].status = "active" /\ sess'[i].startedAt = sess[i].startedAt
         \/ sess'[i].startedAt = clock
  <1>1. TypeOK /\ RowsOK /\ WatchOK /\ RowsGoOn
    BY RowsStep DEF Base
  <1>2. CASE Creating /\ ~UNCHANGED <<created, sess>>
    <2>1. PICK c, day, window, auto :
            sess'[created + 1] = NewSession(c, day, auto, window)
      BY <1>1, <1>2, CreatingResult
    <2>2. sess'[created + 1].startedAt = clock
      BY <2>1 DEF NewSession
    <2>3. \A j \in Ids : j # created + 1 => sess'[j] = sess[j]
      BY <1>1, <1>2, CreatingResult
    <2> QED
      BY <2>2, <2>3
  <1>3. CASE Closing
    <2>1. PICK ids : \E who \in {"stop", "sweep", "start", "watch"}, day, endedAt \in Nat :
                       Close(ids, who, day, endedAt)
      BY <1>3 DEF Closing
    <2>2. sess'[i] = sess[i] \/ sess'[i].status = "closed"
      BY <1>1, <1>3, <2>1, CloseResult DEF Closing, Closed
    <2> QED
      BY <2>2
  <1>4. ASSUME NEW c \in Centers, Remind(c)
        PROVE  sess[i].status = "active" /\ sess'[i].startedAt = sess[i].startedAt
    BY <1>1, <1>4, RemindResult
  <1> QED
    BY <1>1, <1>2, <1>3, <1>4, SessionsStep

LEMMA InitSweepOK == Init => SweepOK
  BY SessionsAssumption DEF Init, SweepOK, Unused

LEMMA NextSweepOK == Base /\ SweepOK /\ [Next]_vars => SweepOK'
  <1> SUFFICES ASSUME Base, SweepOK, [Next]_vars PROVE SweepOK'
    OBVIOUS
  <1>1. /\ TypeOK /\ clock \in Nat /\ nextSweep \in Nat
        /\ CleanupEvery \in Nat /\ StaleAfter \in Nat
    BY SessionsAssumption DEF Base, TypeOK
  <1>2. \A i \in Ids : sess[i].startedAt \in Nat
    BY <1>1 DEF TypeOK, Session
  <1>3. CASE Tick
    BY <1>1, <1>2, <1>3 DEF Tick, SweepOK
  <1>4. CASE Boot
    BY <1>1, <1>4 DEF Boot, SweepOK
  <1>5. CASE Crash
    BY <1>5 DEF Crash, SweepOK
  <1>6. CASE Sweep
    <2>1. /\ clock' = clock /\ nextSweep' = clock + CleanupEvery
          /\ Close({i \in Ids : sess[i].startedAt + StaleAfter < clock}, "sweep", Day(clock), clock)
          /\ UNCHANGED created
      BY <1>6 DEF Sweep
    <2>2. ASSUME NEW i \in Ids, sess'[i].status = "active"
          PROVE  nextSweep' <= sess'[i].startedAt + StaleAfter + CleanupEvery
      <3> DEFINE stale == {j \in Ids : sess[j].startedAt + StaleAfter < clock}
      <3>1. ASSUME i \in stale, sess[i].status = "active"
            PROVE  FALSE
        <4>1. Day(clock) \in Nat /\ clock \in Nat
          BY <1>1, DayIsNat
        <4>2. Closed(i, "sweep", Day(clock), clock)
          BY <1>1, <2>1, <3>1, <4>1, CloseResult
        <4> QED
          BY <2>2, <4>2 DEF Closed
      <3>2. Day(clock) \in Nat /\ clock \in Nat
        BY <1>1, DayIsNat
      <3>3. sess'[i] = sess[i]
        BY <1>1, <2>1, <3>1, <3>2, CloseResult
      <3>4. ~(sess[i].startedAt + StaleAfter < clock)
        BY <2>2, <3>1, <3>3
      <3> QED
        BY <1>1, <1>2, <2>1, <3>3, <3>4
    <2> QED
      BY <1>1, <2>1, <2>2 DEF SweepOK
  <1>7. CASE UNCHANGED <<clock, up, nextSweep>>
    <2>1. ASSUME up, clock < nextSweep, NEW i \in Ids, sess'[i].status = "active"
          PROVE  nextSweep <= sess'[i].startedAt + StaleAfter + CleanupEvery
      BY <1>1, <2>1, ActiveStep DEF SweepOK
    <2> QED
      BY <1>7, <2>1 DEF SweepOK
  <1>8. UNCHANGED <<clock, up, nextSweep>> \/ Tick \/ Sweep \/ Crash \/ Boot
    BY DEF Next, Start, StartFind, StartClose, StartCreate, Stop, Remind, NoReminder, WatchKeeps,
           WatchFinishes, WatchClosesOld, WatchLooks, WatchRecords, WatchBegin, WatchSnapshot,
           Notify, WatchOutsideWindow, WatchCreates, WatchFails, vars
  <1> QED
    BY <1>3, <1>4, <1>5, <1>6, <1>7, <1>8

\* On a running server an active session is younger than the limit and one
\* interval, unless the sweep is due this moment, also after an outage of any
\* length (sessionCleanup.js: the interval and the run at startup).
THEOREM StaleAreClosedInTime == Spec => []StaleClosedInTime
  <1>1. Base /\ SweepOK => StaleClosedInTime
    <2> SUFFICES ASSUME Base, SweepOK, up, clock < nextSweep,
                        NEW i \in Ids, sess[i].status = "active"
                 PROVE  clock < sess[i].startedAt + StaleAfter + CleanupEvery
      BY DEF StaleClosedInTime
    <2>1. /\ clock \in Nat /\ nextSweep \in Nat /\ sess[i].startedAt \in Nat
          /\ CleanupEvery \in Nat /\ StaleAfter \in Nat
      BY SessionsAssumption DEF Base, TypeOK, Session
    <2>2. nextSweep <= sess[i].startedAt + StaleAfter + CleanupEvery
      BY DEF SweepOK
    <2> QED
      BY <2>1, <2>2
  <1> QED
    BY <1>1, BaseCorrect, InitSweepOK, NextSweepOK, PTL DEF Spec

----------------------------------------------------------------------------
(* Stop means stop *)

AutoAt(c) == {i \in 1..created : sess[i].auto /\ sess[i].center = c}

\* The centers of which a run of the watch still relies on the snapshot.
Scope == IF watch.step \in {"remind", "notify"} THEN Centers
         ELSE IF watch.step \in {"centers", "look", "create"} THEN watch.queue
         ELSE {}

\* Of a center it still has to visit, the snapshot shows the only session of the
\* watch's own that may be running.
SnapCurrent ==
  \A c \in Scope : \A i \in AutoAt(c) : i = watch.snap[c] \/ sess[i].status = "closed"

\* Where the watch is about to open a session, all of its own have ended, ...
AllEnded ==
  watch.step \in {"look", "create"} =>
    /\ watch.at \in watch.queue
    /\ \A i \in AutoAt(watch.at) : sess[i].status = "closed"

\* ... those of the day before the window opened.
EndedBefore ==
  watch.step = "create" =>
    \A i \in AutoAt(watch.at) :
      sess[i].day = Day(watch.now) => sess[i].endedAt < WindowStart(watch.now)

\* What is true of the sessions at a center stays true of them; a new one of the
\* watch's own is there only where the watch creates it.
LEMMA AutoStep ==
  ASSUME Base, [Next]_vars, NEW c \in Centers, NEW i \in AutoAt(c)'
  PROVE  \/ /\ i \in AutoAt(c) /\ sess'[i].day = sess[i].day
            /\ sess[i].status = "closed" =>
                 sess'[i].status = "closed" /\ sess'[i].endedAt = sess[i].endedAt
         \/ WatchCreates /\ c = watch.at
  <1>1. TypeOK /\ RowsOK /\ WatchOK /\ RowsGoOn
    BY RowsStep DEF Base
  <1>2. created \in 0..MaxSessions /\ created' \in 0..MaxSessions
    BY <1>1 DEF RowsGoOn, TypeOK
  <1>3. i \in Ids /\ i \in 1..created' /\ sess'[i].auto /\ sess'[i].center = c
    BY <1>2, CreatedIds DEF AutoAt
  <1>4. CASE i \in 1..created
    <2>1. sess[i].status # "unused"
      BY <1>1, <1>2, <1>3, <1>4 DEF RowsOK
    <2> QED
      BY <1>1, <1>3, <1>4, <2>1 DEF RowsGoOn, AutoAt
  <1>5. CASE i \notin 1..created
    <2>1. created' # created
      BY <1>3, <1>5
    <2>2. \/ \E r \in Starters : StartCreate(r)
          \/ WatchCreates
      BY <1>1, <2>1, WritersStep
         DEF StartClose, Stop, WatchFinishes, WatchClosesOld, Remind, Sweep
    <2>3. ASSUME NEW center \in Centers, NEW day \in Nat, NEW auto \in BOOLEAN,
                 NEW window \in Nat, Create(center, day, auto, window), UNCHANGED closer
          PROVE  auto /\ center = c
      <3>1. /\ created' = created + 1
            /\ sess'[created + 1] = NewSession(center, day, auto, window)
        BY <1>1, <2>1, <2>3, CreateResult
      <3>2. i = created + 1
        BY <1>2, <1>3, <1>5, <3>1
      <3> QED
        BY <1>3, <3>1, <3>2 DEF NewSession
    <2>4. ASSUME NEW r \in Starters, StartCreate(r)
          PROVE  FALSE
      BY <1>1, <2>3, <2>4, RequestFields DEF StartCreate
    <2>5. CASE WatchCreates
      <3>1. /\ watch.at \in Centers /\ Day(watch.now) \in Nat
            /\ WindowStart(watch.now) \in Nat
        BY <1>1, <2>5, WatchFields, DayIsNat, WindowStartIsNat DEF WatchOK, WatchCreates
      <3> QED
        BY <2>3, <2>5, <3>1 DEF WatchCreates
    <2> QED
      BY <2>2, <2>4, <2>5
  <1> QED
    BY <1>4, <1>5

WatchLeaves(c) ==
  /\ watch.step \in {"centers", "look", "create"}
  /\ watch'.step = "centers" /\ watch'.snap = watch.snap
  /\ watch'.queue = watch.queue \ {c}

\* How the watch moves on.
LEMMA WatchStep ==
  ASSUME TypeOK, [Next]_vars
  PROVE  \/ UNCHANGED watch
         \/ watch'.step \in {"idle", "snapshot"}
         \/ WatchSnapshot
         \/ /\ watch.step \in {"remind", "notify"} /\ watch'.snap = watch.snap
            /\ watch'.step \in {"remind", "notify", "centers"}
            /\ watch'.queue \subseteq Centers
         \/ \E c : WatchLeaves(c)
         \/ \E c \in Centers : WatchClosesOld(c)
         \/ \E c \in Centers : WatchLooks(c) /\ watch'.step = "create"
  <1> DEFINE Goal == \/ UNCHANGED watch
                     \/ watch'.step \in {"idle", "snapshot"}
                     \/ WatchSnapshot
                     \/ /\ watch.step \in {"remind", "notify"} /\ watch'.snap = watch.snap
                        /\ watch'.step \in {"remind", "notify", "centers"}
                        /\ watch'.queue \subseteq Centers
                     \/ \E c : WatchLeaves(c)
                     \/ \E c \in Centers : WatchClosesOld(c)
                     \/ \E c \in Centers : WatchLooks(c) /\ watch'.step = "create"
  <1>1. watch \in Watch
    BY DEF TypeOK
  <1>2. ASSUME watch' = NoWatch
        PROVE  Goal
    BY <1>2 DEF NoWatch
  <1>3. ASSUME WatchBegin
        PROVE  Goal
    <2>1. watch'.step = "snapshot"
      BY <1>1, <1>3 DEF WatchBegin, Watch
    <2> QED
      BY <2>1
  <1>4. ASSUME \/ Notify
               \/ \E c \in Centers : Remind(c) \/ NoReminder(c)
        PROVE  Goal
    <2>1. /\ watch.step \in {"remind", "notify"} /\ watch'.snap = watch.snap
          /\ watch'.step \in {"remind", "notify", "centers"}
          /\ watch'.queue \subseteq Centers
      BY <1>1, <1>4 DEF Notify, Remind, NoReminder, Watch
    <2> QED
      BY <2>1
  <1>5. ASSUME NEW waiting \in SUBSET Centers, NEW watched \in SUBSET Centers,
               WatchRecords(waiting, watched)
        PROVE  Goal
    <2> DEFINE queue == watched \cup {c \in Centers : watch.snap[c] # 0}
    <2>1. CASE watch' = [watch EXCEPT !.step = "centers", !.waiting = waiting, !.queue = queue]
      <3>1. watch'.step = "centers" /\ watch'.snap = watch.snap /\ watch'.queue = queue
        BY <1>1, <2>1 DEF Watch
      <3>2. watch.step = "remind" /\ queue \subseteq Centers
        BY <1>5 DEF WatchRecords
      <3> QED
        BY <3>1, <3>2
    <2> QED
      BY <1>2, <1>5, <2>1 DEF WatchRecords
  <1>6. ASSUME NEW c \in Centers, Leave(c), watch.step \in {"centers", "look", "create"}
        PROVE  Goal
    <2>1. CASE watch' = [watch EXCEPT !.step = "centers", !.queue = @ \ {c}]
      <3>1. WatchLeaves(c)
        BY <1>1, <1>6, <2>1 DEF WatchLeaves, Watch
      <3> QED
        BY <3>1
    <2> QED
      BY <1>2, <1>6, <2>1, LeaveResult
  <1>7. ASSUME NEW c \in Centers, WatchKeeps(c) \/ WatchFinishes(c)
        PROVE  Goal
    BY <1>6, <1>7 DEF WatchKeeps, WatchFinishes
  <1>8. ASSUME NEW c \in Centers, WatchLooks(c)
        PROVE  Goal
    <2>1. CASE watch' = [watch EXCEPT !.step = "create", !.at = c]
      <3>1. watch'.step = "create"
        BY <1>1, <2>1 DEF Watch
      <3> QED
        BY <1>8, <3>1
    <2> QED
      BY <1>6, <1>8, <2>1 DEF WatchLooks
  <1>9. ASSUME WatchCreates \/ WatchFails
        PROVE  Goal
    BY <1>2, <1>6, <1>9, WatchFields DEF WatchCreates, WatchFails
  <1>10. ASSUME WatchOutsideWindow \/ Crash
         PROVE  Goal
    BY <1>2, <1>10 DEF WatchOutsideWindow, Crash
  <1>11. ASSUME \/ \E r \in Starters : \/ StartFind(r) \/ StartClose(r) \/ StartCreate(r)
                                       \/ \E c \in Centers : Start(r, c)
                \/ \E c \in Centers : Stop(c)
                \/ Sweep \/ Tick \/ Boot \/ UNCHANGED vars
         PROVE  UNCHANGED watch
    BY <1>11 DEF StartFind, StartClose, StartCreate, Start, Stop, Sweep, Tick, Boot, vars
  <1> QED
    BY <1>3, <1>4, <1>5, <1>7, <1>8, <1>9, <1>10, <1>11 DEF Next

LEMMA LeaveStep ==
  ASSUME TypeOK, NEW c \in Centers, Leave(c)
  PROVE  watch'.step \in {"idle", "centers"}
  <1>1. CASE watch' = NoWatch
    BY <1>1 DEF NoWatch
  <1>2. CASE watch' = [watch EXCEPT !.step = "centers", !.queue = @ \ {c}]
    BY <1>2 DEF TypeOK, Watch
  <1> QED
    BY <1>1, <1>2, LeaveResult

LEMMA CreatesStep ==
  ASSUME TypeOK, WatchCreates
  PROVE  watch.step = "create" /\ watch'.step \in {"idle", "centers"}
  BY LeaveStep, WatchFields DEF WatchCreates

\* Once the snapshot is taken the watch only ever drops centers from its scope,
\* the one it creates a session at among them.
LEMMA ScopeStep ==
  ASSUME Base, [Next]_vars, ~WatchSnapshot
  PROVE  /\ Scope' \subseteq Scope
         /\ Scope' # {} => watch'.snap = watch.snap
         /\ WatchCreates => watch.at \notin Scope'
  <1>1. TypeOK /\ watch \in Watch
    BY DEF Base, TypeOK
  <1>2. CASE UNCHANGED watch
    <2>1. ~WatchCreates
      BY <1>1, <1>2, CreatesStep
    <2> QED
      BY <1>2, <2>1 DEF Scope
  <1>3. CASE watch'.step \in {"idle", "snapshot"}
    BY <1>3 DEF Scope
  <1>4. CASE /\ watch.step \in {"remind", "notify"} /\ watch'.snap = watch.snap
             /\ watch'.step \in {"remind", "notify", "centers"}
             /\ watch'.queue \subseteq Centers
    <2>1. ~WatchCreates
      BY <1>4 DEF WatchCreates
    <2> QED
      BY <1>4, <2>1 DEF Scope
  <1>5. ASSUME NEW c, WatchLeaves(c)
        PROVE  Scope' \subseteq Scope /\ watch'.snap = watch.snap
    BY <1>5 DEF WatchLeaves, Scope
  <1>6. ASSUME WatchCreates
        PROVE  watch.at \notin Scope'
    <2>1. CASE watch' = NoWatch
      BY <2>1 DEF NoWatch, Scope
    <2>2. CASE watch' = [watch EXCEPT !.step = "centers", !.queue = @ \ {watch.at}]
      <3>1. watch'.step = "centers" /\ watch'.queue = watch.queue \ {watch.at}
        BY <1>1, <2>2 DEF Watch
      <3> QED
        BY <3>1 DEF Scope
    <2> QED
      BY <1>6, <2>1, <2>2 DEF WatchCreates, Leave
  <1>7. ASSUME NEW c \in Centers, NEW step \in {"look", "create"},
               watch.step \in {"centers", "look"},
               watch' = [watch EXCEPT !.step = step, !.at = c]
        PROVE  Scope' \subseteq Scope /\ watch'.snap = watch.snap
    <2>1. watch'.step = step /\ watch'.queue = watch.queue /\ watch'.snap = watch.snap
      BY <1>1, <1>7 DEF Watch
    <2> QED
      BY <1>7, <2>1 DEF Scope
  <1>8. ASSUME NEW c \in Centers, WatchClosesOld(c)
        PROVE  Scope' \subseteq Scope /\ watch'.snap = watch.snap
    BY <1>7, <1>8 DEF WatchClosesOld
  <1>9. ASSUME NEW c \in Centers, WatchLooks(c), watch'.step = "create"
        PROVE  Scope' \subseteq Scope /\ watch'.snap = watch.snap
    <2>1. ~Leave(c)
      BY <1>1, <1>9, LeaveStep
    <2> QED
      BY <1>7, <1>9, <2>1 DEF WatchLooks
  <1> QED
    BY <1>1, <1>2, <1>3, <1>4, <1>5, <1>6, <1>8, <1>9, WatchStep

LEMMA NextSnapCurrent == Base /\ SnapCurrent /\ [Next]_vars => SnapCurrent'
  <1> SUFFICES ASSUME Base, SnapCurrent, [Next]_vars,
                      NEW c \in Scope', NEW i \in AutoAt(c)'
               PROVE  i = watch'.snap[c] \/ sess'[i].status = "closed"
    BY DEF SnapCurrent
  <1>1. TypeOK /\ RowsOK /\ watch \in Watch /\ created \in 0..MaxSessions
    BY DEF Base, TypeOK
  <1>2. CASE WatchSnapshot
    <2>1. /\ watch' = [watch EXCEPT !.step = "remind", !.snap = [d \in Centers |-> FindActive(d)],
                          !.queue = {d \in Centers : [e \in Centers |-> FindActive(e)][d] # 0}]
          /\ UNCHANGED <<sess, created>>
      BY <1>2 DEF WatchSnapshot
    <2>2. watch'.step = "remind" /\ watch'.snap = [d \in Centers |-> FindActive(d)]
      BY <1>1, <2>1 DEF Watch
    <2>3. c \in Centers /\ watch'.snap[c] = FindActive(c)
      BY <2>2 DEF Scope
    <2>4. i \in Ids /\ i \in 1..created /\ sess[i].center = c /\ sess'[i] = sess[i]
      BY <1>1, <2>1, CreatedIds DEF AutoAt
    <2>5. sess[i].status \in {"unused", "active", "closed"} /\ sess[i].status # "unused"
      BY <1>1, <2>4 DEF TypeOK, Session, RowsOK
    <2>6. ASSUME sess[i].status = "active"
          PROVE  i = FindActive(c)
      <3>1. ActiveAt(c) # {}
        BY <2>4, <2>6 DEF ActiveAt
      <3> QED
        BY <1>1, <2>3, <2>4, <2>6, <3>1, FindActiveResult DEF RowsOK
    <2> QED
      BY <2>3, <2>4, <2>5, <2>6
  <1>3. CASE ~WatchSnapshot
    <2>1. /\ c \in Scope /\ watch'.snap = watch.snap
          /\ WatchCreates => c # watch.at
      BY <1>3, ScopeStep
    <2>2. c \in Centers
      BY <1>1, <2>1 DEF Scope, Watch
    <2> QED
      BY <2>1, <2>2, AutoStep DEF SnapCurrent
  <1> QED
    BY <1>2, <1>3

\* Where the watch is about to open a session, and why it got there.
LEMMA AtStep ==
  ASSUME Base, [Next]_vars, watch'.step \in {"look", "create"}
  PROVE  /\ watch'.at \in Centers /\ ~WatchCreates
         /\ \/ UNCHANGED watch
            \/ \E c \in Centers :
                 /\ watch'.at = c /\ watch'.queue = watch.queue /\ watch'.now = watch.now
                 /\ \/ WatchClosesOld(c) /\ watch'.step = "look"
                    \/ WatchLooks(c) /\ watch'.step = "create" /\ ~StoppedInWindow(c)
  <1>1. TypeOK /\ watch \in Watch
    BY DEF Base, TypeOK
  <1>2. watch' \in Watch
    BY <1>1, NextWatchTyped DEF WatchTyped
  <1>3. ~WatchCreates
    BY <1>1, CreatesStep
  <1>4. ASSUME NEW c \in Centers, NEW step \in {"look", "create"},
               watch' = [watch EXCEPT !.step = step, !.at = c]
        PROVE  /\ watch'.at = c /\ watch'.queue = watch.queue /\ watch'.now = watch.now
               /\ watch'.step = step
    BY <1>1, <1>4 DEF Watch
  <1>5. ASSUME NEW c \in Centers, WatchClosesOld(c)
        PROVE  /\ watch'.at = c /\ watch'.queue = watch.queue /\ watch'.now = watch.now
               /\ watch'.step = "look"
    BY <1>4, <1>5 DEF WatchClosesOld
  <1>6. ASSUME NEW c \in Centers, WatchLooks(c)
        PROVE  /\ watch'.at = c /\ watch'.queue = watch.queue /\ watch'.now = watch.now
               /\ watch'.step = "create" /\ ~StoppedInWindow(c)
    <2>1. ~Leave(c)
      BY <1>1, LeaveStep
    <2> QED
      BY <1>4, <1>6, <2>1 DEF WatchLooks
  <1>7. ~WatchSnapshot
    BY <1>1 DEF WatchSnapshot, Watch
  <1>8. \A c : ~WatchLeaves(c)
    BY DEF WatchLeaves
  <1> QED
    BY <1>1, <1>2, <1>3, <1>5, <1>6, <1>7, <1>8, WatchStep DEF Watch

LEMMA NextAllEnded == Base /\ SnapCurrent /\ AllEnded /\ [Next]_vars => AllEnded'
  <1> SUFFICES ASSUME Base, SnapCurrent, AllEnded, [Next]_vars,
                      watch'.step \in {"look", "create"}
               PROVE  /\ watch'.at \in watch'.queue
                      /\ \A c \in Centers : watch'.at = c =>
                           \A i \in AutoAt(c)' : sess'[i].status = "closed"
    BY AtStep DEF AllEnded, AutoAt
  <1>1. /\ TypeOK /\ RowsOK /\ watch \in Watch /\ created \in 0..MaxSessions
        /\ watch'.at \in Centers /\ ~WatchCreates
    BY AtStep DEF Base, TypeOK
  <1>2. ASSUME NEW c \in Centers, NEW i \in AutoAt(c)'
        PROVE  /\ i \in AutoAt(c) /\ i \in Ids
               /\ sess[i].status = "closed" => sess'[i].status = "closed"
               /\ sess[i].status \in {"active", "closed"}
    <2>1. /\ i \in AutoAt(c)
          /\ sess[i].status = "closed" => sess'[i].status = "closed"
      BY <1>1, <1>2, AutoStep
    <2>2. i \in Ids /\ i \in 1..created
      BY <1>1, <2>1, CreatedIds DEF AutoAt
    <2>3. sess[i].status \in {"unused", "active", "closed"}
      BY <1>1, <2>2 DEF TypeOK, Session
    <2> QED
      BY <1>1, <2>1, <2>2, <2>3 DEF RowsOK
  <1>3. CASE UNCHANGED watch
    <2>1. /\ watch.at \in watch.queue
          /\ \A i \in AutoAt(watch.at) : sess[i].status = "closed"
      BY <1>3 DEF AllEnded
    <2> QED
      BY <1>2, <1>3, <2>1
  <1>4. ASSUME NEW c \in Centers, WatchClosesOld(c), watch'.at = c, watch'.queue = watch.queue
        PROVE  /\ watch'.at \in watch'.queue
               /\ \A i \in AutoAt(c)' : sess'[i].status = "closed"
    <2>1. /\ watch.step = "centers" /\ c \in watch.queue
          /\ Close({watch.snap[c]}, "watch", Day(watch.now), clock) /\ UNCHANGED created
      BY <1>4 DEF WatchClosesOld
    <2>2. c \in Scope
      BY <2>1 DEF Scope
    <2>3. ASSUME NEW i \in AutoAt(c)', i = watch.snap[c], sess[i].status = "active"
          PROVE  sess'[i].status = "closed"
      <3>1. Day(watch.now) \in Nat /\ clock \in Nat /\ i \in Ids
        BY <1>1, <1>2, WatchFields, DayIsNat DEF TypeOK
      <3>2. Closed(i, "watch", Day(watch.now), clock)
        BY <1>1, <2>1, <2>3, <3>1, CloseResult
      <3> QED
        BY <3>2 DEF Closed
    <2> QED
      BY <1>2, <1>4, <2>1, <2>2, <2>3 DEF SnapCurrent
  <1>5. ASSUME NEW c \in Centers, WatchLooks(c), watch'.at = c, watch'.queue = watch.queue
        PROVE  /\ watch'.at \in watch'.queue
               /\ \A i \in AutoAt(c)' : sess'[i].status = "closed"
    <2>1. CASE watch.step = "centers"
      <3>1. c \in watch.queue /\ watch.snap[c] = 0
        BY <1>5, <2>1 DEF WatchLooks, Runs
      <3>2. c \in Scope
        BY <2>1, <3>1 DEF Scope
      <3>3. \A i \in AutoAt(c) : i # 0
        BY DEF AutoAt
      <3> QED
        BY <1>2, <1>5, <3>1, <3>2, <3>3 DEF SnapCurrent
    <2>2. CASE watch.step = "look"
      <3>1. c = watch.at
        BY <1>5, <2>2 DEF WatchLooks
      <3> QED
        BY <1>2, <1>5, <2>2, <3>1 DEF AllEnded
    <2> QED
      BY <1>5, <2>1, <2>2 DEF WatchLooks
  <1> QED
    BY <1>3, <1>4, <1>5, AtStep

LEMMA NextEndedBefore ==
  Base /\ SnapCurrent /\ AllEnded /\ EndedBefore /\ [Next]_vars => EndedBefore'
  <1> SUFFICES ASSUME Base, SnapCurrent, AllEnded, EndedBefore, [Next]_vars,
                      watch'.step = "create", NEW c \in Centers, watch'.at = c,
                      NEW i \in AutoAt(c)', sess'[i].day = Day(watch'.now)
               PROVE  sess'[i].endedAt < WindowStart(watch'.now)
    BY AtStep DEF EndedBefore, AutoAt
  <1>1. TypeOK /\ ~WatchCreates /\ watch.now \in Nat /\ created \in 0..MaxSessions
    BY AtStep DEF Base, TypeOK, Watch
  <1>2. /\ i \in AutoAt(c) /\ i \in Ids /\ sess'[i].day = sess[i].day
        /\ sess[i].status = "closed" => sess'[i].endedAt = sess[i].endedAt
    <2>1. i \in AutoAt(c)
      BY <1>1, AutoStep
    <2>2. i \in Ids
      BY <1>1, <2>1, CreatedIds DEF AutoAt
    <2> QED
      BY <1>1, <2>1, <2>2, AutoStep
  <1>3. CASE UNCHANGED watch
    BY <1>2, <1>3 DEF AllEnded, EndedBefore
  <1>4. ASSUME WatchLooks(c), ~StoppedInWindow(c), watch'.now = watch.now
        PROVE  sess'[i].endedAt < WindowStart(watch'.now)
    <2>1. sess'[i] = sess[i] /\ created' = created
      BY <1>4 DEF WatchLooks
    <2>2. sess[i].status = "closed"
      <3>1. sess'[i].status = "closed"
        BY NextAllEnded DEF AllEnded, AutoAt
      <3> QED
        BY <2>1, <3>1
    <2>3. /\ sess[i].auto /\ sess[i].center = c /\ sess[i].day = Day(watch.now)
      BY <1>2, <1>4 DEF AutoAt
    <2>4. ~(sess[i].endedAt >= WindowStart(watch.now))
      BY <1>2, <1>4, <2>2, <2>3 DEF StoppedInWindow
    <2>5. sess[i].endedAt \in Nat /\ WindowStart(watch.now) \in Nat
      <3>1. InWindow(watch.now) # {}
        BY <1>4 DEF Base, WatchOK, WatchLooks
      <3> QED
        BY <1>1, <1>2, <3>1, WindowStartIsNat DEF TypeOK, Session
    <2> QED
      BY <1>4, <2>1, <2>4, <2>5
  <1> QED
    BY <1>3, <1>4, AtStep

LEMMA NextStopMeansStop ==
  Base /\ AllEnded /\ EndedBefore /\ StopMeansStop /\ [Next]_vars => StopMeansStop'
  <1> SUFFICES ASSUME Base, AllEnded, EndedBefore, StopMeansStop, [Next]_vars,
                      NEW i \in 1..created', NEW j \in 1..created', i < j,
                      sess'[i].auto, sess'[j].auto, sess'[i].center = sess'[j].center,
                      sess'[i].day = sess'[j].day
               PROVE  sess'[i].status = "closed" /\ sess'[i].endedAt < sess'[j].window
    BY DEF StopMeansStop
  <1>1. /\ TypeOK /\ RowsOK /\ WatchOK /\ RowsGoOn
        /\ created \in 0..MaxSessions /\ created' \in 0..MaxSessions /\ created <= created'
    BY RowsStep DEF Base, TypeOK, RowsGoOn
  <1>2. i \in Ids /\ j \in Ids
    BY <1>1, CreatedIds
  <1>3. ASSUME NEW k \in 1..created
        PROVE  k \in Ids /\ sess[k].status # "unused"
    BY <1>1, <1>3, CreatedIds DEF RowsOK
  <1>4. CASE j \in 1..created
    <2>1. i \in 1..created
      BY <1>1, <1>4
    <2>2. /\ sess[i].auto /\ sess[j].auto /\ sess[i].center = sess[j].center
          /\ sess[i].day = sess[j].day /\ sess'[j].window = sess[j].window
      BY <1>1, <1>3, <1>4, <2>1 DEF RowsGoOn
    <2>3. sess[i].status = "closed" /\ sess[i].endedAt < sess[j].window
      BY <1>4, <2>1, <2>2 DEF StopMeansStop
    <2> QED
      BY <1>1, <1>2, <2>2, <2>3 DEF RowsGoOn
  <1>5. CASE j \notin 1..created
    <2>1. PICK c \in Centers : c = sess'[j].center
      BY <1>1, <1>2 DEF RowsGoOn, Session
    <2>2. WatchCreates /\ c = watch.at
      <3>1. j \in AutoAt(c)' /\ j \notin AutoAt(c)
        BY <1>5, <2>1 DEF AutoAt
      <3> QED
        BY <3>1, AutoStep
    <2>3. /\ watch.step = "create" /\ UNCHANGED closer
          /\ Create(watch.at, Day(watch.now), TRUE, WindowStart(watch.now))
      BY <2>2 DEF WatchCreates
    <2>4. /\ watch.at \in Centers /\ Day(watch.now) \in Nat
          /\ WindowStart(watch.now) \in Nat
      BY <1>1, <2>3, WatchFields, DayIsNat, WindowStartIsNat DEF WatchOK
    <2>5. ~UNCHANGED <<created, sess>>
      BY <1>5
    <2>6. /\ created' = created + 1
          /\ sess'[created + 1] =
               NewSession(watch.at, Day(watch.now), TRUE, WindowStart(watch.now))
          /\ \A k \in Ids : k # created + 1 => sess'[k] = sess[k]
      BY <1>1, <2>3, <2>4, <2>5, CreateResult
    <2>7. j = created + 1 /\ i \in 1..created
      BY <1>1, <1>5, <2>6
    <2>8. /\ sess'[i] = sess[i] /\ sess[i].day = Day(watch.now)
          /\ i \in AutoAt(watch.at) /\ sess'[j].window = WindowStart(watch.now)
      BY <1>2, <2>1, <2>2, <2>6, <2>7 DEF NewSession, AutoAt
    <2>9. sess[i].status = "closed"
      BY <2>3, <2>8 DEF AllEnded
    <2>10. sess[i].endedAt < WindowStart(watch.now)
      BY <2>3, <2>8 DEF EndedBefore
    <2> QED
      BY <2>8, <2>9, <2>10
  <1> QED
    BY <1>4, <1>5

\* Stop means stop: the watch never opens a session for a window in which one of
\* its own had already ended at that center, however long ago its run took the
\* snapshot and whatever starts, stops, sweeps and crashes came in between
\* (ensureAutoSession).
THEOREM StopMeansStopAlways == Spec => []StopMeansStop
  <1>1. Init => SnapCurrent /\ AllEnded /\ EndedBefore /\ StopMeansStop
    BY DEF Init, SnapCurrent, Scope, AllEnded, EndedBefore, StopMeansStop, NoWatch
  <1> QED
    BY <1>1, BaseCorrect, NextSnapCurrent, NextAllEnded, NextEndedBefore,
       NextStopMeansStop, PTL DEF Spec

=============================================================================
