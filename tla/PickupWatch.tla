----------------------------- MODULE PickupWatch -----------------------------
(***************************************************************************)
(* The pickup watch of one center during one pickup window                 *)
(* (pickupWatch.service.js): a job that runs every few seconds, prompts    *)
(* the teacher about students neither signal has seen for a while, marks   *)
(* them picked up when the silence goes on, and puts them back when they   *)
(* are seen again.                                                         *)
(*                                                                         *)
(* A run is a sequence of statements: the session, the records, the        *)
(* session's own statement, the signals and prompts, then one write per    *)
(* student.  Meanwhile readings arrive, teachers answer prompts, mark and  *)
(* pick up students, start and stop the session, hardware fails and comes  *)
(* back, the process restarts.  Readings are atomic here (Attendance has   *)
(* their interleavings), and so is the opening and closing of the session  *)
(* (LiveSessions).  Instants are units since midnight; 0 stands for never. *)
(***************************************************************************)
EXTENDS Signals, DayRecord, FiniteSetsExt

CONSTANTS
  From, To,      \* the pickup window: [From, To)
  PromptEvery,   \* PROMPT_EVERY_MS
  PromptTTL,     \* PROMPT_TTL_MS
  AbsentFor,     \* cfg.absentMs
  RunEvery,      \* a new run begins, and the old one has ended, within this time
  Delay,         \* bound: how long an answer takes to reach the database
  MaxClock,      \* bound: the instants of the model
  MaxOps         \* bound: what everybody but the watch does, a reading counting for
                 \* one and anything else for two

ASSUME PickupAssumption ==
  /\ From \in Nat \ {0} /\ To \in Nat
  /\ PromptEvery \in Nat \ {0} /\ PromptTTL \in Nat \ {0}
  /\ AbsentFor \in Nat /\ RunEvery \in Nat \ {0} /\ Delay \in Nat

\* There is time to ask the teacher before the silence is long enough: the job runs
\* every 10 s, asks every minute, for 15 s, and PICKUP_ABSENT_MIN is 2 at least.
ASSUME TimersAssumption ==
  RunEvery <= PromptEvery /\ PromptEvery + PromptTTL + RunEvery <= AbsentFor

VARIABLES
  clock,
  rec,         \* rec[s]: the record of the day
  at,          \* at[s]: arrivedAt and pickedUpAt of rec[s]
  sig,         \* sig[s][k]: the newest row of student s and kind k in today's sessions
  current,     \* current[s][k]: is that row the running session's
  check,       \* check[s]: the newest prompt
  stillAt,     \* stillAt[s]: the teacher's newest "still here"
  session,     \* the center's live session
  stopped,     \* has a session of the watch's own ended in this window
  alive,       \* gateway online and camera alive
  unhealthyAt, \* unhealthyAtFor: the last outage, the start of the process included
  tagged,      \* tagged[s]: has an enabled tag
  watch,       \* the run under way
  lastRun,     \* when it began
  teacher,     \* teacher[s]: a request about s between its two statements
  used,        \* how much of MaxOps is used up
  (* history *)
  heard,       \* heard[s]: the newest instant somebody knew s to be here
  late,        \* late[s]: how s was heard of after the run had read of that
  taggedAt,    \* taggedAt[s]: when s was last tagged
  said,        \* said[s]: a teacher's "picked up" was taken for this pickup
  told,        \* told[s]: pickups the watch and the prompts told the parents of
  returns,     \* returns[s]: how often s came back after a pickup
  failed       \* has a statement of the watch failed

env == <<session, alive, tagged, taggedAt>>
day == <<rec, at, said, told, returns>>
sight == <<sig, current, heard, late>>
prompts == <<check, stillAt>>
run == <<watch, lastRun, unhealthyAt, stopped, failed>>
vars == <<clock, env, day, sight, prompts, run, teacher, used>>

Prompt == [made : Nat, expires : Nat, answer : {"none", "open", "still_here", "picked_up"}]

NoPrompt == [made |-> 0, expires |-> 0, answer |-> "none"]

Todo == {"nothing", "prompt", "pick_up", "put_back"}

NothingToDo == [s \in Students |-> "nothing"]

Watch == [step    : {"idle", "records", "session", "read", "act"},
          now     : Nat,                  \* the instant the run began
          session : {"none", "manual", "auto"},
          pending : SUBSET Students,      \* read as present and not picked up
          picked  : SUBSET Students,      \* read as picked up by the watch
          at      : [Students -> [arrived : Nat, picked : Nat]],
          todo    : [Students -> Todo]]

NoTimes == [s \in Students |-> [arrived |-> 0, picked |-> 0]]

NoRun == [step |-> "idle", now |-> 0, session |-> "none", pending |-> {}, picked |-> {},
          at |-> NoTimes, todo |-> NothingToDo]

TypeOK ==
  /\ clock \in Nat /\ unhealthyAt \in Nat /\ lastRun \in Nat /\ used \in Nat
  /\ rec \in [Students -> Records]
  /\ at \in [Students -> [arrived : Nat, picked : Nat]]
  /\ sig \in [Students -> [Kinds -> SignalRow]]
  /\ current \in [Students -> [Kinds -> BOOLEAN]]
  /\ check \in [Students -> Prompt]
  /\ stillAt \in [Students -> Nat]
  /\ session \in {"none", "manual", "auto"}
  /\ stopped \in BOOLEAN /\ alive \in BOOLEAN /\ failed \in BOOLEAN
  /\ tagged \in [Students -> BOOLEAN]
  /\ watch \in Watch
  /\ teacher \in [Students -> [step : {"idle", "mark", "update"}, now : Nat]]
  /\ heard \in [Students -> Nat] /\ taggedAt \in [Students -> Nat]
  /\ late \in [Students -> SUBSET {"mark", "sight"}] /\ said \in [Students -> BOOLEAN]
  /\ told \in [Students -> Nat] /\ returns \in [Students -> Nat]

NoRequest == [step |-> "idle", now |-> 0]

\* Every student is in, some of them tagged, shortly before the window opens.
Init ==
  /\ clock = 1 /\ lastRun = 1 /\ unhealthyAt = 1 /\ used = 0
  /\ rec = [s \in Students |-> HandMarked("present")]
  /\ at = [s \in Students |-> [arrived |-> 1, picked |-> 0]]
  /\ sig = [s \in Students |-> [k \in Kinds |-> NoSignal]]
  /\ current = [s \in Students |-> [k \in Kinds |-> FALSE]]
  /\ check = [s \in Students |-> NoPrompt]
  /\ stillAt = [s \in Students |-> 0]
  /\ session \in {"none", "manual"} /\ stopped = FALSE
  /\ alive \in BOOLEAN
  /\ tagged \in [Students -> BOOLEAN]
  /\ watch = NoRun
  /\ teacher = [s \in Students |-> NoRequest]
  /\ heard = [s \in Students |-> 1]
  /\ taggedAt = [s \in Students |-> 1]
  /\ late = [s \in Students |-> {}] /\ said = [s \in Students |-> FALSE]
  /\ told = [s \in Students |-> 0] /\ returns = [s \in Students |-> 0]
  /\ failed = FALSE

Spend(cost) == used + cost <= MaxOps /\ used' = used + cost

Count == Spend(2)

InWindow(t) == From <= t /\ t < To

\* Somebody knows that s was here at t: by a sighting, or a teacher's mark.
Hear(s, t, how) ==
  /\ heard' = [heard EXCEPT ![s] = Max({@, t})]
  /\ late' = [late EXCEPT ![s] = @ \cup {how}]

----------------------------------------------------------------------------
(* A run of the watch *)

\* The timer fires: takes down the instant and reads the active session.
WatchBegin ==
  /\ watch.step = "idle"
  /\ lastRun' = clock
  /\ watch' = [NoRun EXCEPT !.step = "records", !.now = clock, !.session = session]
  /\ UNCHANGED <<clock, env, day, sight, prompts, unhealthyAt, stopped, failed, teacher, used>>

\* Outside the window the run ends; inside it, it reads the records of present
\* students who have an enabled tag.
WatchRecords ==
  LET watched == {s \in Students : rec[s].status = "present" /\ rec[s].arrived /\ tagged[s]} IN
  /\ watch.step = "records"
  /\ watch' = IF ~InWindow(watch.now) THEN NoRun
              ELSE [watch EXCEPT
                      !.step = "session", !.at = at,
                      !.pending = {s \in watched : ~rec[s].picked},
                      !.picked = {s \in watched : rec[s].picked /\ rec[s].auto}]
  /\ late' = [s \in Students |-> {}]
  /\ UNCHANGED <<clock, env, day, sig, current, heard, prompts, lastRun, unhealthyAt, stopped, failed,
                 teacher, used>>

\* A session opens: its signal rows start from nothing.
OpenSession(kind) ==
  /\ session' = kind
  /\ current' = [s \in Students |-> [k \in Kinds |-> FALSE]]

\* With nobody left at all the run is over, else it goes on to read.
AfterSession(own) ==
  watch' = IF watch.pending \cup watch.picked = {} THEN NoRun
           ELSE [watch EXCEPT !.step = "read", !.session = own]

\* Somebody is waiting and no session runs: ensureAutoSession opens one, unless
\* one of its own has been stopped in this window.
WatchOpens ==
  /\ watch.step = "session" /\ watch.pending # {} /\ watch.session = "none"
  /\ IF stopped \/ session # "none"
     THEN /\ AfterSession(IF stopped THEN "none" ELSE session)
          /\ UNCHANGED <<session, current>>
     ELSE OpenSession("auto") /\ AfterSession("auto")
  /\ UNCHANGED <<clock, alive, tagged, taggedAt, day, sig, heard, late, prompts, lastRun,
                 unhealthyAt, stopped, failed, teacher, used>>

\* Nobody is waiting any more: a session the watch had opened is closed, if it
\* still runs.
WatchCloses ==
  /\ watch.step = "session" /\ watch.pending = {} /\ watch.session = "auto"
  /\ session' = IF session = "auto" THEN "none" ELSE session
  /\ stopped' = TRUE
  /\ AfterSession("auto")
  /\ UNCHANGED <<clock, alive, tagged, taggedAt, day, sight, prompts, lastRun, unhealthyAt,
                 failed, teacher, used>>

WatchKeepsSession ==
  /\ watch.step = "session"
  /\ IF watch.pending = {} THEN watch.session # "auto" ELSE watch.session # "none"
  /\ AfterSession(watch.session)
  /\ UNCHANGED <<clock, env, day, sight, prompts, lastRun, unhealthyAt, stopped, failed,
                 teacher, used>>

\* Mutation: the teacher's "still here" does not restart the clock.
SinceIgnoringTeacher(s) ==
  Max({sig[s]["face"].at, sig[s]["ble"].at, watch.at[s].arrived, From, unhealthyAt})

\* absentSince: when the current silence about s began.
Since(s) ==
  Max({sig[s]["face"].at, sig[s]["ble"].at, stillAt[s], watch.at[s].arrived, From,
       unhealthyAt})

\* A prompt is on the teacher's screen.
PromptOpen(s) == check[s].answer = "open" /\ check[s].expires > watch.now

\* Mutation: an unanswered prompt is waited for for ever.
OverdueUnlessPrompted(s) ==
  watch.now - Since(s) >= AbsentFor /\ check[s].answer # "open"

\* Silent for so long that nobody is asked any more.
Overdue(s) == watch.now - Since(s) >= AbsentFor

\* Mutation: one prompt a day.
PromptOnceADay(s) == check[s].answer = "none" /\ watch.now - Since(s) >= PromptEvery

\* The next prompt is due so long after the silence began, or after the last
\* prompt made in it ended.
PromptDue(s) ==
  watch.now - (IF check[s].made > Since(s) THEN check[s].expires ELSE Since(s)) >= PromptEvery

\* decidePickupAction
DecidePickupAction(s) ==
  IF PromptOpen(s) THEN "nothing"
  ELSE IF Overdue(s) THEN "pick_up"
  ELSE IF PromptDue(s) THEN "prompt"
  ELSE "nothing"

\* Mutation: one fresh signal is enough, the other may be from before the pickup.
SeenAgainByEither(s) ==
  /\ \E k \in Kinds : sig[s][k].at > watch.at[s].picked
  /\ Verified(sig[s]["face"], sig[s]["ble"], watch.now)

\* Both signals are new since the pickup, and pass the test of an arrival.
SeenAgain(s) ==
  /\ \A k \in Kinds : sig[s][k].at > watch.at[s].picked
  /\ Verified(sig[s]["face"], sig[s]["ble"], watch.now)

\* While the eyes are closed silence is not counted.  Otherwise the signals and
\* prompts are read, and everything is decided on what they say.
WatchReads ==
  /\ watch.step = "read"
  /\ IF watch.session = "none" \/ ~alive
     THEN /\ unhealthyAt' = watch.now
          /\ watch' = NoRun
     ELSE /\ UNCHANGED unhealthyAt
          /\ watch' = [watch EXCEPT
                         !.step = "act",
                         !.todo = [s \in Students |->
                                     IF s \in watch.pending THEN DecidePickupAction(s)
                                     ELSE IF s \in watch.picked /\ SeenAgain(s) THEN "put_back"
                                     ELSE "nothing"]]
  /\ late' = [s \in Students |-> late[s] \ {"sight"}]
  /\ UNCHANGED <<clock, env, day, sig, current, heard, prompts, lastRun, stopped, failed,
                 teacher, used>>

\* Mutation: the student's turn is noted with a word nobody knows.
DidOddly(s) == watch' = [watch EXCEPT !.todo[s] = "done"]

Did(s) == watch' = [watch EXCEPT !.todo[s] = "nothing"]

\* Mutation: the guard on the record is left out.
MarkPickedUpAnyway(s, now, auto) ==
  /\ rec' = [rec EXCEPT ![s] = PickedUp(@, auto)]
  /\ at' = [at EXCEPT ![s].picked = now]
  /\ told' = [told EXCEPT ![s] = @ + 1]

\* autoMarkPickedUp: one guarded statement; only who wins it tells the parents.
MarkPickedUp(s, now, auto) ==
  IF StillHere(rec[s])
  THEN /\ rec' = [rec EXCEPT ![s] = PickedUp(@, auto)]
       /\ at' = [at EXCEPT ![s].picked = now]
       /\ told' = [told EXCEPT ![s] = @ + 1]
  ELSE UNCHANGED <<rec, at, told>>

WatchPicksUp(s) ==
  /\ watch.step = "act" /\ watch.todo[s] = "pick_up"
  /\ MarkPickedUp(s, watch.now, TRUE)
  /\ Did(s)
  /\ UNCHANGED <<clock, env, said, returns, sight, prompts, lastRun, unhealthyAt, stopped,
                 failed, teacher, used>>

\* The database stamps the prompt, the run's instant says when it expires.
WatchPrompts(s) ==
  /\ watch.step = "act" /\ watch.todo[s] = "prompt"
  /\ check' = [check EXCEPT ![s] = [made |-> clock, expires |-> watch.now + PromptTTL,
                                    answer |-> "open"]]
  /\ Did(s)
  /\ UNCHANGED <<clock, env, day, sight, stillAt, lastRun, unhealthyAt, stopped, failed,
                 teacher, used>>

\* Only a pickup the watch had made is undone.
WatchPutsBack(s) ==
  /\ watch.step = "act" /\ watch.todo[s] = "put_back"
  /\ IF rec[s].picked /\ rec[s].auto
     THEN /\ rec' = [rec EXCEPT ![s] = PutBack(@)]
          /\ at' = [at EXCEPT ![s].picked = 0]
          /\ returns' = [returns EXCEPT ![s] = @ + 1]
          /\ said' = [said EXCEPT ![s] = FALSE]
     ELSE UNCHANGED <<rec, at, returns, said>>
  /\ Did(s)
  /\ UNCHANGED <<clock, env, told, sight, prompts, lastRun, unhealthyAt, stopped, failed,
                 teacher, used>>

WatchEnds ==
  /\ watch.step = "act" /\ watch.todo = NothingToDo
  /\ watch' = NoRun
  /\ UNCHANGED <<clock, env, day, sight, prompts, lastRun, unhealthyAt, stopped, failed,
                 teacher, used>>

\* A statement throws: only that student is given up, or else the whole run.
WatchFails ==
  /\ Count
  /\ failed' = TRUE
  /\ \/ watch.step \in {"records", "session", "read"} /\ watch' = NoRun
     \/ watch.step = "act" /\ \E s \in Students : watch.todo[s] # "nothing" /\ Did(s)
  /\ UNCHANGED <<clock, env, day, sight, prompts, lastRun, unhealthyAt, stopped, teacher>>

----------------------------------------------------------------------------
(* Readings and teachers *)

\* A camera or a tag reading, folded into the session's row; the arrival it may
\* verify matters only for a record marked absent since.
Reading(s, kind, good) ==
  /\ Spend(1)
  /\ MayBeRead(kind, good)
  /\ session # "none"
  /\ \E row \in MergeSignal(IF current[s][kind] THEN sig[s][kind] ELSE NoSignal, good, clock) :
       LET face == IF kind = "face" THEN row ELSE IF current[s]["face"] THEN sig[s]["face"] ELSE NoSignal
           ble == IF kind = "ble" THEN row ELSE IF current[s]["ble"] THEN sig[s]["ble"] ELSE NoSignal
       IN /\ sig' = [sig EXCEPT ![s][kind] = row]
          /\ IF Verifiable(rec[s]) /\ Verified(face, ble, clock)
             THEN /\ rec' = [rec EXCEPT ![s] = SystemMarked]
                  /\ at' = [at EXCEPT ![s] = [arrived |-> clock, picked |-> 0]]
             ELSE UNCHANGED <<rec, at>>
  /\ current' = [current EXCEPT ![s][kind] = TRUE]
  /\ Hear(s, clock, "sight")
  /\ UNCHANGED <<clock, env, said, told, returns, prompts, run, teacher>>

\* The teacher answers the prompt while it is open at the instant `now` the
\* request came in, and the answer is claimed.  "Picked up" has a second
\* statement to go.
Answer(s, answer, now) ==
  /\ Count
  /\ teacher[s].step = "idle"
  /\ check[s].answer = "open" /\ check[s].made <= now /\ now < check[s].expires
  /\ check' = [check EXCEPT ![s].answer = answer]
  /\ IF answer = "still_here"
     THEN /\ stillAt' = [stillAt EXCEPT ![s] = now]
          /\ Hear(s, now, "sight")
          /\ UNCHANGED teacher
     ELSE /\ teacher' = [teacher EXCEPT ![s] = [step |-> "mark", now |-> now]]
          /\ UNCHANGED <<stillAt, heard, late>>
  /\ UNCHANGED <<clock, env, day, sig, current, run>>

AnswerMarks(s) ==
  /\ teacher[s].step = "mark"
  /\ MarkPickedUp(s, teacher[s].now, FALSE)
  /\ said' = [said EXCEPT ![s] = rec'[s].picked]
  /\ teacher' = [teacher EXCEPT ![s] = NoRequest]
  /\ UNCHANGED <<clock, env, returns, sight, prompts, run, used>>

\* markPickedUp: reads the record, then updates it by its id alone.
Pickup(s) ==
  /\ Count
  /\ teacher[s].step = "idle"
  /\ StillHere(rec[s])
  /\ teacher' = [teacher EXCEPT ![s] = [step |-> "update", now |-> clock]]
  /\ UNCHANGED <<clock, env, day, sight, prompts, run>>

PickupWrite(s) ==
  /\ teacher[s].step = "update"
  /\ rec' = [rec EXCEPT ![s] = PickedUp(@, FALSE)]
  /\ at' = [at EXCEPT ![s].picked = teacher[s].now]
  /\ teacher' = [teacher EXCEPT ![s] = NoRequest]
  /\ UNCHANGED <<clock, env, said, told, returns, sight, prompts, run, used>>

\* A teacher sets the status of the day again: an earlier pickup is cleared.
HandMarks(s, status) ==
  /\ Count
  /\ rec' = [rec EXCEPT ![s] = HandMarked(status)]
  /\ at' = [at EXCEPT ![s] = [arrived |-> IF status = "present" THEN clock ELSE 0,
                              picked |-> 0]]
  /\ returns' = [returns EXCEPT ![s] = @ + 1]
  /\ said' = [said EXCEPT ![s] = FALSE]
  /\ IF status = "present" THEN Hear(s, clock, "mark") ELSE UNCHANGED <<heard, late>>
  /\ UNCHANGED <<clock, env, told, sig, current, prompts, run, teacher>>

----------------------------------------------------------------------------
(* The rest of the world *)

TeacherStarts ==
  /\ Count
  /\ session = "none"
  /\ OpenSession("manual")
  /\ UNCHANGED <<clock, alive, tagged, taggedAt, day, sig, heard, late, prompts, run, teacher>>

TeacherStops ==
  /\ Count
  /\ session # "none"
  /\ session' = "none"
  /\ stopped' = (stopped \/ session = "auto")
  /\ UNCHANGED <<clock, alive, tagged, taggedAt, day, sight, prompts, watch, lastRun,
                 unhealthyAt, failed, teacher>>

\* Frames come only while a session runs; anything may cut them off.
HardwareChanges ==
  /\ Count
  /\ alive \/ session # "none"
  /\ alive' = ~alive
  /\ UNCHANGED <<clock, session, tagged, taggedAt, day, sight, prompts, run, teacher>>

TagChanges(s) ==
  /\ Count
  /\ tagged' = [tagged EXCEPT ![s] = ~@]
  /\ taggedAt' = [taggedAt EXCEPT ![s] = clock]
  /\ UNCHANGED <<clock, session, alive, day, sight, prompts, run, teacher>>

\* The process dies and comes back: a restart is an outage too.
Restart ==
  /\ Count
  /\ watch' = NoRun
  /\ teacher' = [s \in Students |-> NoRequest]
  /\ unhealthyAt' = clock
  /\ alive' = FALSE
  /\ UNCHANGED <<clock, session, tagged, taggedAt, day, sight, prompts, lastRun, stopped, failed>>

Tick ==
  /\ clock < MaxClock
  /\ clock < lastRun + RunEvery
  /\ clock' = clock + 1
  /\ UNCHANGED <<env, day, sight, prompts, run, teacher, used>>

Next ==
  \/ WatchBegin \/ WatchRecords \/ WatchOpens \/ WatchCloses \/ WatchKeepsSession
  \/ WatchReads \/ WatchEnds \/ WatchFails
  \/ \E s \in Students :
       \/ WatchPicksUp(s) \/ WatchPrompts(s) \/ WatchPutsBack(s)
       \/ \E kind \in Kinds, good \in BOOLEAN : Reading(s, kind, good)
       \/ \E answer \in {"still_here", "picked_up"} :
            \E now \in {t \in 1..clock : t + Delay >= clock} : Answer(s, answer, now)
       \/ AnswerMarks(s) \/ Pickup(s) \/ PickupWrite(s)
       \/ \E status \in Statuses : HandMarks(s, status)
       \/ TagChanges(s)
  \/ TeacherStarts \/ TeacherStops \/ HardwareChanges \/ Restart
  \/ Tick

Spec == Init /\ [][Next]_vars

----------------------------------------------------------------------------
(* Properties *)

\* Silence is weak evidence, so the watch marks a student picked up only after
\* AbsentFor without any sighting, "still here" or arrival, within the window
\* and with the hardware never seen down in that time.  The exception is news
\* that came after the run had read of its kind: the write cannot know of it.
PickupNeedsSilence ==
  [][\A s \in Students :
       ~rec[s].auto /\ rec'[s].auto =>
         /\ \/ late[s] # {}
            \/ heard[s] + AbsentFor <= watch.now
         /\ From + AbsentFor <= watch.now
         /\ unhealthyAt + AbsentFor <= watch.now]_vars

\* The teacher is asked before a student is marked: the automatic pickup comes
\* with a prompt made since the silence began (the header of pickupWatch).  A
\* student tagged a moment ago is marked unasked, and so is one whose prompt
\* could not be stored.
TeacherAskedFirst ==
  [][\A s \in Students :
       ~rec[s].auto /\ rec'[s].auto =>
         \/ check[s].answer # "none" /\ check[s].made > Since(s)
         \/ late[s] # {}
         \/ watch.now < taggedAt[s] + AbsentFor
         \/ failed]_vars

\* The watch puts s back in this step.
UndoStep(s) ==
  /\ watch.todo[s] = "put_back" /\ watch'.todo[s] = "nothing"
  /\ rec[s].picked /\ ~rec'[s].picked

\* A pickup is undone only for a student both signals have seen since.
UndoneOnlyWhenSeen ==
  [][\A s \in Students :
       UndoStep(s) => \A k \in Kinds : sig[s][k].at > at[s].picked]_vars

\* When the silence that the watch would count at this moment began.
SilentFrom(s) ==
  Max({sig[s]["face"].at, sig[s]["ble"].at, stillAt[s], at[s].arrived, From,
       unhealthyAt, taggedAt[s]})

\* Nobody is forgotten: while the window is open and the hardware works, a
\* silent student with a tag is marked within AbsentFor, the time a prompt may
\* stay open and two runs (less one instant: the last prompt is made before the
\* silence is AbsentFor old), whatever prompts, stops, starts and restarts came in
\* between.  Only a failing statement of the watch may delay it further.
SilentStudentsPickedUp ==
  \A s \in Students :
    InWindow(clock) /\ StillHere(rec[s]) /\ tagged[s] /\ ~failed
      => clock + 1 < SilentFrom(s) + AbsentFor + PromptTTL + 2 * RunEvery

\* The watch and the prompts between them tell the parents of a pickup once,
\* and once more for every time the student came back: an answer that races
\* the watch is not announced twice (autoMarkPickedUp: "only one caller wins").
PickupAnnouncedOnce == \A s \in Students : told[s] <= 1 + returns[s]

Contract == INSTANCE DayContract

\* Every write the watch and the teachers make is one the contract of the day's
\* records allows, in particular: the watch marks only who is still here, and
\* undoes only its own pickups.
KeepsContract == [][Contract!Next]_rec

\* "Manual pickups are never undone" (docs/SMART_ATTENDANCE.md): a teacher who
\* answered a prompt with "picked up", and was told so was recorded, is not
\* overruled by the watch.
ManualPickupStands == [][\A s \in Students : ~(said[s] /\ UndoStep(s))]_vars

=============================================================================
